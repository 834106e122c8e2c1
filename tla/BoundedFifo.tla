----------------------------- MODULE BoundedFifo -----------------------------
(***************************************************************************)
(* What SPSCQueue promises the two threads that use it: a bounded FIFO     *)
(* whose two ends may lag behind each other.  A ring is a value with the   *)
(* items it holds, how many of the newest of them the consumer has not yet *)
(* seen (hidden), and how many free places the producer has not yet seen   *)
(* (unseen): the staleness of tail_cache_ and head_cache_.  A thread looks *)
(* at the other's index only when what it knows says full or empty, and    *)
(* may then learn any part of the truth.                                   *)
(*                                                                         *)
(* Each operator returns the rings, or the results, one call may lead to;  *)
(* the empty set when the call cannot end that way.  SPSCImplementsFifo    *)
(* checks that the ring with its memory model does nothing else.           *)
(***************************************************************************)
EXTENDS Integers, Sequences

NewRing(capacity) ==
    [capacity |-> capacity, items |-> <<>>, hidden |-> 0, unseen |-> 0]

SaysFull(ring) == Len(ring.items) + ring.unseen = ring.capacity

Visible(ring) == Len(ring.items) - ring.hidden

SaysEmpty(ring) == Visible(ring) = 0

(* What the thread knows when it decides.                                   *)
ProducerSees(ring) == {[ring EXCEPT !.unseen = u] : u \in 0 .. ring.unseen}

ConsumerSees(ring) == {[ring EXCEPT !.hidden = h] : h \in 0 .. ring.hidden}

PushViews(ring) == IF SaysFull(ring) THEN ProducerSees(ring) ELSE {ring}

PopViews(ring) == IF SaysEmpty(ring) THEN ConsumerSees(ring) ELSE {ring}

-----------------------------------------------------------------------------
WithItem(ring, v) == [ring EXCEPT !.items = Append(@, v), !.hidden = @ + 1]

WithoutItems(ring, n) ==
    [ring EXCEPT !.items = SubSeq(@, n + 1, Len(@)), !.unseen = @ + n]

(* A plausible bug: the push goes ahead when the ring is still full.        *)
PushesUnchecked(ring, v) == {WithItem(view, v) : view \in PushViews(ring)}

(* try_push that succeeds, and one that returns false.                      *)
Pushes(ring, v) ==
    {WithItem(view, v) : view \in {r \in PushViews(ring) : ~SaysFull(r)}}

FullPushes(ring) == {r \in PushViews(ring) : SaysFull(r)}

Batch(ring, max_items) == IF Visible(ring) < max_items THEN Visible(ring) ELSE max_items

(* try_pop_batch: what it hands out and the ring after, and the empty pop.  *)
Pops(ring, max_items) ==
    {[got  |-> SubSeq(view.items, 1, Batch(view, max_items)),
      ring |-> WithoutItems(view, Batch(view, max_items))] :
        view \in {r \in PopViews(ring) : ~SaysEmpty(r)}}

EmptyPops(ring) == {r \in PopViews(ring) : SaysEmpty(r)}

(* The consumer has acquired a store the producer made after its last push: *)
(* every push happens before whatever the consumer does next.               *)
Synchronized(ring) == [ring EXCEPT !.hidden = 0]
=============================================================================
