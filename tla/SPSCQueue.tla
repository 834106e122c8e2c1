------------------------------ MODULE SPSCQueue -----------------------------
(***************************************************************************)
(* include/lob/spsc_queue.h: the lock-free ring between one producer and   *)
(* one consumer thread, under the release/acquire rules its comments rely  *)
(* on.                                                                     *)
(*                                                                         *)
(* An atomic index is the set of its stores that the other thread may      *)
(* still read (heads, tails): a load returns any of them, not only the     *)
(* newest, and never goes back behind a store it has read.  A store is a   *)
(* message with the stored value and a view, the number of slot accesses   *)
(* its thread had made before the store: an acquire load that reads it     *)
(* adds that view to what is known to happen before the loading thread     *)
(* (reads_seen, writes_seen).  A slot is plain memory, so an access is     *)
(* race-free only when the other thread's last access to that slot is in   *)
(* the view.                                                               *)
(*                                                                         *)
(* Indices are unbounded integers: the code counts on never reaching 2^64. *)
(***************************************************************************)
EXTENDS Integers, Sequences, FiniteSets

CONSTANTS Capacity,        \* slots_.size(), a power of two in the code
          Values,          \* the cargo
          BatchSizes,      \* max_items of the pops; try_pop is a batch of 1
          MaxPushes        \* bound on the pushes of a behaviour

ASSUME CapacityAssumption == Capacity \in Nat \ {0}
ASSUME BatchAssumption == BatchSizes \subseteq Nat \ {0}
ASSUME BoundAssumption == MaxPushes \in Nat

VARIABLES slots,           \* slots_, at index & mask_
          tail,            \* the producer's own value of tail_
          head_cache,      \* head_cache_
          high_water,      \* high_water_
          item,            \* the argument of the push under way
          ppc,             \* where the producer is in try_push
          heads,           \* stores of head_ the producer may still read
          reads_seen,      \* slot reads that happen before the producer's next step
          head,            \* the consumer's own value of head_
          tail_cache,      \* tail_cache_
          want,            \* n of the pop under way
          got,             \* slots it has read so far
          tails,           \* stores of tail_ the consumer may still read
          writes_seen,     \* slot writes that happen before the consumer's next step
          pushed,          \* history: the values written, in order
          popped           \* history: the values read, in order

producerVars == <<tail, head_cache, high_water, item, ppc, heads, reads_seen>>
consumerVars == <<head, tail_cache, want, got, tails, writes_seen>>
vars == <<slots, producerVars, consumerVars, pushed, popped>>

Store(value, view) == [value |-> value, view |-> view]

(* The larger of two counts: how views join.                                *)
Join(a, b) == IF a < b THEN b ELSE a

Init ==
    /\ slots \in [0 .. Capacity - 1 -> Values]
    /\ tail = 0 /\ head_cache = 0 /\ high_water = 0
    /\ item \in Values
    /\ ppc = "idle"
    /\ heads = {Store(0, 0)}
    /\ reads_seen = 0
    /\ head = 0 /\ tail_cache = 0
    /\ want = 0 /\ got = 0
    /\ tails = {Store(0, 0)}
    /\ writes_seen = 0
    /\ pushed = <<>> /\ popped = <<>>

-----------------------------------------------------------------------------
(* try_push                                                                 *)

CacheSaysFull == tail - head_cache = Capacity

(* The cache proves there is room.                                          *)
PushCached(v) ==
    /\ ppc = "idle" /\ Len(pushed) < MaxPushes
    /\ ~CacheSaysFull
    /\ item' = v
    /\ ppc' = "write"
    /\ UNCHANGED <<slots, tail, head_cache, high_water, heads, reads_seen, consumerVars,
                   pushed, popped>>

(* The cache says full: acquire head_, then check again.                    *)
PushRefresh(v, store) ==
    /\ ppc = "idle" /\ Len(pushed) < MaxPushes
    /\ CacheSaysFull
    /\ head_cache' = store.value
    /\ reads_seen' = Join(reads_seen, store.view)
    /\ heads' = {s \in heads : s.value >= store.value}
    /\ IF tail - store.value = Capacity
       THEN /\ high_water' = Join(high_water, Capacity)
            /\ UNCHANGED <<item, ppc>>
       ELSE /\ item' = v
            /\ ppc' = "write"
            /\ UNCHANGED high_water
    /\ UNCHANGED <<slots, tail, consumerVars, pushed, popped>>

(* A plausible bug: the mark counts the items before the push.              *)
WriteSlotMarkedEarly ==
    /\ ppc = "write"
    /\ slots' = [slots EXCEPT ![tail % Capacity] = item]
    /\ high_water' = Join(high_water, tail - head_cache)
    /\ pushed' = Append(pushed, item)
    /\ ppc' = "publish"
    /\ UNCHANGED <<tail, head_cache, item, heads, reads_seen, consumerVars, popped>>

WriteSlot ==
    /\ ppc = "write"
    /\ slots' = [slots EXCEPT ![tail % Capacity] = item]
    /\ high_water' = Join(high_water, tail + 1 - head_cache)
    /\ pushed' = Append(pushed, item)
    /\ ppc' = "publish"
    /\ UNCHANGED <<tail, head_cache, item, heads, reads_seen, consumerVars, popped>>

(* A plausible bug: tail_ is stored relaxed, without the writes before it.  *)
PublishTailRelaxed ==
    /\ ppc = "publish"
    /\ tail' = tail + 1
    /\ tails' = tails \union {Store(tail + 1, 0)}
    /\ ppc' = "idle"
    /\ UNCHANGED <<slots, head_cache, high_water, item, heads, reads_seen,
                   head, tail_cache, want, got, writes_seen, pushed, popped>>

(* The release store of tail_: its view is every slot write so far.         *)
PublishTail ==
    /\ ppc = "publish"
    /\ tail' = tail + 1
    /\ tails' = tails \union {Store(tail + 1, Len(pushed))}
    /\ ppc' = "idle"
    /\ UNCHANGED <<slots, head_cache, high_water, item, heads, reads_seen,
                   head, tail_cache, want, got, writes_seen, pushed, popped>>

Producer ==
    \/ \E v \in Values : PushCached(v) \/ \E store \in heads : PushRefresh(v, store)
    \/ WriteSlot
    \/ PublishTail

-----------------------------------------------------------------------------
(* try_pop and try_pop_batch                                                *)

Popping == want > 0

(* Plausible bugs: a batch one short of what there is, none short of an     *)
(* empty ring, and one as long as the caller asked for.                     *)
BatchShort(available, max_items) == available - 1

BatchUnlessLast(available, max_items) ==
    IF available = 0 THEN 0 ELSE IF available <= max_items THEN available - 1 ELSE max_items

BatchAsAsked(available, max_items) == max_items

BatchOf(available, max_items) == IF available < max_items THEN available ELSE max_items

(* The cache proves there is something to read.                             *)
PopCached(max_items) ==
    /\ ~Popping
    /\ tail_cache # head
    /\ want' = BatchOf(tail_cache - head, max_items)
    /\ UNCHANGED <<slots, producerVars, head, tail_cache, got, tails, writes_seen,
                   pushed, popped>>

(* The cache says empty: acquire tail_, then check again.                   *)
PopRefresh(max_items, store) ==
    /\ ~Popping
    /\ tail_cache = head
    /\ tail_cache' = store.value
    /\ writes_seen' = Join(writes_seen, store.view)
    /\ tails' = {s \in tails : s.value >= store.value}
    /\ want' = BatchOf(store.value - head, max_items)
    /\ UNCHANGED <<slots, producerVars, head, got, pushed, popped>>

(* A plausible bug: every item of a batch is read from the same slot.       *)
ReadSlotAtHead ==
    /\ Popping /\ got < want
    /\ popped' = Append(popped, slots[head % Capacity])
    /\ got' = got + 1
    /\ UNCHANGED <<slots, producerVars, head, tail_cache, want, tails, writes_seen, pushed>>

ReadSlot ==
    /\ Popping /\ got < want
    /\ popped' = Append(popped, slots[(head + got) % Capacity])
    /\ got' = got + 1
    /\ UNCHANGED <<slots, producerVars, head, tail_cache, want, tails, writes_seen, pushed>>

(* The one release store of head_ for the batch: its view is every read.    *)
PublishHead ==
    /\ Popping /\ got = want
    /\ head' = head + want
    /\ heads' = heads \union {Store(head + want, Len(popped))}
    /\ want' = 0 /\ got' = 0
    /\ UNCHANGED <<slots, tail, head_cache, high_water, item, ppc, reads_seen,
                   tail_cache, tails, writes_seen, pushed, popped>>

StartPop ==
    \E max_items \in BatchSizes :
        PopCached(max_items) \/ \E store \in tails : PopRefresh(max_items, store)

Consumer == StartPop \/ ReadSlot \/ PublishHead

Next == Producer \/ Consumer

(* The newest store of tail_, the one an eventual load must return.         *)
NewestTail == Store(tail, tail)

(* The consumer keeps popping, as both consumers of the program do until    *)
(* they are stopped, and a store becomes visible to it in finite time.      *)
Fairness ==
    /\ WF_vars(PublishTail) /\ WF_vars(Consumer)
    /\ WF_vars(\E max_items \in BatchSizes :
                  NewestTail \in tails /\ PopRefresh(max_items, NewestTail))

Spec == Init /\ [][Next]_vars /\ Fairness

-----------------------------------------------------------------------------
Stores == [value : Nat, view : Nat]

(* The variables have their types.                                          *)
TypeOK ==
    /\ slots \in [0 .. Capacity - 1 -> Values]
    /\ tail \in Nat /\ head_cache \in Nat /\ high_water \in Nat /\ reads_seen \in Nat
    /\ head \in Nat /\ tail_cache \in Nat /\ writes_seen \in Nat
    /\ want \in Nat /\ got \in Nat
    /\ item \in Values
    /\ ppc \in {"idle", "write", "publish"}
    /\ heads \subseteq Stores /\ tails \subseteq Stores
    /\ pushed \in Seq(Values) /\ popped \in Seq(Values)

(* No slot access races with the other thread's last access to the slot:    *)
(* the producer overwrites index tail only after the read of tail - Capacity*)
(* happened before it, the consumer reads an index only after its write did.*)
NoDataRace ==
    /\ ppc = "write" => tail < reads_seen + Capacity
    /\ Popping /\ got < want => head + got < writes_seen

(* What comes out is what went in, in order: nothing is lost, duplicated,   *)
(* reordered or overwritten before it is read.                              *)
Fifo ==
    /\ Len(popped) <= Len(pushed)
    /\ \A i \in 1 .. Len(popped) : popped[i] = pushed[i]

(* A stale cache only ever under-reports what the thread may use: free      *)
(* space for the producer, items for the consumer.                          *)
CachesAreSafe ==
    /\ head_cache <= head /\ tail - head_cache <= Capacity
    /\ tail_cache <= tail /\ head <= tail_cache

(* The high-water mark bounds the peak: it is never below an occupancy      *)
(* reached before, though the producer only sees a stale head_, and never   *)
(* above the capacity.                                                      *)
OccupancyIsMarked ==
    /\ tail - head <= high_water
    /\ high_water <= Capacity

HighWaterBoundsPeak == [][OccupancyIsMarked' /\ high_water' >= high_water]_vars

(* Every value pushed is popped in the end.                                 *)
EveryPushIsPopped ==
    \A n \in 1 .. MaxPushes : Len(pushed) >= n ~> Len(popped) >= n
=============================================================================
