-------------------------- MODULE SPSCImplementsFifo -------------------------
(***************************************************************************)
(* The ring of SPSCQueue, release/acquire and stale loads included, is a   *)
(* BoundedFifo: a push takes effect when tail_ is stored, a pop when head_ *)
(* is.  What a thread has not seen is what its cached index lags behind.   *)
(***************************************************************************)
EXTENDS SPSCQueue

B == INSTANCE BoundedFifo

(* The values from head to tail, with the lag of the two caches.            *)
fifo ==
    [capacity |-> Capacity,
     items    |-> [i \in 1 .. tail - head |-> pushed[head + i]],
     hidden   |-> tail - tail_cache,
     unseen   |-> head - head_cache]

FifoInit == fifo = B!NewRing(Capacity)

(* A step of the ring is one of the FIFO: a push by a producer that knows   *)
(* of a free place, a pop of items the consumer knows of, of one batch at   *)
(* most, or a look at the other's index by a thread whose cache says full   *)
(* or empty.                                                                *)
FifoNext ==
    \/ \E v \in Values : ~B!SaysFull(fifo) /\ fifo' = B!WithItem(fifo, v)
    \/ \E max_items \in BatchSizes :
          ~B!SaysEmpty(fifo) /\ fifo' = B!WithoutItems(fifo, B!Batch(fifo, max_items))
    \/ B!SaysFull(fifo) /\ fifo' \in B!ProducerSees(fifo)
    \/ B!SaysEmpty(fifo) /\ fifo' \in B!ConsumerSees(fifo)

(* SPSCQueue is "single-producer single-consumer" with FIFO order, bounded  *)
(* capacity, and caches that only lag: all that its users rely on.          *)
ImplementsFifo == FifoInit /\ [][FifoNext]_fifo
=============================================================================
