--------------------------- MODULE SPSCQueueProofs --------------------------
(***************************************************************************)
(* The ring is correct for every capacity, every batch size and every      *)
(* behaviour of stale loads.  The inductive invariant IInv says that a     *)
(* store's view equals its value, so that a thread knows of exactly the    *)
(* accesses its cached index stands for, and that the slots from head to   *)
(* the last write hold the values pushed there.  From it, every step of    *)
(* the ring is a step of the BoundedFifo that Pipeline builds on, or none. *)
(***************************************************************************)
EXTENDS SPSCImplementsFifo, TLAPS

USE CapacityAssumption, BatchAssumption, BoundAssumption

(* Where the indices, caches and counters of the two threads stand.         *)
IndexInv ==
    /\ head_cache <= head /\ head <= tail_cache /\ tail_cache <= tail
    /\ tail - head_cache <= Capacity
    /\ ppc # "idle" => tail - head_cache < Capacity
    /\ got <= want /\ want <= tail_cache - head
    /\ reads_seen = head_cache /\ writes_seen = tail_cache

(* The stores a thread may still load stand between its cache and the       *)
(* newest one, and carry the view they were released with.                  *)
StoresInv ==
    /\ \A s \in heads : s.view = s.value /\ head_cache <= s.value /\ s.value <= head
    /\ \A s \in tails : s.view = s.value /\ tail_cache <= s.value /\ s.value <= tail

(* The histories and the ring.                                              *)
ContentInv ==
    /\ Len(pushed) = IF ppc = "publish" THEN tail + 1 ELSE tail
    /\ Len(popped) = head + got
    /\ \A i \in Nat : head <= i /\ i < Len(pushed) => slots[i % Capacity] = pushed[i + 1]
    /\ \A i \in 1 .. Len(popped) : popped[i] = pushed[i]

(* The mark covers the occupancy the push under way will publish.           *)
MarkInv ==
    /\ tail - head <= high_water
    /\ ppc = "publish" => tail + 1 - head <= high_water
    /\ high_water <= Capacity

IInv == TypeOK /\ IndexInv /\ StoresInv /\ ContentInv /\ MarkInv

(* Two indices less than a capacity apart use different slots.              *)
LEMMA SlotsDiffer ==
    ASSUME NEW c \in Nat \ {0}, NEW i \in Nat, NEW j \in Nat, i < j, j - i < c
    PROVE  i % c # j % c
<1> SUFFICES ASSUME i % c = j % c PROVE FALSE
  OBVIOUS
<1>1. PICK p \in Int, q \in Int : i = c * p + (i % c) /\ j = c * q + (j % c)
  <2>1. i \div c \in Int /\ i = c * (i \div c) + (i % c)
    OBVIOUS
  <2>2. j \div c \in Int /\ j = c * (j \div c) + (j % c)
    OBVIOUS
  <2> QED
    BY <2>1, <2>2, Zenon
<1>2. j - i = c * q - c * p
  BY <1>1
<1>3. c * (q - p) = c * q - c * p
  BY <1>1
<1>4. CASE q - p <= 0
  <2>1. c * (q - p) <= 0
    BY <1>4
  <2> QED
    BY <2>1, <1>2, <1>3
<1>5. CASE q - p >= 1
  <2>1. c * (q - p) >= c
    BY <1>5
  <2> QED
    BY <2>1, <1>2, <1>3
<1> QED
  BY <1>4, <1>5

LEMMA SlotInRange == \A i \in Nat : i % Capacity \in 0 .. Capacity - 1
OBVIOUS

-----------------------------------------------------------------------------
(* What the invariant says of a state.                                      *)
LEMMA InvImpliesSafety ==
    IInv => NoDataRace /\ Fifo /\ CachesAreSafe /\ OccupancyIsMarked
BY DEF IInv, TypeOK, IndexInv, ContentInv, MarkInv,
       NoDataRace, Fifo, CachesAreSafe, OccupancyIsMarked, Popping

LEMMA InitEstablishes == Init => IInv
<1> SUFFICES ASSUME Init PROVE IInv
  OBVIOUS
<1>1. TypeOK
  BY DEF Init, TypeOK, Stores, Store
<1>2. IndexInv /\ MarkInv
  BY DEF Init, IndexInv, MarkInv
<1>3. StoresInv
  BY DEF Init, StoresInv, Store
<1>4. ContentInv
  BY DEF Init, ContentInv
<1> QED
  BY <1>1, <1>2, <1>3, <1>4 DEF IInv

LEMMA PushCachedPreserves ==
    ASSUME IInv, NEW v \in Values, PushCached(v)
    PROVE  IInv'
<1> USE DEF IInv, PushCached, CacheSaysFull, consumerVars
<1>1. TypeOK'
  BY DEF TypeOK
<1>2. IndexInv' /\ MarkInv'
  BY DEF TypeOK, IndexInv, MarkInv
<1>3. StoresInv'
  BY DEF StoresInv
<1>4. ContentInv'
  BY DEF ContentInv
<1> QED
  BY <1>1, <1>2, <1>3, <1>4

LEMMA PushRefreshPreserves ==
    ASSUME IInv, NEW v \in Values, NEW store \in heads, PushRefresh(v, store)
    PROVE  IInv'
<1> USE DEF IInv, PushRefresh, CacheSaysFull, consumerVars
<1>0. /\ store.value \in Nat /\ store.view = store.value
      /\ head_cache <= store.value /\ store.value <= head
  BY DEF TypeOK, Stores, StoresInv
<1>1. TypeOK'
  BY <1>0 DEF TypeOK, Join
<1>2. IndexInv'
  BY <1>0 DEF TypeOK, IndexInv, Join
<1>3. MarkInv'
  BY <1>0 DEF TypeOK, IndexInv, MarkInv, Join
<1>4. StoresInv'
  BY <1>0 DEF StoresInv
<1>5. ContentInv'
  BY DEF ContentInv
<1> QED
  BY <1>1, <1>2, <1>3, <1>4, <1>5

LEMMA WriteSlotPreserves ==
    ASSUME IInv, WriteSlot
    PROVE  IInv'
<1> USE DEF IInv, WriteSlot, consumerVars
<1>0. tail \in Nat /\ tail % Capacity \in 0 .. Capacity - 1 /\ Len(pushed) = tail
  BY SlotInRange DEF TypeOK, ContentInv
<1>1. TypeOK'
  BY <1>0 DEF TypeOK, Join, IndexInv
<1>2. IndexInv'
  BY DEF IndexInv
<1>3. MarkInv'
  BY DEF TypeOK, IndexInv, MarkInv, Join
<1>4. StoresInv'
  BY DEF StoresInv
<1>5. ContentInv'
  <2>1. /\ Len(pushed') = tail + 1
        /\ pushed'[tail + 1] = item
        /\ \A k \in 1 .. tail : pushed'[k] = pushed[k]
    BY <1>0, SMTT(40) DEF TypeOK
  <2>2. ASSUME NEW i \in Nat, head <= i, i < tail + 1
        PROVE  slots'[i % Capacity] = pushed'[i + 1]
    <3>1. CASE i = tail
      BY <3>1, <1>0, <2>1 DEF TypeOK
    <3>2. CASE i # tail
      <4>1. i < tail /\ tail - i < Capacity
        BY <2>2, <3>2, <1>0 DEF TypeOK, IndexInv
      <4>2. i % Capacity # tail % Capacity /\ i % Capacity \in 0 .. Capacity - 1
        BY <4>1, <1>0, SlotsDiffer, SlotInRange
      <4>3. slots'[i % Capacity] = slots[i % Capacity]
        BY <4>2 DEF TypeOK
      <4>4. slots[i % Capacity] = pushed[i + 1]
        BY <2>2, <4>1, <1>0 DEF ContentInv
      <4>5. i + 1 \in 1 .. tail
        BY <4>1, <1>0
      <4> QED
        BY <4>3, <4>4, <4>5, <2>1
    <3> QED
      BY <3>1, <3>2
  <2>3. Len(popped) <= tail
    BY <1>0 DEF TypeOK, IndexInv, ContentInv
  <2>4. \A i \in 1 .. Len(popped) : popped'[i] = pushed'[i]
    BY <1>0, <2>1, <2>3 DEF TypeOK, ContentInv
  <2> QED
    BY <2>1, <2>2, <2>4 DEF ContentInv
<1> QED
  BY <1>1, <1>2, <1>3, <1>4, <1>5

LEMMA PublishTailPreserves ==
    ASSUME IInv, PublishTail
    PROVE  IInv'
<1> USE DEF IInv, PublishTail
<1>0. Len(pushed) = tail + 1 /\ tail \in Nat
  BY DEF TypeOK, ContentInv
<1>1. TypeOK'
  BY <1>0 DEF TypeOK, Stores, Store
<1>2. IndexInv' /\ MarkInv'
  BY DEF TypeOK, IndexInv, MarkInv
<1>3. StoresInv'
  BY <1>0 DEF TypeOK, StoresInv, IndexInv, Store, Stores
<1>4. ContentInv'
  BY <1>0 DEF ContentInv
<1> QED
  BY <1>1, <1>2, <1>3, <1>4

LEMMA PopCachedPreserves ==
    ASSUME IInv, NEW m \in BatchSizes, PopCached(m)
    PROVE  IInv'
<1> USE DEF IInv, PopCached, producerVars
<1>1. TypeOK'
  BY DEF TypeOK, BatchOf, IndexInv
<1>2. IndexInv' /\ MarkInv'
  BY DEF TypeOK, IndexInv, MarkInv, BatchOf, Popping
<1>3. StoresInv'
  BY DEF StoresInv
<1>4. ContentInv'
  BY DEF ContentInv
<1> QED
  BY <1>1, <1>2, <1>3, <1>4

LEMMA PopRefreshPreserves ==
    ASSUME IInv, NEW m \in BatchSizes, NEW store \in tails, PopRefresh(m, store)
    PROVE  IInv'
<1> USE DEF IInv, PopRefresh, producerVars
<1>0. /\ store.value \in Nat /\ store.view = store.value
      /\ tail_cache <= store.value /\ store.value <= tail
  BY DEF TypeOK, Stores, StoresInv
<1>1. TypeOK'
  BY <1>0 DEF TypeOK, BatchOf, IndexInv, Join
<1>2. IndexInv' /\ MarkInv'
  BY <1>0 DEF TypeOK, IndexInv, MarkInv, BatchOf, Popping, Join
<1>3. StoresInv'
  BY <1>0 DEF StoresInv
<1>4. ContentInv'
  BY DEF ContentInv
<1> QED
  BY <1>1, <1>2, <1>3, <1>4

LEMMA ReadSlotPreserves ==
    ASSUME IInv, ReadSlot
    PROVE  IInv'
<1> USE DEF IInv, ReadSlot, producerVars
<1>0. /\ head + got \in Nat /\ head + got < tail /\ tail <= Len(pushed)
      /\ Len(popped) = head + got
      /\ (head + got) % Capacity \in 0 .. Capacity - 1
  BY SlotInRange DEF TypeOK, IndexInv, ContentInv
<1>1. slots[(head + got) % Capacity] = pushed[head + got + 1]
  <2>1. PICK r \in Nat : r = head + got
    BY <1>0
  <2>2. head <= r /\ r < Len(pushed)
    BY <1>0, <2>1 DEF TypeOK, ContentInv
  <2>3. slots[r % Capacity] = pushed[r + 1]
    BY <2>2, Zenon DEF ContentInv
  <2> QED
    BY <2>1, <2>3
<1>2. TypeOK'
  BY <1>0 DEF TypeOK
<1>3. IndexInv' /\ MarkInv'
  BY DEF TypeOK, IndexInv, MarkInv
<1>4. StoresInv'
  BY DEF StoresInv
<1>5. ContentInv'
  <2>1. /\ Len(popped') = head + got + 1
        /\ popped'[head + got + 1] = pushed[head + got + 1]
        /\ \A k \in 1 .. head + got : popped'[k] = popped[k]
    BY <1>0, <1>1 DEF TypeOK
  <2>2. \A i \in 1 .. Len(popped') : popped'[i] = pushed'[i]
    BY <1>0, <2>1 DEF ContentInv
  <2>3. Len(popped') = head' + got'
    BY <2>1 DEF TypeOK
  <2> QED
    BY <2>2, <2>3 DEF ContentInv
<1> QED
  BY <1>2, <1>3, <1>4, <1>5

LEMMA PublishHeadPreserves ==
    ASSUME IInv, PublishHead
    PROVE  IInv'
<1> USE DEF IInv, PublishHead
<1>0. Len(popped) = head + want /\ head \in Nat /\ want \in Nat
  BY DEF TypeOK, ContentInv
<1>1. TypeOK'
  BY <1>0 DEF TypeOK, Stores, Store
<1>2. IndexInv' /\ MarkInv'
  BY <1>0 DEF TypeOK, IndexInv, MarkInv
<1>3. StoresInv'
  BY <1>0 DEF TypeOK, StoresInv, IndexInv, Store, Stores
<1>4. ContentInv'
  <2>1. head' \in Nat /\ head <= head' /\ Len(popped') = head' + got'
    BY <1>0
  <2>2. \A i \in Nat : head' <= i /\ i < Len(pushed') => slots'[i % Capacity] = pushed'[i + 1]
    <3>1. \A i \in Nat : head' <= i => head <= i
      BY <1>0
    <3> QED
      BY <3>1 DEF ContentInv
  <2>3. Len(pushed') = IF ppc' = "publish" THEN tail' + 1 ELSE tail'
    BY DEF ContentInv
  <2> QED
    BY <2>1, <2>2, <2>3 DEF ContentInv
<1> QED
  BY <1>1, <1>2, <1>3, <1>4

LEMMA StutterPreserves ==
    ASSUME IInv, UNCHANGED vars
    PROVE  IInv'
BY DEF vars, producerVars, consumerVars, IInv, TypeOK, IndexInv, StoresInv, ContentInv, MarkInv

LEMMA Invariance == Spec => []IInv
<1>1. IInv /\ [Next]_vars => IInv'
  BY PushCachedPreserves, PushRefreshPreserves, WriteSlotPreserves, PublishTailPreserves,
     PopCachedPreserves, PopRefreshPreserves, ReadSlotPreserves, PublishHeadPreserves,
     StutterPreserves
  DEF Next, Producer, Consumer, StartPop
<1> QED
  BY <1>1, InitEstablishes, PTL DEF Spec

-----------------------------------------------------------------------------
(* The ring has its types in every behaviour.                               *)
THEOREM RingIsTyped == Spec => []TypeOK
<1>1. IInv => TypeOK
  BY DEF IInv
<1> QED
  BY <1>1, Invariance, PTL

(* No slot access of one thread races with the other's: the acquire loads   *)
(* and release stores of spsc_queue.h order them all.                       *)
THEOREM RingIsRaceFree == Spec => []NoDataRace
BY Invariance, InvImpliesSafety, PTL

(* The consumer reads exactly the producer's values, in order.              *)
THEOREM RingIsFifo == Spec => []Fifo
BY Invariance, InvImpliesSafety, PTL

(* "Stale only ever under-reports, never over-reports" (spsc_queue.h:162).  *)
THEOREM RingCachesAreSafe == Spec => []CachesAreSafe
BY Invariance, InvImpliesSafety, PTL

(* The mark never falls and bounds the occupancy, hence its peak.           *)
THEOREM RingHighWater == Spec => HighWaterBoundsPeak
<1>1. IInv /\ [Next]_vars => [high_water' >= high_water]_vars
  <2> SUFFICES ASSUME IInv, Next PROVE high_water' >= high_water
    BY DEF vars
  <2>1. high_water \in Nat /\ Capacity \in Nat
        /\ tail \in Nat /\ head_cache \in Nat
    BY DEF IInv, TypeOK
  <2>2. CASE Producer
    BY <2>1, <2>2 DEF Producer, PushCached, PushRefresh, WriteSlot, PublishTail, Join
  <2>3. CASE Consumer
    BY <2>1, <2>3 DEF Consumer, StartPop, PopCached, PopRefresh, ReadSlot, PublishHead,
                      producerVars
  <2> QED
    BY <2>2, <2>3 DEF Next
<1>2. OccupancyIsMarked' /\ [high_water' >= high_water]_vars
        => [OccupancyIsMarked' /\ high_water' >= high_water]_vars
  OBVIOUS
<1> QED
  BY <1>1, <1>2, Invariance, InvImpliesSafety, PTL DEF HighWaterBoundsPeak, Spec
-----------------------------------------------------------------------------
(* The refinement.  The fifo's record is a function of the two ends, the    *)
(* two caches and the history.                                              *)
LEMMA FifoShape ==
    ASSUME IInv
    PROVE  /\ fifo.capacity = Capacity
           /\ fifo.items \in Seq(Values) /\ Len(fifo.items) = tail - head
           /\ \A k \in 1 .. tail - head : fifo.items[k] = pushed[head + k]
           /\ fifo.hidden = tail - tail_cache /\ fifo.unseen = head - head_cache
<1>1. /\ tail - head \in Nat /\ head \in Nat /\ tail \in Nat /\ tail <= Len(pushed)
      /\ pushed \in Seq(Values)
  BY DEF IInv, TypeOK, IndexInv, ContentInv
<1>2. \A k \in 1 .. tail - head : head + k \in 1 .. Len(pushed)
  BY <1>1
<1>3. [k \in 1 .. tail - head |-> pushed[head + k]] \in Seq(Values)
  BY <1>1, <1>2
<1> QED
  BY <1>1, <1>3 DEF fifo

(* The updates of a ring, field by field.                                   *)
Ring(c, items, h, u) == [capacity |-> c, items |-> items, hidden |-> h, unseen |-> u]

LEMMA HiddenUpdated ==
    ASSUME NEW c, NEW items, NEW h, NEW u, NEW b
    PROVE  [Ring(c, items, h, u) EXCEPT !.hidden = b] = Ring(c, items, b, u)
BY DEF Ring

LEMMA UnseenUpdated ==
    ASSUME NEW c, NEW items, NEW h, NEW u, NEW b
    PROVE  [Ring(c, items, h, u) EXCEPT !.unseen = b] = Ring(c, items, h, b)
BY DEF Ring

LEMMA ItemAdded ==
    ASSUME NEW c, NEW items, NEW h, NEW u, NEW v
    PROVE  B!WithItem(Ring(c, items, h, u), v) = Ring(c, Append(items, v), h + 1, u)
<1>1. PICK r : r = Ring(c, items, h, u)
  OBVIOUS
<1>2. PICK a : a = Append(items, v)
  OBVIOUS
<1>3. PICK b : b = h + 1
  OBVIOUS
<1>4. r.items = items /\ r.hidden = h
  BY <1>1 DEF Ring
<1>5. PICK m : m = [r EXCEPT !.items = a]
  OBVIOUS
<1>6. m = Ring(c, a, h, u)
  BY <1>1, <1>5 DEF Ring
<1>7. [m EXCEPT !.hidden = b] = Ring(c, a, b, u)
  BY <1>6, HiddenUpdated
<1>8. [r EXCEPT !.items = a, !.hidden = b] = [m EXCEPT !.hidden = b]
  BY <1>5
<1>9. B!WithItem(r, v) = [r EXCEPT !.items = a, !.hidden = b]
  BY <1>2, <1>3, <1>4 DEF B!WithItem
<1> QED
  BY <1>1, <1>2, <1>3, <1>7, <1>8, <1>9

LEMMA ItemsRemoved ==
    ASSUME NEW c, NEW items, NEW h, NEW u, NEW n
    PROVE  B!WithoutItems(Ring(c, items, h, u), n)
             = Ring(c, SubSeq(items, n + 1, Len(items)), h, u + n)
<1>1. PICK r : r = Ring(c, items, h, u)
  OBVIOUS
<1>2. PICK a : a = SubSeq(items, n + 1, Len(items))
  OBVIOUS
<1>3. PICK b : b = u + n
  OBVIOUS
<1>4. r.items = items /\ r.unseen = u
  BY <1>1 DEF Ring
<1>5. PICK m : m = [r EXCEPT !.items = a]
  OBVIOUS
<1>6. m = Ring(c, a, h, u)
  BY <1>1, <1>5 DEF Ring
<1>7. [m EXCEPT !.unseen = b] = Ring(c, a, h, b)
  BY <1>6, UnseenUpdated
<1>8. [r EXCEPT !.items = a, !.unseen = b] = [m EXCEPT !.unseen = b]
  BY <1>5
<1>9. B!WithoutItems(r, n) = [r EXCEPT !.items = a, !.unseen = b]
  BY <1>2, <1>3, <1>4 DEF B!WithoutItems
<1> QED
  BY <1>1, <1>2, <1>3, <1>7, <1>8, <1>9

(* A step that moves neither end nor cache and keeps what was pushed there  *)
(* is a stutter of the fifo.                                                *)
LEMMA FifoStutters ==
    ASSUME IInv, IInv', tail' = tail, head' = head, tail_cache' = tail_cache,
           head_cache' = head_cache, \A k \in 1 .. tail : pushed'[k] = pushed[k]
    PROVE  fifo' = fifo
<1>1. head \in Nat /\ tail \in Nat
  BY DEF IInv, TypeOK
<1>2. \A k \in 1 .. tail - head : pushed'[head + k] = pushed[head + k]
  BY <1>1
<1>3. [k \in 1 .. tail' - head' |-> pushed'[head' + k]]
        = [k \in 1 .. tail - head |-> pushed[head + k]]
  BY <1>2
<1> QED
  BY <1>3 DEF fifo

LEMMA InitIsFifoInit == Init => FifoInit
<1> SUFFICES ASSUME Init PROVE FifoInit
  OBVIOUS
<1>1. [k \in 1 .. tail - head |-> pushed[head + k]] = <<>>
  BY DEF Init
<1> QED
  BY <1>1 DEF Init, FifoInit, fifo, B!NewRing

(* The release store of tail_ is the push.                                  *)
LEMMA PublishTailPushes ==
    ASSUME IInv, IInv', PublishTail
    PROVE  \E v \in Values : ~B!SaysFull(fifo) /\ fifo' = B!WithItem(fifo, v)
<1>0. /\ tail \in Nat /\ head \in Nat /\ tail - head \in Nat /\ Len(pushed) = tail + 1
      /\ pushed \in Seq(Values) /\ head_cache \in Nat /\ tail_cache \in Nat
      /\ tail - head_cache < Capacity
  BY DEF IInv, TypeOK, IndexInv, ContentInv, PublishTail
<1>1. tail' = tail + 1 /\ head' = head /\ pushed' = pushed /\ tail_cache' = tail_cache
      /\ head_cache' = head_cache
  BY DEF PublishTail
<1> DEFINE v == pushed[tail + 1]
           items == [k \in 1 .. tail - head |-> pushed[head + k]]
<1>2. v \in Values
  BY <1>0
<1>3. ~B!SaysFull(fifo)
  BY <1>0, FifoShape DEF B!SaysFull
<1>4. items \in Seq(Values) /\ Len(items) = tail - head
  BY FifoShape DEF fifo
<1>5. [k \in 1 .. tail' - head' |-> pushed'[head' + k]] = Append(items, v)
  BY <1>0, <1>1, <1>4
<1>6. fifo' = B!WithItem(fifo, v)
  <2>1. fifo = Ring(Capacity, items, tail - tail_cache, head - head_cache)
    BY DEF fifo, Ring
  <2>2. fifo' = Ring(Capacity, Append(items, v), tail - tail_cache + 1, head - head_cache)
    <3>1. tail' - tail_cache' = tail - tail_cache + 1 /\ head' - head_cache' = head - head_cache
      BY <1>0, <1>1
    <3> HIDE DEF items, v
    <3> QED
      BY <1>5, <3>1 DEF fifo, Ring
  <2> HIDE DEF items, v
  <2> QED
    BY <2>1, <2>2, ItemAdded
<1> QED
  BY <1>2, <1>3, <1>6

(* The release store of head_ is the pop of its batch, ...                  *)
LEMMA PublishHeadPops ==
    ASSUME IInv, IInv', PublishHead
    PROVE  /\ ~B!SaysEmpty(fifo)
           /\ fifo' = B!WithoutItems(fifo, want)
           /\ want \in 1 .. tail_cache - head
<1>0. /\ tail \in Nat /\ head \in Nat /\ tail - head \in Nat /\ tail <= Len(pushed)
      /\ pushed \in Seq(Values) /\ head_cache \in Nat /\ tail_cache \in Nat
      /\ want \in Nat /\ want > 0 /\ want <= tail_cache - head /\ tail_cache <= tail
  BY DEF IInv, TypeOK, IndexInv, ContentInv, PublishHead, Popping
<1>1. tail' = tail /\ head' = head + want /\ pushed' = pushed /\ tail_cache' = tail_cache
      /\ head_cache' = head_cache
  BY DEF PublishHead
<1> DEFINE items == [k \in 1 .. tail - head |-> pushed[head + k]]
<1>2. ~B!SaysEmpty(fifo)
  BY <1>0, FifoShape DEF B!SaysEmpty, B!Visible
<1>3. items \in Seq(Values) /\ Len(items) = tail - head
  BY FifoShape DEF fifo
<1>4. [k \in 1 .. tail' - head' |-> pushed'[head' + k]]
        = SubSeq(items, want + 1, Len(items))
  BY <1>0, <1>1, <1>3
<1>5. fifo' = B!WithoutItems(fifo, want)
  <2>1. fifo = Ring(Capacity, items, tail - tail_cache, head - head_cache)
    BY DEF fifo, Ring
  <2>2. fifo' = Ring(Capacity, SubSeq(items, want + 1, Len(items)), tail - tail_cache, head - head_cache + want)
    <3>1. tail' - tail_cache' = tail - tail_cache
          /\ head' - head_cache' = head - head_cache + want
      BY <1>0, <1>1
    <3> HIDE DEF items
    <3> QED
      BY <1>4, <3>1 DEF fifo, Ring
  <2> HIDE DEF items
  <2> QED
    BY <2>1, <2>2, ItemsRemoved
<1> QED
  BY <1>0, <1>2, <1>5

(* ... of which the size is one that the caller's max_items allows.         *)
WantIsABatch ==
    Popping => \E max_items \in BatchSizes : want = BatchOf(tail_cache - head, max_items)

LEMMA WantStaysABatch == IInv /\ WantIsABatch /\ [Next]_vars => WantIsABatch'
<1> SUFFICES ASSUME IInv, WantIsABatch, [Next]_vars PROVE WantIsABatch'
  OBVIOUS
<1>1. ASSUME NEW m \in BatchSizes, PopCached(m) PROVE WantIsABatch'
  BY <1>1 DEF WantIsABatch, PopCached
<1>2. ASSUME NEW m \in BatchSizes, NEW store \in tails, PopRefresh(m, store)
      PROVE  WantIsABatch'
  BY <1>2 DEF WantIsABatch, PopRefresh
<1>3. ASSUME PublishHead PROVE WantIsABatch'
  BY <1>3 DEF WantIsABatch, PublishHead, Popping
<1>4. ASSUME ReadSlot PROVE WantIsABatch'
  BY <1>4 DEF WantIsABatch, ReadSlot, Popping
<1>5. ASSUME Producer PROVE WantIsABatch'
  <2>1. UNCHANGED <<want, tail_cache, head>>
    BY <1>5 DEF Producer, PushCached, PushRefresh, WriteSlot, PublishTail, consumerVars
  <2> QED
    BY <2>1 DEF WantIsABatch, Popping
<1>6. ASSUME UNCHANGED vars PROVE WantIsABatch'
  BY <1>6 DEF WantIsABatch, Popping, vars, consumerVars
<1> QED
  BY <1>1, <1>2, <1>3, <1>4, <1>5, <1>6 DEF Next, Consumer, StartPop

LEMMA PublishHeadPopsABatch ==
    ASSUME IInv, IInv', WantIsABatch, PublishHead
    PROVE  \E m \in BatchSizes :
              ~B!SaysEmpty(fifo) /\ fifo' = B!WithoutItems(fifo, B!Batch(fifo, m))
<1>1. PICK m \in BatchSizes : want = BatchOf(tail_cache - head, m)
  BY DEF WantIsABatch, PublishHead
<1>2. B!Visible(fifo) = tail_cache - head
  <2>1. Len(fifo.items) = tail - head /\ fifo.hidden = tail - tail_cache
    BY FifoShape
  <2>2. tail \in Nat /\ head \in Nat /\ tail_cache \in Nat
    BY DEF IInv, TypeOK
  <2> QED
    BY <2>1, <2>2 DEF B!Visible
<1>3. B!Batch(fifo, m) = want
  BY <1>1, <1>2 DEF B!Batch, BatchOf
<1> QED
  BY <1>3, PublishHeadPops

(* A refresh is a look of the FIFO's thread: it may learn any part of what  *)
(* it lags behind.                                                          *)
LEMMA PushRefreshSees ==
    ASSUME IInv, IInv', NEW v \in Values, NEW store \in heads, PushRefresh(v, store)
    PROVE  B!SaysFull(fifo) /\ fifo' \in B!ProducerSees(fifo)
<1>0. /\ store.value \in Nat /\ head_cache <= store.value /\ store.value <= head
      /\ head \in Nat /\ tail \in Nat /\ head_cache \in Nat /\ tail - head_cache = Capacity
      /\ head <= tail
  BY DEF IInv, TypeOK, StoresInv, Stores, PushRefresh, CacheSaysFull, IndexInv
<1>1. UNCHANGED <<tail, head, tail_cache, pushed>> /\ head_cache' = store.value
  BY DEF PushRefresh, consumerVars
<1>2. B!SaysFull(fifo)
  <2>1. fifo.capacity = Capacity /\ Len(fifo.items) = tail - head
        /\ fifo.unseen = head - head_cache
    BY FifoShape
  <2> QED
    BY <1>0, <2>1 DEF B!SaysFull
<1>3. head - store.value \in 0 .. fifo.unseen
  BY <1>0, FifoShape
<1>4. fifo' = [fifo EXCEPT !.unseen = head - store.value]
  <2> DEFINE items == [k \in 1 .. tail - head |-> pushed[head + k]]
  <2>1. fifo = Ring(Capacity, items, tail - tail_cache, head - head_cache)
    BY DEF fifo, Ring
  <2>2. fifo' = Ring(Capacity, items, tail - tail_cache, head - store.value)
    BY <1>1 DEF fifo, Ring
  <2> HIDE DEF items
  <2> QED
    BY <2>1, <2>2, UnseenUpdated
<1> QED
  BY <1>2, <1>3, <1>4 DEF B!ProducerSees

LEMMA PopRefreshSees ==
    ASSUME IInv, IInv', NEW m \in BatchSizes, NEW store \in tails, PopRefresh(m, store)
    PROVE  B!SaysEmpty(fifo) /\ fifo' \in B!ConsumerSees(fifo)
<1>0. /\ store.value \in Nat /\ tail_cache <= store.value /\ store.value <= tail
      /\ head \in Nat /\ tail \in Nat /\ tail_cache = head
  BY DEF IInv, TypeOK, StoresInv, Stores, PopRefresh
<1>1. UNCHANGED <<tail, head, head_cache, pushed>> /\ tail_cache' = store.value
  BY DEF PopRefresh, producerVars
<1>2. B!SaysEmpty(fifo)
  BY <1>0, FifoShape DEF B!SaysEmpty, B!Visible
<1>3. tail - store.value \in 0 .. fifo.hidden
  BY <1>0, FifoShape
<1>4. fifo' = [fifo EXCEPT !.hidden = tail - store.value]
  <2> DEFINE items == [k \in 1 .. tail - head |-> pushed[head + k]]
  <2>1. fifo = Ring(Capacity, items, tail - tail_cache, head - head_cache)
    BY DEF fifo, Ring
  <2>2. fifo' = Ring(Capacity, items, tail - store.value, head - head_cache)
    BY <1>1 DEF fifo, Ring
  <2> HIDE DEF items
  <2> QED
    BY <2>1, <2>2, HiddenUpdated
<1> QED
  BY <1>2, <1>3, <1>4 DEF B!ConsumerSees

LEMMA StepIsFifoStep ==
    IInv /\ IInv' /\ WantIsABatch /\ [Next]_vars => [FifoNext]_fifo
<1> SUFFICES ASSUME IInv, IInv', WantIsABatch, [Next]_vars PROVE [FifoNext]_fifo
  OBVIOUS
<1>1. ASSUME NEW v \in Values, PushCached(v) PROVE fifo' = fifo
  BY <1>1, FifoStutters DEF PushCached, consumerVars
<1>2. ASSUME NEW v \in Values, NEW store \in heads, PushRefresh(v, store) PROVE FifoNext
  BY <1>2, PushRefreshSees DEF FifoNext
<1>3. ASSUME WriteSlot PROVE fifo' = fifo
  <2>1. /\ pushed \in Seq(Values) /\ Len(pushed) = tail /\ item \in Values
        /\ pushed' = Append(pushed, item)
    BY <1>3 DEF IInv, TypeOK, ContentInv, WriteSlot
  <2>2. \A k \in 1 .. tail : pushed'[k] = pushed[k]
    BY <2>1
  <2> QED
    BY <1>3, <2>2, FifoStutters DEF WriteSlot, consumerVars
<1>4. ASSUME PublishTail PROVE FifoNext
  BY <1>4, PublishTailPushes DEF FifoNext
<1>5. ASSUME NEW m \in BatchSizes, PopCached(m) PROVE fifo' = fifo
  BY <1>5, FifoStutters DEF PopCached, producerVars
<1>6. ASSUME NEW m \in BatchSizes, NEW store \in tails, PopRefresh(m, store) PROVE FifoNext
  BY <1>6, PopRefreshSees DEF FifoNext
<1>7. ASSUME ReadSlot PROVE fifo' = fifo
  BY <1>7, FifoStutters DEF ReadSlot, producerVars
<1>8. ASSUME PublishHead PROVE FifoNext
  BY <1>8, PublishHeadPopsABatch DEF FifoNext
<1>9. ASSUME UNCHANGED vars PROVE fifo' = fifo
  BY <1>9 DEF fifo, vars, producerVars, consumerVars
<1> QED
  BY <1>1, <1>2, <1>3, <1>4, <1>5, <1>6, <1>7, <1>8, <1>9
  DEF Next, Producer, Consumer, StartPop

(* The ring with its memory model does nothing a bounded FIFO with lagging  *)
(* ends does not: what EngineLoop and AsyncLogger take a ring for.          *)
THEOREM RingImplementsFifo == Spec => ImplementsFifo
<1>1. Init => WantIsABatch
  BY DEF Init, WantIsABatch, Popping
<1>2. Spec => []WantIsABatch
  BY <1>1, WantStaysABatch, Invariance, PTL DEF Spec
<1> QED
  BY <1>2, InitIsFifoInit, StepIsFifoStep, Invariance, PTL DEF Spec, ImplementsFifo
=============================================================================
