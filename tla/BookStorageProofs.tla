-------------------------- MODULE BookStorageProofs -------------------------
(***************************************************************************)
(* What the storage of the book guarantees: the order pool, the ids it     *)
(* mints, and the price ladder, for every capacity, generation width,      *)
(* anchor and radius.                                                      *)
(*                                                                         *)
(* PoolInv is the inductive invariant of the pool, and ClientInv adds to   *)
(* it where the generation of a held slot stands, which bounds the reuse   *)
(* of ids.  Structure is the invariant of the ladder: the orders of each   *)
(* side and price are one doubly linked list, listed by a witness, in the  *)
(* level of that price, and the cursor is on the best level.  Each         *)
(* operation of the pool and of the ladder has a lemma that carries its    *)
(* invariant across it, for the book's proofs to cite.                     *)
(***************************************************************************)
EXTENDS PriceLadder, StaleIds, DataLemmas

USE CapacityAssumption, MaxGenerationAssumption, AnchorAssumption, RadiusAssumption

-----------------------------------------------------------------------------
(* The pool.                                                                *)
PoolInv ==
    /\ PoolTypeOK
    /\ LiveIdsNameTheirSlot
    /\ FreeListIsExact
    /\ live_count = Cardinality(LiveSlots)

(* NextGeneration stays in range and skips 0.                               *)
LEMMA NextGenerationSkipsZero ==
    ASSUME NEW g \in Generation
    PROVE  NextGeneration(g) \in Generation /\ NextGeneration(g) # 0
BY DEF NextGeneration, Generation

(* The free list ends exactly when every slot is live.                      *)
LEMMA ExhaustedMeansFull ==
    ASSUME PoolTypeOK, FreeListIsExact
    PROVE  /\ PoolExhausted <=> LiveSlots = Index
           /\ PoolExhausted <=> live_count = Capacity
           /\ ~PoolExhausted => free_head \in Index /\ ~Live(free_head)
<1> DEFINE n == Capacity - live_count
<1>0. n \in Nat
  BY DEF PoolTypeOK
<1>1. PICK chain \in [1 .. n -> Index] :
        /\ Threads(chain)
        /\ \A j, k \in 1 .. n : chain[j] = chain[k] => j = k
        /\ \A i \in Index : ~Live(i) <=> \E k \in 1 .. n : chain[k] = i
  BY DEF FreeListIsExact
<1>2. CASE n = 0
  <2>1. free_head = kNullIdx
    BY <1>1, <1>2 DEF Threads
  <2>2. LiveSlots = Index
    BY <1>1, <1>2 DEF LiveSlots
  <2> QED
    BY <2>1, <2>2, <1>2 DEF PoolExhausted, PoolTypeOK
<1>3. CASE n # 0
  <2>1. 1 \in 1 .. n
    BY <1>0, <1>3
  <2>2. free_head = chain[1] /\ chain[1] \in Index
    BY <1>1, <1>3, <2>1 DEF Threads
  <2>3. ~Live(free_head)
    BY <1>1, <2>1, <2>2
  <2>4. free_head # kNullIdx
    BY <2>2 DEF Index, kNullIdx
  <2> QED
    BY <1>3, <2>2, <2>3, <2>4 DEF PoolExhausted, LiveSlots, PoolTypeOK
<1> QED
  BY <1>2, <1>3

(* Edits that leave the ids, the generations and the links of the free      *)
(* slots alone, as every edit of the book to live orders does.              *)
KeepsPoolFields(old, new) ==
    /\ new \in [Index -> Order]
    /\ \A i \in Index :
          /\ new[i].order_id = old[i].order_id
          /\ new[i].generation = old[i].generation
          /\ old[i].order_id = kInvalidOrderId => new[i].next_idx = old[i].next_idx

(* The book may edit live orders at will: the pool's invariant stands.      *)
LEMMA EditPreserves ==
    ASSUME PoolInv, KeepsPoolFields(slots, slots'), UNCHANGED <<free_head, live_count>>
    PROVE  PoolInv'
<1> USE DEF KeepsPoolFields
<1>1. PoolTypeOK'
  BY DEF PoolInv, PoolTypeOK
<1>2. LiveSlots' = LiveSlots /\ \A i \in Index : Live(i)' <=> Live(i)
  BY DEF LiveSlots, Live
<1>3. LiveIdsNameTheirSlot'
  BY <1>2 DEF PoolInv, LiveIdsNameTheirSlot, LiveSlots
<1>4. FreeListIsExact'
  <2> DEFINE n == Capacity - live_count
  <2>1. PICK chain \in [1 .. n -> Index] :
          /\ Threads(chain)
          /\ \A j, k \in 1 .. n : chain[j] = chain[k] => j = k
          /\ \A i \in Index : ~Live(i) <=> \E k \in 1 .. n : chain[k] = i
    BY DEF PoolInv, FreeListIsExact
  <2>2. \A k \in 1 .. n : slots'[chain[k]].next_idx = slots[chain[k]].next_idx
    BY <2>1 DEF Live
  <2>3. Threads(chain)'
    BY <2>1, <2>2 DEF Threads
  <2> QED
    BY <2>1, <2>3, <1>2 DEF FreeListIsExact
<1> QED
  BY <1>1, <1>2, <1>3, <1>4 DEF PoolInv

(* The live slots are finitely many.                                        *)
LEMMA LiveSlotsFinite == IsFiniteSet(LiveSlots)
<1>1. IsFiniteSet(Index)
  BY FS_Interval DEF Index
<1>2. LiveSlots \in SUBSET Index
  BY DEF LiveSlots
<1> QED
  BY <1>1, <1>2, FS_Subset

(* alloc moves the head of the free list to the live slots, and the caller  *)
(* may go on to link the new order at once.                                 *)
LEMMA AllocThenEdit ==
    ASSUME PoolInv, ~PoolExhausted, PopFreeList, KeepsPoolFields(MintedSlots, slots')
    PROVE  PoolInv'
<1>a. PICK h \in Index : h = free_head
  BY ExhaustedMeansFull DEF PoolInv
<1>b. PICK n \in Nat \ {0} : n = Capacity - live_count
  BY ExhaustedMeansFull DEF PoolInv, PoolTypeOK
<1>1. ~Live(h) /\ live_count # Capacity /\ live_count \in 0 .. Capacity
  BY <1>a, ExhaustedMeansFull DEF PoolInv, PoolTypeOK
<1>2. slots[h] \in Order /\ slots \in [Index -> Order]
  BY DEF PoolInv, PoolTypeOK
<1>3. /\ generation_of(MintedId) \in Generation
      /\ MintedId = <<generation_of(MintedId), h>>
      /\ MintedId # kInvalidOrderId
      /\ MintedId \in OrderId
  <2>1. slots[h].generation \in Generation
    BY <1>2 DEF Order
  <2>2. PICK g \in Generation : g = NextGeneration(slots[h].generation) /\ g # 0
    BY <2>1, NextGenerationSkipsZero
  <2>3. MintedId = <<g, h>>
    BY <1>a, <2>2 DEF MintedId, make_order_id
  <2>4. generation_of(MintedId) = g
    BY <2>3 DEF generation_of
  <2>5. MintedId # kInvalidOrderId
    <3>1. <<g, h>> # <<0, 0>>
      BY <2>2
    <3> QED
      BY <2>3, <3>1, Zenon DEF kInvalidOrderId, make_order_id
  <2>6. MintedId \in OrderId
    <3>1. h \in Nat
      BY DEF Index
    <3>2. <<g, h>> \in Generation \X Nat
      BY <3>1
    <3> QED
      BY <2>3, <3>2, Zenon DEF OrderId
  <2> QED
    BY <2>3, <2>4, <2>5, <2>6, Zenon
<1>4. /\ MintedSlots[h] = [slots[h] EXCEPT !.generation = generation_of(MintedId),
                !.order_id = MintedId, !.prev_idx = kNullIdx, !.next_idx = kNullIdx,
                !.level_idx = kNullIdx]
      /\ \A i \in Index \ {h} : MintedSlots[i] = slots[i]
  BY <1>a, <1>2 DEF MintedSlots
<1>5. /\ slots'[h].order_id = MintedId /\ slots'[h].generation = generation_of(MintedId)
      /\ \A i \in Index \ {h} :
            /\ slots'[i].order_id = slots[i].order_id
            /\ slots'[i].generation = slots[i].generation
            /\ ~Live(i) => slots'[i].next_idx = slots[i].next_idx
  BY <1>2, <1>4 DEF KeepsPoolFields, Order, Live
<1>6. slots' \in [Index -> Order]
  BY DEF KeepsPoolFields
<1>7. PoolTypeOK'
  BY <1>1, <1>a, <1>2, <1>6 DEF PoolTypeOK, PopFreeList, Order
<1>8. /\ Live(h)'
      /\ \A i \in Index \ {h} : Live(i)' <=> Live(i)
      /\ LiveSlots' = LiveSlots \union {h}
  <2>1. Live(h)'
    BY <1>3, <1>5 DEF Live
  <2>2. \A i \in Index \ {h} : Live(i)' <=> Live(i)
    BY <1>5 DEF Live
  <2> QED
    BY <2>1, <2>2 DEF LiveSlots
<1>9. LiveIdsNameTheirSlot'
  <2> SUFFICES ASSUME NEW i \in LiveSlots'
               PROVE  slots'[i].order_id = make_order_id(slots'[i].generation, i)
    BY DEF LiveIdsNameTheirSlot
  <2>1. CASE i = h
    BY <2>1, <1>3, <1>5 DEF make_order_id
  <2>2. CASE i # h
    BY <2>2, <1>5, <1>8 DEF PoolInv, LiveIdsNameTheirSlot, LiveSlots
  <2> QED
    BY <2>1, <2>2
<1>10. FreeListIsExact'
  <2>1. PICK chain \in [1 .. n -> Index] :
          /\ Threads(chain)
          /\ \A j, k \in 1 .. n : chain[j] = chain[k] => j = k
          /\ \A i \in Index : ~Live(i) <=> \E k \in 1 .. n : chain[k] = i
    BY <1>b DEF PoolInv, FreeListIsExact
  <2>a. PICK rest : rest = [k \in 1 .. n - 1 |-> chain[k + 1]]
    OBVIOUS
  <2>2. Capacity - live_count' = n - 1
    BY <1>1, <1>b DEF PopFreeList
  <2>3. \A k \in 1 .. n - 1 : k + 1 \in 1 .. n /\ rest[k] = chain[k + 1] /\ rest[k] \in Index
    BY <2>1, <2>a
  <2>4. chain[1] = h
    BY <1>a, <1>b, <2>1 DEF Threads
  <2>5. \A k \in 1 .. n - 1 : rest[k] # h
    BY <2>1, <2>3, <2>4
  <2>6. Threads(rest)'
    <3>1. free_head' = IF n - 1 = 0 THEN kNullIdx ELSE rest[1]
      <4>1. free_head' = slots[chain[1]].next_idx
        BY <1>a, <2>4 DEF PopFreeList
      <4>2. slots[chain[1]].next_idx = IF 1 = n THEN kNullIdx ELSE chain[1 + 1]
        BY <1>b, <2>1 DEF Threads
      <4> QED
        BY <4>1, <4>2, <2>3
    <3>2. ASSUME NEW k \in 1 .. n - 1
          PROVE  slots'[rest[k]].next_idx = IF k = n - 1 THEN kNullIdx ELSE rest[k + 1]
      <4>1. slots'[rest[k]].next_idx = slots[chain[k + 1]].next_idx
        BY <2>1, <2>3, <2>5, <1>5
      <4>2. slots[chain[k + 1]].next_idx = IF k + 1 = n THEN kNullIdx ELSE chain[k + 1 + 1]
        BY <1>b, <2>1, <2>3 DEF Threads
      <4> QED
        BY <4>1, <4>2, <2>3
    <3> QED
      BY <3>1, <3>2, <2>2 DEF Threads
  <2>7. \A j, k \in 1 .. n - 1 : rest[j] = rest[k] => j = k
    <3> SUFFICES ASSUME NEW j \in 1 .. n - 1, NEW k \in 1 .. n - 1, rest[j] = rest[k]
                 PROVE  j = k
      OBVIOUS
    <3>1. j + 1 = k + 1
      BY <2>1, <2>3
    <3> QED
      BY <3>1
  <2>8. ASSUME NEW i \in Index
        PROVE  ~Live(i)' <=> \E k \in 1 .. n - 1 : rest[k] = i
    <3>1. CASE i = h
      BY <3>1, <1>8, <2>5
    <3>2. CASE i # h
      <4>1. ~Live(i)' <=> \E k \in 1 .. n : chain[k] = i
        BY <3>2, <2>1, <1>5 DEF Live
      <4>2. ASSUME NEW k \in 1 .. n, chain[k] = i
            PROVE  k - 1 \in 1 .. n - 1 /\ rest[k - 1] = i
        BY <4>2, <3>2, <2>a, <2>4
      <4> QED
        BY <4>1, <4>2, <2>3
    <3> QED
      BY <3>1, <3>2
  <2>9. rest \in [1 .. n - 1 -> Index]
    BY <2>3, <2>a
  <2> QED
    BY <2>2, <2>6, <2>7, <2>8, <2>9 DEF FreeListIsExact
<1>11. live_count' = Cardinality(LiveSlots')
  <2>1. IsFiniteSet(LiveSlots)
    BY LiveSlotsFinite
  <2>2. Cardinality(LiveSlots') = Cardinality(LiveSlots) + 1
    BY <2>1, <1>1, <1>8, FS_AddElement DEF LiveSlots
  <2> QED
    BY <2>2 DEF PoolInv, PopFreeList
<1> QED
  BY <1>7, <1>9, <1>10, <1>11 DEF PoolInv

(* The slots alloc hands out.                                               *)
LEMMA MintedEffect ==
    ASSUME PoolInv, ~PoolExhausted
    PROVE  /\ free_head \in Index /\ ~Live(free_head)
           /\ MintedSlots \in [Index -> Order]
           /\ MintedSlots[free_head].order_id = MintedId /\ MintedId # kInvalidOrderId
           /\ MintedSlots[free_head].next_idx = kNullIdx
           /\ \A i \in Index \ {free_head} : MintedSlots[i] = slots[i]
<1>1. PICK h \in Index : h = free_head /\ ~Live(h)
  BY ExhaustedMeansFull DEF PoolInv
<1>2. slots[h] \in Order /\ slots \in [Index -> Order]
  BY DEF PoolInv, PoolTypeOK
<1>3. /\ generation_of(MintedId) \in Generation /\ MintedId \in OrderId
      /\ MintedId # kInvalidOrderId
  <2>1. generation_of(MintedId) \in Generation /\ generation_of(MintedId) # 0
        /\ MintedId = <<generation_of(MintedId), h>>
    BY <1>1, <1>2, NextGenerationSkipsZero DEF MintedId, make_order_id, generation_of, Order
  <2>2. h \in Nat
    BY DEF Index
  <2> QED
    BY <2>1, <2>2 DEF OrderId, kInvalidOrderId, make_order_id
<1>4. kNullIdx \in Link /\ kNullIdx \in Int
  BY DEF kNullIdx, Link
<1>5. /\ MintedSlots[h] = [slots[h] EXCEPT !.generation = generation_of(MintedId),
                !.order_id = MintedId, !.prev_idx = kNullIdx, !.next_idx = kNullIdx,
                !.level_idx = kNullIdx]
      /\ \A i \in Index \ {h} : MintedSlots[i] = slots[i]
      /\ MintedSlots = [i \in Index |-> MintedSlots[i]]
  BY <1>1, <1>2 DEF MintedSlots
<1>6. /\ MintedSlots[h] \in Order
      /\ MintedSlots[h].order_id = MintedId /\ MintedSlots[h].next_idx = kNullIdx
  BY <1>2, <1>3, <1>4, <1>5 DEF Order
<1>7. MintedSlots \in [Index -> Order]
  BY <1>2, <1>5, <1>6
<1> QED
  BY <1>1, <1>3, <1>5, <1>6, <1>7

LEMMA AllocPreserves ==
    ASSUME PoolInv, Alloc
    PROVE  PoolInv'
<1>1. MintedSlots \in [Index -> Order]
  BY MintedEffect DEF Alloc
<1>2. KeepsPoolFields(MintedSlots, MintedSlots)
  BY <1>1 DEF KeepsPoolFields
<1> QED
  BY <1>2, AllocThenEdit DEF Alloc

(* free puts a live slot at the head of the free list.                      *)
LEMMA FreeInPreserves ==
    ASSUME PoolInv, NEW i \in Index, Live(i), NEW edited,
           KeepsPoolFields(slots, edited), FreeIn(edited, i)
    PROVE  PoolInv'
<1>a. PICK n \in Nat : n = Capacity - live_count
  BY DEF PoolInv, PoolTypeOK
<1>b. edited \in [Index -> Order] /\ edited[i] \in Order /\ free_head \in Link
  BY DEF KeepsPoolFields, PoolInv, PoolTypeOK
<1>1. live_count \in 1 .. Capacity /\ live_count' = live_count - 1
  <2>1. LiveSlots # {}
    BY DEF LiveSlots
  <2>2. Cardinality(LiveSlots) # 0
    BY <2>1, LiveSlotsFinite, FS_EmptySet
  <2> QED
    BY <2>2 DEF PoolInv, PoolTypeOK, FreeIn
<1>2. /\ slots'[i] = [edited[i] EXCEPT !.order_id = kInvalidOrderId, !.next_idx = free_head]
      /\ \A j \in Index \ {i} : slots'[j] = edited[j]
      /\ slots' = [j \in Index |-> slots'[j]]
  BY <1>b DEF FreeIn
<1>3. slots'[i].order_id = kInvalidOrderId /\ slots'[i].next_idx = free_head
  BY <1>b, <1>2 DEF Order
<1>4. slots'[i] \in Order
  <2>1. kInvalidOrderId \in OrderId
    BY DEF kInvalidOrderId, make_order_id, OrderId, Generation
  <2> QED
    BY <2>1, <1>b, <1>2 DEF Order
<1>5. PoolTypeOK'
  <2>1. slots' \in [Index -> Order]
    BY <1>b, <1>2, <1>4
  <2>2. free_head' \in Link /\ live_count' \in 0 .. Capacity
    BY <1>1 DEF FreeIn, Link
  <2> QED
    BY <2>1, <2>2 DEF PoolTypeOK
<1>6. /\ ~Live(i)'
      /\ \A j \in Index \ {i} : Live(j)' <=> Live(j)
      /\ LiveSlots' = LiveSlots \ {i}
  <2>1. ~Live(i)'
    BY <1>3 DEF Live
  <2>2. \A j \in Index \ {i} : Live(j)' <=> Live(j)
    BY <1>2 DEF Live, KeepsPoolFields
  <2> QED
    BY <2>1, <2>2 DEF LiveSlots
<1>7. LiveIdsNameTheirSlot'
  BY <1>2, <1>6 DEF PoolInv, LiveIdsNameTheirSlot, LiveSlots, KeepsPoolFields
<1>8. FreeListIsExact'
  <2>1. PICK chain \in [1 .. n -> Index] :
          /\ Threads(chain)
          /\ \A j, k \in 1 .. n : chain[j] = chain[k] => j = k
          /\ \A j \in Index : ~Live(j) <=> \E k \in 1 .. n : chain[k] = j
    BY <1>a DEF PoolInv, FreeListIsExact
  <2>a. PICK longer : longer = [k \in 1 .. n + 1 |-> IF k = 1 THEN i ELSE chain[k - 1]]
    OBVIOUS
  <2>2. Capacity - live_count' = n + 1
    BY <1>a, <1>1 DEF PoolInv, PoolTypeOK
  <2>3. /\ longer[1] = i
        /\ \A k \in 1 .. n : longer[k + 1] = chain[k] /\ chain[k] # i /\ chain[k] \in Index
        /\ \A k \in 1 .. n + 1 : k = 1 \/ k - 1 \in 1 .. n
    BY <2>1, <2>a
  <2>4. longer \in [1 .. n + 1 -> Index]
    BY <2>1, <2>a
  <2>5. Threads(longer)'
    <3>1. free_head' = longer[1]
      BY <2>3 DEF FreeIn
    <3>2. ASSUME NEW k \in 1 .. n + 1
          PROVE  slots'[longer[k]].next_idx = IF k = n + 1 THEN kNullIdx ELSE longer[k + 1]
      <4>1. CASE k = 1
        <5>1. free_head = IF n = 0 THEN kNullIdx ELSE chain[1]
          BY <1>a, <2>1 DEF Threads
        <5>2. n # 0 => longer[1 + 1] = chain[1]
          BY <2>3
        <5> QED
          BY <4>1, <5>1, <5>2, <1>3, <2>3
      <4>2. CASE k # 1
        <5>1. PICK j \in 1 .. n : k = j + 1
          BY <4>2
        <5>2. slots'[longer[k]].next_idx = slots[chain[j]].next_idx
          BY <5>1, <2>1, <2>3, <1>2 DEF KeepsPoolFields, Live
        <5>3. slots[chain[j]].next_idx = IF j = n THEN kNullIdx ELSE chain[j + 1]
          BY <1>a, <2>1 DEF Threads
        <5>4. j # n => longer[k + 1] = chain[j + 1]
          BY <5>1, <2>3
        <5> QED
          BY <5>1, <5>2, <5>3, <5>4
      <4> QED
        BY <4>1, <4>2
    <3> QED
      BY <3>1, <3>2, <2>2 DEF Threads
  <2>6. \A j, k \in 1 .. n + 1 : longer[j] = longer[k] => j = k
    BY <2>1, <2>a, <2>3
  <2>7. ASSUME NEW j \in Index
        PROVE  ~Live(j)' <=> \E k \in 1 .. n + 1 : longer[k] = j
    <3>1. CASE j = i
      BY <3>1, <1>6, <2>3
    <3>2. CASE j # i
      <4>1. ~Live(j)' <=> \E k \in 1 .. n : chain[k] = j
        BY <3>2, <1>6, <2>1
      <4>2. ASSUME NEW k \in 1 .. n + 1, longer[k] = j
            PROVE  \E l \in 1 .. n : chain[l] = j
        BY <4>2, <3>2, <2>a
      <4> QED
        BY <4>1, <4>2, <2>3
    <3> QED
      BY <3>1, <3>2
  <2> QED
    BY <2>2, <2>4, <2>5, <2>6, <2>7 DEF FreeListIsExact
<1>9. live_count' = Cardinality(LiveSlots')
  <2>1. i \in LiveSlots
    BY DEF LiveSlots
  <2>2. Cardinality(LiveSlots') = Cardinality(LiveSlots) - 1
    BY <2>1, <1>6, LiveSlotsFinite, FS_RemoveElement
  <2> QED
    BY <2>2, <1>1 DEF PoolInv
<1> QED
  BY <1>5, <1>7, <1>8, <1>9 DEF PoolInv

-----------------------------------------------------------------------------
(* The constructor threads the whole slab.                                  *)
LEMMA PoolInitEstablishes == PoolInit => PoolInv
<1> SUFFICES ASSUME PoolInit PROVE PoolInv
  OBVIOUS
<1>1. PoolTypeOK
  <2>1. ASSUME NEW i \in Index PROVE FreshSlot(i) \in Order
    <3>1. /\ kInvalidOrderId \in OrderId
          /\ kBuy \in Sides
          /\ 0 \in Link
          /\ 0 \in Generation
          /\ (IF i + 1 < Capacity THEN i + 1 ELSE kNullIdx) \in Link
      BY DEF kInvalidOrderId, make_order_id, OrderId, Generation, Sides, Link, Index
    <3> QED
      BY <3>1 DEF FreshSlot, Order
  <2> QED
    BY <2>1 DEF PoolInit, PoolTypeOK, Link, Index
<1>2. \A i \in Index : /\ ~Live(i)
                       /\ slots[i].next_idx = IF i + 1 < Capacity THEN i + 1 ELSE kNullIdx
  BY DEF PoolInit, FreshSlot, Live
<1>3. LiveSlots = {}
  BY <1>2 DEF LiveSlots
<1>4. FreeListIsExact
  <2> DEFINE chain == [k \in 1 .. Capacity |-> k - 1]
  <2>1. Capacity - live_count = Capacity
    BY DEF PoolInit
  <2>2. chain \in [1 .. Capacity -> Index]
    BY DEF Index
  <2>3. Threads(chain)
    BY <1>2, <2>1, <2>2 DEF Threads, PoolInit
  <2>4. \A j, k \in 1 .. Capacity : chain[j] = chain[k] => j = k
    OBVIOUS
  <2>5. ASSUME NEW i \in Index PROVE \E k \in 1 .. Capacity : chain[k] = i
    <3>1. i + 1 \in 1 .. Capacity /\ chain[i + 1] = i
      BY DEF Index
    <3> QED
      BY <3>1
  <2> HIDE DEF chain
  <2> QED
    BY <1>2, <2>1, <2>2, <2>3, <2>4, <2>5 DEF FreeListIsExact
<1> QED
  BY <1>1, <1>3, <1>4, FS_EmptySet DEF PoolInv, LiveIdsNameTheirSlot, PoolInit

(* Every operation of the pool, and every edit of a live order's link.      *)
LEMMA PoolStepPreserves == PoolInv /\ [PoolNext]_poolVars => PoolInv'
<1> SUFFICES ASSUME PoolInv, [PoolNext]_poolVars PROVE PoolInv'
  OBVIOUS
<1>0. KeepsPoolFields(slots, slots)
  BY DEF KeepsPoolFields, PoolInv, PoolTypeOK
<1>1. CASE Alloc
  BY <1>1, AllocPreserves
<1>2. ASSUME NEW i \in Index, Free(i) PROVE PoolInv'
  <2>1. PICK edited : edited = slots
    OBVIOUS
  <2>2. Live(i) /\ KeepsPoolFields(slots, edited) /\ FreeIn(edited, i)
    BY <1>0, <1>2, <2>1 DEF Free
  <2> QED
    BY <2>2, FreeInPreserves
<1>3. ASSUME NEW i \in Index, Relink(i) PROVE PoolInv'
  <2>1. PICK next \in Link : slots' = [slots EXCEPT ![i].next_idx = next]
    BY <1>3 DEF Relink
  <2>2. slots'[i] = [slots[i] EXCEPT !.next_idx = next] /\ slots[i] \in Order
    BY <2>1 DEF PoolInv, PoolTypeOK
  <2>3. \A j \in Index \ {i} : slots'[j] = slots[j]
    BY <2>1 DEF PoolInv, PoolTypeOK
  <2>4. /\ slots'[i] \in Order
        /\ slots'[i].order_id = slots[i].order_id
        /\ slots'[i].generation = slots[i].generation
    BY <2>2 DEF Order
  <2>5. slots' \in [Index -> Order]
    BY <2>1, <2>3, <2>4 DEF PoolInv, PoolTypeOK
  <2>6. KeepsPoolFields(slots, slots')
    BY <1>3, <2>3, <2>4, <2>5 DEF KeepsPoolFields, Relink, Live
  <2> QED
    BY <1>3, <2>6, EditPreserves DEF Relink
<1>4. CASE UNCHANGED poolVars
  BY <1>0, <1>4, EditPreserves DEF poolVars
<1> QED
  BY <1>1, <1>2, <1>3, <1>4 DEF PoolNext

(* What alloc does to the head of the free list, and to nothing else.       *)
LEMMA AllocEffect ==
    ASSUME PoolInv, Alloc
    PROVE  \E h \in Index :
             /\ h = free_head /\ ~Live(h) /\ Live(h)'
             /\ MintedId = <<NextGeneration(slots[h].generation), h>>
             /\ NextGeneration(slots[h].generation) \in 1 .. MaxGeneration
             /\ slots'[h].generation = NextGeneration(slots[h].generation)
             /\ \A i \in Index \ {h} : slots'[i] = slots[i]
<1>1. PICK h \in Index : h = free_head /\ ~Live(h)
  BY ExhaustedMeansFull DEF PoolInv, Alloc
<1>2. slots \in [Index -> Order] /\ slots[h] \in Order
  BY DEF PoolInv, PoolTypeOK
<1>3. MintedId = <<NextGeneration(slots[h].generation), h>>
  BY <1>1 DEF MintedId, make_order_id
<1>4. NextGeneration(slots[h].generation) \in 1 .. MaxGeneration
  BY <1>2, NextGenerationSkipsZero DEF Order, Generation
<1>5. /\ slots'[h].order_id = MintedId
      /\ slots'[h].generation = NextGeneration(slots[h].generation)
      /\ \A i \in Index \ {h} : slots'[i] = slots[i]
  BY <1>1, <1>2, <1>3 DEF Alloc, MintedSlots, generation_of, Order
<1>6. Live(h)'
  BY <1>3, <1>4, <1>5 DEF Live, kInvalidOrderId, make_order_id
<1> QED
  BY <1>1, <1>3, <1>4, <1>5, <1>6

LEMMA PoolInvMeansSound == PoolInv => PoolIsSound /\ LiveIdsNameTheirSlot
BY ExhaustedMeansFull DEF PoolInv, LiveCountIsExact, PoolIsSound

-----------------------------------------------------------------------------
(* What find() says of an id its client has kept.                           *)
(* The generation a slot has `times' mints after it had generation g.       *)
Later(g, times) ==
    IF g + times <= MaxGeneration THEN g + times ELSE g + times - MaxGeneration

(* Where the held slot stands: its order is live and unreused, or retired   *)
(* and still free, or its generation has moved `reuses' places on.          *)
ClientInv ==
    /\ reuses \in 0 .. MaxGeneration
    /\ retired \in BOOLEAN
    /\ ~Holding => ~retired /\ reuses = 0
    /\ Holding =>
          /\ held \in (1 .. MaxGeneration) \X Index
          /\ retired <=> (reuses > 0 \/ ~Live(index_of(held)))
          /\ reuses < MaxGeneration =>
                slots[index_of(held)].generation = Later(generation_of(held), reuses)

LEMMA ClientInvImpliesBound ==
    PoolInv /\ ClientInv => HeldIdFindsOnlyItsOrder
<1> SUFFICES ASSUME PoolInv, ClientInv, Holding, reuses < MaxGeneration
             PROVE  Found(held) <=> ~retired
  BY DEF HeldIdFindsOnlyItsOrder
<1>1. PICK g \in 1 .. MaxGeneration, i \in Index : held = <<g, i>>
  BY DEF ClientInv
<1>2. index_of(held) = i /\ generation_of(held) = g
  BY <1>1 DEF index_of, generation_of
<1>3. Live(i) => slots[i].order_id = <<slots[i].generation, i>>
  BY DEF PoolInv, LiveIdsNameTheirSlot, LiveSlots, make_order_id
<1>4. slots[i].generation = Later(g, reuses)
  BY <1>2 DEF ClientInv
<1>5. Later(g, reuses) = g <=> reuses = 0
  BY DEF Later, ClientInv
<1>6. Found(held) <=> Live(i) /\ reuses = 0
  <2>1. Found(held) <=> slots[i].order_id = held
    BY <1>2 DEF Found, Holding
  <2>2. held # kInvalidOrderId
    BY DEF Holding
  <2>3. CASE Live(i)
    BY <2>1, <2>3, <1>1, <1>3, <1>4, <1>5
  <2>4. CASE ~Live(i)
    BY <2>1, <2>2, <2>4 DEF Live
  <2> QED
    BY <2>3, <2>4
<1> QED
  BY <1>2, <1>6 DEF ClientInv

LEMMA ClientStepIsPoolStep == [Next]_vars => [PoolNext]_poolVars
BY DEF Next, vars, poolVars, PoolNext, AllocAndKeep, AllocOther, FreeSlot, RelinkSlot

LEMMA ClientStepPreserves ==
    PoolInv /\ ClientInv /\ [Next]_vars => ClientInv'
<1> SUFFICES ASSUME PoolInv, ClientInv, [Next]_vars PROVE ClientInv'
  OBVIOUS
<1>0. slots \in [Index -> Order] /\ \A i \in Index : slots[i] \in Order
  BY DEF PoolInv, PoolTypeOK
<1>1. CASE AllocAndKeep
  <2>1. PICK h \in Index :
          /\ Live(h)'
          /\ MintedId = <<NextGeneration(slots[h].generation), h>>
          /\ NextGeneration(slots[h].generation) \in 1 .. MaxGeneration
          /\ slots'[h].generation = NextGeneration(slots[h].generation)
    BY <1>1, AllocEffect DEF AllocAndKeep
  <2>2. PICK g \in 1 .. MaxGeneration : g = NextGeneration(slots[h].generation)
    BY <2>1
  <2>3. held' = <<g, h>> /\ slots'[h].generation = g /\ reuses' = 0 /\ retired' = FALSE
    BY <1>1, <2>1, <2>2 DEF AllocAndKeep, ClientInv
  <2>4. Later(g, 0) = g
    BY DEF Later
  <2>5. held' # kInvalidOrderId
    BY <2>3 DEF kInvalidOrderId, make_order_id
  <2>6. index_of(held') = h /\ generation_of(held') = g
    BY <2>3 DEF index_of, generation_of
  <2>7. slots'[index_of(held')].generation = Later(generation_of(held'), reuses')
    BY <2>3, <2>4, <2>6
  <2>8. retired' <=> (reuses' > 0 \/ ~Live(index_of(held))')
    BY <2>1, <2>3, <2>6 DEF Live
  <2>9. reuses' \in 0 .. MaxGeneration
    BY <2>3
  <2>10. retired' \in BOOLEAN
    BY <2>3, Zenon
  <2>11. held' \in (1 .. MaxGeneration) \X Index /\ Holding'
    BY <2>3, <2>5, Zenon DEF Holding
  <2> QED
    BY <2>7, <2>8, <2>9, <2>10, <2>11, Zenon DEF ClientInv
<1>2. CASE AllocOther
  <2>1. PICK h \in Index :
          /\ h = free_head /\ ~Live(h) /\ Live(h)'
          /\ slots'[h].generation = NextGeneration(slots[h].generation)
          /\ \A i \in Index \ {h} : slots'[i] = slots[i]
    BY <1>2, AllocEffect DEF AllocOther
  <2>2. CASE ~Holding
    BY <1>2, <2>2 DEF AllocOther, ClientInv, Holding
  <2>3. CASE Holding
    <3>1. PICK g \in 1 .. MaxGeneration, i \in Index : held = <<g, i>>
      BY <2>3 DEF ClientInv
    <3>2. /\ index_of(held) = i /\ generation_of(held) = g
          /\ held' = held /\ retired' = retired
          /\ reuses' = IF h = i /\ reuses < MaxGeneration THEN reuses + 1 ELSE reuses
      BY <1>2, <2>1, <2>3, <3>1 DEF AllocOther, index_of, generation_of
    <3>3. CASE h = i
      <4>1. retired /\ reuses \in 0 .. MaxGeneration /\ Live(i)'
        BY <2>1, <2>3, <3>2, <3>3 DEF ClientInv
      <4>2. reuses' \in 1 .. MaxGeneration
        BY <3>2, <3>3, <4>1
      <4>3. ASSUME reuses' < MaxGeneration
            PROVE  slots'[i].generation = Later(g, reuses')
        <5>1. reuses' = reuses + 1 /\ slots[i].generation = Later(g, reuses)
          BY <2>3, <3>2, <3>3, <4>1, <4>3 DEF ClientInv
        <5>2. Later(g, reuses + 1) = NextGeneration(Later(g, reuses))
          BY <4>1, <4>3, <5>1 DEF Later, NextGeneration
        <5> QED
          BY <2>1, <3>3, <5>1, <5>2
      <4> QED
        BY <2>3, <3>1, <3>2, <4>1, <4>2, <4>3 DEF ClientInv, Holding, index_of, generation_of
    <3>4. CASE h # i
      <4>1. reuses' = reuses /\ slots'[i] = slots[i] /\ (Live(i)' <=> Live(i))
        BY <2>1, <3>2, <3>4 DEF Live
      <4> QED
        BY <2>3, <3>2, <4>1 DEF ClientInv, Holding, index_of, generation_of, Live
    <3> QED
      BY <3>3, <3>4
  <2> QED
    BY <2>2, <2>3
<1>3. ASSUME NEW k \in Index, FreeSlot(k) PROVE ClientInv'
  <2>1. /\ held' = held /\ reuses' = reuses
        /\ retired' = (retired \/ (Holding /\ k = index_of(held)))
    BY <1>3 DEF FreeSlot
  <2>2. /\ ~Live(k)' /\ slots'[k].generation = slots[k].generation
        /\ \A j \in Index \ {k} : slots'[j] = slots[j]
    BY <1>0, <1>3 DEF FreeSlot, Free, FreeIn, Live, Order
  <2>3. CASE ~Holding
    BY <2>1, <2>3 DEF ClientInv, Holding
  <2>4. CASE Holding
    <3>1. PICK g \in 1 .. MaxGeneration, i \in Index : held = <<g, i>>
      BY <2>4 DEF ClientInv
    <3>2. index_of(held) = i /\ generation_of(held) = g
      BY <3>1 DEF index_of, generation_of
    <3>3. /\ slots'[i].generation = slots[i].generation
          /\ ~Live(i)' <=> (i = k \/ ~Live(i))
      BY <2>2 DEF Live
    <3>4. retired' <=> (reuses > 0 \/ ~Live(i)')
      BY <2>1, <2>4, <3>2, <3>3 DEF ClientInv
    <3>5. retired' \in BOOLEAN
      BY <2>1 DEF ClientInv, Holding
    <3> QED
      BY <2>1, <2>4, <3>1, <3>2, <3>3, <3>4, <3>5
      DEF ClientInv, Holding, index_of, generation_of, Live
  <2> QED
    BY <2>3, <2>4
<1>4. ASSUME NEW k \in Index, RelinkSlot(k) PROVE ClientInv'
  <2>1. \A i \in Index : /\ slots'[i].generation = slots[i].generation
                         /\ Live(i)' <=> Live(i)
    BY <1>0, <1>4 DEF RelinkSlot, Relink, Live, Order
  <2>2. Holding => index_of(held) \in Index
    BY DEF ClientInv, index_of
  <2> QED
    BY <1>4, <2>1, <2>2
    DEF ClientInv, RelinkSlot, clientVars, Holding, index_of, generation_of, Live
<1>5. CASE UNCHANGED vars
  BY <1>5 DEF vars, ClientInv, Holding, Live
<1> QED
  BY <1>1, <1>2, <1>3, <1>4, <1>5 DEF Next

-----------------------------------------------------------------------------
(* The pool's invariant and the client's hold in every behaviour.           *)
LEMMA Invariance == Spec => [](PoolInv /\ ClientInv)
<1>1. ClientInit => PoolInv /\ ClientInv
  <2>1. ASSUME ClientInit PROVE ~Holding /\ retired = FALSE /\ reuses = 0
    BY <2>1 DEF ClientInit, Holding
  <2>2. ClientInit => ClientInv
    BY <2>1 DEF ClientInv
  <2> QED
    BY <2>2, PoolInitEstablishes DEF ClientInit
<1>2. (PoolInv /\ ClientInv) /\ [Next]_vars => (PoolInv /\ ClientInv)'
  BY ClientStepIsPoolStep, PoolStepPreserves, ClientStepPreserves
<1> QED
  BY <1>1, <1>2, PTL DEF Spec

(* The free list and the live counter are exact whatever the callers write  *)
(* into the links of live orders, for every capacity.                       *)
THEOREM PoolIsExact ==
    Spec => [](PoolIsSound /\ LiveIdsNameTheirSlot)
BY PoolInvMeansSound, Invariance, PTL

(* order_pool.h:26-27 for every capacity and generation width: an id finds  *)
(* its own order while that lives and nothing afterwards, until its slot    *)
(* has been minted MaxGeneration more times.                                *)
THEOREM IdsDoNotRepeatEarly == Spec => []HeldIdFindsOnlyItsOrder
<1>1. PoolInv /\ ClientInv => HeldIdFindsOnlyItsOrder
  BY ClientInvImpliesBound
<1> QED
  BY <1>1, Invariance, PTL

-----------------------------------------------------------------------------
(* Levels.  `w' lists the orders of the set G in the order of the links of  *)
(* the slots s: it is the witness the FIFO of a level is described with.    *)

Remaining(s) == [i \in Index |-> s[i].remaining]

IsList(s, level, G, w) ==
    LET n == level.order_count IN
    /\ level \in Level
    /\ G \in SUBSET Index
    /\ w \in [1 .. n -> Index]
    /\ \A j, k \in 1 .. n : w[j] = w[k] => j = k
    /\ \A i \in Index : i \in G <=> \E k \in 1 .. n : w[k] = i
    /\ level.head_idx = IF n = 0 THEN kNullIdx ELSE w[1]
    /\ level.tail_idx = IF n = 0 THEN kNullIdx ELSE w[n]
    /\ \A k \in 1 .. n :
          /\ s[w[k]].prev_idx = IF k = 1 THEN kNullIdx ELSE w[k - 1]
          /\ s[w[k]].next_idx = IF k = n THEN kNullIdx ELSE w[k + 1]
    /\ level.total_qty = SumFunctionOnSet(Remaining(s), G)

(* The links and the remaining quantity are all a list reads of its orders. *)
SameInList(s, t, G) ==
    \A i \in G : /\ t[i].prev_idx = s[i].prev_idx
                 /\ t[i].next_idx = s[i].next_idx
                 /\ t[i].remaining = s[i].remaining

LEMMA IndexFinite == IsFiniteSet(Index) /\ \A G \in SUBSET Index : IsFiniteSet(G)
<1>1. IsFiniteSet(Index)
  BY FS_Interval DEF Index
<1> QED
  BY <1>1, FS_Subset

LEMMA IndexFacts == kNullIdx \notin Index /\ Index \subseteq Nat /\ kNullIdx \in Link /\ Index \subseteq Link
BY DEF Index, kNullIdx, Link

LEMMA RemainingType ==
    ASSUME NEW s \in [Index -> Order]
    PROVE  /\ \A i \in Index : Remaining(s)[i] = s[i].remaining /\ s[i].remaining \in Nat
           /\ \A G \in SUBSET Index : \A i \in G : Remaining(s)[i] \in Nat /\ Remaining(s)[i] \in Int
           /\ \A G \in SUBSET Index : SumFunctionOnSet(Remaining(s), G) \in Nat
<1>1. \A i \in Index : Remaining(s)[i] = s[i].remaining /\ s[i].remaining \in Nat
  BY DEF Remaining, Order
<1>2. \A G \in SUBSET Index : SumFunctionOnSet(Remaining(s), G) \in Nat
  BY <1>1, IndexFinite, SumNat
<1> QED
  BY <1>1, <1>2

LEMMA ListFrame ==
    ASSUME NEW s \in [Index -> Order], NEW t \in [Index -> Order],
           NEW level, NEW G, NEW w, IsList(s, level, G, w), SameInList(s, t, G)
    PROVE  IsList(t, level, G, w)
<1>1. G \in SUBSET Index
  BY DEF IsList
<1>2. SumFunctionOnSet(Remaining(t), G) = SumFunctionOnSet(Remaining(s), G)
  <2>1. \A i \in G : Remaining(s)[i] \in Int /\ Remaining(t)[i] = Remaining(s)[i]
    BY <1>1, RemainingType DEF SameInList
  <2> QED
    BY <1>1, <2>1, IndexFinite, SumSame
<1>3. \A k \in 1 .. level.order_count : w[k] \in G
  BY DEF IsList
<1> QED
  BY <1>2, <1>3 DEF IsList, SameInList

(* The level's FIFO is the list, so the walk of the level finds it sound.   *)
LEMMA LevelFacts ==
    ASSUME NEW level \in Level
    PROVE  /\ level.order_count \in Nat /\ level.total_qty \in Nat
           /\ level.head_idx \in Link /\ level.tail_idx \in Link
           /\ level = [head_idx |-> level.head_idx, tail_idx |-> level.tail_idx,
                       order_count |-> level.order_count, total_qty |-> level.total_qty]
BY DEF Level

LEMMA FifoIsList ==
    ASSUME NEW level, NEW G, NEW w, IsList(slots, level, G, w)
    PROVE  Fifo(level) = w /\ Members(level) = G
<1> DEFINE n == level.order_count
           After(at, k) == IF k = 1 THEN level.head_idx
                           ELSE IF at[k - 1] \in Index THEN slots[at[k - 1]].next_idx
                           ELSE kNullIdx
           Walk(at) == at = [k \in 1 .. n |-> After(at, k)]
           walk == CHOOSE at : Walk(at)
<1>0. n \in Nat /\ w \in [1 .. n -> Index]
  BY LevelFacts DEF IsList
<1>1. Walk(w)
  <2>1. \A k \in 1 .. n : w[k] = IF k = 1 THEN level.head_idx
                                 ELSE IF w[k - 1] \in Index THEN slots[w[k - 1]].next_idx
                                 ELSE kNullIdx
    BY <1>0 DEF IsList
  <2> QED
    BY <1>0, <2>1
<1>2. Walk(walk)
  BY <1>1
<1>4. \A k \in 1 .. n : walk[k] = After(walk, k) /\ w[k] = After(w, k)
  <2> HIDE DEF walk, After
  <2> QED BY <1>1, <1>2
<1>3. \A k \in 1 .. n : walk[k] = w[k]
  <2> DEFINE T == {k \in Nat : k \in 1 .. n => walk[k] = w[k]}
  <2> HIDE DEF walk, After
  <2>1. 0 \in T
    OBVIOUS
  <2>2. ASSUME NEW k \in Nat, k \in T PROVE k + 1 \in T
    <3> SUFFICES ASSUME k + 1 \in 1 .. n PROVE walk[k + 1] = w[k + 1]
      OBVIOUS
    <3>1. /\ walk[k + 1] = After(walk, k + 1)
          /\ w[k + 1] = After(w, k + 1)
      BY <1>4
    <3>3. k + 1 # 1 => walk[k + 1 - 1] = w[k + 1 - 1]
      BY <2>2, <1>0
    <3> QED
      BY <3>1, <3>3 DEF After
  <2> HIDE DEF T
  <2>3. Nat \subseteq T
    BY <2>1, <2>2, NatSetInduction
  <2> QED
    BY <1>0, <2>3 DEF T
<1>5. Fifo(level) = [k \in 1 .. n |-> walk[k]]
  BY DEF Fifo
<1> HIDE DEF walk
<1>6. Fifo(level) = w
  BY <1>0, <1>3, <1>5
<1>7. Members(level) = G
  BY <1>0, <1>6 DEF Members, IsList
<1> QED
  BY <1>6, <1>7

LEMMA ListCount ==
    ASSUME NEW s, NEW level, NEW G, NEW w, IsList(s, level, G, w)
    PROVE  Cardinality(G) = level.order_count
<1> DEFINE n == level.order_count
<1>1. n \in Nat /\ w \in [1 .. n -> Index] /\ G \in SUBSET Index
  BY LevelFacts DEF IsList
<1>2. w \in Bijection(1 .. n, G)
  BY <1>1 DEF Bijection, Injection, Surjection, IsInjective, IsList
<1> QED
  BY <1>1, <1>2, FS_CountingElements DEF ExistsBijection

LEMMA ListIsSound ==
    ASSUME NEW level, NEW G, NEW w, IsList(slots, level, G, w),
           G \subseteq LiveSlots, slots \in [Index -> Order]
    PROVE  LevelIsSound(level) /\ (IsEmpty(level) <=> G = {})
<1> DEFINE n == level.order_count
<1>00. Fifo(level) = w /\ Members(level) = G
  BY FifoIsList
<1>0. /\ n \in Nat /\ w \in [1 .. n -> Index] /\ level \in Level
      /\ Fifo(level) = w /\ Members(level) = G
  BY <1>00, LevelFacts DEF IsList
<1>1. CASE n = 0
  <2>1. IsEmpty(level) /\ G = {} /\ level.tail_idx = kNullIdx
    BY <1>1 DEF IsEmpty, IsList
  <2>2. level.total_qty = 0
    BY <2>1, SumEmpty DEF IsList
  <2>3. level = EmptyLevel
    BY <1>0, <1>1, <2>1, <2>2, LevelFacts DEF EmptyLevel, IsEmpty
  <2> QED
    BY <2>1, <2>3 DEF LevelIsSound
<1>2. CASE n # 0
  <2>1. 1 \in 1 .. n /\ n \in 1 .. n /\ n > 0
    BY <1>0, <1>2
  <2>2. w[1] \in G /\ level.head_idx = w[1] /\ level.tail_idx = w[n] /\ slots[w[n]].next_idx = kNullIdx
    BY <1>0, <1>2, <2>1 DEF IsList
  <2>3. ~IsEmpty(level)
    BY <1>0, <2>1, <2>2, IndexFacts DEF IsEmpty
  <2>4. Cardinality(G) = n
    BY ListCount
  <2>5. level.total_qty = SumFunctionOnSet(OpenQuantities, G)
    BY DEF IsList, OpenQuantities, Remaining
  <2>6. \A k \in 1 .. n : slots[w[k]].prev_idx = IF k = 1 THEN kNullIdx ELSE w[k - 1]
    BY DEF IsList
  <2> QED
    BY <1>0, <2>1, <2>2, <2>3, <2>4, <2>5, <2>6 DEF LevelIsSound
<1> QED
  BY <1>1, <1>2

-----------------------------------------------------------------------------
(* What the operations on a level do to the slots.                          *)

(* Two orders that differ in their links at most.                           *)
SameOrder(a, b) ==
    /\ a.order_id = b.order_id /\ a.price_ticks = b.price_ticks
    /\ a.qty = b.qty /\ a.remaining = b.remaining
    /\ a.side = b.side /\ a.generation = b.generation

LEMMA OrderFields ==
    ASSUME NEW o \in Order
    PROVE  /\ o.order_id \in OrderId /\ o.price_ticks \in Int
           /\ o.qty \in Nat /\ o.remaining \in Nat /\ o.side \in Sides
           /\ o.prev_idx \in Link /\ o.next_idx \in Link
           /\ o.level_idx \in Int /\ o.generation \in Generation
BY DEF Order

LEMMA LinkedEffect ==
    ASSUME NEW s \in [Index -> Order], NEW level \in Level, NEW i \in Index, NEW idx \in Int
    PROVE  LET t == LinkedSlots(s, level, i, idx) IN
           /\ t \in [Index -> Order]
           /\ \A j \in Index :
                 /\ SameOrder(t[j], s[j])
                 /\ t[j].prev_idx = IF j = i THEN level.tail_idx ELSE s[j].prev_idx
                 /\ t[j].next_idx = IF j = level.tail_idx THEN i ELSE s[j].next_idx
                 /\ t[j].level_idx = IF j = i THEN idx ELSE s[j].level_idx
<1> DEFINE t == LinkedSlots(s, level, i, idx)
<1>1. level.tail_idx \in Link /\ i \in Link
  BY LevelFacts, IndexFacts
<1>2. ASSUME NEW j \in Index
      PROVE  /\ t[j] \in Order
             /\ SameOrder(t[j], s[j])
             /\ t[j].prev_idx = IF j = i THEN level.tail_idx ELSE s[j].prev_idx
             /\ t[j].next_idx = IF j = level.tail_idx THEN i ELSE s[j].next_idx
             /\ t[j].level_idx = IF j = i THEN idx ELSE s[j].level_idx
  <2>1. s[j] \in Order
    OBVIOUS
  <2>2. t[j] = [s[j] EXCEPT !.prev_idx  = IF j = i THEN level.tail_idx ELSE @,
                            !.next_idx  = IF j = level.tail_idx THEN i ELSE @,
                            !.level_idx = IF j = i THEN idx ELSE @]
    BY DEF LinkedSlots
  <2> HIDE DEF t
  <2> QED
    BY <1>1, <2>1, <2>2 DEF Order, SameOrder
<1>3. t = [j \in Index |-> t[j]]
  BY DEF LinkedSlots
<1> QED
  BY <1>2, <1>3

LEMMA UnlinkedEffect ==
    ASSUME NEW s \in [Index -> Order], NEW i \in Index
    PROVE  LET t == UnlinkedSlots(s, i) IN
           /\ t \in [Index -> Order]
           /\ \A j \in Index :
                 /\ SameOrder(t[j], s[j])
                 /\ j # i =>
                      /\ t[j].next_idx = IF j = s[i].prev_idx THEN s[i].next_idx ELSE s[j].next_idx
                      /\ t[j].prev_idx = IF j = s[i].next_idx THEN s[i].prev_idx ELSE s[j].prev_idx
                      /\ t[j].level_idx = s[j].level_idx
<1> DEFINE t == UnlinkedSlots(s, i)
           u == [j \in Index |->
                    [s[j] EXCEPT !.next_idx = IF j = s[i].prev_idx THEN s[i].next_idx ELSE @,
                                 !.prev_idx = IF j = s[i].next_idx THEN s[i].prev_idx ELSE @]]
<1>0. t = [u EXCEPT ![i] = [s[i] EXCEPT !.prev_idx = kNullIdx, !.next_idx = kNullIdx,
                                        !.level_idx = kNullIdx]]
  BY DEF UnlinkedSlots
<1>1. /\ s[i] \in Order /\ s[i].prev_idx \in Link /\ s[i].next_idx \in Link
      /\ kNullIdx \in Link /\ kNullIdx \in Int
  BY OrderFields, IndexFacts DEF kNullIdx
<1>2. t[i] = [s[i] EXCEPT !.prev_idx = kNullIdx, !.next_idx = kNullIdx, !.level_idx = kNullIdx]
  BY <1>0
<1>3. \A j \in Index \ {i} : t[j] = u[j]
  BY <1>0
<1>4. DOMAIN t = Index
  BY <1>0
<1>5. t = [j \in Index |-> t[j]]
  BY <1>0
<1> HIDE DEF t
<1>6. t[i] \in Order /\ SameOrder(t[i], s[i])
  BY <1>1, <1>2 DEF Order, SameOrder
<1>7. ASSUME NEW j \in Index, j # i
      PROVE  /\ t[j] \in Order /\ SameOrder(t[j], s[j])
             /\ t[j].next_idx = IF j = s[i].prev_idx THEN s[i].next_idx ELSE s[j].next_idx
             /\ t[j].prev_idx = IF j = s[i].next_idx THEN s[i].prev_idx ELSE s[j].prev_idx
             /\ t[j].level_idx = s[j].level_idx
  <2>1. s[j] \in Order
    OBVIOUS
  <2>2. t[j] = [s[j] EXCEPT !.next_idx = IF j = s[i].prev_idx THEN s[i].next_idx ELSE @,
                            !.prev_idx = IF j = s[i].next_idx THEN s[i].prev_idx ELSE @]
    BY <1>3, <1>7
  <2> QED
    BY <1>1, <2>1, <2>2 DEF Order, SameOrder
<1>8. t \in [Index -> Order]
  BY <1>5, <1>6, <1>7
<1>9. \A j \in Index : SameOrder(t[j], s[j])
  BY <1>6, <1>7
<1> QED
  BY <1>7, <1>8, <1>9 DEF t

(* From the list w to the list v, the orders in both keep their order, and  *)
(* those that are new in v stand behind them.                               *)
OrderKept(w, n, v, m) ==
    /\ \A a, b \in 1 .. n : \A c, d \in 1 .. m :
          w[a] = v[c] /\ w[b] = v[d] => (a < b <=> c < d)
    /\ \A a \in 1 .. n : \A c, d \in 1 .. m :
          w[a] = v[c] /\ (\A b \in 1 .. n : w[b] # v[d]) => c < d

LEMMA SameListKeepsOrder ==
    ASSUME NEW n \in Nat, NEW w, \A j, k \in 1 .. n : w[j] = w[k] => j = k
    PROVE  OrderKept(w, n, w, n)
BY DEF OrderKept

(* push_order at a level appends to its list.                               *)
LEMMA AppendedKeepsOrder ==
    ASSUME NEW n \in Nat, NEW w, NEW i, \A j, k \in 1 .. n : w[j] = w[k] => j = k,
           \A k \in 1 .. n : w[k] # i
    PROVE  OrderKept(w, n, Appended(w, n, i), n + 1)
<1> DEFINE v == Appended(w, n, i)
<1>1. /\ v[n + 1] = i /\ \A k \in 1 .. n : v[k] = w[k]
      /\ \A k \in 1 .. n + 1 : k = n + 1 \/ k \in 1 .. n
  BY DEF Appended
<1> HIDE DEF v
<1>2. \A a \in 1 .. n : \A c \in 1 .. n + 1 : w[a] = v[c] => a = c
  BY <1>1
<1>3. \A d \in 1 .. n + 1 : (\A b \in 1 .. n : w[b] # v[d]) => d = n + 1
  BY <1>1
<1>4. ASSUME NEW a \in 1 .. n, NEW c \in 1 .. n + 1, NEW d \in 1 .. n + 1,
             w[a] = v[c], \A b \in 1 .. n : w[b] # v[d]
      PROVE  c < d
  <2>1. a = c /\ d = n + 1
    BY <1>2, <1>3, <1>4
  <2> QED
    BY <2>1
<1>5. ASSUME NEW a \in 1 .. n, NEW b \in 1 .. n, NEW c \in 1 .. n + 1, NEW d \in 1 .. n + 1,
             w[a] = v[c], w[b] = v[d]
      PROVE  a < b <=> c < d
  BY <1>2, <1>5
<1>6. OrderKept(w, n, v, n + 1)
  BY <1>4, <1>5 DEF OrderKept
<1> QED
  BY <1>6 DEF v

LEMMA ListAppend ==
    ASSUME NEW s \in [Index -> Order], NEW level, NEW G, NEW w, IsList(s, level, G, w),
           NEW i \in Index \ G, NEW idx \in Int, s[i].next_idx = kNullIdx
    PROVE  IsList(LinkedSlots(s, level, i, idx), LevelWith(s, level, i), G \union {i},
                  Appended(w, level.order_count, i))
<1> DEFINE n == level.order_count
           t == LinkedSlots(s, level, i, idx)
           new == LevelWith(s, level, i)
           H == G \union {i}
           v == Appended(w, n, i)
<1>0. /\ n \in Nat /\ w \in [1 .. n -> Index] /\ level \in Level /\ G \in SUBSET Index
      /\ level.tail_idx = IF n = 0 THEN kNullIdx ELSE w[n]
      /\ level.head_idx = IF n = 0 THEN kNullIdx ELSE w[1]
  BY LevelFacts DEF IsList
<1>1. /\ t \in [Index -> Order]
      /\ \A j \in Index :
            /\ SameOrder(t[j], s[j])
            /\ t[j].prev_idx = IF j = i THEN level.tail_idx ELSE s[j].prev_idx
            /\ t[j].next_idx = IF j = level.tail_idx THEN i ELSE s[j].next_idx
  BY <1>0, LinkedEffect
<1>2. /\ new.head_idx = IF level.tail_idx = kNullIdx THEN i ELSE level.head_idx
      /\ new.tail_idx = i /\ new.order_count = n + 1
      /\ new.total_qty = level.total_qty + s[i].remaining
  BY DEF LevelWith
<1>3. new \in Level
  <2>1. s[i].remaining \in Nat /\ level.total_qty \in Nat /\ level.head_idx \in Link /\ i \in Link
    BY <1>0, OrderFields, LevelFacts, IndexFacts
  <2> QED
    BY <1>0, <2>1 DEF LevelWith, Level
<1> HIDE DEF t, new
<1>4. v \in [1 .. n + 1 -> Index] /\ v[n + 1] = i /\ \A k \in 1 .. n : v[k] = w[k] /\ v[k] \in G
  BY <1>0 DEF Appended, IsList
<1> HIDE DEF v
<1>5. \A j, k \in 1 .. n + 1 : v[j] = v[k] => j = k
  <2>1. \A j, k \in 1 .. n : w[j] = w[k] => j = k
    BY DEF IsList
  <2> QED
    BY <1>0, <1>4, <2>1
<1>6. \A j \in Index : j \in H <=> \E k \in 1 .. n + 1 : v[k] = j
  <2>1. \A j \in Index : j \in G <=> \E k \in 1 .. n : w[k] = j
    BY DEF IsList
  <2>2. n + 1 \in 1 .. n + 1 /\ \A k \in 1 .. n : k \in 1 .. n + 1
    BY <1>0
  <2>3. \A k \in 1 .. n + 1 : k = n + 1 \/ k \in 1 .. n
    BY <1>0
  <2> HIDE DEF n
  <2> QED
    BY <1>4, <2>1, <2>2, <2>3
<1>7. /\ new.head_idx = IF n + 1 = 0 THEN kNullIdx ELSE v[1]
      /\ new.tail_idx = IF n + 1 = 0 THEN kNullIdx ELSE v[n + 1]
  <2>1. CASE n = 0
    BY <1>0, <1>2, <1>4, <2>1
  <2>2. CASE n # 0
    <3>1. w[n] \in Index /\ level.tail_idx # kNullIdx /\ 1 \in 1 .. n
      BY <1>0, <2>2, IndexFacts
    <3> QED
      BY <1>0, <1>2, <1>4, <2>2, <3>1
  <2> QED
    BY <2>1, <2>2
<1>8. ASSUME NEW k \in 1 .. n + 1
      PROVE  /\ t[v[k]].prev_idx = IF k = 1 THEN kNullIdx ELSE v[k - 1]
             /\ t[v[k]].next_idx = IF k = n + 1 THEN kNullIdx ELSE v[k + 1]
  <2>1. CASE k = n + 1
    <3>1. i # level.tail_idx
      BY <1>0, <1>4, IndexFacts
    <3>2. t[i].prev_idx = level.tail_idx /\ t[i].next_idx = kNullIdx
      BY <1>1, <3>1
    <3> QED
      BY <1>0, <1>4, <2>1, <3>2
  <2>2. CASE k # n + 1
    <3>1. k \in 1 .. n /\ w[k] \in G /\ w[k] \in Index /\ w[k] # i /\ v[k] = w[k]
      BY <1>0, <1>4, <2>2
    <3>2. /\ s[w[k]].prev_idx = IF k = 1 THEN kNullIdx ELSE w[k - 1]
          /\ s[w[k]].next_idx = IF k = n THEN kNullIdx ELSE w[k + 1]
      BY <3>1 DEF IsList
    <3>3. w[k] = level.tail_idx <=> k = n
      BY <1>0, <3>1 DEF IsList
    <3>4. t[w[k]].prev_idx = s[w[k]].prev_idx
      BY <1>1, <3>1
    <3>5. t[w[k]].next_idx = IF k = n THEN i ELSE s[w[k]].next_idx
      BY <1>1, <3>1, <3>3
    <3>6. k # 1 => v[k - 1] = w[k - 1]
      BY <1>0, <1>4, <3>1
    <3>7. k # n => v[k + 1] = w[k + 1]
      BY <1>0, <1>4, <3>1
    <3> QED
      BY <1>4, <2>2, <3>1, <3>2, <3>4, <3>5, <3>6, <3>7
  <2> QED
    BY <2>1, <2>2
<1>9. new.total_qty = SumFunctionOnSet(Remaining(t), H)
  <2>1. H \in SUBSET Index /\ IsFiniteSet(H) /\ G \in SUBSET H /\ i \in H \ G /\ H \ {i} = G
    BY <1>0, IndexFinite
  <2>2. \A j \in H : Remaining(s)[j] \in Int /\ Remaining(t)[j] = Remaining(s)[j]
    BY <1>1, <2>1, RemainingType DEF SameOrder
  <2>3. SumFunctionOnSet(Remaining(t), H) = SumFunctionOnSet(Remaining(s), H)
    BY <2>1, <2>2, SumSame
  <2>4. SumFunctionOnSet(Remaining(s), H) = Remaining(s)[i] + SumFunctionOnSet(Remaining(s), G)
    BY <2>1, <2>2, SumRemove
  <2>5. Remaining(s)[i] = s[i].remaining /\ s[i].remaining \in Nat
        /\ level.total_qty = SumFunctionOnSet(Remaining(s), G) /\ level.total_qty \in Nat
    BY <1>0, RemainingType, LevelFacts DEF IsList
  <2> QED
    BY <1>2, <2>3, <2>4, <2>5
<1> HIDE DEF n, H
<1>10. H \in SUBSET Index
  BY <1>0 DEF H
<1>11. IsList(t, new, H, v)
  BY <1>2, <1>3, <1>4, <1>5, <1>6, <1>7, <1>8, <1>9, <1>10 DEF IsList
<1> QED
  BY <1>11 DEF t, new, H, v, n

(* remove_order: unlinking takes the order out of the list.                 *)
LEMMA ListRemove ==
    ASSUME NEW s \in [Index -> Order], NEW level, NEW G, NEW w, IsList(s, level, G, w),
           NEW i \in G
    PROVE  \E v : /\ IsList(UnlinkedSlots(s, i), LevelWithout(s, level, i), G \ {i}, v)
                  /\ OrderKept(w, level.order_count, v, level.order_count - 1)
<1> DEFINE n == level.order_count
           t == UnlinkedSlots(s, i)
           new == LevelWithout(s, level, i)
           H == G \ {i}
<1>0. /\ n \in Nat /\ w \in [1 .. n -> Index] /\ level \in Level /\ G \in SUBSET Index /\ i \in Index
      /\ level.tail_idx = IF n = 0 THEN kNullIdx ELSE w[n]
      /\ level.head_idx = IF n = 0 THEN kNullIdx ELSE w[1]
  BY LevelFacts DEF IsList
<1>1. PICK m \in 1 .. n : w[m] = i
  BY <1>0 DEF IsList
<1>2. /\ t \in [Index -> Order]
      /\ \A j \in Index :
            /\ SameOrder(t[j], s[j])
            /\ j # i =>
                 /\ t[j].next_idx = IF j = s[i].prev_idx THEN s[i].next_idx ELSE s[j].next_idx
                 /\ t[j].prev_idx = IF j = s[i].next_idx THEN s[i].prev_idx ELSE s[j].prev_idx
  BY <1>0, UnlinkedEffect
<1>3. /\ s[i].prev_idx = IF m = 1 THEN kNullIdx ELSE w[m - 1]
      /\ s[i].next_idx = IF m = n THEN kNullIdx ELSE w[m + 1]
  BY <1>1 DEF IsList
<1>4. /\ new.head_idx = IF s[i].prev_idx = kNullIdx THEN s[i].next_idx ELSE level.head_idx
      /\ new.tail_idx = IF s[i].next_idx = kNullIdx THEN s[i].prev_idx ELSE level.tail_idx
      /\ new.order_count = n - 1
      /\ new.total_qty = level.total_qty - s[i].remaining
  BY DEF LevelWithout
<1>5. /\ s[i].prev_idx = kNullIdx <=> m = 1
      /\ s[i].next_idx = kNullIdx <=> m = n
  <2>1. m # 1 => w[m - 1] \in Index
    BY <1>0, <1>1
  <2>2. m # n => w[m + 1] \in Index
    BY <1>0, <1>1
  <2> QED
    BY <1>3, <2>1, <2>2, IndexFacts
<1>6. PICK v : v = Without(w, n, m)
  OBVIOUS
<1>7. /\ v \in [1 .. n - 1 -> Index] /\ n - 1 \in Nat
      /\ \A k \in 1 .. n - 1 : /\ k < m => v[k] = w[k]
                               /\ k >= m => v[k] = w[k + 1]
  BY <1>0, <1>1, <1>6 DEF Without
<1>8. \A j, k \in 1 .. n : w[j] = w[k] => j = k
  BY DEF IsList
<1>9. \A j, k \in 1 .. n - 1 : v[j] = v[k] => j = k
  <2> SUFFICES ASSUME NEW j \in 1 .. n - 1, NEW k \in 1 .. n - 1, v[j] = v[k]
               PROVE  j = k
    OBVIOUS
  <2>1. j \in 1 .. n /\ k \in 1 .. n /\ j + 1 \in 1 .. n /\ k + 1 \in 1 .. n /\ j \in Int /\ k \in Int
    BY <1>0
  <2>2. CASE j < m /\ k < m
    BY <1>7, <1>8, <2>1, <2>2
  <2>3. CASE j < m /\ k >= m
    <3>1. w[j] = w[k + 1]
      BY <1>7, <2>3
    <3>2. j = k + 1
      BY <1>8, <2>1, <3>1
    <3> QED
      BY <1>1, <2>1, <2>3, <3>2
  <2>4. CASE j >= m /\ k < m
    <3>1. w[j + 1] = w[k]
      BY <1>7, <2>4
    <3>2. j + 1 = k
      BY <1>8, <2>1, <3>1
    <3> QED
      BY <1>1, <2>1, <2>4, <3>2
  <2>5. CASE j >= m /\ k >= m
    <3>1. w[j + 1] = w[k + 1]
      BY <1>7, <2>5
    <3>2. j + 1 = k + 1
      BY <1>8, <2>1, <3>1
    <3> QED
      BY <2>1, <3>2
  <2> QED
    BY <1>1, <2>1, <2>2, <2>3, <2>4, <2>5
<1>10. \A j \in Index : j \in H <=> \E k \in 1 .. n - 1 : v[k] = j
  <2>1. ASSUME NEW j \in H PROVE \E k \in 1 .. n - 1 : v[k] = j
    <3>1. PICK k \in 1 .. n : w[k] = j
      BY <1>0 DEF IsList
    <3>2. k # m /\ k \in Int /\ m \in Int
      BY <1>1, <3>1
    <3>3. CASE k < m
      <4>1. k \in 1 .. n - 1
        BY <1>0, <1>1, <3>3
      <4> QED
        BY <1>7, <3>1, <3>3, <4>1
    <3>4. CASE k > m
      <4>1. k - 1 \in 1 .. n - 1 /\ k - 1 >= m /\ k - 1 + 1 = k
        BY <1>0, <1>1, <3>4
      <4> QED
        BY <1>7, <3>1, <4>1
    <3> QED
      BY <3>2, <3>3, <3>4
  <2>2. ASSUME NEW k \in 1 .. n - 1 PROVE v[k] \in H
    <3>1. k \in 1 .. n /\ k + 1 \in 1 .. n /\ k \in Int /\ m \in Int
      BY <1>0, <1>1
    <3>2. \A l \in 1 .. n : w[l] \in G
      BY <1>0 DEF IsList
    <3>3. \A l \in 1 .. n : l # m => w[l] # i
      BY <1>1, <1>8
    <3>4. CASE k < m
      BY <1>7, <3>1, <3>2, <3>3, <3>4
    <3>5. CASE k >= m
      <4>1. k + 1 # m
        BY <3>1, <3>5
      <4> QED
        BY <1>7, <3>1, <3>2, <3>3, <3>5, <4>1
    <3> QED
      BY <3>1, <3>4, <3>5
  <2> QED
    BY <2>1, <2>2
<1>11. /\ new.head_idx = IF n - 1 = 0 THEN kNullIdx ELSE v[1]
       /\ new.tail_idx = IF n - 1 = 0 THEN kNullIdx ELSE v[n - 1]
  <2>1. CASE n = 1
    <3>1. m = 1
      BY <1>1, <2>1
    <3> QED
      BY <1>0, <1>3, <1>4, <1>5, <2>1, <3>1
  <2>2. CASE n # 1
    <3>1. n - 1 # 0 /\ n # 0 /\ 1 \in 1 .. n - 1 /\ n - 1 \in 1 .. n - 1 /\ 1 + 1 = 2
          /\ n - 1 + 1 = n /\ m \in Int /\ m >= 1 /\ m <= n
      BY <1>0, <1>1, <2>2
    <3>2. new.head_idx = v[1]
      <4>1. CASE m = 1
        BY <1>3, <1>4, <1>5, <1>7, <3>1, <4>1
      <4>2. CASE m # 1
        <5>1. 1 < m
          BY <3>1, <4>2
        <5> QED
          BY <1>0, <1>4, <1>5, <1>7, <3>1, <4>2, <5>1
      <4> QED
        BY <4>1, <4>2
    <3>3. new.tail_idx = v[n - 1]
      <4>1. CASE m = n
        <5>1. n - 1 < m /\ m - 1 = n - 1
          BY <1>0, <4>1
        <5> QED
          BY <1>3, <1>4, <1>5, <1>7, <2>2, <3>1, <4>1, <5>1
      <4>2. CASE m # n
        <5>1. n - 1 >= m
          BY <1>0, <3>1, <4>2
        <5> QED
          BY <1>0, <1>4, <1>5, <1>7, <3>1, <4>2, <5>1
      <4> QED
        BY <4>1, <4>2
    <3> QED
      BY <3>1, <3>2, <3>3
  <2> QED
    BY <2>1, <2>2
<1>12. ASSUME NEW k \in 1 .. n - 1
       PROVE  /\ t[v[k]].prev_idx = IF k = 1 THEN kNullIdx ELSE v[k - 1]
              /\ t[v[k]].next_idx = IF k = n - 1 THEN kNullIdx ELSE v[k + 1]
  <2> DEFINE l == IF k < m THEN k ELSE k + 1
  <2>1. /\ k \in 1 .. n /\ k + 1 \in 1 .. n /\ k \in Int /\ m \in Int /\ n \in Int
        /\ l \in 1 .. n /\ l # m /\ v[k] = w[l] /\ v[k] \in Index
    BY <1>0, <1>1, <1>7
  <2>2. w[l] # i /\ w[l] \in Index
    BY <1>1, <1>8, <1>0, <2>1
  <2>3. /\ s[w[l]].prev_idx = IF l = 1 THEN kNullIdx ELSE w[l - 1]
        /\ s[w[l]].next_idx = IF l = n THEN kNullIdx ELSE w[l + 1]
    BY <2>1 DEF IsList
  <2>4. w[l] = s[i].prev_idx <=> l = m - 1
    <3>1. CASE m = 1
      <4>1. s[i].prev_idx \notin Index
        BY <1>3, <3>1, IndexFacts
      <4>2. l # m - 1
        BY <2>1, <3>1
      <4> QED
        BY <2>2, <4>1, <4>2
    <3>2. CASE m # 1
      <4>1. m - 1 \in 1 .. n
        BY <1>0, <1>1, <3>2
      <4> QED
        BY <1>3, <1>8, <2>1, <3>2, <4>1
    <3> QED
      BY <3>1, <3>2
  <2>5. w[l] = s[i].next_idx <=> l = m + 1
    <3>1. CASE m = n
      <4>1. s[i].next_idx \notin Index
        BY <1>3, <3>1, IndexFacts
      <4>2. l # m + 1
        BY <2>1, <3>1
      <4> QED
        BY <2>2, <4>1, <4>2
    <3>2. CASE m # n
      <4>1. m + 1 \in 1 .. n
        BY <1>0, <1>1, <3>2
      <4> QED
        BY <1>3, <1>8, <2>1, <3>2, <4>1
    <3> QED
      BY <3>1, <3>2
  <2>6. /\ t[w[l]].next_idx = IF l = m - 1 THEN s[i].next_idx ELSE s[w[l]].next_idx
        /\ t[w[l]].prev_idx = IF l = m + 1 THEN s[i].prev_idx ELSE s[w[l]].prev_idx
    BY <1>2, <2>2, <2>4, <2>5
  <2>7. t[w[l]].prev_idx = IF k = 1 THEN kNullIdx ELSE v[k - 1]
    <3>1. CASE k < m
      <4>1. l = k /\ l # m + 1
        BY <2>1, <3>1
      <4>2. k # 1 => k - 1 \in 1 .. n - 1 /\ k - 1 < m
        BY <1>0, <3>1, <2>1
      <4> QED
        BY <1>7, <2>3, <2>6, <4>1, <4>2
    <3>2. CASE k = m
      <4>1. l = m + 1
        BY <2>1, <3>2
      <4>2. k # 1 => k - 1 \in 1 .. n - 1 /\ k - 1 < m
        BY <1>0, <3>2, <2>1
      <4> QED
        BY <1>3, <1>7, <2>6, <3>2, <4>1, <4>2
    <3>3. CASE k > m
      <4>1. l = k + 1 /\ l # m + 1 /\ l - 1 = k /\ k # 1 /\ l # 1
        BY <1>1, <2>1, <3>3
      <4>2. k - 1 \in 1 .. n - 1 /\ k - 1 >= m /\ k - 1 + 1 = k
        BY <1>0, <1>1, <3>3, <2>1
      <4> QED
        BY <1>7, <2>3, <2>6, <4>1, <4>2
    <3> QED
      BY <2>1, <3>1, <3>2, <3>3
  <2>8. t[w[l]].next_idx = IF k = n - 1 THEN kNullIdx ELSE v[k + 1]
    <3>1. CASE k = m - 1
      <4>1. l = m - 1
        BY <2>1, <3>1
      <4>2. m = n <=> k = n - 1
        BY <1>0, <2>1, <3>1
      <4>3. k # n - 1 => k + 1 \in 1 .. n - 1 /\ k + 1 >= m /\ k + 1 + 1 = m + 1
        BY <1>0, <3>1, <2>1
      <4> QED
        BY <1>3, <1>7, <2>6, <4>1, <4>2, <4>3
    <3>2. CASE k < m - 1
      <4>1. l = k /\ l # m - 1 /\ l # n
        BY <1>0, <1>1, <2>1, <3>2
      <4>2. k # n - 1 /\ k + 1 \in 1 .. n - 1 /\ k + 1 < m
        BY <1>0, <1>1, <3>2, <2>1
      <4> QED
        BY <1>7, <2>3, <2>6, <4>1, <4>2
    <3>3. CASE k >= m
      <4>1. l = k + 1 /\ l # m - 1
        BY <2>1, <3>3
      <4>2. l = n <=> k = n - 1
        BY <1>0, <2>1, <4>1
      <4>3. k # n - 1 => k + 1 \in 1 .. n - 1 /\ k + 1 >= m /\ k + 1 = l
        BY <1>0, <3>3, <2>1, <4>1
      <4> QED
        BY <1>7, <2>3, <2>6, <4>1, <4>2, <4>3
    <3> QED
      BY <2>1, <3>1, <3>2, <3>3
  <2> QED
    BY <2>1, <2>7, <2>8
<1>13. new.total_qty = SumFunctionOnSet(Remaining(t), H) /\ new.total_qty \in Nat
  <2>1. H \in SUBSET Index /\ IsFiniteSet(H) /\ IsFiniteSet(G)
    BY <1>0, IndexFinite
  <2>2. \A j \in G : Remaining(s)[j] \in Int /\ Remaining(t)[j] = Remaining(s)[j]
    BY <1>0, <1>2, RemainingType DEF SameOrder
  <2>3. SumFunctionOnSet(Remaining(t), H) = SumFunctionOnSet(Remaining(s), H)
    BY <2>1, <2>2, SumSame
  <2>4. SumFunctionOnSet(Remaining(s), G) = Remaining(s)[i] + SumFunctionOnSet(Remaining(s), H)
    BY <2>1, <2>2, SumRemove
  <2>5. Remaining(s)[i] = s[i].remaining /\ s[i].remaining \in Nat
        /\ level.total_qty = SumFunctionOnSet(Remaining(s), G) /\ level.total_qty \in Nat
        /\ SumFunctionOnSet(Remaining(s), H) \in Nat
    BY <1>0, <2>1, RemainingType, LevelFacts DEF IsList
  <2> QED
    BY <1>4, <2>3, <2>4, <2>5
<1>14. new \in Level
  <2>1. s[i].prev_idx \in Link /\ s[i].next_idx \in Link /\ level.head_idx \in Link /\ level.tail_idx \in Link
    BY <1>0, OrderFields, LevelFacts
  <2>2. new = [head_idx |-> new.head_idx, tail_idx |-> new.tail_idx,
               order_count |-> new.order_count, total_qty |-> new.total_qty]
    BY DEF LevelWithout
  <2> HIDE DEF new
  <2> QED
    BY <1>4, <1>7, <1>13, <2>1, <2>2 DEF Level
<1>17. OrderKept(w, n, v, n - 1)
  <2> DEFINE from(c) == IF c < m THEN c ELSE c + 1
  <2>1. \A c \in 1 .. n - 1 : from(c) \in 1 .. n /\ v[c] = w[from(c)]
    BY <1>0, <1>1, <1>7
  <2>2. \A a \in 1 .. n : \A c \in 1 .. n - 1 : w[a] = v[c] => a = from(c)
    <3> HIDE DEF from, n
    <3> QED
      BY <1>8, <2>1
  <2>3. \A c, d \in 1 .. n - 1 : from(c) < from(d) <=> c < d
    BY <1>0, <1>1
  <2>4. \A d \in 1 .. n - 1 : \E b \in 1 .. n : w[b] = v[d]
    BY <2>1
  <2>5. \A a, b \in 1 .. n : \A c, d \in 1 .. n - 1 :
           w[a] = v[c] /\ w[b] = v[d] => (a < b <=> c < d)
    <3> HIDE DEF from, n
    <3> QED
      BY <2>2, <2>3
  <2> HIDE DEF from, n
  <2> QED
    BY <2>4, <2>5 DEF OrderKept
<1> HIDE DEF t, new, n, H
<1>15. H \in SUBSET Index
  BY <1>0 DEF H
<1>16. IsList(t, new, H, v)
  BY <1>4, <1>7, <1>9, <1>10, <1>11, <1>12, <1>13, <1>14, <1>15 DEF IsList
<1> QED
  BY <1>16, <1>17 DEF t, new, H, n

(* DebitMaker: an order of the list, and the level with it, owes less.      *)
Debited(s, i, fill) == [s EXCEPT ![i].remaining = @ - fill]

LEMMA DebitedEffect ==
    ASSUME NEW s \in [Index -> Order], NEW i \in Index, NEW fill \in 0 .. s[i].remaining
    PROVE  LET t == Debited(s, i, fill) IN
           /\ t \in [Index -> Order]
           /\ t[i] = [s[i] EXCEPT !.remaining = @ - fill]
           /\ t[i].remaining = s[i].remaining - fill
           /\ \A j \in Index \ {i} : t[j] = s[j]
<1>1. s[i] \in Order /\ s[i].remaining \in Nat /\ s[i].remaining - fill \in Nat
  BY OrderFields
<1>2. [s[i] EXCEPT !.remaining = @ - fill] \in Order
      /\ [s[i] EXCEPT !.remaining = @ - fill].remaining = s[i].remaining - fill
  BY <1>1 DEF Order
<1> QED
  BY <1>2 DEF Debited

LEMMA ListDebit ==
    ASSUME NEW s \in [Index -> Order], NEW level, NEW G, NEW w, IsList(s, level, G, w),
           NEW i \in G, NEW fill \in 0 .. s[i].remaining
    PROVE  IsList(Debited(s, i, fill), [level EXCEPT !.total_qty = @ - fill], G, w)
<1> DEFINE n == level.order_count
           t == Debited(s, i, fill)
           new == [level EXCEPT !.total_qty = @ - fill]
<1>0. /\ n \in Nat /\ w \in [1 .. n -> Index] /\ level \in Level /\ G \in SUBSET Index /\ i \in Index
      /\ IsFiniteSet(G)
  BY LevelFacts, IndexFinite DEF IsList
<1>1. /\ t \in [Index -> Order]
      /\ t[i] = [s[i] EXCEPT !.remaining = @ - fill]
      /\ t[i].remaining = s[i].remaining - fill
      /\ \A j \in Index \ {i} : t[j] = s[j]
  BY <1>0, DebitedEffect
<1>2. \A j \in Index : t[j].prev_idx = s[j].prev_idx /\ t[j].next_idx = s[j].next_idx
  <2>1. s[i] \in Order
    BY <1>0
  <2> HIDE DEF t
  <2>2. t[i].prev_idx = s[i].prev_idx /\ t[i].next_idx = s[i].next_idx
    BY <1>1, <2>1 DEF Order
  <2> QED
    BY <1>1, <2>2
<1>3. SumFunctionOnSet(Remaining(t), G) = level.total_qty - fill
      /\ SumFunctionOnSet(Remaining(t), G) \in Nat
  <2> HIDE DEF t
  <2>1. \A j \in G : Remaining(s)[j] \in Int /\ Remaining(t)[j] \in Int
    BY <1>0, <1>1, RemainingType
  <2>2. \A j \in G \ {i} : Remaining(t)[j] = Remaining(s)[j]
    BY <1>0, <1>1, RemainingType
  <2>3. SumFunctionOnSet(Remaining(t), G)
          = SumFunctionOnSet(Remaining(s), G) - Remaining(s)[i] + Remaining(t)[i]
    BY <1>0, <2>1, <2>2, SumChange
  <2>4. Remaining(s)[i] = s[i].remaining /\ Remaining(t)[i] = s[i].remaining - fill
        /\ s[i].remaining \in Nat /\ SumFunctionOnSet(Remaining(s), G) \in Nat
    BY <1>0, <1>1, RemainingType
  <2>5. level.total_qty = SumFunctionOnSet(Remaining(s), G)
    BY DEF IsList
  <2>6. SumFunctionOnSet(Remaining(t), G) \in Nat
    BY <1>0, <1>1, RemainingType
  <2> QED
    BY <2>3, <2>4, <2>5, <2>6
<1>4. /\ new.head_idx = level.head_idx /\ new.tail_idx = level.tail_idx
      /\ new.order_count = n /\ new.total_qty = level.total_qty - fill
      /\ level.total_qty - fill \in Nat => new \in Level
  BY <1>0 DEF Level
<1> HIDE DEF t, new, n
<1>5. new \in Level
  BY <1>3, <1>4
<1>6. IsList(t, new, G, w)
  BY <1>0, <1>2, <1>3, <1>4, <1>5, SMTT(40) DEF IsList, n
<1> QED
  BY <1>6 DEF t, new

-----------------------------------------------------------------------------
(* One side of the ladder.                                                  *)

Overflows == UNION {[D -> Level] : D \in SUBSET Int}

OneSide == [levels : [Offsets -> Level], overflow : Overflows,
            best_offset : Offsets \union {kNullIdx}, band_orders : Int]

LevelIn(one, price) ==
    IF in_band(price) THEN one.levels[price - low_price]
    ELSE IF price \in DOMAIN one.overflow THEN one.overflow[price]
         ELSE EmptyLevel

Counts(levels) == [o \in Offsets |-> levels[o].order_count]

(* The cursor is on the best level of the band, and the counter counts it.  *)
CursorIsTrue(side, one) ==
    /\ IF one.best_offset = kNullIdx THEN \A o \in Offsets : IsEmpty(one.levels[o])
       ELSE /\ ~IsEmpty(one.levels[one.best_offset])
            /\ \A o \in Offsets : IsBetter(side, o, one.best_offset) => IsEmpty(one.levels[o])
    /\ one.band_orders = SumFunctionOnSet(Counts(one.levels), Offsets)
    /\ \A p \in DOMAIN one.overflow : ~in_band(p) /\ ~IsEmpty(one.overflow[p])

(* What a list makes of a level: an empty one is the fresh one.             *)
Tidy(level) ==
    /\ level \in Level
    /\ IsEmpty(level) <=> level.order_count = 0
    /\ IsEmpty(level) => level = EmptyLevel

LEMMA ListIsTidy ==
    ASSUME NEW s, NEW level, NEW G, NEW w, IsList(s, level, G, w)
    PROVE  Tidy(level) /\ (IsEmpty(level) <=> G = {})
<1> DEFINE n == level.order_count
<1>0. /\ n \in Nat /\ w \in [1 .. n -> Index] /\ level \in Level
  BY LevelFacts DEF IsList
<1>1. CASE n = 0
  <2>1. IsEmpty(level) /\ G = {} /\ level.tail_idx = kNullIdx
    BY <1>1 DEF IsEmpty, IsList
  <2>2. level.total_qty = 0
    BY <2>1, SumEmpty DEF IsList
  <2>3. level = EmptyLevel
    BY <1>0, <1>1, <2>1, <2>2, LevelFacts DEF EmptyLevel, IsEmpty
  <2> QED
    BY <1>0, <1>1, <2>1, <2>3 DEF Tidy
<1>2. CASE n # 0
  <2>1. 1 \in 1 .. n
    BY <1>0, <1>2
  <2>2. w[1] \in G /\ level.head_idx = w[1]
    BY <1>0, <1>2, <2>1 DEF IsList
  <2>3. ~IsEmpty(level)
    BY <1>0, <2>1, <2>2, IndexFacts DEF IsEmpty
  <2> QED
    BY <1>0, <1>2, <2>2, <2>3 DEF Tidy
<1> QED
  BY <1>1, <1>2

LEMMA LadderFacts ==
    /\ low_price \in Int
    /\ Offsets \subseteq Nat /\ IsFiniteSet(Offsets)
    /\ kNullIdx \notin Offsets /\ kOverflowIdx \notin Offsets
    /\ EmptyLevel \in Level
    /\ IsEmpty(EmptyLevel)
    /\ \A p \in Int : in_band(p) <=> p - low_price \in Offsets
    /\ \A o \in Offsets : low_price + o \in Int /\ in_band(low_price + o)
                          /\ low_price + o - low_price = o
    /\ \A p, q \in Int : p - low_price = q - low_price => p = q
<1>1. low_price \in Int
  BY DEF low_price
<1>2. Offsets \subseteq Nat /\ kNullIdx \notin Offsets /\ kOverflowIdx \notin Offsets
  BY DEF Offsets, kNullIdx, kOverflowIdx
<1>3. IsFiniteSet(Offsets)
  BY FS_Interval DEF Offsets
<1>4. EmptyLevel \in Level /\ IsEmpty(EmptyLevel)
  BY IndexFacts DEF EmptyLevel, Level, IsEmpty
<1>5. \A o \in Offsets : low_price + o \in Int /\ low_price + o - low_price = o
  BY <1>1, <1>2
<1>6. \A p, q \in Int : p - low_price = q - low_price => p = q
  BY <1>1
<1> QED
  BY <1>1, <1>2, <1>3, <1>4, <1>5, <1>6 DEF in_band

LEMMA OffsetsFinite == IsFiniteSet(Offsets)
BY LadderFacts

LEMMA OffsetsAreInt == low_price \in Int /\ \A o \in Offsets : o \in Int
BY LadderFacts

LEMMA SideFacts ==
    ASSUME NEW one \in OneSide
    PROVE  /\ one.levels \in [Offsets -> Level]
           /\ one.overflow \in Overflows
           /\ DOMAIN one.overflow \subseteq Int
           /\ \A p \in DOMAIN one.overflow : one.overflow[p] \in Level
           /\ one.overflow = [p \in DOMAIN one.overflow |-> one.overflow[p]]
           /\ one.best_offset \in Offsets \union {kNullIdx}
           /\ one.band_orders \in Int
           /\ one = [levels |-> one.levels, overflow |-> one.overflow,
                     best_offset |-> one.best_offset, band_orders |-> one.band_orders]
           /\ \A p \in Int : LevelIn(one, p) \in Level
<1>1. /\ one.levels \in [Offsets -> Level]
      /\ one.overflow \in Overflows
      /\ one.best_offset \in Offsets \union {kNullIdx}
      /\ one.band_orders \in Int
      /\ one = [levels |-> one.levels, overflow |-> one.overflow,
                     best_offset |-> one.best_offset, band_orders |-> one.band_orders]
  BY DEF OneSide
<1>2. PICK D \in SUBSET Int : one.overflow \in [D -> Level]
  BY <1>1 DEF Overflows
<1>3. ASSUME NEW p \in Int PROVE LevelIn(one, p) \in Level
  BY <1>1, <1>2, LadderFacts DEF LevelIn
<1> QED
  BY <1>1, <1>2, <1>3

(* `new' is the side `old' with `level' stored at `price'.                  *)
Stored(old, new, price, level) ==
    /\ new \in OneSide
    /\ new.best_offset = old.best_offset /\ new.band_orders = old.band_orders
    /\ new.levels = IF in_band(price) THEN [old.levels EXCEPT ![price - low_price] = level]
                    ELSE old.levels
    /\ DOMAIN new.overflow = IF in_band(price) THEN DOMAIN old.overflow
                             ELSE DOMAIN old.overflow \union {price}
    /\ \A p \in DOMAIN new.overflow :
          new.overflow[p] = IF ~in_band(price) /\ p = price THEN level ELSE old.overflow[p]
    /\ \A q \in Int : LevelIn(new, q) = IF q = price THEN level ELSE LevelIn(old, q)

LEMMA StoreEffect ==
    ASSUME NEW side, ladder[side] \in OneSide, NEW level \in Level, NEW price \in Int
    PROVE  Stored(ladder[side], StoreLevel(side, price, level), price, level)
<1> DEFINE old == ladder[side]
           new == StoreLevel(side, price, level)
<1>0. /\ old.levels \in [Offsets -> Level]
      /\ old.overflow \in Overflows
      /\ DOMAIN old.overflow \subseteq Int
      /\ \A p \in DOMAIN old.overflow : old.overflow[p] \in Level
      /\ old.best_offset \in Offsets \union {kNullIdx}
      /\ old.band_orders \in Int
      /\ old = [levels |-> old.levels, overflow |-> old.overflow,
                best_offset |-> old.best_offset, band_orders |-> old.band_orders]
  BY SideFacts
<1>1. CASE in_band(price)
  <2>1. price - low_price \in Offsets
    BY <1>1, LadderFacts
  <2> DEFINE L == [old.levels EXCEPT ![price - low_price] = level]
  <2>2. L \in [Offsets -> Level]
    BY <1>0, <2>1
  <2>3. new = [old EXCEPT !.levels = L]
    BY <1>1 DEF StoreLevel
  <2> HIDE DEF L, old, new
  <2>4. /\ new = [levels |-> L, overflow |-> old.overflow,
                best_offset |-> old.best_offset, band_orders |-> old.band_orders]
        /\ new.levels = L /\ new.overflow = old.overflow
        /\ new.best_offset = old.best_offset /\ new.band_orders = old.band_orders
    BY <1>0, <2>3
  <2>5. new \in OneSide
    BY <1>0, <2>2, <2>4 DEF OneSide
  <2>6. \A q \in Int : LevelIn(new, q) = IF q = price THEN level ELSE LevelIn(old, q)
    BY <1>0, <1>1, <2>1, <2>4, LadderFacts DEF LevelIn, L
  <2> QED
    BY <1>1, <2>4, <2>5, <2>6 DEF L, old, new, Stored
<1>2. CASE ~in_band(price)
  <2> DEFINE D == DOMAIN old.overflow \union {price}
             O == [p \in D |-> IF p = price THEN level ELSE old.overflow[p]]
  <2>1. O \in [D -> Level] /\ D \in SUBSET Int /\ DOMAIN O = D
        /\ \A p \in D : O[p] = IF p = price THEN level ELSE old.overflow[p]
    BY <1>0
  <2>2. O \in Overflows
    BY <2>1 DEF Overflows
  <2>3. new = [old EXCEPT !.overflow = O]
    BY <1>2 DEF StoreLevel
  <2> HIDE DEF O, old, new
  <2>4. /\ new = [levels |-> old.levels, overflow |-> O,
                best_offset |-> old.best_offset, band_orders |-> old.band_orders]
        /\ new.levels = old.levels /\ new.overflow = O
        /\ new.best_offset = old.best_offset /\ new.band_orders = old.band_orders
    BY <1>0, <2>3
  <2>5. new \in OneSide
    BY <1>0, <2>2, <2>4 DEF OneSide
  <2>6. \A q \in Int : LevelIn(new, q) = IF q = price THEN level ELSE LevelIn(old, q)
    BY <1>0, <1>2, <2>1, <2>4, LadderFacts DEF LevelIn
  <2> QED
    BY <1>2, <2>1, <2>4, <2>5, <2>6 DEF old, new, Stored
<1> QED
  BY <1>1, <1>2

LEMMA BetterFacts ==
    \A side \in Sides : \A a, b, c \in Int :
        /\ ~IsBetter(side, a, a)
        /\ IsBetter(side, a, b) /\ IsBetter(side, b, c) => IsBetter(side, a, c)
        /\ IsBetter(side, a, b) => ~IsBetter(side, b, a)
        /\ a = b \/ IsBetter(side, a, b) \/ IsBetter(side, b, a)
BY DEF IsBetter

(* A finite set of integers has a best element.                             *)
LEMMA BestExists ==
    ASSUME NEW S, IsFiniteSet(S), S \subseteq Int, S # {}, NEW side \in Sides
    PROVE  /\ Best(side, S) \in S
           /\ \A x \in S : ~IsBetter(side, x, Best(side, S))
<1> DEFINE T == {X \in SUBSET S : X # {} =>
                    /\ \E x \in X : \A y \in X : x >= y
                    /\ \E x \in X : \A y \in X : x =< y}
<1>1. {} \in T
  OBVIOUS
<1>2. ASSUME NEW X \in SUBSET S, X \in T, NEW z \in S \ X
      PROVE  X \union {z} \in T
  <2>1. CASE X = {}
    BY <2>1
  <2>2. CASE X # {}
    <3>1. PICK hi \in X : \A y \in X : hi >= y
      BY <1>2, <2>2
    <3>2. PICK lo \in X : \A y \in X : lo =< y
      BY <1>2, <2>2
    <3>3. hi \in Int /\ lo \in Int /\ z \in Int /\ \A y \in X : y \in Int
      OBVIOUS
    <3>4. \E x \in X \union {z} : \A y \in X \union {z} : x >= y
      <4>1. CASE hi >= z
        BY <3>1, <4>1
      <4>2. CASE ~(hi >= z)
        <5>1. \A y \in X \union {z} : z >= y
          BY <3>1, <3>3, <4>2
        <5> QED
          BY <5>1
      <4> QED
        BY <4>1, <4>2
    <3>5. \E x \in X \union {z} : \A y \in X \union {z} : x =< y
      <4>1. CASE lo =< z
        BY <3>2, <4>1
      <4>2. CASE ~(lo =< z)
        <5>1. \A y \in X \union {z} : z =< y
          BY <3>2, <3>3, <4>2
        <5> QED
          BY <5>1
      <4> QED
        BY <4>1, <4>2
    <3> QED
      BY <3>4, <3>5
  <2> QED
    BY <2>1, <2>2
<1> HIDE DEF T
<1>3. SUBSET S \subseteq T
  BY <1>1, <1>2, SubsetInduction
<1>4. /\ \E x \in S : \A y \in S : x >= y
      /\ \E x \in S : \A y \in S : x =< y
  BY <1>3 DEF T
<1>5. /\ Max(S) \in S /\ \A y \in S : Max(S) >= y
      /\ Min(S) \in S /\ \A y \in S : Min(S) =< y
  BY <1>4 DEF Max, Min
<1> QED
  <2>1. CASE side = kBuy
    <3>1. Best(side, S) = Max(S) /\ \A x \in S : x \in Int /\ Max(S) \in Int
      BY <1>5, <2>1 DEF Best
    <3> QED
      BY <1>5, <2>1, <3>1 DEF IsBetter
  <2>2. CASE side # kBuy
    <3>1. Best(side, S) = Min(S) /\ \A x \in S : x \in Int /\ Min(S) \in Int
      BY <1>5, <2>2 DEF Best
    <3> QED
      BY <1>5, <2>2, <3>1 DEF IsBetter
  <2> QED
    BY <2>1, <2>2

(* ... and only one.                                                        *)
LEMMA BestIs ==
    ASSUME NEW S, S \subseteq Int, NEW side \in Sides,
           NEW x \in S, \A y \in S : ~IsBetter(side, y, x)
    PROVE  Best(side, S) = x
<1>1. CASE side = kBuy
  <2>1. \A y \in S : x >= y
    BY <1>1 DEF IsBetter
  <2>2. Max(S) \in S /\ \A y \in S : Max(S) >= y
    BY <2>1 DEF Max
  <2>3. Max(S) = x
    <3>1. Max(S) \in Int /\ x \in Int /\ x >= Max(S) /\ Max(S) >= x
      BY <2>1, <2>2
    <3> QED
      BY <3>1
  <2> QED
    BY <1>1, <2>3 DEF Best
<1>2. CASE side # kBuy
  <2>1. \A y \in S : x =< y
    BY <1>2 DEF IsBetter
  <2>2. Min(S) \in S /\ \A y \in S : Min(S) =< y
    BY <2>1 DEF Min
  <2>3. Min(S) = x
    <3>1. Min(S) \in Int /\ x \in Int /\ x =< Min(S) /\ Min(S) =< x
      BY <2>1, <2>2
    <3> QED
      BY <3>1
  <2> QED
    BY <1>2, <2>3 DEF Best
<1> QED
  BY <1>1, <1>2

LEMMA BandLevel ==
    ASSUME NEW one \in OneSide, NEW o \in Offsets
    PROVE  LevelIn(one, low_price + o) = one.levels[o] /\ one.levels[o] \in Level
<1>1. PICK p : p = low_price + o
  OBVIOUS
<1>2. in_band(p) /\ p - low_price = o
  BY <1>1, LadderFacts
<1>3. one.levels \in [Offsets -> Level]
  BY SideFacts
<1>4. LevelIn(one, p) = one.levels[o]
  BY <1>2 DEF LevelIn
<1> QED
  BY <1>1, <1>3, <1>4

LEMMA CountsFacts ==
    ASSUME NEW levels \in [Offsets -> Level]
    PROVE  /\ \A o \in Offsets : Counts(levels)[o] = levels[o].order_count
                                 /\ Counts(levels)[o] \in Nat /\ Counts(levels)[o] \in Int
           /\ SumFunctionOnSet(Counts(levels), Offsets) \in Nat
           /\ \A o \in Offsets : levels[o].order_count <= SumFunctionOnSet(Counts(levels), Offsets)
<1>1. \A o \in Offsets : Counts(levels)[o] = levels[o].order_count /\ Counts(levels)[o] \in Nat
  BY LevelFacts DEF Counts
<1>2. /\ SumFunctionOnSet(Counts(levels), Offsets) \in Nat
      /\ \A o \in Offsets : Counts(levels)[o] <= SumFunctionOnSet(Counts(levels), Offsets)
  BY <1>1, OffsetsFinite, SumNat
<1> QED
  BY <1>1, <1>2

(* The counter after the level of one offset has changed.                   *)
LEMMA CountsChange ==
    ASSUME NEW levels \in [Offsets -> Level], NEW o \in Offsets, NEW level \in Level
    PROVE  SumFunctionOnSet(Counts([levels EXCEPT ![o] = level]), Offsets)
             = SumFunctionOnSet(Counts(levels), Offsets) - levels[o].order_count + level.order_count
<1> DEFINE new == [levels EXCEPT ![o] = level]
<1>1. new \in [Offsets -> Level] /\ new[o] = level /\ \A p \in Offsets \ {o} : new[p] = levels[p]
  OBVIOUS
<1> HIDE DEF new
<1>2. Counts(levels)[o] = levels[o].order_count /\ Counts(new)[o] = level.order_count
  BY <1>1, CountsFacts
<1>4. \A p \in Offsets : Counts(levels)[p] \in Int /\ Counts(new)[p] \in Int
  BY <1>1, CountsFacts
<1>5. \A p \in Offsets \ {o} : Counts(new)[p] = Counts(levels)[p]
  BY <1>1, CountsFacts
<1>3. SumFunctionOnSet(Counts(new), Offsets)
        = SumFunctionOnSet(Counts(levels), Offsets) - Counts(levels)[o] + Counts(new)[o]
  BY <1>4, <1>5, OffsetsFinite, SumChange
<1> QED
  BY <1>2, <1>3 DEF new

(* push_order on its side of the ladder.                                    *)
LEMMA PushEffect ==
    ASSUME NEW s \in [Index -> Order], NEW i \in Index, NEW side \in Sides, NEW price \in Int,
           s[i].side = side, s[i].price_ticks = price,
           ladder[side] \in OneSide, CursorIsTrue(side, ladder[side]),
           NEW level, level = LevelWith(s, LevelAt(side, price), i),
           level \in Level, ~IsEmpty(level)
    PROVE  /\ PushedLadder(s, i) \in OneSide
           /\ CursorIsTrue(side, PushedLadder(s, i))
           /\ \A q \in Int : LevelIn(PushedLadder(s, i), q)
                               = IF q = price THEN level ELSE LevelIn(ladder[side], q)
<1> DEFINE old == ladder[side]
           stored == StoreLevel(side, price, level)
           best == stored.best_offset
           offset == price - low_price
           cursor == IF best = kNullIdx \/ IsBetter(side, offset, best) THEN offset ELSE best
           new == PushedLadder(s, i)
<1>0. new = IF in_band(price)
            THEN [stored EXCEPT !.band_orders = @ + 1, !.best_offset = cursor]
            ELSE stored
  BY DEF PushedLadder
<1>1. /\ stored \in OneSide
      /\ stored.best_offset = old.best_offset /\ stored.band_orders = old.band_orders
      /\ stored.levels = IF in_band(price)
                         THEN [old.levels EXCEPT ![offset] = level]
                         ELSE old.levels
      /\ DOMAIN stored.overflow = IF in_band(price) THEN DOMAIN old.overflow
                                  ELSE DOMAIN old.overflow \union {price}
      /\ \A p \in DOMAIN stored.overflow :
               stored.overflow[p] = IF ~in_band(price) /\ p = price THEN level
                                    ELSE old.overflow[p]
      /\ \A q \in Int : LevelIn(stored, q) = IF q = price THEN level ELSE LevelIn(old, q)
  <2>1. Stored(old, stored, price, level)
    BY StoreEffect
  <2> HIDE DEF old, stored
  <2> QED
    BY <2>1 DEF Stored
<1>2. /\ old.levels \in [Offsets -> Level] /\ old.best_offset \in Offsets \union {kNullIdx}
      /\ old.band_orders \in Int
  BY SideFacts
<1>3. CursorIsTrue(side, old)
  OBVIOUS
<1> HIDE DEF old, stored, new
<1>4. CASE ~in_band(price)
  <2>1. new = stored
    BY <1>0, <1>4
  <2>2. CursorIsTrue(side, stored)
    BY <1>1, <1>3, <1>4 DEF CursorIsTrue
  <2> QED
    BY <1>1, <2>1, <2>2 DEF new, old
<1>5. CASE in_band(price)
  <2>1. offset \in Offsets
    BY <1>5, LadderFacts
  <2>2. cursor \in Offsets
    BY <1>1, <1>2, <2>1
  <2>3. stored = [levels |-> stored.levels, overflow |-> stored.overflow,
                  best_offset |-> stored.best_offset, band_orders |-> stored.band_orders]
    BY <1>1, SideFacts
  <2>4. new = [stored EXCEPT !.band_orders = @ + 1, !.best_offset = cursor]
    BY <1>0, <1>5
  <2> DEFINE c == cursor
  <2>5. c = cursor
    OBVIOUS
  <2> HIDE DEF cursor, c
  <2>6. /\ new.levels = stored.levels /\ new.overflow = stored.overflow
        /\ new.best_offset = c /\ new.band_orders = stored.band_orders + 1
        /\ new = [levels |-> stored.levels, overflow |-> stored.overflow,
                  best_offset |-> c, band_orders |-> stored.band_orders + 1]
    BY <2>3, <2>4, <2>5
  <2>7. new \in OneSide
    <3>1. stored.levels \in [Offsets -> Level] /\ stored.overflow \in Overflows
          /\ stored.band_orders + 1 \in Int
      <4>1. stored.levels \in [Offsets -> Level] /\ stored.overflow \in Overflows
            /\ stored.band_orders \in Int
        BY <1>1, SideFacts
      <4> QED
        BY <4>1
    <3> QED
      BY <2>2, <2>5, <2>6, <3>1 DEF OneSide
  <2>8. \A q \in Int : LevelIn(new, q) = LevelIn(stored, q)
    BY <2>6 DEF LevelIn
  <2>9. stored.levels = [old.levels EXCEPT ![offset] = level]
    BY <1>1, <1>5
  <2>10. /\ stored.levels[offset] = level
         /\ \A o \in Offsets \ {offset} : stored.levels[o] = old.levels[o]
    BY <1>2, <2>1, <2>9
  <2>11. SumFunctionOnSet(Counts(new.levels), Offsets) = new.band_orders
    <3>1. SumFunctionOnSet(Counts(stored.levels), Offsets)
            = SumFunctionOnSet(Counts(old.levels), Offsets)
                - old.levels[offset].order_count + level.order_count
      BY <1>2, <2>1, <2>9, CountsChange
    <3>2. level.order_count = old.levels[offset].order_count + 1
      BY <1>5 DEF LevelWith, LevelAt, old
    <3>3. old.levels[offset].order_count \in Nat
      BY <1>2, <2>1, LevelFacts
    <3>4. old.band_orders = SumFunctionOnSet(Counts(old.levels), Offsets)
      BY <1>3 DEF CursorIsTrue
    <3> QED
      BY <1>1, <1>2, <2>6, <3>1, <3>2, <3>3, <3>4
  <2>12. ~IsEmpty(new.levels[c]) /\ c # kNullIdx
    <3>1. c # kNullIdx
      BY <2>2, <2>5, LadderFacts
    <3>2. CASE c = offset
      BY <2>6, <2>10, <3>1, <3>2
    <3>3. CASE c # offset
      <4>1. c = old.best_offset /\ old.best_offset # kNullIdx
        BY <1>1, <2>5, <3>3 DEF cursor
      <4>2. ~IsEmpty(old.levels[c])
        BY <1>3, <4>1 DEF CursorIsTrue
      <4> QED
        BY <2>2, <2>5, <2>6, <2>10, <3>1, <3>3, <4>2
    <3> QED
      BY <3>2, <3>3
  <2>13. ASSUME NEW o \in Offsets, IsBetter(side, o, c)
         PROVE  IsEmpty(new.levels[o])
    <3>0. o \in Int /\ c \in Int /\ offset \in Int
      BY <2>1, <2>2, <2>5, LadderFacts
    <3>1. o # offset /\ (old.best_offset = kNullIdx \/ IsBetter(side, o, old.best_offset))
      <4>1. CASE c = offset
        <5>1. o # offset
          BY <2>13, <3>0, <4>1, BetterFacts
        <5>2. CASE old.best_offset = kNullIdx
          BY <5>1, <5>2
        <5>3. CASE old.best_offset # kNullIdx
          <6>1. old.best_offset \in Int
            BY <1>2, <5>3, LadderFacts
          <6>2. c = old.best_offset \/ IsBetter(side, c, old.best_offset)
            BY <1>1, <2>5, <5>3, <4>1 DEF cursor
          <6> QED
            BY <2>13, <3>0, <5>1, <6>1, <6>2, BetterFacts
        <5> QED
          BY <5>2, <5>3
      <4>2. CASE c # offset
        <5>1. c = old.best_offset /\ ~IsBetter(side, offset, c)
          BY <1>1, <2>5, <4>2 DEF cursor
        <5> QED
          BY <2>13, <5>1
      <4> QED
        BY <4>1, <4>2
    <3>2. IsEmpty(old.levels[o])
      BY <1>3, <3>1 DEF CursorIsTrue
    <3> QED
      BY <2>6, <2>10, <3>1, <3>2
  <2>14. \A p \in DOMAIN new.overflow : ~in_band(p) /\ ~IsEmpty(new.overflow[p])
    BY <1>1, <1>3, <1>5, <2>6 DEF CursorIsTrue
  <2>15. CursorIsTrue(side, new)
    BY <2>6, <2>11, <2>12, <2>13, <2>14 DEF CursorIsTrue
  <2> QED
    BY <1>1, <2>7, <2>8, <2>15 DEF new, old
<1> QED
  BY <1>4, <1>5

(* A level that changes without becoming empty or changing its count.       *)
LEMMA StoreKeepsCursor ==
    ASSUME NEW side \in Sides, NEW price \in Int, NEW level \in Level,
           ladder[side] \in OneSide, CursorIsTrue(side, ladder[side]),
           ~IsEmpty(level), ~IsEmpty(LevelAt(side, price)),
           level.order_count = LevelAt(side, price).order_count
    PROVE  CursorIsTrue(side, StoreLevel(side, price, level))
<1> DEFINE old == ladder[side]
           new == StoreLevel(side, price, level)
           offset == price - low_price
<1>1. /\ new.best_offset = old.best_offset /\ new.band_orders = old.band_orders
      /\ new.levels = IF in_band(price)
                      THEN [old.levels EXCEPT ![offset] = level]
                      ELSE old.levels
      /\ DOMAIN new.overflow = IF in_band(price) THEN DOMAIN old.overflow
                               ELSE DOMAIN old.overflow \union {price}
      /\ \A p \in DOMAIN new.overflow :
               new.overflow[p] = IF ~in_band(price) /\ p = price THEN level
                                 ELSE old.overflow[p]
  <2>1. Stored(old, new, price, level)
    BY StoreEffect
  <2> HIDE DEF old, new
  <2> QED
    BY <2>1 DEF Stored
<1>2. /\ old.levels \in [Offsets -> Level] /\ old.best_offset \in Offsets \union {kNullIdx}
      /\ old.band_orders \in Int
  BY SideFacts
<1>3. CursorIsTrue(side, old)
  OBVIOUS
<1>4. in_band(price) => ~IsEmpty(old.levels[offset])
                        /\ level.order_count = old.levels[offset].order_count
  BY DEF LevelAt
<1> HIDE DEF old, new
<1>5. CASE ~in_band(price)
  BY <1>1, <1>3, <1>5 DEF CursorIsTrue, new
<1>6. CASE in_band(price)
  <2>1. offset \in Offsets /\ new.levels = [old.levels EXCEPT ![offset] = level]
    BY <1>1, <1>6, LadderFacts
  <2>2. \A o \in Offsets : IsEmpty(new.levels[o]) <=> IsEmpty(old.levels[o])
    BY <1>2, <1>4, <1>6, <2>1
  <2>3. SumFunctionOnSet(Counts(new.levels), Offsets) = new.band_orders
    <3>1. SumFunctionOnSet(Counts(new.levels), Offsets)
            = SumFunctionOnSet(Counts(old.levels), Offsets)
                - old.levels[offset].order_count + level.order_count
      BY <1>2, <2>1, CountsChange
    <3>2. old.levels[offset].order_count \in Nat
      BY <1>2, <2>1, LevelFacts
    <3>3. old.band_orders = SumFunctionOnSet(Counts(old.levels), Offsets)
      BY <1>3 DEF CursorIsTrue
    <3> QED
      BY <1>1, <1>2, <1>4, <1>6, <3>1, <3>2, <3>3
  <2> QED
    BY <1>1, <1>2, <1>3, <1>6, <2>2, <2>3 DEF CursorIsTrue, new
<1> QED
  BY <1>5, <1>6

(* AdvanceBest finds what is best once `from' is empty.                     *)
LEMMA AdvanceFinds ==
    ASSUME NEW side \in Sides, NEW levels \in [Offsets -> Level], NEW from \in Offsets,
           IsEmpty(levels[from]),
           \A o \in Offsets : IsBetter(side, o, from) => IsEmpty(levels[o])
    PROVE  LET best == AdvancedBest(side, levels, from) IN
           /\ best \in Offsets \union {kNullIdx}
           /\ IF best = kNullIdx THEN \A o \in Offsets : IsEmpty(levels[o])
              ELSE /\ ~IsEmpty(levels[best])
                   /\ \A o \in Offsets : IsBetter(side, o, best) => IsEmpty(levels[o])
<1> DEFINE worse == {o \in Offsets : IsBetter(side, from, o) /\ ~IsEmpty(levels[o])}
           best == AdvancedBest(side, levels, from)
<1>0. best = IF worse = {} THEN kNullIdx ELSE Best(side, worse)
  BY DEF AdvancedBest
<1>1. worse \in SUBSET Offsets /\ IsFiniteSet(worse) /\ worse \subseteq Int
  <2>1. worse \in SUBSET Offsets
    OBVIOUS
  <2>2. IsFiniteSet(worse)
    BY <2>1, OffsetsFinite, FS_Subset
  <2>3. Offsets \subseteq Int
    BY LadderFacts
  <2> HIDE DEF worse
  <2> QED
    BY <2>1, <2>2, <2>3
<1>2. ASSUME NEW o \in Offsets, ~IsEmpty(levels[o]) PROVE o \in worse
  BY <1>2, LadderFacts, BetterFacts
<1> HIDE DEF best
<1>3. CASE worse = {}
  BY <1>0, <1>2, <1>3 DEF best
<1>4. CASE worse # {}
  <2>1. Best(side, worse) \in worse /\ \A x \in worse : ~IsBetter(side, x, Best(side, worse))
    BY <1>1, <1>4, BestExists
  <2>2. best = Best(side, worse)
    BY <1>0, <1>4
  <2>3. best \in Offsets /\ best # kNullIdx /\ ~IsEmpty(levels[best])
    BY <2>1, <2>2, LadderFacts
  <2>4. \A o \in Offsets : IsBetter(side, o, best) => IsEmpty(levels[o])
    BY <1>2, <2>1, <2>2
  <2> QED
    BY <2>3, <2>4 DEF best
<1> QED
  BY <1>3, <1>4

(* remove_order on its side of the ladder.                                  *)
LEMMA RemoveEffect ==
    ASSUME NEW s \in [Index -> Order], NEW i \in Index, NEW side \in Sides, NEW price \in Int,
           s[i].side = side, s[i].price_ticks = price,
           s[i].level_idx = PushedLevelIdx(price),
           ladder[side] \in OneSide, CursorIsTrue(side, ladder[side]),
           \A q \in Int : Tidy(LevelIn(ladder[side], q)),
           ~IsEmpty(LevelAt(side, price)),
           NEW level, level = LevelWithout(s, LevelAt(side, price), i),
           Tidy(level)
    PROVE  /\ RemovedLadder(s, i) \in OneSide
           /\ CursorIsTrue(side, RemovedLadder(s, i))
           /\ \A q \in Int : LevelIn(RemovedLadder(s, i), q)
                               = IF q = price THEN level ELSE LevelIn(ladder[side], q)
<1> DEFINE old == ladder[side]
           stored == StoreLevel(side, price, level)
           offset == price - low_price
           band == stored.band_orders - 1
           cursor == IF ~IsEmpty(level) \/ offset # stored.best_offset THEN stored.best_offset
                     ELSE IF band = 0 THEN kNullIdx
                     ELSE AdvancedBest(side, stored.levels, offset)
           new == RemovedLadder(s, i)
<1>a. LevelPrice(s[i]) = price
  <2>1. CASE in_band(price)
    <3>1. s[i].level_idx = price - low_price /\ price - low_price \in Offsets
      BY <2>1, LadderFacts DEF PushedLevelIdx
    <3>2. s[i].level_idx # kOverflowIdx /\ low_price + (price - low_price) = price
      BY <3>1, LadderFacts
    <3> QED
      BY <3>1, <3>2 DEF LevelPrice
  <2>2. CASE ~in_band(price)
    BY <2>2 DEF PushedLevelIdx, LevelPrice
  <2> QED
    BY <2>1, <2>2
<1>b. s[i].level_idx = IF in_band(price) THEN offset ELSE kOverflowIdx
  BY DEF PushedLevelIdx
<1>c. in_band(price) => offset \in Offsets /\ offset # kOverflowIdx
  BY LadderFacts
<1>0. new = IF ~in_band(price)
            THEN IF IsEmpty(level)
                 THEN [stored EXCEPT !.overflow = [p \in DOMAIN @ \ {price} |-> @[p]]]
                 ELSE stored
            ELSE [stored EXCEPT !.band_orders = band, !.best_offset = cursor]
  BY <1>a, <1>b, <1>c DEF RemovedLadder
<1>1. /\ stored \in OneSide
      /\ stored.best_offset = old.best_offset /\ stored.band_orders = old.band_orders
      /\ stored.levels = IF in_band(price)
                         THEN [old.levels EXCEPT ![offset] = level]
                         ELSE old.levels
      /\ DOMAIN stored.overflow = IF in_band(price) THEN DOMAIN old.overflow
                                  ELSE DOMAIN old.overflow \union {price}
      /\ \A p \in DOMAIN stored.overflow :
               stored.overflow[p] = IF ~in_band(price) /\ p = price THEN level
                                    ELSE old.overflow[p]
      /\ \A q \in Int : LevelIn(stored, q) = IF q = price THEN level ELSE LevelIn(old, q)
  <2>0. level \in Level
    BY DEF Tidy
  <2>1. Stored(old, stored, price, level)
    BY <2>0, StoreEffect
  <2> HIDE DEF old, stored
  <2> QED
    BY <2>1 DEF Stored
<1>2. /\ old.levels \in [Offsets -> Level] /\ old.best_offset \in Offsets \union {kNullIdx}
      /\ old.band_orders \in Int
  BY SideFacts
<1>3. CursorIsTrue(side, old)
  OBVIOUS
<1>4. /\ stored.levels \in [Offsets -> Level] /\ stored.overflow \in Overflows
      /\ DOMAIN stored.overflow \subseteq Int
      /\ \A p \in DOMAIN stored.overflow : stored.overflow[p] \in Level
      /\ stored.band_orders \in Int
      /\ stored = [levels |-> stored.levels, overflow |-> stored.overflow,
                   best_offset |-> stored.best_offset, band_orders |-> stored.band_orders]
  BY <1>1, SideFacts
<1>5. level \in Level /\ (IsEmpty(level) => level = EmptyLevel)
  BY DEF Tidy
<1> HIDE DEF old, stored, new
<1>6. CASE ~in_band(price) /\ ~IsEmpty(level)
  <2>1. new = stored
    BY <1>0, <1>6
  <2>2. CursorIsTrue(side, stored)
    BY <1>1, <1>3, <1>6 DEF CursorIsTrue
  <2> QED
    BY <1>1, <2>1, <2>2 DEF new, old
<1>7. CASE ~in_band(price) /\ IsEmpty(level)
  <2> DEFINE D == DOMAIN stored.overflow \ {price}
             O == [p \in D |-> stored.overflow[p]]
  <2>1. D \in SUBSET Int /\ O \in [D -> Level] /\ DOMAIN O = D
        /\ \A p \in D : O[p] = stored.overflow[p]
    BY <1>4
  <2>2. O \in Overflows
    BY <2>1 DEF Overflows
  <2>3. new = [stored EXCEPT !.overflow = O]
    BY <1>0, <1>7
  <2> HIDE DEF O
  <2>4. /\ new = [levels |-> stored.levels, overflow |-> O,
                  best_offset |-> stored.best_offset, band_orders |-> stored.band_orders]
        /\ new.levels = stored.levels /\ new.overflow = O
        /\ new.best_offset = stored.best_offset /\ new.band_orders = stored.band_orders
    BY <1>4, <2>3
  <2>5. new \in OneSide
    BY <1>1, <1>2, <1>4, <2>2, <2>4 DEF OneSide
  <2>6. ASSUME NEW q \in Int
        PROVE  LevelIn(new, q) = IF q = price THEN level ELSE LevelIn(old, q)
    <3>1. LevelIn(stored, q) = IF q = price THEN level ELSE LevelIn(old, q)
      BY <1>1
    <3>2. CASE q = price
      BY <1>5, <1>7, <2>1, <2>4, <3>2 DEF LevelIn
    <3>3. CASE q # price
      BY <2>1, <2>4, <3>1, <3>3 DEF LevelIn
    <3> QED
      BY <3>2, <3>3
  <2>7. CursorIsTrue(side, new)
    BY <1>1, <1>3, <1>7, <2>1, <2>4 DEF CursorIsTrue
  <2> QED
    BY <2>5, <2>6, <2>7 DEF new, old
<1>8. CASE in_band(price)
  <2>0. offset \in Offsets /\ ~IsEmpty(old.levels[offset])
        /\ level.order_count = old.levels[offset].order_count - 1
    BY <1>8, <1>c DEF LevelAt, LevelWithout, old
  <2>1. stored.levels = [old.levels EXCEPT ![offset] = level]
    BY <1>1, <1>8
  <2>2. /\ stored.levels[offset] = level
        /\ \A o \in Offsets \ {offset} : stored.levels[o] = old.levels[o]
    BY <1>2, <2>0, <2>1
  <2>3. SumFunctionOnSet(Counts(stored.levels), Offsets) = band
    <3>1. SumFunctionOnSet(Counts(stored.levels), Offsets)
            = SumFunctionOnSet(Counts(old.levels), Offsets)
                - old.levels[offset].order_count + level.order_count
      BY <1>2, <1>5, <2>0, <2>1, CountsChange
    <3>2. old.levels[offset].order_count \in Nat
      BY <1>2, <2>0, LevelFacts
    <3>3. old.band_orders = SumFunctionOnSet(Counts(old.levels), Offsets)
      BY <1>3 DEF CursorIsTrue
    <3> QED
      BY <1>1, <1>2, <2>0, <3>1, <3>2, <3>3
  <2>4. \A o \in Offsets : Tidy(stored.levels[o])
    <3>1. \A o \in Offsets : Tidy(old.levels[o])
      <4> SUFFICES ASSUME NEW o \in Offsets PROVE Tidy(old.levels[o])
        OBVIOUS
      <4>1. LevelIn(ladder[side], low_price + o) = ladder[side].levels[o]
        BY BandLevel
      <4>2. low_price + o \in Int
        BY LadderFacts
      <4> QED
        BY <4>1, <4>2 DEF old
    <3> QED
      BY <2>2, <3>1
  <2>5. band = 0 => \A o \in Offsets : IsEmpty(stored.levels[o])
    <3> SUFFICES ASSUME band = 0, NEW o \in Offsets PROVE IsEmpty(stored.levels[o])
      OBVIOUS
    <3>1. stored.levels[o].order_count <= 0 /\ stored.levels[o].order_count \in Nat
      BY <1>4, <2>3, CountsFacts
    <3>2. stored.levels[o].order_count = 0
      BY <3>1
    <3> QED
      BY <2>4, <3>2 DEF Tidy
  <2>6. /\ old.best_offset # kNullIdx
        /\ ~IsEmpty(old.levels[old.best_offset])
        /\ \A o \in Offsets : IsBetter(side, o, old.best_offset) => IsEmpty(old.levels[o])
    BY <1>3, <2>0 DEF CursorIsTrue
  <2>7. /\ cursor \in Offsets \union {kNullIdx}
        /\ IF cursor = kNullIdx THEN \A o \in Offsets : IsEmpty(stored.levels[o])
           ELSE /\ ~IsEmpty(stored.levels[cursor])
                /\ \A o \in Offsets : IsBetter(side, o, cursor) => IsEmpty(stored.levels[o])
    <3>1. CASE ~IsEmpty(level)
      <4>1. cursor = old.best_offset
        BY <1>1, <3>1
      <4>2. \A o \in Offsets : IsEmpty(stored.levels[o]) <=> IsEmpty(old.levels[o])
        BY <2>0, <2>2, <3>1
      <4> HIDE DEF cursor
      <4> QED
        BY <1>2, <2>6, <4>1, <4>2
    <3>2. CASE IsEmpty(level) /\ offset # old.best_offset
      <4>1. cursor = old.best_offset
        BY <1>1, <3>2
      <4>2. \A o \in Offsets : IsEmpty(old.levels[o]) => IsEmpty(stored.levels[o])
        BY <2>0, <2>2, <3>2
      <4>3. stored.levels[old.best_offset] = old.levels[old.best_offset]
        BY <1>2, <2>2, <2>6, <3>2
      <4> HIDE DEF cursor
      <4> QED
        BY <1>2, <2>6, <4>1, <4>2, <4>3
    <3>3. CASE IsEmpty(level) /\ offset = old.best_offset /\ band = 0
      <4>1. cursor = kNullIdx
        BY <1>1, <3>3
      <4> QED
        BY <2>5, <3>3, <4>1
    <3>4. CASE IsEmpty(level) /\ offset = old.best_offset /\ band # 0
      <4>1. cursor = AdvancedBest(side, stored.levels, offset)
        BY <1>1, <3>4
      <4>2. IsEmpty(stored.levels[offset])
        BY <2>2, <3>4
      <4>3. \A o \in Offsets : IsBetter(side, o, offset) => IsEmpty(stored.levels[o])
        BY <2>2, <2>6, <3>4
      <4> HIDE DEF cursor
      <4> QED
        BY <1>4, <2>0, <4>1, <4>2, <4>3, AdvanceFinds
    <3> QED
      BY <3>1, <3>2, <3>3, <3>4
  <2>8. new = [stored EXCEPT !.band_orders = band, !.best_offset = cursor]
    BY <1>0, <1>8
  <2> DEFINE c == cursor
             b == band
  <2>9. c = cursor /\ b = band /\ b \in Int
    BY <1>4
  <2> HIDE DEF cursor, c, band, b
  <2>10. /\ new.levels = stored.levels /\ new.overflow = stored.overflow
         /\ new.best_offset = c /\ new.band_orders = b
         /\ new = [levels |-> stored.levels, overflow |-> stored.overflow,
                   best_offset |-> c, band_orders |-> b]
    BY <1>4, <2>8, <2>9
  <2>11. new \in OneSide
    BY <1>4, <2>7, <2>9, <2>10 DEF OneSide
  <2>12. \A q \in Int : LevelIn(new, q) = LevelIn(stored, q)
    BY <2>10 DEF LevelIn
  <2>13. \A p \in DOMAIN new.overflow : ~in_band(p) /\ ~IsEmpty(new.overflow[p])
    BY <1>1, <1>3, <1>8, <2>10 DEF CursorIsTrue
  <2>14. CursorIsTrue(side, new)
    BY <2>3, <2>7, <2>9, <2>10, <2>13 DEF CursorIsTrue
  <2> QED
    BY <1>1, <2>11, <2>12, <2>14 DEF new, old
<1> QED
  BY <1>6, <1>7, <1>8

-----------------------------------------------------------------------------
(* The book: the orders R rest in the levels of the ladder l, one list for  *)
(* each side and price, and nothing else does.                              *)
At(order, side, price) == order.side = side /\ order.price_ticks = price

Group(s, R, side, price) == {i \in R : At(s[i], side, price)}

Listed(s, one, R, side, price) ==
    \E w : IsList(s, LevelIn(one, price), Group(s, R, side, price), w)

Fits(order) ==
    /\ order.level_idx = PushedLevelIdx(order.price_ticks)
    /\ order.remaining \in 1 .. order.qty

Structure(s, l, R) ==
    /\ s \in [Index -> Order]
    /\ l \in [Sides -> OneSide]
    /\ R \in SUBSET Index
    /\ \A side \in Sides : CursorIsTrue(side, l[side])
    /\ \A side \in Sides : \A price \in Int : Listed(s, l[side], R, side, price)
    /\ \A i \in R : Fits(s[i])

LEMMA StructureType ==
    ASSUME NEW s, NEW l, NEW R, Structure(s, l, R)
    PROVE  /\ s \in [Index -> Order] /\ l \in [Sides -> OneSide] /\ R \in SUBSET Index
           /\ \A side \in Sides : l[side] \in OneSide /\ CursorIsTrue(side, l[side])
           /\ \A side \in Sides : \A price \in Int : Listed(s, l[side], R, side, price)
           /\ \A i \in R : Fits(s[i])
BY DEF Structure

(* From one book to another, every level keeps its orders in order.         *)
KeepsOrder(s, l, R, t, m, Q) ==
    \A side \in Sides : \A price \in Int : \E w, v :
        /\ IsList(s, LevelIn(l[side], price), Group(s, R, side, price), w)
        /\ IsList(t, LevelIn(m[side], price), Group(t, Q, side, price), v)
        /\ OrderKept(w, LevelIn(l[side], price).order_count,
                     v, LevelIn(m[side], price).order_count)

(* Slots outside R may change at will.                                      *)
LEMMA StructureFrame ==
    ASSUME NEW s, NEW l, NEW R, Structure(s, l, R),
           NEW t \in [Index -> Order], \A i \in R : t[i] = s[i]
    PROVE  Structure(t, l, R)
<1>0. s \in [Index -> Order] /\ l \in [Sides -> OneSide] /\ R \in SUBSET Index
  BY StructureType
<1>1. ASSUME NEW side \in Sides, NEW price \in Int
      PROVE  Listed(t, l[side], R, side, price)
  <2> DEFINE G == Group(s, R, side, price)
             level == LevelIn(l[side], price)
  <2>1. PICK w : IsList(s, level, G, w)
    BY StructureType DEF Listed
  <2>2. Group(t, R, side, price) = G
    BY DEF Group
  <2>3. SameInList(s, t, G)
    BY DEF SameInList, Group
  <2> HIDE DEF G, level
  <2>4. IsList(t, level, G, w)
    BY <1>0, <2>1, <2>3, ListFrame
  <2> QED
    BY <2>2, <2>4 DEF Listed, G, level
<1>2. \A i \in R : Fits(t[i])
  BY StructureType
<1> QED
  BY <1>0, <1>1, <1>2, StructureType DEF Structure

LEMMA FrameKeepsOrder ==
    ASSUME NEW s, NEW l, NEW R, Structure(s, l, R),
           NEW t \in [Index -> Order], \A i \in R : t[i] = s[i]
    PROVE  KeepsOrder(s, l, R, t, l, R)
<1> SUFFICES ASSUME NEW side \in Sides, NEW price \in Int
             PROVE  \E w, v :
                       /\ IsList(s, LevelIn(l[side], price), Group(s, R, side, price), w)
                       /\ IsList(t, LevelIn(l[side], price), Group(t, R, side, price), v)
                       /\ OrderKept(w, LevelIn(l[side], price).order_count,
                                    v, LevelIn(l[side], price).order_count)
  BY DEF KeepsOrder
<1> DEFINE G == Group(s, R, side, price)
           level == LevelIn(l[side], price)
<1>1. PICK w : IsList(s, level, G, w)
  BY StructureType DEF Listed
<1>2. Group(t, R, side, price) = G
  BY DEF Group
<1>3. SameInList(s, t, G)
  BY DEF SameInList, Group
<1> HIDE DEF G, level
<1>4. IsList(t, level, G, w)
  BY <1>1, <1>3, StructureType, ListFrame
<1>5. OrderKept(w, level.order_count, w, level.order_count)
  BY <1>1, LevelFacts, SameListKeepsOrder DEF IsList
<1> QED
  BY <1>1, <1>2, <1>4, <1>5 DEF G, level

(* The orders of a book that stay as they are may stand for each other.     *)
LEMMA KeepsOrderFrame ==
    ASSUME NEW s, NEW l, NEW R, NEW t, NEW m, NEW Q, KeepsOrder(s, l, R, t, m, Q),
           s \in [Index -> Order], t \in [Index -> Order],
           NEW a \in [Index -> Order], NEW b \in [Index -> Order],
           \A i \in R : a[i] = s[i], \A i \in Q : b[i] = t[i]
    PROVE  KeepsOrder(a, l, R, b, m, Q)
<1> SUFFICES ASSUME NEW side \in Sides, NEW price \in Int
             PROVE  \E w, v :
                       /\ IsList(a, LevelIn(l[side], price), Group(a, R, side, price), w)
                       /\ IsList(b, LevelIn(m[side], price), Group(b, Q, side, price), v)
                       /\ OrderKept(w, LevelIn(l[side], price).order_count,
                                    v, LevelIn(m[side], price).order_count)
  BY DEF KeepsOrder
<1> DEFINE G == Group(s, R, side, price)
           H == Group(t, Q, side, price)
           old == LevelIn(l[side], price)
           new == LevelIn(m[side], price)
<1>1. PICK w, v : /\ IsList(s, old, G, w) /\ IsList(t, new, H, v)
                  /\ OrderKept(w, old.order_count, v, new.order_count)
  BY DEF KeepsOrder
<1>2. Group(a, R, side, price) = G /\ Group(b, Q, side, price) = H
  BY DEF Group
<1>3. SameInList(s, a, G) /\ SameInList(t, b, H)
  BY DEF SameInList, Group
<1> HIDE DEF G, H, old, new
<1>4. IsList(a, old, G, w)
  BY <1>1, <1>3, ListFrame
<1>5. IsList(b, new, H, v)
  BY <1>1, <1>3, ListFrame
<1> QED
  BY <1>1, <1>2, <1>4, <1>5 DEF G, H, old, new

(* One level changes, with the orders in it.                                *)
LEMMA LevelChanges ==
    ASSUME NEW s, NEW R, Structure(s, ladder, R),
           NEW t \in [Index -> Order], NEW Q \in SUBSET Index,
           NEW side \in Sides, NEW price \in Int, NEW level,
           NEW one \in OneSide, CursorIsTrue(side, one),
           \A q \in Int : LevelIn(one, q) = IF q = price THEN level ELSE LevelIn(ladder[side], q),
           NEW w, IsList(s, LevelIn(ladder[side], price), Group(s, R, side, price), w),
           NEW v, IsList(t, level, Group(t, Q, side, price), v),
           OrderKept(w, LevelIn(ladder[side], price).order_count, v, level.order_count),
           \A j \in Index : At(t[j], side, price) <=> At(s[j], side, price),
           \A j \in Index : ~At(s[j], side, price) => (j \in Q <=> j \in R),
           \A j \in R : ~At(s[j], side, price) =>
                /\ t[j].side = s[j].side /\ t[j].price_ticks = s[j].price_ticks
                /\ t[j].prev_idx = s[j].prev_idx /\ t[j].next_idx = s[j].next_idx
                /\ t[j].remaining = s[j].remaining,
           \A j \in Q : Fits(t[j])
    PROVE  /\ Structure(t, [ladder EXCEPT ![side] = one], Q)
           /\ KeepsOrder(s, ladder, R, t, [ladder EXCEPT ![side] = one], Q)
<1> DEFINE new == [ladder EXCEPT ![side] = one]
<1>0. s \in [Index -> Order] /\ ladder \in [Sides -> OneSide] /\ R \in SUBSET Index
  BY StructureType
<1>1. new \in [Sides -> OneSide] /\ new[side] = one /\ \A sd \in Sides \ {side} : new[sd] = ladder[sd]
  BY <1>0
<1> HIDE DEF new
<1>2. \A sd \in Sides : CursorIsTrue(sd, new[sd])
  BY <1>1, StructureType
<1>3. ASSUME NEW sd \in Sides, NEW q \in Int
      PROVE  \E x, y :
                /\ IsList(s, LevelIn(ladder[sd], q), Group(s, R, sd, q), x)
                /\ IsList(t, LevelIn(new[sd], q), Group(t, Q, sd, q), y)
                /\ OrderKept(x, LevelIn(ladder[sd], q).order_count,
                             y, LevelIn(new[sd], q).order_count)
  <2>1. CASE sd = side /\ q = price
    BY <1>1, <2>1
  <2>2. CASE ~(sd = side /\ q = price)
    <3> DEFINE G == Group(s, R, sd, q)
               same == LevelIn(ladder[sd], q)
    <3>1. LevelIn(new[sd], q) = same
      BY <1>1, <2>2
    <3>2. PICK x : IsList(s, same, G, x)
      BY StructureType DEF Listed
    <3>3. \A j \in Index : At(s[j], sd, q) => ~At(s[j], side, price)
      BY <2>2 DEF At
    <3>4. \A j \in G : j \in R /\ j \in Index /\ ~At(s[j], side, price)
      BY <1>0, <3>3 DEF Group
    <3>5. Group(t, Q, sd, q) = G
      <4>1. ASSUME NEW j \in G PROVE j \in Group(t, Q, sd, q)
        BY <3>4 DEF Group, At
      <4>2. ASSUME NEW j \in Group(t, Q, sd, q) PROVE j \in G
        <5>1. j \in Q /\ j \in Index /\ ~At(t[j], side, price) /\ At(t[j], sd, q)
          BY <2>2 DEF Group, At
        <5>2. j \in R /\ ~At(s[j], side, price)
          BY <5>1
        <5> QED
          BY <5>1, <5>2 DEF Group, At
      <4> QED
        BY <4>1, <4>2
    <3>6. SameInList(s, t, G)
      BY <3>4 DEF SameInList
    <3> HIDE DEF G, same
    <3>7. IsList(t, same, G, x)
      BY <1>0, <3>2, <3>6, ListFrame
    <3>8. OrderKept(x, same.order_count, x, same.order_count)
      BY <3>2, LevelFacts, SameListKeepsOrder DEF IsList
    <3> QED
      BY <3>1, <3>2, <3>5, <3>7, <3>8 DEF G, same
  <2> QED
    BY <2>1, <2>2
<1>4. \A sd \in Sides : \A q \in Int : Listed(t, new[sd], Q, sd, q)
  BY <1>3 DEF Listed
<1>5. Structure(t, new, Q)
  BY <1>1, <1>2, <1>4 DEF Structure
<1>6. KeepsOrder(s, ladder, R, t, new, Q)
  BY <1>3 DEF KeepsOrder
<1> QED
  BY <1>5, <1>6 DEF new

(* push_order.                                                              *)
LEMMA PushStructure ==
    ASSUME NEW s, NEW R, Structure(s, ladder, R), NEW i \in Index \ R,
           s[i].next_idx = kNullIdx, s[i].remaining \in 1 .. s[i].qty
    PROVE  /\ Structure(PushedSlots(s, i), [ladder EXCEPT ![s[i].side] = PushedLadder(s, i)],
                        R \union {i})
           /\ KeepsOrder(s, ladder, R, PushedSlots(s, i),
                         [ladder EXCEPT ![s[i].side] = PushedLadder(s, i)], R \union {i})
           /\ \A j \in Index :
                 /\ SameOrder(PushedSlots(s, i)[j], s[j])
                 /\ j \notin R \union {i} => PushedSlots(s, i)[j].next_idx = s[j].next_idx
<1> DEFINE side == s[i].side
           price == s[i].price_ticks
           old == LevelIn(ladder[side], price)
           G == Group(s, R, side, price)
           new == LevelWith(s, old, i)
           t == PushedSlots(s, i)
           idx == PushedLevelIdx(price)
           one == PushedLadder(s, i)
           Q == R \union {i}
<1>0. s \in [Index -> Order] /\ ladder \in [Sides -> OneSide] /\ R \in SUBSET Index
  BY StructureType
<1>1. side \in Sides /\ price \in Int /\ ladder[side] \in OneSide /\ CursorIsTrue(side, ladder[side])
  BY <1>0, OrderFields, StructureType
<1>2. old = LevelAt(side, price) /\ t = LinkedSlots(s, old, i, idx)
  BY DEF LevelIn, LevelAt, PushedSlots
<1>3. idx \in Int
  BY <1>1, LadderFacts DEF PushedLevelIdx, kOverflowIdx
<1>4. PICK w : IsList(s, old, G, w)
  BY <1>1, StructureType DEF Listed
<1>5. i \notin G /\ i \in Index
  BY DEF Group
<1>6. old \in Level /\ (old.tail_idx \in G \/ old.tail_idx = kNullIdx)
  <2>1. old \in Level /\ old.order_count \in Nat
    BY <1>4, LevelFacts DEF IsList
  <2>2. CASE old.order_count = 0
    BY <1>4, <2>1, <2>2 DEF IsList
  <2>3. CASE old.order_count # 0
    <3>1. old.order_count \in 1 .. old.order_count
      BY <2>1, <2>3
    <3> QED
      BY <1>4, <2>1, <2>3, <3>1 DEF IsList
  <2> QED
    BY <2>2, <2>3, <2>1
<1>7. /\ t \in [Index -> Order]
      /\ \A j \in Index :
            /\ SameOrder(t[j], s[j])
            /\ t[j].prev_idx = IF j = i THEN old.tail_idx ELSE s[j].prev_idx
            /\ t[j].next_idx = IF j = old.tail_idx THEN i ELSE s[j].next_idx
            /\ t[j].level_idx = IF j = i THEN idx ELSE s[j].level_idx
  BY <1>0, <1>2, <1>3, <1>6, LinkedEffect
<1> HIDE DEF t, old, new, one, idx
<1> DEFINE v == Appended(w, old.order_count, i)
<1>8. IsList(t, new, G \union {i}, v)
  BY <1>0, <1>2, <1>3, <1>4, <1>5, ListAppend DEF new
<1>16. OrderKept(w, old.order_count, v, new.order_count)
  <2>1. /\ old.order_count \in Nat /\ \A k \in 1 .. old.order_count : w[k] # i
        /\ \A j, k \in 1 .. old.order_count : w[j] = w[k] => j = k
    BY <1>4, <1>5, <1>6, LevelFacts DEF IsList
  <2>2. new.order_count = old.order_count + 1
    BY DEF new, LevelWith
  <2> QED
    BY <2>1, <2>2, AppendedKeepsOrder
<1> HIDE DEF v
<1>9. G \union {i} = Group(t, Q, side, price)
  BY <1>0, <1>7 DEF Group, At, SameOrder
<1>10. new \in Level /\ ~IsEmpty(new)
  <2>1. Tidy(new) /\ (IsEmpty(new) <=> G \union {i} = {})
    BY <1>8, ListIsTidy
  <2> QED
    BY <2>1 DEF Tidy
<1>11. /\ one \in OneSide /\ CursorIsTrue(side, one)
       /\ \A q \in Int : LevelIn(one, q) = IF q = price THEN new ELSE LevelIn(ladder[side], q)
  BY <1>0, <1>1, <1>2, <1>10, PushEffect DEF new, one
<1>12. \A j \in Q : Fits(t[j])
  <2>1. ASSUME NEW j \in R PROVE Fits(t[j])
    <3>1. Fits(s[j]) /\ j # i /\ j \in Index
      BY <1>0, StructureType
    <3> QED
      BY <1>7, <3>1 DEF Fits, SameOrder
  <2>2. Fits(t[i])
    BY <1>7 DEF Fits, SameOrder, idx
  <2> QED
    BY <2>1, <2>2
<1>13. ASSUME NEW j \in R, ~At(s[j], side, price)
       PROVE  /\ t[j].prev_idx = s[j].prev_idx /\ t[j].next_idx = s[j].next_idx
  <2>1. j \in Index /\ j # i /\ j \notin G
    BY <1>0, <1>13 DEF Group
  <2>2. j # old.tail_idx
    BY <1>6, <2>1, IndexFacts
  <2> QED
    BY <1>7, <2>1, <2>2
<1>14. /\ Structure(t, [ladder EXCEPT ![side] = one], Q)
       /\ KeepsOrder(s, ladder, R, t, [ladder EXCEPT ![side] = one], Q)
  <2>1. Q \in SUBSET Index
    BY <1>0
  <2>2. \A j \in Index : At(t[j], side, price) <=> At(s[j], side, price)
    BY <1>7 DEF At, SameOrder
  <2>3. \A j \in Index : ~At(s[j], side, price) => (j \in Q <=> j \in R)
    BY DEF At
  <2>4. \A j \in R : ~At(s[j], side, price) =>
                /\ t[j].side = s[j].side /\ t[j].price_ticks = s[j].price_ticks
                /\ t[j].prev_idx = s[j].prev_idx /\ t[j].next_idx = s[j].next_idx
                /\ t[j].remaining = s[j].remaining
    BY <1>0, <1>7, <1>13 DEF SameOrder
  <2>5. IsList(t, new, Group(t, Q, side, price), v)
    BY <1>8, <1>9
  <2>6. IsList(s, LevelIn(ladder[side], price), Group(s, R, side, price), w)
        /\ OrderKept(w, LevelIn(ladder[side], price).order_count, v, new.order_count)
    BY <1>4, <1>16 DEF old
  <2>7. t \in [Index -> Order] /\ side \in Sides /\ price \in Int
    BY <1>1, <1>7
  <2> HIDE DEF Q, G, side, price
  <2> QED
    BY <1>11, <1>12, <2>1, <2>2, <2>3, <2>4, <2>5, <2>6, <2>7, LevelChanges
<1>15. \A j \in Index : j \notin R \union {i} => t[j].next_idx = s[j].next_idx
  <2>1. \A j \in G : j \in R
    BY DEF Group
  <2> QED
    BY <1>6, <1>7, <2>1, IndexFacts
<1> QED
  BY <1>7, <1>14, <1>15 DEF t, one

(* The neighbours of an order in its list rest beside it.                   *)
LEMMA Neighbours ==
    ASSUME NEW s, NEW level, NEW G, NEW w, IsList(s, level, G, w), NEW i \in G
    PROVE  /\ s[i].prev_idx \in G \/ s[i].prev_idx = kNullIdx
           /\ s[i].next_idx \in G \/ s[i].next_idx = kNullIdx
<1> DEFINE n == level.order_count
<1>1. n \in Nat /\ G \in SUBSET Index
  BY LevelFacts DEF IsList
<1>2. PICK k \in 1 .. n : w[k] = i
  BY <1>1 DEF IsList
<1>3. \A j \in 1 .. n : w[j] \in G
  BY DEF IsList
<1>4. k # 1 => k - 1 \in 1 .. n
  BY <1>1
<1>5. k # n => k + 1 \in 1 .. n
  BY <1>1
<1>6. /\ s[i].prev_idx = IF k = 1 THEN kNullIdx ELSE w[k - 1]
      /\ s[i].next_idx = IF k = n THEN kNullIdx ELSE w[k + 1]
  BY <1>2 DEF IsList
<1> QED
  BY <1>3, <1>4, <1>5, <1>6

(* remove_order.                                                            *)
LEMMA RemoveStructure ==
    ASSUME NEW s, NEW R, Structure(s, ladder, R), NEW i \in R
    PROVE  /\ Structure(UnlinkedSlots(s, i), [ladder EXCEPT ![s[i].side] = RemovedLadder(s, i)],
                        R \ {i})
           /\ KeepsOrder(s, ladder, R, UnlinkedSlots(s, i),
                         [ladder EXCEPT ![s[i].side] = RemovedLadder(s, i)], R \ {i})
           /\ \A j \in Index :
                 /\ SameOrder(UnlinkedSlots(s, i)[j], s[j])
                 /\ j \notin R => UnlinkedSlots(s, i)[j].next_idx = s[j].next_idx
<1> DEFINE side == s[i].side
           price == s[i].price_ticks
           old == LevelIn(ladder[side], price)
           G == Group(s, R, side, price)
           new == LevelWithout(s, old, i)
           t == UnlinkedSlots(s, i)
           one == RemovedLadder(s, i)
           Q == R \ {i}
<1>0. s \in [Index -> Order] /\ ladder \in [Sides -> OneSide] /\ R \in SUBSET Index /\ i \in Index
  BY StructureType
<1>1. side \in Sides /\ price \in Int /\ ladder[side] \in OneSide /\ CursorIsTrue(side, ladder[side])
  BY <1>0, OrderFields, StructureType
<1>2. old = LevelAt(side, price)
  BY DEF LevelIn, LevelAt
<1>3. s[i].level_idx = PushedLevelIdx(price)
  BY StructureType DEF Fits
<1>4. PICK w : IsList(s, old, G, w)
  BY <1>1, StructureType DEF Listed
<1>5. i \in G
  BY DEF Group, At
<1>6. /\ t \in [Index -> Order]
      /\ \A j \in Index :
            /\ SameOrder(t[j], s[j])
            /\ j # i =>
                 /\ t[j].next_idx = IF j = s[i].prev_idx THEN s[i].next_idx ELSE s[j].next_idx
                 /\ t[j].prev_idx = IF j = s[i].next_idx THEN s[i].prev_idx ELSE s[j].prev_idx
                 /\ t[j].level_idx = s[j].level_idx
  BY <1>0, UnlinkedEffect
<1>7. /\ s[i].prev_idx \in G \/ s[i].prev_idx = kNullIdx
      /\ s[i].next_idx \in G \/ s[i].next_idx = kNullIdx
  BY <1>4, <1>5, Neighbours
<1> HIDE DEF t, old, new, one
<1>8. PICK v : IsList(t, new, G \ {i}, v) /\ OrderKept(w, old.order_count, v, new.order_count)
  <2>1. new.order_count = old.order_count - 1
    BY DEF new, LevelWithout
  <2>2. \E v : IsList(t, new, G \ {i}, v) /\ OrderKept(w, old.order_count, v, old.order_count - 1)
    BY <1>0, <1>4, <1>5, ListRemove DEF new, t
  <2> QED
    BY <2>1, <2>2
<1>9. G \ {i} = Group(t, Q, side, price)
  BY <1>0, <1>6 DEF Group, At, SameOrder
<1>10. Tidy(new) /\ ~IsEmpty(old)
  <2>1. Tidy(new)
    BY <1>8, ListIsTidy
  <2>2. IsEmpty(old) <=> G = {}
    BY <1>4, ListIsTidy
  <2> QED
    BY <1>5, <2>1, <2>2
<1>11. \A q \in Int : Tidy(LevelIn(ladder[side], q))
  <2> SUFFICES ASSUME NEW q \in Int PROVE Tidy(LevelIn(ladder[side], q))
    OBVIOUS
  <2>1. PICK x : IsList(s, LevelIn(ladder[side], q), Group(s, R, side, q), x)
    BY <1>1, StructureType DEF Listed
  <2> QED
    BY <2>1, ListIsTidy
<1>12. /\ one \in OneSide /\ CursorIsTrue(side, one)
       /\ \A q \in Int : LevelIn(one, q) = IF q = price THEN new ELSE LevelIn(ladder[side], q)
  BY <1>0, <1>1, <1>2, <1>3, <1>10, <1>11, RemoveEffect DEF new, one
<1>13. \A j \in Q : Fits(t[j])
  <2> SUFFICES ASSUME NEW j \in Q PROVE Fits(t[j])
    OBVIOUS
  <2>1. Fits(s[j]) /\ j # i /\ j \in Index
    BY <1>0, StructureType
  <2> QED
    BY <1>6, <2>1 DEF Fits, SameOrder
<1>14. ASSUME NEW j \in Index \ G
       PROVE  /\ j # i
              /\ t[j].prev_idx = s[j].prev_idx /\ t[j].next_idx = s[j].next_idx
  <2>1. j # i /\ j # s[i].prev_idx /\ j # s[i].next_idx
    BY <1>5, <1>7, IndexFacts
  <2> QED
    BY <1>6, <2>1
<1>15. /\ Structure(t, [ladder EXCEPT ![side] = one], Q)
       /\ KeepsOrder(s, ladder, R, t, [ladder EXCEPT ![side] = one], Q)
  <2>1. Q \in SUBSET Index
    BY <1>0
  <2>2. \A j \in Index : At(t[j], side, price) <=> At(s[j], side, price)
    BY <1>6 DEF At, SameOrder
  <2>3. \A j \in Index : ~At(s[j], side, price) => (j \in Q <=> j \in R)
    BY DEF At
  <2>4. \A j \in R : ~At(s[j], side, price) =>
                /\ t[j].side = s[j].side /\ t[j].price_ticks = s[j].price_ticks
                /\ t[j].prev_idx = s[j].prev_idx /\ t[j].next_idx = s[j].next_idx
                /\ t[j].remaining = s[j].remaining
    <3> SUFFICES ASSUME NEW j \in R, ~At(s[j], side, price)
                 PROVE  /\ t[j].side = s[j].side /\ t[j].price_ticks = s[j].price_ticks
                        /\ t[j].prev_idx = s[j].prev_idx /\ t[j].next_idx = s[j].next_idx
                        /\ t[j].remaining = s[j].remaining
      OBVIOUS
    <3>1. j \in Index \ G
      BY <1>0 DEF Group
    <3> QED
      BY <1>6, <1>14, <3>1 DEF SameOrder
  <2>5. IsList(t, new, Group(t, Q, side, price), v)
    BY <1>8, <1>9
  <2>6. t \in [Index -> Order] /\ side \in Sides /\ price \in Int
    BY <1>1, <1>6
  <2>7. IsList(s, LevelIn(ladder[side], price), Group(s, R, side, price), w)
        /\ OrderKept(w, LevelIn(ladder[side], price).order_count, v, new.order_count)
    BY <1>4, <1>8 DEF old
  <2> HIDE DEF Q, G, side, price
  <2> QED
    BY <1>12, <1>13, <2>1, <2>2, <2>3, <2>4, <2>5, <2>6, <2>7, LevelChanges
<1>16. \A j \in Index : j \notin R => t[j].next_idx = s[j].next_idx
  BY <1>14 DEF Group
<1> QED
  BY <1>6, <1>15, <1>16 DEF t, one

(* DebitMaker.                                                              *)
DebitedLadder(side, price, fill) ==
    StoreLevel(side, price, [LevelAt(side, price) EXCEPT !.total_qty = @ - fill])

LEMMA DebitStructure ==
    ASSUME NEW s, NEW R, Structure(s, ladder, R), NEW i \in R,
           NEW fill \in 1 .. s[i].remaining - 1
    PROVE  /\ Structure(Debited(s, i, fill),
                     [ladder EXCEPT ![s[i].side] = DebitedLadder(s[i].side, s[i].price_ticks, fill)],
                     R)
           /\ KeepsOrder(s, ladder, R, Debited(s, i, fill),
                     [ladder EXCEPT ![s[i].side] = DebitedLadder(s[i].side, s[i].price_ticks, fill)],
                     R)
<1> DEFINE side == s[i].side
           price == s[i].price_ticks
           old == LevelIn(ladder[side], price)
           G == Group(s, R, side, price)
           new == [old EXCEPT !.total_qty = @ - fill]
           t == Debited(s, i, fill)
           one == DebitedLadder(side, price, fill)
<1>0. s \in [Index -> Order] /\ ladder \in [Sides -> OneSide] /\ R \in SUBSET Index /\ i \in Index
      /\ s[i] \in Order
  BY StructureType
<1>1. /\ side \in Sides /\ price \in Int /\ ladder[side] \in OneSide
      /\ CursorIsTrue(side, ladder[side]) /\ s[i].remaining \in Nat
  BY <1>0, OrderFields, StructureType
<1>2. old = LevelAt(side, price)
  BY DEF LevelIn, LevelAt
<1>a. fill \in 0 .. s[i].remaining
  BY <1>1
<1>4. PICK w : IsList(s, old, G, w)
  BY <1>1, StructureType DEF Listed
<1>5. i \in G
  BY DEF Group, At
<1>6. /\ t \in [Index -> Order]
      /\ t[i] = [s[i] EXCEPT !.remaining = @ - fill]
      /\ t[i].remaining = s[i].remaining - fill
      /\ \A j \in Index \ {i} : t[j] = s[j]
  BY <1>0, <1>a, DebitedEffect
<1>b. one = StoreLevel(side, price, new)
  BY <1>2 DEF DebitedLadder
<1>7. old \in Level
  BY <1>4 DEF IsList
<1>c. /\ new.head_idx = old.head_idx /\ new.order_count = old.order_count
  BY <1>7 DEF Level
<1> HIDE DEF t, old, new, one
<1>8. IsList(t, new, G, w)
  BY <1>0, <1>4, <1>5, <1>a, ListDebit DEF new, t
<1>9. \A j \in Index : /\ t[j].side = s[j].side /\ t[j].price_ticks = s[j].price_ticks
                       /\ t[j].level_idx = s[j].level_idx /\ t[j].qty = s[j].qty
  <2>1. /\ t[i].side = s[i].side /\ t[i].price_ticks = s[i].price_ticks
        /\ t[i].level_idx = s[i].level_idx /\ t[i].qty = s[i].qty
    BY <1>0, <1>6 DEF Order
  <2> QED
    BY <1>6, <2>1
<1>10. Group(t, R, side, price) = G
  BY <1>0, <1>9 DEF Group, At
<1>11. new \in Level /\ ~IsEmpty(new) /\ ~IsEmpty(old)
  <2>1. new \in Level
    BY <1>8 DEF IsList
  <2>2. IsEmpty(old) <=> G = {}
    BY <1>4, ListIsTidy
  <2> QED
    BY <1>5, <1>c, <2>1, <2>2 DEF IsEmpty
<1>12. /\ one \in OneSide
       /\ \A q \in Int : LevelIn(one, q) = IF q = price THEN new ELSE LevelIn(ladder[side], q)
  <2>1. Stored(ladder[side], one, price, new)
    BY <1>1, <1>11, <1>b, StoreEffect
  <2> QED
    BY <2>1 DEF Stored
<1>13. CursorIsTrue(side, one)
  BY <1>1, <1>2, <1>11, <1>b, <1>c, StoreKeepsCursor
<1>14. \A j \in R : Fits(t[j])
  <2>1. \A j \in R : Fits(s[j]) /\ j \in Index
    BY <1>0, StructureType
  <2>2. s[i].remaining - fill \in 1 .. s[i].qty
    <3>1. s[i].remaining \in 1 .. s[i].qty /\ s[i].qty \in Nat
      BY <1>0, <2>1, OrderFields DEF Fits
    <3> QED
      BY <3>1
  <2>3. Fits(t[i])
    BY <1>0, <1>6, <1>9, <2>1, <2>2 DEF Fits
  <2> QED
    BY <1>6, <2>1, <2>3
<1>15. /\ Structure(t, [ladder EXCEPT ![side] = one], R)
       /\ KeepsOrder(s, ladder, R, t, [ladder EXCEPT ![side] = one], R)
  <2>2. \A j \in Index : At(t[j], side, price) <=> At(s[j], side, price)
    BY <1>9 DEF At
  <2>4. \A j \in R : ~At(s[j], side, price) =>
                /\ t[j].side = s[j].side /\ t[j].price_ticks = s[j].price_ticks
                /\ t[j].prev_idx = s[j].prev_idx /\ t[j].next_idx = s[j].next_idx
                /\ t[j].remaining = s[j].remaining
    BY <1>0, <1>6 DEF At
  <2>5. IsList(t, new, Group(t, R, side, price), w)
    BY <1>8, <1>10
  <2>6. OrderKept(w, old.order_count, w, new.order_count)
    BY <1>4, <1>c, LevelFacts, SameListKeepsOrder DEF IsList
  <2>7. IsList(s, LevelIn(ladder[side], price), Group(s, R, side, price), w)
        /\ OrderKept(w, LevelIn(ladder[side], price).order_count, w, new.order_count)
    BY <1>4, <2>6 DEF old
  <2>8. t \in [Index -> Order] /\ side \in Sides /\ price \in Int /\ R \in SUBSET Index
    BY <1>0, <1>1, <1>6
  <2> HIDE DEF G, side, price
  <2> QED
    BY <1>12, <1>13, <1>14, <2>2, <2>4, <2>5, <2>7, <2>8, LevelChanges
<1> QED
  BY <1>15 DEF t, one

-----------------------------------------------------------------------------
(* What check_invariants walks, and what the cursor says, from Structure.   *)
Sided(R, side) == {i \in R : slots[i].side = side}

LEMMA LevelAtIsIn == \A side, price : LevelAt(side, price) = LevelIn(ladder[side], price)
BY DEF LevelAt, LevelIn

LEMMA LevelPricesType ==
    ASSUME NEW side \in Sides, ladder[side] \in OneSide
    PROVE  LevelPrices(side) \subseteq Int
<1>1. DOMAIN ladder[side].overflow \subseteq Int
  BY SideFacts
<1>2. \A o \in Offsets : low_price + o \in Int
  BY LadderFacts
<1> QED
  BY <1>1, <1>2 DEF LevelPrices

LEMMA MembersAreGroup ==
    ASSUME NEW R, Structure(slots, ladder, R), R \subseteq LiveSlots,
           NEW side \in Sides, NEW price \in Int
    PROVE  /\ LevelIsSound(LevelAt(side, price))
           /\ Members(LevelAt(side, price)) = Group(slots, R, side, price)
           /\ IsEmpty(LevelAt(side, price)) <=> Group(slots, R, side, price) = {}
<1> DEFINE level == LevelIn(ladder[side], price)
           G == Group(slots, R, side, price)
<1>1. PICK w : IsList(slots, level, G, w)
  BY StructureType DEF Listed
<1>2. LevelAt(side, price) = level
  BY LevelAtIsIn
<1>3. G \subseteq LiveSlots /\ slots \in [Index -> Order]
  BY StructureType DEF Group
<1> HIDE DEF level, G
<1>4. Members(level) = G
  BY <1>1, FifoIsList
<1>5. LevelIsSound(level) /\ (IsEmpty(level) <=> G = {})
  BY <1>1, <1>3, ListIsSound
<1> QED
  BY <1>2, <1>4, <1>5 DEF level, G

LEMMA PricesAreThoseOfOrders ==
    ASSUME NEW R, Structure(slots, ladder, R), R \subseteq LiveSlots, NEW side \in Sides
    PROVE  /\ \A p : p \in RestingPrices(side)
                       <=> \E i \in Sided(R, side) : slots[i].price_ticks = p
           /\ RestingPrices(side) \subseteq Int
           /\ RestingPrices(side) \subseteq LevelPrices(side)
           /\ IsFiniteSet(RestingPrices(side))
<1>0. slots \in [Index -> Order] /\ R \in SUBSET Index /\ ladder[side] \in OneSide
  BY StructureType
<1>1. LevelPrices(side) \subseteq Int
  BY <1>0, LevelPricesType
<1>2. RestingPrices(side) \subseteq LevelPrices(side)
  BY DEF RestingPrices
<1>3. ASSUME NEW i \in Sided(R, side)
      PROVE  slots[i].price_ticks \in RestingPrices(side)
  <2>1. i \in Index /\ slots[i].price_ticks \in Int /\ i \in R /\ slots[i].side = side
    BY <1>0, OrderFields DEF Sided
  <2>2. PICK p \in Int : p = slots[i].price_ticks
    BY <2>1
  <2>3. i \in Group(slots, R, side, p)
    BY <2>1, <2>2 DEF Group, At
  <2>4. ~IsEmpty(LevelAt(side, p))
    BY <2>3, MembersAreGroup
  <2>5. p \in LevelPrices(side)
    <3>1. CASE in_band(p)
      <4>1. p - low_price \in Offsets /\ low_price + (p - low_price) = p
        BY <3>1, LadderFacts
      <4>2. \E o \in Offsets : p = low_price + o
        BY <4>1
      <4> QED
        BY <4>2 DEF LevelPrices
    <3>2. CASE ~in_band(p)
      <4>1. p \in DOMAIN ladder[side].overflow
        BY <2>4, <3>2, LadderFacts DEF LevelAt
      <4> QED
        BY <4>1 DEF LevelPrices
    <3> QED
      BY <3>1, <3>2
  <2> QED
    BY <2>2, <2>4, <2>5 DEF RestingPrices
<1>4. ASSUME NEW p \in RestingPrices(side)
      PROVE  \E i \in Sided(R, side) : slots[i].price_ticks = p
  <2>1. p \in Int /\ ~IsEmpty(LevelAt(side, p))
    BY <1>1, <1>4 DEF RestingPrices
  <2>2. PICK i \in Group(slots, R, side, p) : TRUE
    BY <2>1, MembersAreGroup
  <2> QED
    BY <2>2 DEF Group, At, Sided
<1>5. IsFiniteSet(RestingPrices(side))
  <2> DEFINE S == Sided(R, side)
             f == [i \in S |-> slots[i].price_ticks]
  <2>1. S \in SUBSET Index /\ IsFiniteSet(S)
    BY <1>0, IndexFinite DEF Sided
  <2>2. f \in Surjection(S, RestingPrices(side))
    BY <1>3, <1>4 DEF Surjection
  <2> HIDE DEF f, S
  <2> QED
    BY <2>1, <2>2, FS_Surjection
<1> QED
  BY <1>1, <1>2, <1>3, <1>4, <1>5

LEMMA BestIsTrue ==
    ASSUME NEW R, Structure(slots, ladder, R), R \subseteq LiveSlots, NEW side \in Sides
    PROVE  /\ SideEmpty(side) <=> RestingPrices(side) = {}
           /\ RestingPrices(side) # {} =>
                /\ best_price(side) \in RestingPrices(side)
                /\ best_price(side) = Best(side, RestingPrices(side))
                /\ \A p \in RestingPrices(side) : ~IsBetter(side, p, best_price(side))
<1> DEFINE one == ladder[side]
           P == RestingPrices(side)
           best == one.best_offset
           B == DOMAIN one.overflow \union
                  (IF best = kNullIdx THEN {} ELSE {low_price + best})
<1>0. /\ one \in OneSide /\ CursorIsTrue(side, one)
      /\ one.levels \in [Offsets -> Level] /\ DOMAIN one.overflow \subseteq Int
      /\ best \in Offsets \union {kNullIdx}
  <2>1. one \in OneSide /\ CursorIsTrue(side, one)
    BY StructureType
  <2> QED
    BY <2>1, SideFacts
<1>1. IsFiniteSet(P) /\ P \subseteq Int /\ P \subseteq LevelPrices(side)
  BY PricesAreThoseOfOrders
<1>2. \A p \in LevelPrices(side) : p \in P <=> ~IsEmpty(LevelAt(side, p))
  BY DEF RestingPrices
<1>3. \A o \in Offsets : low_price + o \in LevelPrices(side)
  BY DEF LevelPrices
<1>4. \A o \in Offsets : LevelAt(side, low_price + o) = one.levels[o]
  BY <1>0, BandLevel, LevelAtIsIn
<1>5. \A p \in DOMAIN one.overflow : p \in LevelPrices(side) /\ LevelAt(side, p) = one.overflow[p]
                                     /\ ~in_band(p) /\ ~IsEmpty(one.overflow[p])
  BY <1>0 DEF LevelPrices, LevelAt, CursorIsTrue
<1>6. best # kNullIdx => /\ best \in Offsets /\ low_price + best \in P
                         /\ \A o \in Offsets : IsBetter(side, o, best) => IsEmpty(one.levels[o])
  BY <1>0, <1>2, <1>3, <1>4 DEF CursorIsTrue
<1>7. best = kNullIdx => \A o \in Offsets : IsEmpty(one.levels[o])
  BY <1>0 DEF CursorIsTrue
<1>8. B \subseteq P
  BY <1>2, <1>5, <1>6
<1>9. \A p \in LevelPrices(side) : p \in DOMAIN one.overflow \/ \E o \in Offsets : p = low_price + o
  BY DEF LevelPrices
<1> HIDE DEF P
<1>10. ASSUME NEW x \in P, \A y \in P : ~IsBetter(side, y, x)
       PROVE  x \in B
  <2> SUFFICES ASSUME x \notin DOMAIN one.overflow PROVE x \in B
    OBVIOUS
  <2>1. PICK o \in Offsets : x = low_price + o
    BY <1>1, <1>9, <1>10
  <2>2. ~IsEmpty(one.levels[o])
    BY <1>2, <1>3, <1>4, <1>10, <2>1
  <2>3. best # kNullIdx
    BY <1>7, <2>2
  <2>4. ~IsBetter(side, o, best) /\ ~IsBetter(side, low_price + best, low_price + o)
        /\ best \in Offsets
    BY <1>6, <1>10, <2>1, <2>2, <2>3
  <2>5. o = best
    <3>1. low_price \in Int /\ o \in Int /\ best \in Int
      BY <2>4, OffsetsAreInt
    <3> QED
      BY <2>4, <3>1 DEF IsBetter
  <2> QED
    BY <2>1, <2>3, <2>5
<1>11. ASSUME P # {}
       PROVE  /\ Best(side, P) \in P
              /\ \A p \in P : ~IsBetter(side, p, Best(side, P))
              /\ Best(side, P) \in B
              /\ best_price(side) = Best(side, P)
  <2>1. Best(side, P) \in P /\ \A p \in P : ~IsBetter(side, p, Best(side, P))
    BY <1>1, <1>11, BestExists
  <2>2. Best(side, P) \in B
    BY <1>10, <2>1
  <2>3. B \subseteq Int
    BY <1>1, <1>8
  <2>4. best_price(side) = Best(side, B)
    BY DEF best_price
  <2> DEFINE x == Best(side, P)
  <2>5. x \in B /\ \A y \in B : ~IsBetter(side, y, x)
    BY <1>8, <2>1, <2>2
  <2> HIDE DEF B, x
  <2>6. Best(side, B) = x
    BY <2>3, <2>5, BestIs
  <2> QED
    BY <2>1, <2>2, <2>4, <2>6 DEF x
<1>12. SideEmpty(side) <=> B = {}
  BY DEF SideEmpty
<1>13. B = {} <=> P = {}
  BY <1>8, <1>11
<1> QED
  BY <1>11, <1>12, <1>13 DEF P
=============================================================================
