------------------------------ MODULE OrderPool -----------------------------
(***************************************************************************)
(* include/lob/order_pool.h: a fixed slab of order slots.  Free slots are  *)
(* threaded through next_idx, the very field a resting order uses for its  *)
(* FIFO neighbour, and every allocation bumps the slot's generation so     *)
(* that the id minted for it differs from the ids minted before.           *)
(*                                                                         *)
(* The operators below are used again by the price ladder and the book,    *)
(* which edit the slots of live orders; PoolSpec is the pool on its own,   *)
(* with a caller that may write any links into a live order.               *)
(*                                                                         *)
(* Left out: Order::type and Order::flags (written on rest, never read),   *)
(* the layout and the padding.                                             *)
(***************************************************************************)
EXTENDS LobTypes, FiniteSets

CONSTANTS Capacity,        \* slots in the slab, OrderPool's constructor argument
          MaxGeneration    \* largest slot generation, 2^32 - 1 in the code

ASSUME CapacityAssumption == Capacity \in Nat \ {0}
ASSUME MaxGenerationAssumption == MaxGeneration \in Nat \ {0}

VARIABLES slots,           \* slots_
          free_head,       \* free_head_
          live_count       \* live_count_

poolVars == <<slots, free_head, live_count>>

kNullIdx == -1

Index == 0 .. Capacity - 1

Link == Index \union {kNullIdx}

Generation == 0 .. MaxGeneration

OrderId == Generation \X Nat

Order == [order_id    : OrderId,
          price_ticks : Int,
          qty         : Nat,
          remaining   : Nat,
          side        : Sides,
          prev_idx    : Link,
          next_idx    : Link,
          level_idx   : Int,
          generation  : Generation]

-----------------------------------------------------------------------------
(* A value-initialised slot (all fields zero) with its free-list link.      *)
FreshSlot(i) ==
    [order_id |-> kInvalidOrderId, price_ticks |-> 0, qty |-> 0,
     remaining |-> 0, side |-> kBuy, prev_idx |-> 0,
     next_idx |-> IF i + 1 < Capacity THEN i + 1 ELSE kNullIdx,
     level_idx |-> 0, generation |-> 0]

PoolInit ==
    /\ slots = [i \in Index |-> FreshSlot(i)]
    /\ free_head = 0
    /\ live_count = 0

Live(i) == slots[i].order_id # kInvalidOrderId

LiveSlots == {i \in Index : Live(i)}

PoolExhausted == free_head = kNullIdx

NextGeneration(g) == IF g = MaxGeneration THEN 1 ELSE g + 1

(* The id alloc returns when the free list is not empty.                    *)
MintedId == make_order_id(NextGeneration(slots[free_head].generation), free_head)

(* The slots after alloc: the head is minted and its links come back null.  *)
MintedSlots ==
    [slots EXCEPT ![free_head].generation = generation_of(MintedId),
                  ![free_head].order_id   = MintedId,
                  ![free_head].prev_idx   = kNullIdx,
                  ![free_head].next_idx   = kNullIdx,
                  ![free_head].level_idx  = kNullIdx]

(* Bookkeeping of alloc around the slots: pop the free list.                *)
PopFreeList ==
    /\ free_head' = slots[free_head].next_idx
    /\ live_count' = live_count + 1

Alloc ==
    /\ ~PoolExhausted
    /\ slots' = MintedSlots
    /\ PopFreeList

(* A plausible bug: the freed slot is not linked to the rest of the list.   *)
FreeInUnlinked(edited, i) ==
    /\ slots' = [edited EXCEPT ![i].order_id = kInvalidOrderId]
    /\ free_head' = i
    /\ live_count' = live_count - 1

(* Free(i) on slots `edited' that the caller has already unlinked i from.   *)
FreeIn(edited, i) ==
    /\ slots' = [edited EXCEPT ![i].order_id = kInvalidOrderId,
                               ![i].next_idx = free_head]
    /\ free_head' = i
    /\ live_count' = live_count - 1

(* free(index); that the slot is live is the caller's obligation.           *)
Free(i) ==
    /\ Live(i)
    /\ FreeIn(slots, i)

(* A plausible bug: any live order in the slot the id names will do.        *)
FoundBySlot(id) ==
    /\ id # kInvalidOrderId
    /\ index_of(id) \in Index
    /\ Live(index_of(id))

(* find(id) as "does it return an order": the slot is index_of(id).         *)
Found(id) ==
    /\ id # kInvalidOrderId
    /\ index_of(id) \in Index
    /\ slots[index_of(id)].order_id = id

(* operator[]: the book links a live order into a level, in any way it     *)
(* likes.  next_idx is the one field it shares with the pool.               *)
Relink(i) ==
    /\ Live(i)
    /\ \E next \in Link : slots' = [slots EXCEPT ![i].next_idx = next]
    /\ UNCHANGED <<free_head, live_count>>

PoolNext ==
    \/ Alloc
    \/ \E i \in Index : Free(i) \/ Relink(i)

PoolSpec == PoolInit /\ [][PoolNext]_poolVars

-----------------------------------------------------------------------------
(* The three variables have their types.                                    *)
PoolTypeOK ==
    /\ slots \in [Index -> Order]
    /\ free_head \in Link
    /\ live_count \in 0 .. Capacity

(* A live slot carries the id of its own last generation, at its own index. *)
LiveIdsNameTheirSlot ==
    \A i \in LiveSlots :
        slots[i].order_id = make_order_id(slots[i].generation, i)

(* `chain' lists the free list from free_head to its null end.              *)
Threads(chain) ==
    LET n == Capacity - live_count IN
    /\ free_head = IF n = 0 THEN kNullIdx ELSE chain[1]
    /\ \A k \in 1 .. n :
          slots[chain[k]].next_idx = IF k = n THEN kNullIdx ELSE chain[k + 1]

(* The free list reaches every free slot exactly once and no live one,      *)
(* whatever the book writes into next_idx of a live order, and its length   *)
(* is Capacity - live_count_ (so alloc fails only when the pool is full).   *)
FreeListIsExact ==
    \E chain \in [1 .. Capacity - live_count -> Index] :
        /\ Threads(chain)
        /\ \A j, k \in 1 .. Capacity - live_count : chain[j] = chain[k] => j = k
        /\ \A i \in Index : ~Live(i) <=> \E k \in 1 .. Capacity - live_count : chain[k] = i

(* live_count_ counts the live slots, and alloc refuses only a full pool.   *)
LiveCountIsExact ==
    /\ live_count = Cardinality(LiveSlots)
    /\ PoolExhausted <=> LiveSlots = Index

(* The slab is partitioned into the free list and the live orders, whatever *)
(* the book writes into the links of live orders and in whatever order it   *)
(* frees them.                                                              *)
PoolIsSound == PoolTypeOK /\ FreeListIsExact /\ LiveCountIsExact
=============================================================================
