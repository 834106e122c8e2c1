------------------------------ MODULE StaleIds ------------------------------
(***************************************************************************)
(* A client of the order pool that keeps one id for as long as it likes:   *)
(* what find() says of an id after the order is gone and its slot reused.  *)
(* held, retired and reuses are history of the client, not program state:  *)
(* they pick any one minted id and count how often its slot is minted      *)
(* again.                                                                  *)
(***************************************************************************)
EXTENDS OrderPool

VARIABLES held,       \* the id the client kept, kInvalidOrderId before it does
          retired,    \* the order held named has been freed
          reuses      \* later mints of its slot, counted up to MaxGeneration

clientVars == <<held, retired, reuses>>

vars == <<slots, free_head, live_count, held, retired, reuses>>

ClientInit ==
    /\ PoolInit
    /\ held = kInvalidOrderId
    /\ retired = FALSE
    /\ reuses = 0

Holding == held # kInvalidOrderId

(* The client keeps the id alloc has just returned.                         *)
AllocAndKeep ==
    /\ ~Holding
    /\ Alloc
    /\ held' = MintedId
    /\ UNCHANGED <<retired, reuses>>

(* Any other allocation; one of the held slot counts as a reuse.            *)
AllocOther ==
    /\ Alloc
    /\ reuses' = IF Holding /\ free_head = index_of(held) /\ reuses < MaxGeneration
                 THEN reuses + 1 ELSE reuses
    /\ UNCHANGED <<held, retired>>

FreeSlot(i) ==
    /\ Free(i)
    /\ retired' = (retired \/ (Holding /\ i = index_of(held)))
    /\ UNCHANGED <<held, reuses>>

RelinkSlot(i) ==
    /\ Relink(i)
    /\ UNCHANGED clientVars

Next ==
    \/ AllocAndKeep
    \/ AllocOther
    \/ \E i \in Index : FreeSlot(i) \/ RelinkSlot(i)

Spec == ClientInit /\ [][Next]_vars

-----------------------------------------------------------------------------
(* order_pool.h:26-27, "a slot's ids never repeat until 2^32 - 1 reuses":   *)
(* until the slot has been minted MaxGeneration times more, find() returns  *)
(* an order for the held id exactly as long as that order is live.          *)
HeldIdFindsOnlyItsOrder ==
    Holding /\ reuses < MaxGeneration => (Found(held) <=> ~retired)
=============================================================================
