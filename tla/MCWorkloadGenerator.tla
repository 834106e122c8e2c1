------------------------- MODULE MCWorkloadGenerator -------------------------
(***************************************************************************)
(* The generator for TLC.  States that differ only in what nothing reads   *)
(* are one state: a free slot's book fields, the events already counted.   *)
(***************************************************************************)
EXTENDS WorkloadGenerator

StoredSlot(i) ==
    IF i \in RestingSlots THEN slots[i]
    ELSE [order_id   |-> slots[i].order_id,
          next_idx   |-> slots[i].next_idx,
          generation |-> slots[i].generation]

GenView ==
    <<[i \in Index |-> StoredSlot(i)], free_head, live_count, ladder, taker,
      stats, base, filled, mid, live, counts>>
=============================================================================
