----------------------------- MODULE MCNaiveBook ----------------------------
(***************************************************************************)
(* The naive book for TLC: an id is any value but kInvalidOrderId, and the *)
(* ids bound the number of orders open at once.                            *)
(***************************************************************************)
EXTENDS NaiveBook

MCIds == {make_order_id(1, i) : i \in 0 .. 2}

MCNewOrders ==
    [side : Sides, type : OrderTypes, price_ticks : {0, 2, 3}, qty : 0 .. 2]
=============================================================================
