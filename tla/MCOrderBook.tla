----------------------------- MODULE MCOrderBook ----------------------------
(***************************************************************************)
(* The book for TLC.  Commands are chosen so that each kind of rejection   *)
(* and each order type occurs, with limit orders at every price of         *)
(* GoodPrices and up to MaxQty.                                            *)
(***************************************************************************)
EXTENDS OrderBook

CONSTANTS GoodPrices, MaxQty

Limits ==
    [side : Sides, type : {kLimit}, price_ticks : GoodPrices, qty : 1 .. MaxQty]

(* Market orders ignore their price, so one bad price stands for all.       *)
Sweepers ==
    [side : Sides, type : {kIoc}, price_ticks : GoodPrices, qty : {MaxQty}] \union
    [side : Sides, type : {kMarket}, price_ticks : {0}, qty : {MaxQty}]

BadOrders ==
    [side : {kBuy}, type : {kMarket}, price_ticks : {0}, qty : {0}] \union
    [side : {kSell}, type : {kLimit}, price_ticks : {0}, qty : {1}]

MCNewOrders == Limits \union Sweepers \union BadOrders

MCLimits == Limits \union BadOrders

(* States that differ only in what nothing reads are one state: the book    *)
(* fields of a slot where no order rests, and the events already emitted.   *)
BookView ==
    <<[i \in Index |-> IF i \in LiveSlots \ InFlight THEN slots[i]
                       ELSE [order_id   |-> slots[i].order_id,
                             next_idx   |-> slots[i].next_idx,
                             generation |-> slots[i].generation]],
      free_head, live_count, ladder, taker>>
=============================================================================
