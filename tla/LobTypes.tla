------------------------------ MODULE LobTypes ------------------------------
(***************************************************************************)
(* The vocabulary every other module shares: the enums and the two wire    *)
(* records of include/lob/types.h.  Scalars are the integers the code      *)
(* uses; an OrderId is the pair of 32-bit halves that order_pool.h packs   *)
(* into one 64-bit word, so equality of pairs is equality of words.        *)
(***************************************************************************)
EXTENDS Integers

kBuy  == "buy"
kSell == "sell"
Sides == {kBuy, kSell}

Opposite(side) == IF side = kBuy THEN kSell ELSE kBuy

kLimit  == "limit"
kMarket == "market"
kIoc    == "ioc"
OrderTypes == {kLimit, kMarket, kIoc}

kAccepted == "accepted"
kRejected == "rejected"
kTraded   == "traded"
kCanceled == "canceled"

kNone          == "none"
kInvalidQty    == "invalid_qty"
kInvalidPrice  == "invalid_price"
kPoolExhausted == "pool_exhausted"
kUnknownOrder  == "unknown_order"

(* The encoding of ids: make_order_id, generation_of and index_of.         *)
make_order_id(generation, index) == <<generation, index>>
generation_of(id) == id[1]
index_of(id) == id[2]

kInvalidOrderId == make_order_id(0, 0)

MakeEvent(kind, side, reason, qty, remaining, price, id) ==
    [kind |-> kind, side |-> side, reason |-> reason, qty |-> qty,
     remaining |-> remaining, price_ticks |-> price, order_id |-> id]
=============================================================================
