-------------------------- MODULE BookRefinesNaive --------------------------
(***************************************************************************)
(* The optimized book implements the naive one: the linked lists of every  *)
(* level, read as sequences, are the naive lists; the live slots but the   *)
(* one in flight are the naive index; both emit the same events.  It is    *)
(* what tests/differential_matching_test.cc samples by running both books  *)
(* on the same commands, with its two allowances: a reject of an add       *)
(* carries no id in the book and the dummy id in the oracle, and the       *)
(* oracle has no pool, so a full-pool reject is a step of its own (the     *)
(* test sizes the pool so that it never happens).                          *)
(***************************************************************************)
EXTENDS OrderBook

CONSTANT QtyModulus        \* 2^32, the width of Qty

ASSUME OracleWidthAssumption == QtyModulus \in Nat \ {0}

kDummyId == make_order_id(MaxGeneration + 1, Capacity)

NaiveOrder(i) ==
    [id |-> slots[i].order_id, qty |-> slots[i].qty, remaining |-> slots[i].remaining]

naiveLevels ==
    [side \in Sides |->
        [price \in RestingPrices(side) |->
            LET fifo == Fifo(LevelAt(side, price))
            IN  [k \in DOMAIN fifo |-> NaiveOrder(fifo[k])]]]

naiveIndex ==
    [id \in {slots[i].order_id : i \in LiveSlots \ InFlight} |->
        [side  |-> slots[index_of(id)].side,
         price |-> slots[index_of(id)].price_ticks]]

(* The harness gives the oracle the dummy id when the book minted none.     *)
IsAddReject(event) == event.kind = kRejected /\ event.reason # kUnknownOrder

naiveOut ==
    [k \in DOMAIN out |->
        IF IsAddReject(out[k]) THEN [out[k] EXCEPT !.order_id = kDummyId] ELSE out[k]]

N == INSTANCE NaiveBook
     WITH Ids <- CancelIds \union {kDummyId},
          levels <- naiveLevels, index <- naiveIndex, out <- naiveOut

FullPoolReject ==
    /\ \E new \in NewOrders :
          naiveOut' = <<MakeEvent(kRejected, new.side, kPoolExhausted, new.qty, 0,
                                  new.price_ticks, kDummyId)>>
    /\ UNCHANGED <<naiveLevels, naiveIndex, taker>>

(* Every behaviour of the book is one of the naive book, event for event,   *)
(* once full-pool rejects are set aside.                                    *)
ImplementsNaive == N!Init /\ [][N!MatchingNext \/ FullPoolReject]_<<naiveLevels, naiveIndex, taker, naiveOut>>

(* add_limit rests "exactly like NaiveBook::add_limit" and both books cancel *)
(* alike; the events are set aside, add_limit emits none in this book.      *)
RestingImplementsNaive ==
    [][\/ \E id \in DOMAIN naiveIndex' : \E new \in NewOrders : N!RestLimit(id, new)
       \/ \E id \in CancelIds : N!Cancel(id)]_<<naiveLevels, naiveIndex>>

(* A level's total_qty is "the same quantity NaiveBook::qty_at reports" at   *)
(* every price where a level exists; price_ladder.h:32-34 says so without   *)
(* a bound on the sum.                                                      *)
QtyAtAgrees ==
    \A side \in Sides : \A price \in LevelPrices(side) :
        LevelAt(side, price).total_qty = N!qty_at(side, price)

(* All queries of the two books agree between commands: qty_at, orders_at,  *)
(* open_orders, contains and the best prices.                               *)
QueriesAgree ==
    Idle =>
    /\ QtyAtAgrees
    /\ live_count = Cardinality(DOMAIN naiveIndex)
    /\ \A id \in CancelIds : Found(id) <=> N!Open(id)
    /\ \A side \in Sides :
          /\ SideEmpty(side) <=> DOMAIN naiveLevels[side] = {}
          /\ ~SideEmpty(side) => best_price(side) = N!BestPrice(side)
          /\ \A price \in LevelPrices(side) :
                LevelAt(side, price).order_count = N!orders_at(side, price)
=============================================================================
