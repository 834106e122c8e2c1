------------------------------ MODULE NaiveBook -----------------------------
(***************************************************************************)
(* include/lob/naive_book.h, the "executable spec" the optimized book is   *)
(* tested against: a map from price to a list of orders per side, and an   *)
(* index from the id of every open order to where it rests.  It has no     *)
(* pool, so its ids come from the caller, and no capacity.                 *)
(*                                                                         *)
(* As in OrderBook, each turn of Match's loop is a step of its own and     *)
(* `taker' is the order whose add() is running.                            *)
(***************************************************************************)
EXTENDS LobTypes, SequencesExt

CONSTANTS NewOrders,       \* the orders a caller may submit, bad ones included
          Ids,             \* the ids a caller may use
          QtyModulus       \* 2^32, the width of Qty

ASSUME NewOrdersAssumption ==
    NewOrders \subseteq [side : Sides, type : OrderTypes, price_ticks : Int, qty : Nat]
ASSUME QtyModulusAssumption == QtyModulus \in Nat \ {0}

VARIABLES levels,          \* bids_ and asks_
          index,           \* index_
          taker,
          out              \* the events the last step appended

naiveVars == <<levels, index, taker, out>>

NoTaker == [order_id |-> kInvalidOrderId, side |-> kBuy, type |-> kLimit,
            price_ticks |-> 0, qty |-> 0, remaining |-> 0]

Idle == taker = NoTaker

Init ==
    /\ levels = [side \in Sides |-> [p \in {} |-> <<>>]]
    /\ index = [id \in {} |-> <<>>]
    /\ taker = NoTaker
    /\ out = <<>>

Open(id) == id \in DOMAIN index

(* The list at a price, empty where the map has no entry.                   *)
Level(side, price) ==
    IF price \in DOMAIN levels[side] THEN levels[side][price] ELSE <<>>

(* A plausible bug: an emptied level stays in the map.                      *)
StoredLevelKept(side, price, level) ==
    [levels EXCEPT ![side] =
        [p \in DOMAIN levels[side] \union {price} |->
            IF p = price THEN level ELSE levels[side][p]]]

(* The maps with `level' stored at a price; an emptied level is erased.     *)
StoredLevel(side, price, level) ==
    LET prices == IF level = <<>> THEN DOMAIN levels[side] \ {price}
                                  ELSE DOMAIN levels[side] \union {price}
    IN  [levels EXCEPT ![side] =
            [p \in prices |-> IF p = price THEN level ELSE levels[side][p]]]

BestPrice(side) ==
    IF side = kBuy THEN Max(DOMAIN levels[side]) ELSE Min(DOMAIN levels[side])

-----------------------------------------------------------------------------
Reject(event) ==
    /\ out' = <<event>>
    /\ UNCHANGED <<levels, index, taker>>

AddInvalid(id, new) ==
    LET rejected(reason) ==
            MakeEvent(kRejected, new.side, reason, new.qty, 0, new.price_ticks, id)
    IN  /\ Idle
        /\ \/ new.qty = 0 /\ Reject(rejected(kInvalidQty))
           \/ /\ new.qty # 0 /\ new.type # kMarket /\ new.price_ticks <= 0
              /\ Reject(rejected(kInvalidPrice))

Accept(id, new) ==
    LET price == IF new.type = kMarket THEN 0 ELSE new.price_ticks IN
    /\ Idle
    /\ new.qty # 0
    /\ new.type = kMarket \/ new.price_ticks > 0
    /\ ~Open(id)                           \* the caller's ids are fresh
    /\ taker' = [order_id |-> id, side |-> new.side, type |-> new.type,
                 price_ticks |-> price, qty |-> new.qty, remaining |-> new.qty]
    /\ out' = <<MakeEvent(kAccepted, new.side, kNone, new.qty, new.qty, price, id)>>
    /\ UNCHANGED <<levels, index>>

(* The condition of Match's loop with the lambdas add() passes for it.      *)
MatchContinues ==
    LET opposite == Opposite(taker.side) IN
    /\ taker.remaining > 0
    /\ DOMAIN levels[opposite] # {}
    /\ \/ taker.type = kMarket
       \/ taker.side = kBuy /\ BestPrice(opposite) <= taker.price_ticks
       \/ taker.side = kSell /\ BestPrice(opposite) >= taker.price_ticks

Fill ==
    LET side  == Opposite(taker.side)
        price == BestPrice(side)
        level == levels[side][price]
        maker == Head(level)
        fill  == Min({taker.remaining, maker.remaining})
        left  == maker.remaining - fill
    IN  /\ ~Idle /\ MatchContinues
        /\ levels' = StoredLevel(side, price,
                        (IF left = 0 THEN <<>> ELSE <<[maker EXCEPT !.remaining = left]>>)
                        \o Tail(level))
        /\ index' = [id \in DOMAIN index \ (IF left = 0 THEN {maker.id} ELSE {}) |-> index[id]]
        /\ taker' = [taker EXCEPT !.remaining = @ - fill]
        /\ out' = <<MakeEvent(kTraded, side, kNone, fill, left, price, maker.id),
                    MakeEvent(kTraded, taker.side, kNone, fill, taker.remaining - fill,
                              price, taker.order_id)>>

(* Rest: the order goes behind its price's list, and into the index.        *)
Linked(side, price, order) ==
    /\ levels' = StoredLevel(side, price, Append(Level(side, price), order))
    /\ index' = [id \in DOMAIN index \union {order.id} |->
                    IF id = order.id THEN [side |-> side, price |-> price] ELSE index[id]]

Rest ==
    /\ ~Idle /\ ~MatchContinues
    /\ taker.remaining > 0 /\ taker.type = kLimit
    /\ Linked(taker.side, taker.price_ticks,
              [id |-> taker.order_id, qty |-> taker.qty, remaining |-> taker.remaining])
    /\ taker' = NoTaker
    /\ out' = <<>>

Drop ==
    /\ ~Idle /\ ~MatchContinues
    /\ taker.remaining = 0 \/ taker.type # kLimit
    /\ taker' = NoTaker
    /\ out' = IF taker.remaining = 0 THEN <<>>
              ELSE <<MakeEvent(kCanceled, taker.side, kNone, taker.remaining, 0,
                               taker.price_ticks, taker.order_id)>>
    /\ UNCHANGED <<levels, index>>

Cancel(id) ==
    /\ Idle
    /\ \/ /\ ~Open(id)
          /\ Reject(MakeEvent(kRejected, kBuy, kUnknownOrder, 0, 0, 0, id))
       \/ /\ Open(id)
          /\ \E k \in DOMAIN Level(index[id].side, index[id].price) :
                LET loc   == index[id]
                    level == Level(loc.side, loc.price)
                IN  /\ level[k].id = id
                    /\ levels' = StoredLevel(loc.side, loc.price, RemoveAt(level, k))
                    /\ index' = [open \in DOMAIN index \ {id} |-> index[open]]
                    /\ out' = <<MakeEvent(kCanceled, loc.side, kNone, level[k].remaining, 0,
                                          loc.price, id)>>
                    /\ UNCHANGED taker

(* add_limit: rests without matching, even where it crosses.                *)
RestLimit(id, new) ==
    /\ new.qty # 0 /\ new.price_ticks > 0
    /\ ~Open(id)
    /\ Linked(new.side, new.price_ticks, [id |-> id, qty |-> new.qty, remaining |-> new.qty])

AddLimit(id, new) ==
    LET event(kind, reason, open) ==
            MakeEvent(kind, new.side, reason, new.qty, open, new.price_ticks, id)
    IN  /\ Idle
        /\ \/ new.qty = 0 /\ Reject(event(kRejected, kInvalidQty, 0))
           \/ new.qty # 0 /\ new.price_ticks <= 0 /\ Reject(event(kRejected, kInvalidPrice, 0))
           \/ /\ RestLimit(id, new)
              /\ out' = <<event(kAccepted, kNone, new.qty)>>
              /\ UNCHANGED taker

FreshIds == Ids \ {kInvalidOrderId}

MatchingNext ==
    \/ \E id \in FreshIds, new \in NewOrders : AddInvalid(id, new) \/ Accept(id, new)
    \/ Fill \/ Rest \/ Drop
    \/ \E id \in Ids : Cancel(id)

RestingNext ==
    \/ \E id \in FreshIds, new \in NewOrders : AddLimit(id, new)
    \/ \E id \in Ids : Cancel(id)

Next == MatchingNext \/ RestingNext

Spec == Init /\ [][Next]_naiveVars

-----------------------------------------------------------------------------
(* LevelQty adds up in a Qty, which wraps at 2^32.                          *)
qty_at(side, price) ==
    LET level == Level(side, price) IN
    MapThenSumSet(LAMBDA k : level[k].remaining, DOMAIN level) % QtyModulus

orders_at(side, price) == Len(Level(side, price))

(* index_ and the maps are two views of the same open orders: every indexed *)
(* id is in exactly the list its locator says, once, with open quantity,    *)
(* and no list holds any other order or is left empty.                      *)
IndexMatchesLevels ==
    /\ \A id \in DOMAIN index :
          \E k \in DOMAIN Level(index[id].side, index[id].price) :
              Level(index[id].side, index[id].price)[k].id = id
    /\ \A side \in Sides : \A price \in DOMAIN levels[side] :
          LET level == levels[side][price] IN
          /\ level # <<>>
          /\ \A k \in DOMAIN level :
                /\ level[k].id \in DOMAIN index
                /\ index[level[k].id] = [side |-> side, price |-> price]
                /\ level[k].remaining \in 1 .. level[k].qty
          /\ \A j, k \in DOMAIN level : level[j].id = level[k].id => j = k
=============================================================================
