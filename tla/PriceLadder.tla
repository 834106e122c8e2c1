----------------------------- MODULE PriceLadder ----------------------------
(***************************************************************************)
(* include/lob/price_ladder.h: one side of the book as a band of price     *)
(* levels around an anchor, a map of overflow levels for the prices        *)
(* outside the band, a cursor on the best non-empty band level and a count *)
(* of the orders in the band.  A level is a FIFO threaded through the      *)
(* slots of its orders.                                                    *)
(*                                                                         *)
(* `ladder' holds both sides (OrderBook::bids_ and asks_).  The operators  *)
(* take the slots or the ladder they edit and return the edited one: the   *)
(* book's actions combine them with alloc and free.                        *)
(***************************************************************************)
EXTENDS OrderPool, FiniteSetsExt

CONSTANTS AnchorPrice, BandRadius

ASSUME AnchorAssumption == AnchorPrice \in Nat \ {0}
ASSUME RadiusAssumption == BandRadius \in Nat \ {0}

VARIABLE ladder

kOverflowIdx == -2

low_price == AnchorPrice - BandRadius

Offsets == 0 .. 2 * BandRadius

in_band(price) == price - low_price \in Offsets

Level == [head_idx : Link, tail_idx : Link, order_count : Nat, total_qty : Nat]

EmptyLevel == [head_idx |-> kNullIdx, tail_idx |-> kNullIdx,
               order_count |-> 0, total_qty |-> 0]

EmptyLadder == [levels      |-> [o \in Offsets |-> EmptyLevel],
                overflow    |-> [p \in {} |-> EmptyLevel],
                best_offset |-> kNullIdx,
                band_orders |-> 0]

LadderInit == ladder = [side \in Sides |-> EmptyLadder]

IsEmpty(level) == level.head_idx = kNullIdx

(* "Better" is toward the front of the book: higher bids, lower asks.       *)
IsBetter(side, lhs, rhs) == IF side = kBuy THEN lhs > rhs ELSE lhs < rhs

Best(side, prices) == IF side = kBuy THEN Max(prices) ELSE Min(prices)

-----------------------------------------------------------------------------
(* PriceLevel: the FIFO of one price.                                       *)

(* The slots once i is linked behind the level's tail, with its level_idx.  *)
LinkedSlots(s, level, i, level_idx) ==
    [j \in Index |->
        [s[j] EXCEPT !.prev_idx  = IF j = i THEN level.tail_idx ELSE @,
                     !.next_idx  = IF j = level.tail_idx THEN i ELSE @,
                     !.level_idx = IF j = i THEN level_idx ELSE @]]

LevelWith(s, level, i) ==
    [head_idx    |-> IF level.tail_idx = kNullIdx THEN i ELSE level.head_idx,
     tail_idx    |-> i,
     order_count |-> level.order_count + 1,
     total_qty   |-> level.total_qty + s[i].remaining]

(* A plausible bug: the links around i are joined in one direction only.    *)
UnlinkedForward(s, i) ==
    LET prev == s[i].prev_idx
        next == s[i].next_idx
    IN  [[j \in Index |-> [s[j] EXCEPT !.next_idx = IF j = prev THEN next ELSE @]]
         EXCEPT ![i] = [s[i] EXCEPT !.prev_idx = kNullIdx, !.next_idx = kNullIdx,
                                    !.level_idx = kNullIdx]]

(* The slots once i is taken out of its FIFO and its links are reset.       *)
UnlinkedSlots(s, i) ==
    LET prev == s[i].prev_idx
        next == s[i].next_idx
    IN  [[j \in Index |->
            [s[j] EXCEPT !.next_idx = IF j = prev THEN next ELSE @,
                         !.prev_idx = IF j = next THEN prev ELSE @]]
         EXCEPT ![i] = [s[i] EXCEPT !.prev_idx = kNullIdx, !.next_idx = kNullIdx,
                                    !.level_idx = kNullIdx]]

LevelWithout(s, level, i) ==
    [head_idx    |-> IF s[i].prev_idx = kNullIdx THEN s[i].next_idx ELSE level.head_idx,
     tail_idx    |-> IF s[i].next_idx = kNullIdx THEN s[i].prev_idx ELSE level.tail_idx,
     order_count |-> level.order_count - 1,
     total_qty   |-> level.total_qty - s[i].remaining]

-----------------------------------------------------------------------------
(* The level resting at `price', or a fresh one where the map has none:     *)
(* find_level, level_at, and overflow_[price] of push_order.                *)
LevelAt(side, price) ==
    IF in_band(price)
    THEN ladder[side].levels[price - low_price]
    ELSE IF price \in DOMAIN ladder[side].overflow
         THEN ladder[side].overflow[price]
         ELSE EmptyLevel

(* One side with `level' stored at `price'.                                 *)
StoreLevel(side, price, level) ==
    IF in_band(price)
    THEN [ladder[side] EXCEPT !.levels[price - low_price] = level]
    ELSE [ladder[side] EXCEPT !.overflow =
            [p \in DOMAIN @ \union {price} |-> IF p = price THEN level ELSE @[p]]]

(* push_order: level_idx of the order, and its side of the ladder, after.   *)
PushedLevelIdx(price) == IF in_band(price) THEN price - low_price ELSE kOverflowIdx

PushedSlots(s, i) ==
    LinkedSlots(s, LevelAt(s[i].side, s[i].price_ticks), i, PushedLevelIdx(s[i].price_ticks))

PushedLadder(s, i) ==
    LET side   == s[i].side
        price  == s[i].price_ticks
        offset == price - low_price
        stored == StoreLevel(side, price, LevelWith(s, LevelAt(side, price), i))
        best   == stored.best_offset
    IN  IF in_band(price)
        THEN [stored EXCEPT
                !.band_orders = @ + 1,
                !.best_offset = IF best = kNullIdx \/ IsBetter(side, offset, best)
                                THEN offset ELSE best]
        ELSE stored

(* Plausible bugs: the scan looks at the next level only, or starts from    *)
(* the far end of the band.                                                 *)
AdvancedToNeighbour(side, levels, from) ==
    LET next == {o \in Offsets : IsBetter(side, from, o) /\ o \in {from - 1, from + 1}
                                 /\ ~IsEmpty(levels[o])}
    IN  IF next = {} THEN kNullIdx ELSE Best(side, next)

AdvancedFromFarEnd(side, levels, from) ==
    LET worse == {o \in Offsets : IsBetter(side, from, o) /\ ~IsEmpty(levels[o])}
    IN  IF worse = {} THEN kNullIdx ELSE Best(Opposite(side), worse)

(* AdvanceBest: the nearest non-empty level on the worse side of `from'.    *)
AdvancedBest(side, levels, from) ==
    LET worse == {o \in Offsets : IsBetter(side, from, o) /\ ~IsEmpty(levels[o])}
    IN  IF worse = {} THEN kNullIdx ELSE Best(side, worse)

(* remove_order: the level is found through level_idx, except in overflow.  *)
LevelPrice(order) ==
    IF order.level_idx = kOverflowIdx THEN order.price_ticks
                                      ELSE low_price + order.level_idx

RemovedLadder(s, i) ==
    LET side   == s[i].side
        offset == s[i].level_idx
        price  == LevelPrice(s[i])
        shrunk == LevelWithout(s, LevelAt(side, price), i)
        stored == StoreLevel(side, price, shrunk)
        band   == stored.band_orders - 1
    IN  IF offset = kOverflowIdx
        THEN IF IsEmpty(shrunk)
             THEN [stored EXCEPT !.overflow = [p \in DOMAIN @ \ {price} |-> @[p]]]
             ELSE stored
        ELSE [stored EXCEPT
                !.band_orders = band,
                !.best_offset = IF ~IsEmpty(shrunk) \/ offset # @ THEN @
                                ELSE IF band = 0 THEN kNullIdx
                                ELSE AdvancedBest(side, stored.levels, offset)]

-----------------------------------------------------------------------------
(* A plausible bug: best_price() asks the overflow map only when the band   *)
(* is empty.                                                                *)
BandFirst(side) ==
    IF ladder[side].best_offset # kNullIdx THEN low_price + ladder[side].best_offset
    ELSE Best(side, DOMAIN ladder[side].overflow)

(* empty() and best_price(): the cursor against the overflow map's best.    *)
SideEmpty(side) ==
    /\ ladder[side].best_offset = kNullIdx
    /\ DOMAIN ladder[side].overflow = {}

best_price(side) ==
    Best(side, DOMAIN ladder[side].overflow \union
               (IF ladder[side].best_offset = kNullIdx THEN {}
                ELSE {low_price + ladder[side].best_offset}))

-----------------------------------------------------------------------------
(* What check_invariants walks.                                             *)

(* The prices that have a level, in the band or in the overflow map.        *)
LevelPrices(side) ==
    {low_price + o : o \in Offsets} \union DOMAIN ladder[side].overflow

(* The slots a level's list visits from its head, order_count of them.      *)
Fifo(level) ==
    LET at[k \in 1 .. level.order_count] ==
            IF k = 1 THEN level.head_idx
            ELSE IF at[k - 1] \in Index THEN slots[at[k - 1]].next_idx
            ELSE kNullIdx
    IN  [k \in 1 .. level.order_count |-> at[k]]

Members(level) == {Fifo(level)[k] : k \in 1 .. level.order_count}

OpenQuantities == [i \in Index |-> slots[i].remaining]

(* The FIFO is a well-formed doubly linked list of distinct live orders     *)
(* from head to tail, and the aggregates are those of a walk.               *)
LevelIsSound(level) ==
    LET fifo == Fifo(level)
        n    == level.order_count
    IN  IF IsEmpty(level) THEN level = EmptyLevel
        ELSE /\ n > 0
             /\ Members(level) \subseteq LiveSlots
             /\ Cardinality(Members(level)) = n
             /\ fifo[n] = level.tail_idx /\ slots[fifo[n]].next_idx = kNullIdx
             /\ \A k \in 1 .. n :
                   slots[fifo[k]].prev_idx = IF k = 1 THEN kNullIdx ELSE fifo[k - 1]
             /\ level.total_qty = SumFunctionOnSet(OpenQuantities, Members(level))

(* An order agrees with the level it is linked into.                        *)
OrderMatchesLevel(side, price, i) ==
    /\ slots[i].side = side
    /\ slots[i].price_ticks = price
    /\ slots[i].level_idx = PushedLevelIdx(price)
    /\ slots[i].remaining \in 1 .. slots[i].qty

(* Every FIFO is a sound list and total_qty and order_count match it.       *)
LevelsAreSound ==
    \A side \in Sides : \A price \in LevelPrices(side) :
        /\ LevelIsSound(LevelAt(side, price))
        /\ \A i \in Members(LevelAt(side, price)) : OrderMatchesLevel(side, price, i)

(* The prices where orders rest, by a walk of every level.                  *)
RestingPrices(side) == {p \in LevelPrices(side) : ~IsEmpty(LevelAt(side, p))}

(* empty() and best_price() tell the truth about a walk of the levels, the  *)
(* band counter counts the band, and the map holds no empty or in-band      *)
(* level: what the cursor, its O(1) empty transition and its scan maintain. *)
CursorIsTrueBest ==
    \A side \in Sides :
        /\ SideEmpty(side) <=> RestingPrices(side) = {}
        /\ ~SideEmpty(side) => best_price(side) = Best(side, RestingPrices(side))
        /\ ladder[side].band_orders =
              SumFunctionOnSet([o \in Offsets |-> ladder[side].levels[o].order_count], Offsets)
        /\ \A p \in DOMAIN ladder[side].overflow :
              ~in_band(p) /\ ~IsEmpty(ladder[side].overflow[p])

(* All the orders resting on a side.                                        *)
RestingOn(side) == UNION {Members(LevelAt(side, p)) : p \in LevelPrices(side)}
=============================================================================
