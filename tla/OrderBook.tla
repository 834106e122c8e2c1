------------------------------ MODULE OrderBook -----------------------------
(***************************************************************************)
(* include/lob/order_book.h: the matching book over one order pool and two *)
(* price ladders.  add() is modelled step by step: a validated order is    *)
(* accepted and holds a slot, each turn of Match's loop is one Fill, and   *)
(* the sweep ends with the remainder resting or being dropped.  Every step *)
(* is a point where the sink has just been called, so a client can see it. *)
(* The book has one caller at a time: a command starts when no order is in *)
(* flight.                                                                 *)
(***************************************************************************)
EXTENDS PriceLadder, Sequences

CONSTANTS NewOrders,       \* the kNew commands a caller may submit, bad ones included
          kMinPrice,       \* numeric_limits<PriceTicks>::min()
          kMaxPrice        \* numeric_limits<PriceTicks>::max()

NewOrder == [side : Sides, type : OrderTypes, price_ticks : Int, qty : Nat]

ASSUME NewOrdersAssumption ==
    /\ kMinPrice \in Int /\ kMaxPrice \in Int
    /\ \A new \in NewOrders :
          new \in NewOrder /\ new.price_ticks \in kMinPrice .. kMaxPrice

VARIABLES taker,           \* the order in flight, NoTaker between commands
          out              \* the events the last step passed to the sink

bookVars == <<slots, free_head, live_count, ladder, taker, out>>

NoTaker == [order_id |-> kInvalidOrderId, side |-> kBuy, type |-> kLimit,
            price_ticks |-> 0, qty |-> 0, remaining |-> 0]

Idle == taker = NoTaker

BookInit ==
    /\ PoolInit
    /\ LadderInit
    /\ taker = NoTaker
    /\ out = <<>>

-----------------------------------------------------------------------------
(* add: validation, in the code's order, then the pool.                     *)
ValidQty(new) == new.qty # 0

ValidPrice(new) == new.type = kMarket \/ new.price_ticks > 0

RejectAdd(new, reason) ==
    /\ out' = <<MakeEvent(kRejected, new.side, reason, new.qty, 0, new.price_ticks,
                          kInvalidOrderId)>>
    /\ UNCHANGED <<slots, free_head, live_count, ladder, taker>>

AddInvalid(new) ==
    /\ Idle
    /\ \/ ~ValidQty(new) /\ RejectAdd(new, kInvalidQty)
       \/ ValidQty(new) /\ ~ValidPrice(new) /\ RejectAdd(new, kInvalidPrice)

AddToFullPool(new) ==
    /\ Idle
    /\ ValidQty(new) /\ ValidPrice(new)
    /\ PoolExhausted
    /\ RejectAdd(new, kPoolExhausted)

(* A market order carries price 0 in its events.                            *)
OrderPrice(new) == IF new.type = kMarket THEN 0 ELSE new.price_ticks

Accept(new) ==
    /\ Idle
    /\ ValidQty(new) /\ ValidPrice(new)
    /\ Alloc
    /\ taker' = [order_id |-> MintedId, side |-> new.side, type |-> new.type,
                 price_ticks |-> OrderPrice(new), qty |-> new.qty, remaining |-> new.qty]
    /\ out' = <<MakeEvent(kAccepted, new.side, kNone, new.qty, new.qty, OrderPrice(new),
                          MintedId)>>
    /\ UNCHANGED ladder

-----------------------------------------------------------------------------
(* Plausible bugs: a market order is matched at the price it carries, and   *)
(* equal prices do not cross.                                               *)
OwnLimitPrice == taker.price_ticks

CrossesStrictly(side, limit, price) == IF side = kBuy THEN price < limit ELSE price > limit

(* Match.  A market order is a limit at an unbeatable price.                *)
LimitPrice ==
    IF taker.type # kMarket THEN taker.price_ticks
    ELSE IF taker.side = kBuy THEN kMaxPrice ELSE kMinPrice

Crosses(side, limit, price) == IF side = kBuy THEN price <= limit ELSE price >= limit

(* A plausible bug: the loop goes on when nothing is left to match.         *)
MatchContinuesAtZero ==
    LET opposite == Opposite(taker.side) IN
    /\ ~SideEmpty(opposite)
    /\ Crosses(taker.side, LimitPrice, best_price(opposite))

(* The condition of Match's loop, with its break.                           *)
MatchContinues ==
    LET opposite == Opposite(taker.side) IN
    /\ taker.remaining > 0
    /\ ~SideEmpty(opposite)
    /\ Crosses(taker.side, LimitPrice, best_price(opposite))

(* Plausible bugs: the newest order of the level is matched first, and the  *)
(* fill takes all of the maker whatever the taker has left.                 *)
BestLevelTail == LevelAt(Opposite(taker.side), best_price(Opposite(taker.side))).tail_idx

AllOfMaker(a, b) == b

(* The order at the head of the best opposite level.                        *)
BestLevelHead == LevelAt(Opposite(taker.side), best_price(Opposite(taker.side))).head_idx

SmallerOf(a, b) == IF a < b THEN a ELSE b

(* Plausible bugs: the events carry the maker's quantity or remaining as it *)
(* was before the fill.                                                     *)
FillEventsOfMaker(maker, fill) ==
    <<MakeEvent(kTraded, maker.side, kNone, maker.remaining, maker.remaining - fill,
                maker.price_ticks, maker.order_id),
      MakeEvent(kTraded, taker.side, kNone, maker.remaining, taker.remaining - fill,
                maker.price_ticks, taker.order_id)>>

FillEventsBefore(maker, fill) ==
    <<MakeEvent(kTraded, maker.side, kNone, fill, maker.remaining,
                maker.price_ticks, maker.order_id),
      MakeEvent(kTraded, taker.side, kNone, fill, taker.remaining - fill,
                maker.price_ticks, taker.order_id)>>

FillEvents(maker, fill) ==
    <<MakeEvent(kTraded, maker.side, kNone, fill, maker.remaining - fill,
                maker.price_ticks, maker.order_id),
      MakeEvent(kTraded, taker.side, kNone, fill, taker.remaining - fill,
                maker.price_ticks, taker.order_id)>>

(* A filled maker leaves with its remaining untouched: unlink debits it.    *)
FillMaker(i) ==
    /\ taker.remaining >= slots[i].remaining
    /\ FreeIn(UnlinkedSlots(slots, i), i)
    /\ ladder' = [ladder EXCEPT ![slots[i].side] = RemovedLadder(slots, i)]

(* A plausible bug: the maker goes to the back of its level.                *)
DebitMakerToBack(i, fill) ==
    LET side  == Opposite(taker.side)
        price == best_price(side)
        level == LevelWithout(slots, LevelAt(side, price), i)
        loose == [UnlinkedSlots(slots, i) EXCEPT ![i].remaining = @ - fill]
    IN  /\ taker.remaining < slots[i].remaining
        /\ slots' = LinkedSlots(loose, level, i, slots[i].level_idx)
        /\ ladder' = [ladder EXCEPT ![side] = StoreLevel(side, price, LevelWith(loose, level, i))]
        /\ UNCHANGED <<free_head, live_count>>

(* A partly filled maker keeps its place; it and its level are debited.     *)
DebitMaker(i, fill) ==
    LET side  == Opposite(taker.side)
        price == best_price(side)
        level == LevelAt(side, price)
    IN  /\ taker.remaining < slots[i].remaining
        /\ slots' = [slots EXCEPT ![i].remaining = @ - fill]
        /\ ladder' = [ladder EXCEPT ![side] =
                        StoreLevel(side, price, [level EXCEPT !.total_qty = @ - fill])]
        /\ UNCHANGED <<free_head, live_count>>

Fill ==
    LET i    == BestLevelHead
        fill == SmallerOf(taker.remaining, slots[i].remaining)
    IN  /\ ~Idle
        /\ MatchContinues
        /\ FillMaker(i) \/ DebitMaker(i, fill)
        /\ taker' = [taker EXCEPT !.remaining = @ - fill]
        /\ out' = FillEvents(slots[i], fill)

-----------------------------------------------------------------------------
(* The end of add: nothing rests, or the limit remainder does.              *)
Drops == taker.remaining = 0 \/ taker.type # kLimit

(* A plausible bug: the slot of a taker that does not rest is not freed.    *)
DropTakerLeaking ==
    /\ ~Idle /\ ~MatchContinues
    /\ Drops
    /\ out' = IF taker.remaining = 0 THEN <<>>
              ELSE <<MakeEvent(kCanceled, taker.side, kNone, taker.remaining, 0,
                               taker.price_ticks, taker.order_id)>>
    /\ taker' = NoTaker
    /\ UNCHANGED <<slots, free_head, live_count, ladder>>

DropTaker ==
    /\ ~Idle /\ ~MatchContinues
    /\ Drops
    /\ out' = IF taker.remaining = 0 THEN <<>>
              ELSE <<MakeEvent(kCanceled, taker.side, kNone, taker.remaining, 0,
                               taker.price_ticks, taker.order_id)>>
    /\ FreeIn(slots, index_of(taker.order_id))
    /\ taker' = NoTaker
    /\ UNCHANGED ladder

(* Order i rests: the caller's fields are filled and push_order links it.   *)
Rest(s, i, side, price, qty, remaining) ==
    LET filled == [s EXCEPT ![i] = [@ EXCEPT !.price_ticks = price, !.qty = qty,
                                             !.remaining = remaining, !.side = side]]
    IN  /\ slots' = PushedSlots(filled, i)
        /\ ladder' = [ladder EXCEPT ![side] = PushedLadder(filled, i)]

RestTaker ==
    /\ ~Idle /\ ~MatchContinues
    /\ ~Drops
    /\ Rest(slots, index_of(taker.order_id), taker.side, taker.price_ticks,
            taker.qty, taker.remaining)
    /\ out' = <<>>
    /\ taker' = NoTaker
    /\ UNCHANGED <<free_head, live_count>>

-----------------------------------------------------------------------------
(* cancel, of an open order and of any other id.                            *)
CancelOpen(id) ==
    LET i == index_of(id) IN
    /\ Idle
    /\ Found(id)
    /\ ladder' = [ladder EXCEPT ![slots[i].side] = RemovedLadder(slots, i)]
    /\ FreeIn(UnlinkedSlots(slots, i), i)
    /\ out' = <<MakeEvent(kCanceled, slots[i].side, kNone, slots[i].remaining, 0,
                          slots[i].price_ticks, id)>>
    /\ UNCHANGED taker

CancelUnknown(id) ==
    /\ Idle
    /\ ~Found(id)
    /\ out' = <<MakeEvent(kRejected, kBuy, kUnknownOrder, 0, 0, 0, id)>>
    /\ UNCHANGED <<slots, free_head, live_count, ladder, taker>>

(* add_limit: rests without matching and emits nothing.                     *)
AddLimit(new) ==
    /\ Idle
    /\ out' = <<>>
    /\ IF new.qty = 0 \/ new.price_ticks <= 0 \/ PoolExhausted
       THEN UNCHANGED <<slots, free_head, live_count, ladder, taker>>
       ELSE /\ Rest(MintedSlots, free_head, new.side, new.price_ticks, new.qty, new.qty)
            /\ PopFreeList
            /\ UNCHANGED taker

-----------------------------------------------------------------------------
(* Ids a caller may name: every one the pool can mint, a forged index past  *)
(* the slab, and the invalid id.                                            *)
CancelIds == Generation \X (0 .. Capacity)

Sweep == Fill \/ DropTaker \/ RestTaker

Cancel == \E id \in CancelIds : CancelOpen(id) \/ CancelUnknown(id)

Add == \E new \in NewOrders : AddInvalid(new) \/ AddToFullPool(new) \/ Accept(new)

BookNext == Add \/ Sweep \/ Cancel

(* Match's loop runs without waiting for anything once it has started.      *)
BookSpec == BookInit /\ [][BookNext]_bookVars /\ WF_bookVars(Sweep)

(* The structural harness: add_limit and cancel only.                       *)
RestOnlyNext == (\E new \in NewOrders : AddLimit(new)) \/ Cancel

RestOnlySpec == BookInit /\ [][RestOnlyNext]_bookVars

-----------------------------------------------------------------------------
(* The six variables have their types.                                      *)
BookTypeOK ==
    /\ PoolTypeOK
    /\ \A side \in Sides :
          /\ ladder[side].levels \in [Offsets -> Level]
          /\ \A p \in DOMAIN ladder[side].overflow : ladder[side].overflow[p] \in Level
          /\ ladder[side].best_offset \in Offsets \union {kNullIdx}
          /\ ladder[side].band_orders \in 0 .. Capacity
    /\ taker \in [order_id : OrderId, side : Sides, type : OrderTypes,
                  price_ticks : Int, qty : Nat, remaining : Nat]
    /\ taker.remaining <= taker.qty

RestingSlots == RestingOn(kBuy) \union RestingOn(kSell)

InFlight == IF Idle THEN {} ELSE {index_of(taker.order_id)}

(* No order is leaked and none rests twice: the live slots are those linked *)
(* into the levels, plus the one of the order in flight.                    *)
CensusMatchesPool ==
    /\ RestingSlots = LiveSlots \ InFlight
    /\ RestingOn(kBuy) \intersect RestingOn(kSell) = {}
    /\ InFlight \subseteq LiveSlots

(* What check_invariants walks, in a crossed book too: sound levels, a true *)
(* best, and orders that are where the pool says.                           *)
StructureIsSound == LevelsAreSound /\ CursorIsTrueBest /\ CensusMatchesPool

(* Matching never leaves the book crossed (uncrossed(), asserted after each *)
(* add), nor crosses it on the way.                                         *)
BookIsUncrossed ==
    \A bid \in RestingPrices(kBuy), ask \in RestingPrices(kSell) : bid < ask

(* The open quantity an id stands for.                                      *)
OpenQtyOf(id) ==
    IF id = taker.order_id THEN taker.remaining
    ELSE IF Found(id) THEN slots[index_of(id)].remaining ELSE 0

-----------------------------------------------------------------------------
(* Order j is to be matched before order i of the same side.                *)
Position(level, i) == CHOOSE k \in 1 .. level.order_count : Fifo(level)[k] = i

Before(j, i) ==
    LET level == LevelAt(slots[i].side, slots[i].price_ticks) IN
    /\ slots[j].side = slots[i].side
    /\ \/ IsBetter(slots[i].side, slots[j].price_ticks, slots[i].price_ticks)
       \/ /\ slots[j].price_ticks = slots[i].price_ticks
          /\ Position(level, j) < Position(level, i)

(* A fill hits an order that nothing rests before, whose price the taker's  *)
(* limit allows, and at that order's own price.                             *)
FillsFollowPriority ==
    [][\A i \in RestingSlots :
          /\ ~Idle /\ i \in RestingSlots
          /\ slots'[i].remaining # slots[i].remaining \/ slots'[i].order_id # slots[i].order_id
          => /\ slots[i].side = Opposite(taker.side)
             /\ Crosses(taker.side, LimitPrice, slots[i].price_ticks)
             /\ \A j \in RestingSlots \ {i} : ~Before(j, i)
             /\ \A k \in 1 .. Len(out') : out'[k].price_ticks = slots[i].price_ticks]_bookVars

(* Resting orders keep their place: of two orders that stay at a price, the *)
(* first stays first, and an order that comes to rest goes behind both.     *)
TimePriorityIsKept ==
    [][\A i, j \in RestingSlots' :
          /\ i # j
          /\ slots'[i].side = slots'[j].side /\ slots'[i].price_ticks = slots'[j].price_ticks
          /\ i \in RestingSlots /\ slots'[i].order_id = slots[i].order_id
          => \/ j \in RestingSlots /\ (Before(i, j) <=> Before(i, j)')
             \/ j \notin RestingSlots /\ Before(i, j)']_bookVars

(* The quantity the events of a step with `kind' carry.                     *)
EventQty(events, kind) ==
    SumFunction([k \in DOMAIN events |-> IF events[k].kind = kind THEN events[k].qty ELSE 0])

OpenQty == SumFunctionOnSet(OpenQuantities, RestingSlots) + taker.remaining

(* The events account for the open quantity, step by step: it grows by what *)
(* is accepted and shrinks by what is traded, on each side, or canceled.    *)
EventsAccountForQuantity ==
    [][OpenQty' = OpenQty + EventQty(out', kAccepted)
                  - EventQty(out', kTraded) - EventQty(out', kCanceled)]_bookVars

(* Event::remaining is the "open qty of this order after the event": every  *)
(* event of a step names an order whose open quantity is now what the event *)
(* says, a filled or canceled one being gone (0).                           *)
EventsReportOpenQty ==
    [][\A id \in CancelIds \ {kInvalidOrderId}, k \in 1 .. Len(out') :
          out'[k].order_id = id => OpenQtyOf(id)' = out'[k].remaining]_bookVars

(* Every sweep ends: an accepted order is not in flight forever.            *)
SweepEnds == ~Idle ~> Idle
=============================================================================
