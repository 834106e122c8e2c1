-------------------------- MODULE OrderBookProofs ---------------------------
(***************************************************************************)
(* The order book is sound for every capacity, price window and stream of  *)
(* orders, at every step inside a sweep as well as between calls.          *)
(*                                                                         *)
(* BookInv strengthens what OrderBook checks: Structure (BookStorageProofs)*)
(* of the slots that rest, which are the live ones but for the one in      *)
(* flight, and what the taker is.  Each action changes the orders at rest  *)
(* in one of four ways: nothing (Stays), one out of its level (Leaves), one*)
(* debited in place (Shrinks), one more at a tail (Joins); KeepsPlaces says*)
(* that the others keep their places.  Uncrossed is stated of the orders,  *)
(* since a step moves orders and not prices.                               *)
(*                                                                         *)
(* At the end, the engine: Tallies says what the events of one step add to *)
(* the counters, and EngineInv relates the counters to the open orders in  *)
(* the middle of a command too, where Done counts a taker that is filled   *)
(* and not yet released.                                                   *)
(***************************************************************************)
EXTENDS MatchingEngine, BookStorageProofs

USE CapacityAssumption, MaxGenerationAssumption, AnchorAssumption, RadiusAssumption,
    NewOrdersAssumption

-----------------------------------------------------------------------------
LEMMA StructureMeansSound ==
    ASSUME Structure(slots, ladder, LiveSlots \ InFlight), InFlight \subseteq LiveSlots
    PROVE  StructureIsSound
<1> DEFINE R == LiveSlots \ InFlight
<1>0. /\ Structure(slots, ladder, R) /\ R \subseteq LiveSlots /\ R \in SUBSET Index
      /\ \A side \in Sides : ladder[side] \in OneSide /\ CursorIsTrue(side, ladder[side])
      /\ \A i \in R : Fits(slots[i])
  BY StructureType
<1> HIDE DEF R
<1>1. LevelsAreSound
  <2> SUFFICES ASSUME NEW side \in Sides, NEW price \in LevelPrices(side)
               PROVE  /\ LevelIsSound(LevelAt(side, price))
                      /\ \A i \in Members(LevelAt(side, price)) : OrderMatchesLevel(side, price, i)
    BY DEF LevelsAreSound
  <2>1. price \in Int
    BY <1>0, LevelPricesType
  <2>2. /\ LevelIsSound(LevelAt(side, price))
        /\ Members(LevelAt(side, price)) = Group(slots, R, side, price)
    BY <1>0, <2>1, MembersAreGroup
  <2>3. ASSUME NEW i \in Group(slots, R, side, price) PROVE OrderMatchesLevel(side, price, i)
    <3>1. i \in R /\ At(slots[i], side, price) /\ Fits(slots[i])
      BY <1>0 DEF Group
    <3> QED
      BY <3>1 DEF At, Fits, OrderMatchesLevel
  <2> QED
    BY <2>2, <2>3
<1>2. CursorIsTrueBest
  <2> SUFFICES ASSUME NEW side \in Sides
               PROVE  /\ SideEmpty(side) <=> RestingPrices(side) = {}
                      /\ ~SideEmpty(side) => best_price(side) = Best(side, RestingPrices(side))
                      /\ ladder[side].band_orders =
                            SumFunctionOnSet([o \in Offsets |-> ladder[side].levels[o].order_count], Offsets)
                      /\ \A p \in DOMAIN ladder[side].overflow :
                            ~in_band(p) /\ ~IsEmpty(ladder[side].overflow[p])
    BY DEF CursorIsTrueBest
  <2>1. CursorIsTrue(side, ladder[side])
    BY <1>0
  <2>2. /\ SideEmpty(side) <=> RestingPrices(side) = {}
        /\ RestingPrices(side) # {} => best_price(side) = Best(side, RestingPrices(side))
    BY <1>0, BestIsTrue
  <2> QED
    BY <2>1, <2>2 DEF CursorIsTrue, Counts
<1>3. \A side \in Sides : RestingOn(side) = Sided(R, side)
  <2> SUFFICES ASSUME NEW side \in Sides PROVE RestingOn(side) = Sided(R, side)
    OBVIOUS
  <2>1. ASSUME NEW i \in RestingOn(side) PROVE i \in Sided(R, side)
    <3>1. PICK p \in LevelPrices(side) : i \in Members(LevelAt(side, p))
      BY <2>1 DEF RestingOn
    <3>2. p \in Int
      BY <1>0, LevelPricesType
    <3>3. i \in Group(slots, R, side, p)
      BY <1>0, <3>1, <3>2, MembersAreGroup
    <3> QED
      BY <3>3 DEF Group, At, Sided
  <2>2. ASSUME NEW i \in Sided(R, side) PROVE i \in RestingOn(side)
    <3>1. PICK p : p = slots[i].price_ticks
      OBVIOUS
    <3>2. p \in RestingPrices(side) /\ p \in LevelPrices(side) /\ p \in Int
      BY <1>0, <3>1, PricesAreThoseOfOrders
    <3>3. i \in Group(slots, R, side, p)
      BY <3>1 DEF Sided, Group, At
    <3>4. i \in Members(LevelAt(side, p))
      BY <1>0, <3>2, <3>3, MembersAreGroup
    <3> QED
      BY <3>2, <3>4 DEF RestingOn
  <2> QED
    BY <2>1, <2>2
<1>4. CensusMatchesPool
  <2>1. slots \in [Index -> Order]
    BY <1>0, StructureType
  <2>2. \A i \in R : slots[i].side \in Sides
    BY <1>0, <2>1, OrderFields
  <2>3. kBuy \in Sides /\ kSell \in Sides /\ kBuy # kSell /\ \A side \in Sides : side = kBuy \/ side = kSell
    BY DEF Sides, kBuy, kSell
  <2>4. RestingSlots = R
    BY <1>3, <2>2, <2>3 DEF RestingSlots, Sided
  <2>5. RestingOn(kBuy) \intersect RestingOn(kSell) = {}
    BY <1>3, <2>3 DEF Sided
  <2> QED
    BY <2>4, <2>5 DEF CensusMatchesPool, R
<1> QED
  BY <1>1, <1>2, <1>4 DEF StructureIsSound

-----------------------------------------------------------------------------
(* The inductive invariant.                                                 *)
TakerType == [order_id : OrderId, side : Sides, type : OrderTypes,
              price_ticks : Int, qty : Nat, remaining : Nat]

(* The order in flight owns a live slot that is linked to nothing.          *)
TakerHoldsSlot ==
    LET k == index_of(taker.order_id) IN
    /\ k \in Index
    /\ taker.order_id # kInvalidOrderId
    /\ slots[k].order_id = taker.order_id
    /\ slots[k].next_idx = kNullIdx

Resting == LiveSlots \ InFlight

BookInv ==
    /\ PoolInv
    /\ taker \in TakerType
    /\ taker.remaining <= taker.qty
    /\ ~Idle => TakerHoldsSlot
    /\ Structure(slots, ladder, Resting)

LEMMA BookInvFacts ==
    ASSUME BookInv
    PROVE  /\ slots \in [Index -> Order] /\ free_head \in Link
           /\ InFlight \subseteq LiveSlots
           /\ LiveSlots \in SUBSET Index
           /\ Structure(slots, ladder, Resting) /\ Resting \subseteq LiveSlots
           /\ \A i \in Index : i \in LiveSlots <=> slots[i].order_id # kInvalidOrderId
<1>1. slots \in [Index -> Order] /\ free_head \in Link
  BY DEF BookInv, PoolInv, PoolTypeOK
<1>2. InFlight \subseteq LiveSlots
  BY DEF BookInv, TakerHoldsSlot, InFlight, LiveSlots, Live
<1> QED
  BY <1>1, <1>2 DEF BookInv, Resting, LiveSlots, Live

LEMMA TakerFacts ==
    ASSUME taker \in TakerType
    PROVE  /\ taker.order_id \in OrderId /\ taker.side \in Sides /\ taker.type \in OrderTypes
           /\ taker.price_ticks \in Int /\ taker.qty \in Nat /\ taker.remaining \in Nat
           /\ Opposite(taker.side) \in Sides /\ Opposite(taker.side) # taker.side
BY DEF TakerType, Opposite, Sides, kBuy, kSell

LEMMA NoTakerFacts ==
    /\ NoTaker \in TakerType /\ NoTaker.remaining <= NoTaker.qty
    /\ NoTaker.order_id = kInvalidOrderId
<1>1. kInvalidOrderId \in OrderId
  BY DEF kInvalidOrderId, make_order_id, OrderId, Generation
<1>2. kBuy \in Sides /\ kLimit \in OrderTypes
  BY DEF Sides, OrderTypes
<1> QED
  BY <1>1, <1>2 DEF NoTaker, TakerType

LEMMA InitEstablishes == BookInit => BookInv
<1> SUFFICES ASSUME BookInit PROVE BookInv
  OBVIOUS
<1>1. PoolInv /\ slots \in [Index -> Order]
  <2>1. PoolInv
    BY PoolInitEstablishes DEF BookInit
  <2> QED
    BY <2>1 DEF PoolInv, PoolTypeOK
<1>2. Resting = {}
  BY DEF BookInit, PoolInit, FreshSlot, LiveSlots, Live, Resting
<1>3. EmptyLadder \in OneSide
  <2>1. [o \in Offsets |-> EmptyLevel] \in [Offsets -> Level]
    BY LadderFacts
  <2>2. [p \in {} |-> EmptyLevel] \in Overflows
    <3>1. [p \in {} |-> EmptyLevel] \in [{} -> Level] /\ {} \in SUBSET Int
      OBVIOUS
    <3> QED
      BY <3>1 DEF Overflows
  <2> QED
    BY <2>1, <2>2 DEF EmptyLadder, OneSide
<1>4. ASSUME NEW side \in Sides PROVE CursorIsTrue(side, EmptyLadder)
  <2> DEFINE empty == [o \in Offsets |-> EmptyLevel]
  <2>1. empty \in [Offsets -> Level] /\ \A o \in Offsets : empty[o] = EmptyLevel
    BY LadderFacts
  <2>2. EmptyLevel.order_count = 0 /\ IsEmpty(EmptyLevel)
    BY DEF EmptyLevel, IsEmpty
  <2>3. /\ EmptyLadder.levels = empty /\ DOMAIN EmptyLadder.overflow = {}
        /\ EmptyLadder.best_offset = kNullIdx /\ EmptyLadder.band_orders = 0
    BY DEF EmptyLadder
  <2> HIDE DEF empty
  <2>4. SumFunctionOnSet(Counts(empty), Offsets) = 0
    <3> DEFINE T == {X \in SUBSET Offsets : SumFunctionOnSet(Counts(empty), X) = 0}
    <3>1. {} \in T
      BY SumEmpty
    <3>2. \A o \in Offsets : Counts(empty)[o] = 0 /\ Counts(empty)[o] \in Int
      BY <2>1, <2>2, CountsFacts
    <3>3. ASSUME NEW X \in SUBSET Offsets, X \in T, NEW o \in Offsets \ X
          PROVE  X \union {o} \in T
      <4>1. SumFunctionOnSet(Counts(empty), X \union {o})
              = Counts(empty)[o] + SumFunctionOnSet(Counts(empty), X)
        BY <3>2, OffsetsFinite, SumInsert
      <4> QED
        BY <3>2, <3>3, <4>1
    <3> HIDE DEF T
    <3>4. SUBSET Offsets \subseteq T
      BY <3>1, <3>3, OffsetsFinite, SubsetInduction
    <3> QED
      BY <3>4 DEF T
  <2> QED
    BY <2>1, <2>2, <2>3, <2>4 DEF CursorIsTrue
<1>5. ASSUME NEW side \in Sides, NEW price \in Int
      PROVE  Listed(slots, EmptyLadder, {}, side, price)
  <2>1. LevelIn(EmptyLadder, price) = EmptyLevel
    BY LadderFacts DEF LevelIn, EmptyLadder
  <2>2. Group(slots, {}, side, price) = {}
    BY DEF Group
  <2>3. PICK w : w \in [1 .. 0 -> Index]
    <3>1. [k \in 1 .. 0 |-> 0] \in [1 .. 0 -> Index]
      OBVIOUS
    <3> QED
      BY <3>1
  <2>4. /\ EmptyLevel \in Level /\ EmptyLevel.order_count = 0 /\ EmptyLevel.total_qty = 0
        /\ EmptyLevel.head_idx = kNullIdx /\ EmptyLevel.tail_idx = kNullIdx
    BY LadderFacts DEF EmptyLevel
  <2>5. IsList(slots, EmptyLevel, {}, w)
    <3>1. SumFunctionOnSet(Remaining(slots), {}) = 0
      BY SumEmpty
    <3>2. ~\E k \in 1 .. 0 : TRUE
      OBVIOUS
    <3> QED
      BY <2>3, <2>4, <3>1, <3>2 DEF IsList
  <2> QED
    BY <2>1, <2>2, <2>5 DEF Listed
<1>6. ladder \in [Sides -> OneSide] /\ \A side \in Sides : ladder[side] = EmptyLadder
  BY <1>3 DEF BookInit, LadderInit
<1>7. Structure(slots, ladder, Resting)
  BY <1>1, <1>2, <1>4, <1>5, <1>6 DEF Structure
<1> QED
  BY <1>1, <1>7, NoTakerFacts DEF BookInv, BookInit, Idle

(* The next-state form of the invariant, from the live slots and the taker. *)
LEMMA BookInvFrom ==
    ASSUME PoolInv', taker' \in TakerType, taker'.remaining <= taker'.qty,
           (~Idle => TakerHoldsSlot)', NEW R, R = Resting',
           Structure(slots', ladder', R)
    PROVE  BookInv'
BY DEF BookInv

-----------------------------------------------------------------------------
(* What a step may do to the orders at rest: nothing, take one out, debit   *)
(* one in place, or put one more behind those of its price.                 *)
SameOrders(S) == \A j \in S : SameOrder(slots'[j], slots[j])

KeepsPlaces == KeepsOrder(slots, ladder, Resting, slots', ladder', Resting')

Stays == Resting' = Resting /\ SameOrders(Resting)

Leaves(i) ==
    /\ i \in Resting /\ Resting' = Resting \ {i}
    /\ SameOrders(Resting \ {i})
    /\ slots'[i].order_id = kInvalidOrderId

Shrinks(i, fill) ==
    /\ i \in Resting /\ Resting' = Resting
    /\ SameOrders(Resting \ {i})
    /\ slots'[i] = [slots[i] EXCEPT !.remaining = @ - fill]

Joins(k, side, price, remaining) ==
    /\ k \in Index \ Resting /\ Resting' = Resting \union {k}
    /\ SameOrders(Resting)
    /\ slots'[k].side = side /\ slots'[k].price_ticks = price
    /\ slots'[k].remaining = remaining

(* Slots that no list visits may be rewritten.                              *)
LEMMA StaysKeepsPlaces ==
    ASSUME BookInv, slots' \in [Index -> Order], ladder' = ladder, Resting' = Resting,
           \A i \in Resting : slots'[i] = slots[i]
    PROVE  KeepsPlaces /\ Stays
<1>1. KeepsOrder(slots, ladder, Resting, slots', ladder, Resting)
  BY BookInvFacts, FrameKeepsOrder
<1>2. SameOrders(Resting)
  BY DEF SameOrders, SameOrder
<1> QED
  BY <1>1, <1>2 DEF KeepsPlaces, Stays

-----------------------------------------------------------------------------
(* The actions.                                                             *)
LEMMA StutterPreserves ==
    ASSUME BookInv, UNCHANGED <<slots, free_head, live_count, ladder, taker>>
    PROVE  BookInv' /\ KeepsPlaces /\ Stays
<1>1. PoolInv'
  <2>1. KeepsPoolFields(slots, slots')
    BY BookInvFacts DEF KeepsPoolFields
  <2> QED
    BY <2>1, EditPreserves DEF BookInv
<1>2. Resting' = Resting
  BY DEF Resting, LiveSlots, Live, InFlight, Idle
<1>3. (~Idle => TakerHoldsSlot)'
  BY DEF BookInv, Idle, TakerHoldsSlot
<1>4. KeepsPlaces /\ Stays
  <2>1. slots' \in [Index -> Order]
    BY BookInvFacts
  <2> QED
    BY <1>2, <2>1, StaysKeepsPlaces
<1> QED
  BY <1>1, <1>2, <1>3, <1>4, BookInvFrom DEF BookInv

LEMMA AcceptPreserves ==
    ASSUME BookInv, NEW new \in NewOrder, Accept(new)
    PROVE  BookInv' /\ KeepsPlaces /\ Stays
<1>1. PoolInv' /\ slots' \in [Index -> Order]
  <2>1. PoolInv'
    BY AllocPreserves DEF BookInv, Accept
  <2> QED
    BY <2>1 DEF PoolInv, PoolTypeOK
<1>2. PICK h \in Index :
         /\ h = free_head /\ ~Live(h) /\ Live(h)'
         /\ MintedId = <<NextGeneration(slots[h].generation), h>>
         /\ NextGeneration(slots[h].generation) \in 1 .. MaxGeneration
         /\ \A i \in Index \ {h} : slots'[i] = slots[i]
  BY AllocEffect DEF BookInv, Accept
<1>3. slots'[h].order_id = MintedId /\ slots'[h].next_idx = kNullIdx
  <2>1. slots[h] \in Order /\ slots \in [Index -> Order]
    BY BookInvFacts
  <2> QED
    BY <1>2, <2>1 DEF Accept, Alloc, MintedSlots, Order
<1>4. MintedId # kInvalidOrderId /\ MintedId \in OrderId /\ index_of(MintedId) = h
  <2>1. h \in Nat
    BY DEF Index
  <2> QED
    BY <1>2, <2>1 DEF kInvalidOrderId, make_order_id, OrderId, Generation, index_of
<1>6. /\ taker' \in TakerType /\ taker'.order_id = MintedId
      /\ taker'.remaining = new.qty /\ taker'.qty = new.qty /\ new.qty \in Nat
  BY <1>4 DEF Accept, TakerType, NewOrder, OrderPrice
<1>7. ~Idle' /\ TakerHoldsSlot'
  <2>1. taker' # NoTaker
    BY <1>4, <1>6, NoTakerFacts
  <2>2. /\ index_of(taker'.order_id) = h /\ taker'.order_id # kInvalidOrderId
        /\ slots'[h].order_id = taker'.order_id /\ slots'[h].next_idx = kNullIdx
    BY <1>3, <1>4, <1>6
  <2> QED
    BY <2>1, <2>2 DEF Idle, TakerHoldsSlot
<1>8. Resting' = Resting
  <2>1. Resting = LiveSlots /\ h \notin LiveSlots
    BY <1>2 DEF Resting, InFlight, Accept, LiveSlots
  <2>2. InFlight' = {h}
    BY <1>4, <1>6, <1>7 DEF InFlight
  <2>3. LiveSlots' = LiveSlots \union {h}
    BY <1>2 DEF LiveSlots, Live
  <2> QED
    BY <2>1, <2>2, <2>3 DEF Resting
<1>9. Structure(slots', ladder', Resting)
  <2>1. \A i \in Resting : slots'[i] = slots[i]
    BY <1>2 DEF Resting, LiveSlots
  <2>2. Structure(slots', ladder, Resting)
    BY <1>1, <2>1, BookInvFacts, StructureFrame
  <2> QED
    BY <2>2 DEF Accept
<1>10. KeepsPlaces /\ Stays
  <2>1. \A i \in Resting : slots'[i] = slots[i]
    BY <1>2 DEF Resting, LiveSlots
  <2> QED
    BY <1>1, <1>8, <2>1, StaysKeepsPlaces DEF Accept
<1> QED
  BY <1>1, <1>6, <1>7, <1>8, <1>9, <1>10, BookInvFrom

(* An order that rests is unlinked from its level and its slot freed.       *)
LEMMA OrderLeaves ==
    ASSUME BookInv, NEW i \in Resting, FreeIn(UnlinkedSlots(slots, i), i),
           ladder' = [ladder EXCEPT ![slots[i].side] = RemovedLadder(slots, i)]
    PROVE  /\ PoolInv'
           /\ LiveSlots' = LiveSlots \ {i}
           /\ Structure(slots', ladder', Resting \ {i})
           /\ KeepsOrder(slots, ladder, Resting, slots', ladder', Resting \ {i})
           /\ \A j \in Index \ {i} : SameOrder(slots'[j], slots[j])
           /\ \A j \in Index \ Resting : slots'[j].next_idx = slots[j].next_idx
           /\ slots'[i].order_id = kInvalidOrderId
<1> DEFINE edited == UnlinkedSlots(slots, i)
<1>1. /\ Structure(edited, ladder', Resting \ {i})
      /\ KeepsOrder(slots, ladder, Resting, edited, ladder', Resting \ {i})
      /\ \A j \in Index :
            /\ SameOrder(edited[j], slots[j])
            /\ j \notin Resting => edited[j].next_idx = slots[j].next_idx
  <2>1. Structure(slots, ladder, Resting)
    BY BookInvFacts, Zenon
  <2>2. PICK after : after = [ladder EXCEPT ![slots[i].side] = RemovedLadder(slots, i)]
    OBVIOUS
  <2>3. /\ Structure(edited, after, Resting \ {i})
        /\ KeepsOrder(slots, ladder, Resting, edited, after, Resting \ {i})
        /\ \A j \in Index :
              /\ SameOrder(edited[j], slots[j])
              /\ j \notin Resting => edited[j].next_idx = slots[j].next_idx
    BY <2>1, <2>2, RemoveStructure, ZenonT(30)
  <2>4. ladder' = after
    BY <2>2, Zenon
  <2> QED
    BY <2>3, <2>4, Zenon
<1>2. edited \in [Index -> Order]
  BY <1>1, StructureType
<1>3. i \in Index /\ Live(i) /\ Resting \subseteq LiveSlots
  BY DEF Resting, LiveSlots
<1> HIDE DEF edited
<1>4. KeepsPoolFields(slots, edited)
  <2>1. \A j \in Index : slots[j].order_id = kInvalidOrderId => j \notin Resting
    BY <1>3 DEF LiveSlots, Live
  <2> QED
    BY <1>1, <1>2, <2>1 DEF KeepsPoolFields, SameOrder
<1>5. FreeIn(edited, i)
  BY DEF edited
<1>6. PoolInv'
  BY <1>3, <1>4, <1>5, FreeInPreserves DEF BookInv
<1>7. slots' \in [Index -> Order] /\ \A j \in Index \ {i} : slots'[j] = edited[j]
  <2>1. slots' \in [Index -> Order]
    BY <1>6 DEF PoolInv, PoolTypeOK
  <2> QED
    BY <1>2, <1>5, <2>1 DEF FreeIn
<1>8. slots'[i].order_id = kInvalidOrderId
  BY <1>2, <1>3, <1>5 DEF FreeIn, Order
<1>9. \A j \in Index \ {i} : SameOrder(slots'[j], slots[j])
  BY <1>1, <1>7
<1>10. LiveSlots' = LiveSlots \ {i}
  BY <1>8, <1>9 DEF LiveSlots, Live, SameOrder
<1>11. Structure(slots', ladder', Resting \ {i})
  BY <1>1, <1>7, StructureFrame, StructureType
<1>12. \A j \in Index \ Resting : slots'[j].next_idx = slots[j].next_idx
  BY <1>1, <1>7
<1>13. KeepsOrder(slots, ladder, Resting, slots', ladder', Resting \ {i})
  <2>1. slots \in [Index -> Order] /\ Resting \subseteq Index
    BY BookInvFacts
  <2>2. \A j \in Resting \ {i} : slots'[j] = edited[j]
    BY <1>7, <2>1
  <2>3. \A j \in Resting : slots[j] = slots[j]
    OBVIOUS
  <2> QED
    BY <1>1, <1>2, <1>7, <2>1, <2>2, <2>3, KeepsOrderFrame
<1> QED
  BY <1>6, <1>8, <1>9, <1>10, <1>11, <1>12, <1>13

LEMMA CancelOpenPreserves ==
    ASSUME BookInv, NEW id \in CancelIds, CancelOpen(id)
    PROVE  BookInv' /\ KeepsPlaces /\ Leaves(index_of(id))
<1> DEFINE i == index_of(id)
<1>1. i \in Index /\ slots[i].order_id = id /\ id # kInvalidOrderId /\ Idle /\ Idle'
      /\ taker' = taker
  BY DEF CancelOpen, Found, Idle
<1>2. InFlight = {} /\ InFlight' = {}
  BY <1>1 DEF InFlight
<1>3. i \in Resting
  BY <1>1, <1>2 DEF Resting, LiveSlots, Live
<1>4. /\ FreeIn(UnlinkedSlots(slots, i), i)
      /\ ladder' = [ladder EXCEPT ![slots[i].side] = RemovedLadder(slots, i)]
  BY DEF CancelOpen
<1> HIDE DEF i
<1>5. /\ PoolInv'
      /\ LiveSlots' = LiveSlots \ {i}
      /\ Structure(slots', ladder', Resting \ {i})
      /\ KeepsOrder(slots, ladder, Resting, slots', ladder', Resting \ {i})
      /\ \A j \in Index \ {i} : SameOrder(slots'[j], slots[j])
      /\ slots'[i].order_id = kInvalidOrderId
  BY <1>3, <1>4, OrderLeaves
<1>6. Resting' = Resting \ {i}
  BY <1>2, <1>5 DEF Resting
<1>7. taker' \in TakerType /\ taker'.remaining <= taker'.qty
  BY <1>1 DEF BookInv
<1>8. KeepsPlaces /\ Leaves(i)
  <2>1. Resting \subseteq Index
    BY BookInvFacts
  <2> QED
    BY <1>3, <1>5, <1>6, <2>1 DEF KeepsPlaces, Leaves, SameOrders
<1> QED
  BY <1>1, <1>5, <1>6, <1>7, <1>8, BookInvFrom DEF i

LEMMA DropTakerPreserves ==
    ASSUME BookInv, DropTaker
    PROVE  /\ BookInv' /\ KeepsPlaces /\ Stays
           /\ slots'[index_of(taker.order_id)].order_id = kInvalidOrderId
<1> DEFINE k == index_of(taker.order_id)
<1>1. ~Idle /\ FreeIn(slots, k) /\ taker' = NoTaker /\ ladder' = ladder
  BY DEF DropTaker
<1>2. k \in Index /\ Live(k) /\ InFlight = {k} /\ InFlight' = {} /\ Idle'
  BY <1>1 DEF BookInv, TakerHoldsSlot, Live, InFlight, Idle
<1> HIDE DEF k
<1>3. PoolInv'
  <2>1. PICK edited : edited = slots
    OBVIOUS
  <2>2. KeepsPoolFields(slots, edited) /\ FreeIn(edited, k)
    BY <1>1, <2>1, BookInvFacts DEF KeepsPoolFields
  <2> QED
    BY <1>2, <2>2, FreeInPreserves DEF BookInv
<1>4. /\ slots' \in [Index -> Order]
      /\ \A j \in Index \ {k} : slots'[j] = slots[j]
      /\ slots'[k].order_id = kInvalidOrderId
  <2>1. slots \in [Index -> Order] /\ slots[k] \in Order
    BY <1>2, BookInvFacts
  <2>2. slots' \in [Index -> Order]
    BY <1>3 DEF PoolInv, PoolTypeOK
  <2> QED
    BY <1>1, <1>2, <2>1, <2>2 DEF FreeIn, Order
<1>5. Resting' = Resting
  <2>1. LiveSlots' = LiveSlots \ {k}
    BY <1>4 DEF LiveSlots, Live
  <2> QED
    BY <1>2, <2>1 DEF Resting
<1>6. Structure(slots', ladder', Resting)
  <2>1. \A i \in Resting : slots'[i] = slots[i]
    BY <1>2, <1>4 DEF Resting, LiveSlots
  <2>2. Structure(slots', ladder, Resting)
    BY <1>4, <2>1, BookInvFacts, StructureFrame
  <2> QED
    BY <1>1, <2>2
<1>7. KeepsPlaces /\ Stays
  <2>1. \A i \in Resting : slots'[i] = slots[i]
    BY <1>2, <1>4 DEF Resting, LiveSlots
  <2> QED
    BY <1>1, <1>4, <1>5, <2>1, StaysKeepsPlaces
<1>8. BookInv'
  BY <1>1, <1>2, <1>3, <1>5, <1>6, NoTakerFacts, BookInvFrom
<1> QED
  BY <1>4, <1>7, <1>8 DEF k

(* A slot outside the levels gets an order of the caller and is linked.     *)
Filled(s, i, side, price, qty, remaining) ==
    [s EXCEPT ![i] = [@ EXCEPT !.price_ticks = price, !.qty = qty,
                               !.remaining = remaining, !.side = side]]

LEMMA RestStructure ==
    ASSUME NEW s, NEW R, Structure(s, ladder, R), NEW i \in Index \ R,
           s[i].next_idx = kNullIdx,
           NEW side \in Sides, NEW price \in Int, NEW qty \in Nat, NEW remaining \in 1 .. qty,
           Rest(s, i, side, price, qty, remaining)
    PROVE  /\ Structure(slots', ladder', R \union {i})
           /\ KeepsOrder(s, ladder, R, slots', ladder', R \union {i})
           /\ \A j \in Index : /\ slots'[j].order_id = s[j].order_id
                                /\ slots'[j].generation = s[j].generation
           /\ \A j \in Index \ {i} : SameOrder(slots'[j], s[j])
           /\ \A j \in Index : j \notin R \union {i} => slots'[j].next_idx = s[j].next_idx
           /\ /\ slots'[i].side = side /\ slots'[i].price_ticks = price
              /\ slots'[i].qty = qty /\ slots'[i].remaining = remaining
<1> DEFINE given == Filled(s, i, side, price, qty, remaining)
<1>0. s \in [Index -> Order] /\ s[i] \in Order /\ R \in SUBSET Index
  BY StructureType
<1>1. /\ given[i] = [s[i] EXCEPT !.price_ticks = price, !.qty = qty,
                                  !.remaining = remaining, !.side = side]
      /\ \A j \in Index \ {i} : given[j] = s[j]
      /\ given = [j \in Index |-> given[j]]
  BY <1>0 DEF Filled
<1>2. /\ slots' = PushedSlots(given, i)
      /\ ladder' = [ladder EXCEPT ![side] = PushedLadder(given, i)]
  BY DEF Rest, Filled
<1> HIDE DEF given
<1>3. /\ given[i] \in Order
      /\ given[i].order_id = s[i].order_id /\ given[i].generation = s[i].generation
      /\ given[i].next_idx = kNullIdx /\ given[i].remaining = remaining
      /\ given[i].qty = qty /\ given[i].side = side /\ given[i].price_ticks = price
  <2>1. remaining \in Nat
    OBVIOUS
  <2> QED
    BY <1>0, <1>1, <2>1 DEF Order
<1>4. given \in [Index -> Order]
  BY <1>0, <1>1, <1>3
<1>5. Structure(given, ladder, R)
  <2>1. \A j \in R : given[j] = s[j]
    BY <1>0, <1>1
  <2> QED
    BY <1>4, <2>1, StructureFrame
<1>6. /\ Structure(slots', ladder', R \union {i})
      /\ KeepsOrder(given, ladder, R, slots', ladder', R \union {i})
      /\ \A j \in Index :
            /\ SameOrder(slots'[j], given[j])
            /\ j \notin R \union {i} => slots'[j].next_idx = given[j].next_idx
  <2>1. given[i].remaining \in 1 .. given[i].qty
    BY <1>3
  <2>2. /\ Structure(PushedSlots(given, i),
                     [ladder EXCEPT ![given[i].side] = PushedLadder(given, i)], R \union {i})
        /\ KeepsOrder(given, ladder, R, PushedSlots(given, i),
                      [ladder EXCEPT ![given[i].side] = PushedLadder(given, i)], R \union {i})
        /\ \A j \in Index :
              /\ SameOrder(PushedSlots(given, i)[j], given[j])
              /\ j \notin R \union {i} => PushedSlots(given, i)[j].next_idx = given[j].next_idx
    BY <1>3, <1>5, <2>1, PushStructure
  <2> QED
    BY <1>2, <1>3, <2>2
<1>7. SameOrder(slots'[i], given[i])
  BY <1>6
<1>8. \A j \in Index \ {i} : SameOrder(slots'[j], s[j])
  BY <1>1, <1>6
<1>9. \A j \in Index : slots'[j].order_id = s[j].order_id /\ slots'[j].generation = s[j].generation
  BY <1>3, <1>7, <1>8 DEF SameOrder
<1>10. \A j \in Index : j \notin R \union {i} => slots'[j].next_idx = s[j].next_idx
  BY <1>1, <1>6
<1>11. KeepsOrder(s, ladder, R, slots', ladder', R \union {i})
  <2>1. slots' \in [Index -> Order]
    BY <1>6, StructureType
  <2>2. \A j \in R : s[j] = given[j]
    BY <1>0, <1>1
  <2>3. \A j \in R \union {i} : slots'[j] = slots'[j]
    OBVIOUS
  <2> QED
    BY <1>0, <1>4, <1>6, <2>1, <2>2, <2>3, KeepsOrderFrame
<1> QED
  BY <1>3, <1>6, <1>7, <1>8, <1>9, <1>10, <1>11 DEF SameOrder

LEMMA RestTakerPreserves ==
    ASSUME BookInv, RestTaker
    PROVE  /\ BookInv' /\ KeepsPlaces
           /\ Joins(index_of(taker.order_id), taker.side, taker.price_ticks, taker.remaining)
           /\ slots'[index_of(taker.order_id)].order_id = taker.order_id
           /\ slots'[index_of(taker.order_id)].qty = taker.qty
<1> DEFINE k == index_of(taker.order_id)
<1>1. /\ ~Idle /\ ~Drops /\ taker' = NoTaker /\ UNCHANGED <<free_head, live_count>>
      /\ Rest(slots, k, taker.side, taker.price_ticks, taker.qty, taker.remaining)
  BY DEF RestTaker
<1>2. /\ k \in Index /\ Live(k) /\ InFlight = {k} /\ InFlight' = {} /\ Idle'
      /\ slots[k].next_idx = kNullIdx
  BY <1>1 DEF BookInv, TakerHoldsSlot, Live, InFlight, Idle
<1> HIDE DEF k
<1>3. taker.remaining \in 1 .. taker.qty /\ taker.qty \in Nat /\ taker.side \in Sides
      /\ taker.price_ticks \in Int
  <2>1. taker.remaining \in Nat /\ taker.qty \in Nat /\ taker.side \in Sides
        /\ taker.price_ticks \in Int /\ taker.remaining <= taker.qty
    BY TakerFacts DEF BookInv
  <2> QED
    BY <1>1, <2>1 DEF Drops
<1>4. k \in Index \ Resting
  BY <1>2 DEF Resting
<1>5. /\ Structure(slots', ladder', Resting \union {k})
      /\ KeepsOrder(slots, ladder, Resting, slots', ladder', Resting \union {k})
      /\ \A j \in Index \ {k} : SameOrder(slots'[j], slots[j])
      /\ slots'[k].side = taker.side /\ slots'[k].price_ticks = taker.price_ticks
      /\ slots'[k].remaining = taker.remaining /\ slots'[k].qty = taker.qty
      /\ \A j \in Index : /\ slots'[j].order_id = slots[j].order_id
                           /\ slots'[j].generation = slots[j].generation
      /\ \A j \in Index : j \notin Resting \union {k} => slots'[j].next_idx = slots[j].next_idx
  <2>1. Structure(slots, ladder, Resting)
    BY BookInvFacts
  <2> QED
    BY <1>1, <1>2, <1>3, <1>4, <2>1, RestStructure
<1>6. slots' \in [Index -> Order]
  BY <1>5, StructureType
<1>7. PoolInv'
  <2>1. \A j \in Index : slots[j].order_id = kInvalidOrderId => j \notin Resting \union {k}
    BY <1>2 DEF Resting, LiveSlots, Live
  <2>2. KeepsPoolFields(slots, slots')
    BY <1>5, <1>6, <2>1 DEF KeepsPoolFields
  <2> QED
    BY <1>1, <2>2, EditPreserves DEF BookInv
<1>8. Resting' = Resting \union {k}
  <2>1. LiveSlots' = LiveSlots /\ k \in LiveSlots
    BY <1>2, <1>5 DEF LiveSlots, Live
  <2> QED
    BY <1>2, <2>1 DEF Resting
<1>9. KeepsPlaces /\ Joins(k, taker.side, taker.price_ticks, taker.remaining)
  <2>1. Resting \subseteq Index
    BY BookInvFacts
  <2> QED
    BY <1>4, <1>5, <1>8, <2>1 DEF KeepsPlaces, Joins, SameOrders
<1>10. BookInv'
  BY <1>1, <1>2, <1>5, <1>7, <1>8, NoTakerFacts, BookInvFrom
<1>11. slots'[k].order_id = taker.order_id
  <2>1. slots[k].order_id = taker.order_id
    BY <1>1 DEF BookInv, TakerHoldsSlot, k
  <2> QED
    BY <1>2, <1>5, <2>1
<1> QED
  BY <1>5, <1>9, <1>10, <1>11 DEF k

(* The order a fill hits: the head of a level that nothing is better than.  *)
LEMMA HeadRests ==
    ASSUME BookInv, MatchContinues
    PROVE  LET opposite == Opposite(taker.side)
               price    == best_price(opposite)
               i        == BestLevelHead
           IN  /\ i \in Resting /\ i \in Index
               /\ slots[i].side = opposite /\ slots[i].price_ticks = price
               /\ slots[i].remaining \in 1 .. slots[i].qty
               /\ slots[i].remaining \in Nat
               /\ opposite \in Sides /\ price \in Int
               /\ \A q \in RestingPrices(opposite) : ~IsBetter(opposite, q, price)
<1> DEFINE opposite == Opposite(taker.side)
           price    == best_price(opposite)
           i        == BestLevelHead
           G        == Group(slots, Resting, opposite, price)
           level    == LevelIn(ladder[opposite], price)
<1>0. /\ slots \in [Index -> Order] /\ Structure(slots, ladder, Resting) /\ Resting \subseteq LiveSlots
      /\ Resting \in SUBSET Index
  BY BookInvFacts, StructureType
<1>1. opposite \in Sides
  BY TakerFacts DEF BookInv
<1> HIDE DEF opposite
<1>2. /\ RestingPrices(opposite) # {} /\ price \in RestingPrices(opposite)
      /\ \A q \in RestingPrices(opposite) : ~IsBetter(opposite, q, price)
  <2>1. ~SideEmpty(opposite)
    BY DEF MatchContinues, opposite
  <2> QED
    BY <1>0, <1>1, <2>1, BestIsTrue
<1>3. price \in Int
  BY <1>0, <1>1, <1>2, PricesAreThoseOfOrders
<1> HIDE DEF price
<1>4. ~IsEmpty(LevelAt(opposite, price))
  BY <1>2 DEF RestingPrices
<1>5. LevelAt(opposite, price) = level
  BY LevelAtIsIn
<1>6. PICK w : IsList(slots, level, G, w)
  BY <1>0, <1>1, <1>3, StructureType DEF Listed
<1>7. i = level.head_idx
  BY <1>5 DEF BestLevelHead, opposite, price
<1> HIDE DEF i, level, G
<1>8. i \in G
  <2>1. level.order_count \in Nat
    BY <1>6, LevelFacts DEF IsList
  <2>2. level.head_idx # kNullIdx
    BY <1>4, <1>5 DEF IsEmpty
  <2>3. level.order_count # 0 /\ level.head_idx = w[1]
    BY <1>6, <2>2 DEF IsList
  <2>4. 1 \in 1 .. level.order_count
    BY <2>1, <2>3
  <2> QED
    BY <1>6, <1>7, <2>3, <2>4 DEF IsList
<1>9. i \in Resting /\ i \in Index /\ slots[i].side = opposite /\ slots[i].price_ticks = price
  BY <1>0, <1>8 DEF G, Group, At
<1>10. slots[i].remaining \in 1 .. slots[i].qty /\ slots[i].remaining \in Nat
  <2>1. Fits(slots[i])
    BY <1>0, <1>9, StructureType
  <2> QED
    BY <1>0, <1>9, <2>1, OrderFields DEF Fits
<1> QED
  BY <1>1, <1>2, <1>3, <1>9, <1>10 DEF i, price, opposite

LEMMA TakerAfterFill ==
    ASSUME BookInv, Fill
    PROVE  LET fill == SmallerOf(taker.remaining, slots[BestLevelHead].remaining) IN
           /\ fill \in Nat \ {0}
           /\ fill <= taker.remaining /\ fill <= slots[BestLevelHead].remaining
           /\ taker' = [taker EXCEPT !.remaining = @ - fill]
           /\ taker' \in TakerType /\ taker'.remaining <= taker'.qty
           /\ taker'.order_id = taker.order_id
           /\ taker'.remaining = taker.remaining - fill
           /\ ~Idle /\ ~Idle' /\ InFlight' = InFlight
<1> DEFINE i == BestLevelHead
           fill == SmallerOf(taker.remaining, slots[i].remaining)
<1>1. MatchContinues /\ ~Idle /\ taker' = [taker EXCEPT !.remaining = @ - fill]
  BY DEF Fill
<1>2. slots[i].remaining \in Nat /\ slots[i].remaining >= 1
  <2>1. slots[i].remaining \in Nat /\ slots[i].remaining \in 1 .. slots[i].qty /\ slots[i].qty \in Nat
    BY <1>1, HeadRests, BookInvFacts, OrderFields
  <2> QED
    BY <2>1
<1>3. taker.remaining \in Nat /\ taker.remaining >= 1 /\ taker.qty \in Nat /\ taker.remaining <= taker.qty
  <2>1. taker.remaining \in Nat /\ taker.remaining > 0 /\ taker.qty \in Nat
    BY <1>1, TakerFacts DEF BookInv, MatchContinues
  <2> QED
    BY <2>1 DEF BookInv
<1> HIDE DEF i
<1>4. fill \in Nat \ {0} /\ fill <= taker.remaining /\ fill <= slots[i].remaining
  BY <1>2, <1>3 DEF SmallerOf
<1> HIDE DEF fill
<1>5. taker.remaining - fill \in Nat /\ taker.remaining - fill <= taker.qty
  BY <1>3, <1>4
<1>6. /\ taker' \in TakerType /\ taker'.qty = taker.qty
      /\ taker'.order_id = taker.order_id /\ taker'.remaining = taker.remaining - fill
  BY <1>1, <1>5 DEF BookInv, TakerType
<1>7. taker.order_id # kInvalidOrderId
  BY <1>1 DEF BookInv, TakerHoldsSlot
<1>8. ~Idle'
  BY <1>6, <1>7, NoTakerFacts DEF Idle
<1> QED
  BY <1>1, <1>4, <1>5, <1>6, <1>8 DEF InFlight, fill, i

LEMMA FillPreserves ==
    ASSUME BookInv, Fill
    PROVE  LET i    == BestLevelHead
               fill == SmallerOf(taker.remaining, slots[i].remaining)
           IN  /\ BookInv' /\ KeepsPlaces
               /\ \/ fill = slots[i].remaining /\ Leaves(i)
                  \/ fill < slots[i].remaining /\ Shrinks(i, fill)
<1> DEFINE i == BestLevelHead
           fill == SmallerOf(taker.remaining, slots[i].remaining)
           k == index_of(taker.order_id)
<1>1. /\ i \in Resting /\ i \in Index /\ slots[i].remaining \in Nat
      /\ slots[i].side = Opposite(taker.side)
      /\ slots[i].price_ticks = best_price(Opposite(taker.side))
  <2>1. MatchContinues
    BY DEF Fill
  <2> QED
    BY <2>1, HeadRests
<1>2. /\ fill \in Nat \ {0} /\ fill <= taker.remaining /\ fill <= slots[i].remaining
      /\ taker' \in TakerType /\ taker'.remaining <= taker'.qty
      /\ taker'.order_id = taker.order_id
      /\ ~Idle /\ ~Idle' /\ InFlight' = InFlight
  BY TakerAfterFill
<1>3. FillMaker(i) \/ DebitMaker(i, fill)
  BY DEF Fill
<1>4. /\ k \in Index /\ k \in LiveSlots /\ k \notin Resting /\ k # i
      /\ slots[k].order_id = taker.order_id /\ slots[k].next_idx = kNullIdx
      /\ taker.order_id # kInvalidOrderId
  <2>1. /\ k \in Index /\ slots[k].order_id = taker.order_id /\ slots[k].next_idx = kNullIdx
        /\ taker.order_id # kInvalidOrderId
    BY <1>2 DEF BookInv, TakerHoldsSlot
  <2>2. k \in InFlight
    BY <1>2 DEF InFlight
  <2> HIDE DEF k, i
  <2> QED
    BY <1>1, <2>1, <2>2 DEF LiveSlots, Live, Resting
<1>5. taker.remaining \in Nat
  BY TakerFacts DEF BookInv
<1> HIDE DEF i
<1>6. SmallerOf(taker.remaining, slots[i].remaining) = fill
  OBVIOUS
<1> HIDE DEF fill
<1>7. ASSUME FillMaker(i)
      PROVE  BookInv' /\ KeepsPlaces /\ fill = slots[i].remaining /\ Leaves(i)
  <2>1. /\ FreeIn(UnlinkedSlots(slots, i), i)
        /\ ladder' = [ladder EXCEPT ![slots[i].side] = RemovedLadder(slots, i)]
    BY <1>7 DEF FillMaker
  <2>2. /\ PoolInv'
        /\ LiveSlots' = LiveSlots \ {i}
        /\ Structure(slots', ladder', Resting \ {i})
        /\ KeepsOrder(slots, ladder, Resting, slots', ladder', Resting \ {i})
        /\ \A j \in Index \ {i} : SameOrder(slots'[j], slots[j])
        /\ \A j \in Index \ Resting : slots'[j].next_idx = slots[j].next_idx
        /\ slots'[i].order_id = kInvalidOrderId
    BY <1>1, <2>1, OrderLeaves
  <2>3. Resting' = Resting \ {i}
    BY <1>2, <2>2 DEF Resting
  <2>4. slots'[k].order_id = taker.order_id /\ slots'[k].next_idx = kNullIdx
    BY <1>4, <2>2 DEF SameOrder
  <2>5. (~Idle => TakerHoldsSlot)'
    BY <1>2, <1>4, <2>4 DEF TakerHoldsSlot
  <2>6. BookInv'
    BY <1>2, <2>2, <2>3, <2>5, BookInvFrom
  <2>7. KeepsPlaces /\ Leaves(i)
    <3>1. Resting \subseteq Index
      BY BookInvFacts
    <3> QED
      BY <1>1, <2>2, <2>3, <3>1 DEF KeepsPlaces, Leaves, SameOrders
  <2>8. fill = slots[i].remaining
    <3>1. taker.remaining >= slots[i].remaining
      BY <1>7 DEF FillMaker
    <3> QED
      BY <1>1, <1>5, <1>6, <3>1 DEF SmallerOf
  <2> QED
    BY <2>6, <2>7, <2>8
<1>8. ASSUME DebitMaker(i, fill)
      PROVE  BookInv' /\ KeepsPlaces /\ fill < slots[i].remaining /\ Shrinks(i, fill)
  <2>1. /\ taker.remaining < slots[i].remaining
        /\ slots' = Debited(slots, i, fill)
        /\ ladder' = [ladder EXCEPT ![slots[i].side]
                        = DebitedLadder(slots[i].side, slots[i].price_ticks, fill)]
        /\ UNCHANGED <<free_head, live_count>>
    BY <1>1, <1>8 DEF DebitMaker, Debited, DebitedLadder
  <2>2. fill \in 1 .. slots[i].remaining - 1 /\ fill \in 0 .. slots[i].remaining
    BY <1>1, <1>2, <1>5, <2>1
  <2>3. /\ Structure(slots', ladder', Resting)
        /\ KeepsOrder(slots, ladder, Resting, slots', ladder', Resting)
    BY <1>1, <2>1, <2>2, BookInvFacts, DebitStructure
  <2>4. /\ slots' \in [Index -> Order]
        /\ slots'[i] = [slots[i] EXCEPT !.remaining = @ - fill]
        /\ \A j \in Index \ {i} : slots'[j] = slots[j]
    BY <1>1, <2>1, <2>2, BookInvFacts, DebitedEffect
  <2>5. /\ slots'[i].order_id = slots[i].order_id /\ slots'[i].generation = slots[i].generation
        /\ slots'[i].next_idx = slots[i].next_idx
    <3>1. slots[i] \in Order
      BY <1>1, BookInvFacts
    <3> QED
      BY <2>4, <3>1 DEF Order
  <2>6. PoolInv'
    <3>1. KeepsPoolFields(slots, slots')
      BY <2>4, <2>5 DEF KeepsPoolFields
    <3> QED
      BY <2>1, <3>1, EditPreserves DEF BookInv
  <2>7. Resting' = Resting
    <3>1. LiveSlots' = LiveSlots
      BY <2>4, <2>5 DEF LiveSlots, Live
    <3> QED
      BY <1>2, <3>1 DEF Resting
  <2>8. (~Idle => TakerHoldsSlot)'
    BY <1>2, <1>4, <2>4 DEF TakerHoldsSlot
  <2>9. BookInv'
    BY <1>2, <2>3, <2>6, <2>7, <2>8, BookInvFrom
  <2>10. KeepsPlaces /\ Shrinks(i, fill)
    <3>1. Resting \subseteq Index
      BY BookInvFacts
    <3> QED
      BY <1>1, <2>3, <2>4, <2>7, <3>1 DEF KeepsPlaces, Shrinks, SameOrders, SameOrder
  <2>11. fill < slots[i].remaining
    BY <1>1, <2>2
  <2> QED
    BY <2>9, <2>10, <2>11
<1>9. /\ BookInv' /\ KeepsPlaces
      /\ \/ fill = slots[i].remaining /\ Leaves(i)
         \/ fill < slots[i].remaining /\ Shrinks(i, fill)
  BY <1>3, <1>7, <1>8
<1> QED
  BY <1>9 DEF fill, i

(* add_limit mints and rests in one step.                                   *)
AddLimitRests(new) ==
    /\ Idle /\ UNCHANGED taker
    /\ new.qty # 0 /\ ~PoolExhausted
    /\ Rest(MintedSlots, free_head, new.side, new.price_ticks, new.qty, new.qty)
    /\ PopFreeList

LEMMA AddLimitCases ==
    ASSUME NEW new \in NewOrders, AddLimit(new)
    PROVE  \/ UNCHANGED <<slots, free_head, live_count, ladder, taker>>
           \/ AddLimitRests(new) /\ new.price_ticks > 0
<1>1. CASE new.qty = 0 \/ new.price_ticks <= 0 \/ PoolExhausted
  BY <1>1 DEF AddLimit
<1>2. CASE ~(new.qty = 0 \/ new.price_ticks <= 0 \/ PoolExhausted)
  <2>1. new.price_ticks \in Int
    BY NewOrdersAssumption DEF NewOrder
  <2> QED
    BY <1>2, <2>1 DEF AddLimit, AddLimitRests
<1> QED
  BY <1>1, <1>2

LEMMA AddLimitEffect ==
    ASSUME BookInv, NEW new \in NewOrders, AddLimitRests(new)
    PROVE  /\ PoolInv'
           /\ Structure(slots', ladder', Resting \union {free_head})
           /\ KeepsOrder(slots, ladder, Resting, slots', ladder', Resting \union {free_head})
           /\ Resting = LiveSlots /\ Resting' = Resting \union {free_head}
           /\ free_head \in Index \ Resting
           /\ \A j \in Index \ {free_head} : SameOrder(slots'[j], slots[j])
           /\ slots'[free_head].side = new.side
           /\ slots'[free_head].price_ticks = new.price_ticks
           /\ slots'[free_head].remaining = new.qty /\ slots'[free_head].qty = new.qty
           /\ slots'[free_head].order_id = MintedId
<1> DEFINE h == free_head
           s == MintedSlots
<1>1. /\ h \in Index /\ ~Live(h) /\ s \in [Index -> Order]
      /\ s[h].order_id = MintedId /\ s[h].order_id # kInvalidOrderId /\ s[h].next_idx = kNullIdx
      /\ \A i \in Index \ {h} : s[i] = slots[i]
  BY MintedEffect DEF BookInv, AddLimitRests
<1>2. /\ Rest(s, h, new.side, new.price_ticks, new.qty, new.qty)
      /\ InFlight = {} /\ InFlight' = {}
  BY DEF AddLimitRests, InFlight, Idle
<1>3. Resting = LiveSlots /\ h \in Index \ Resting
  BY <1>1, <1>2 DEF Resting, LiveSlots
<1>4. new.side \in Sides /\ new.price_ticks \in Int /\ new.qty \in Nat /\ new.qty \in 1 .. new.qty
  <2>1. new \in NewOrder
    BY NewOrdersAssumption
  <2>2. new.side \in Sides /\ new.price_ticks \in Int /\ new.qty \in Nat
    BY <2>1 DEF NewOrder
  <2> QED
    BY <2>2 DEF AddLimitRests
<1> HIDE DEF s
<1>5. Structure(s, ladder, Resting)
  <2>1. \A i \in Resting : s[i] = slots[i]
    BY <1>1, <1>3, BookInvFacts
  <2> QED
    BY <1>1, <2>1, BookInvFacts, StructureFrame
<1>6. /\ Structure(slots', ladder', Resting \union {h})
      /\ KeepsOrder(s, ladder, Resting, slots', ladder', Resting \union {h})
      /\ \A j \in Index : /\ slots'[j].order_id = s[j].order_id
                           /\ slots'[j].generation = s[j].generation
      /\ \A j \in Index \ {h} : SameOrder(slots'[j], s[j])
      /\ \A j \in Index : j \notin Resting \union {h} => slots'[j].next_idx = s[j].next_idx
      /\ slots'[h].side = new.side /\ slots'[h].price_ticks = new.price_ticks
      /\ slots'[h].remaining = new.qty /\ slots'[h].qty = new.qty
  BY <1>1, <1>2, <1>3, <1>4, <1>5, RestStructure
<1>7. slots' \in [Index -> Order]
  BY <1>6, StructureType
<1>8. PoolInv'
  <2>1. \A j \in Index : s[j].order_id = kInvalidOrderId => j \notin Resting \union {h}
    BY <1>1, <1>3 DEF LiveSlots, Live
  <2>2. KeepsPoolFields(MintedSlots, slots')
    BY <1>6, <1>7, <2>1 DEF KeepsPoolFields, s
  <2>3. ~PoolExhausted /\ PopFreeList
    BY DEF AddLimitRests
  <2> QED
    BY <2>2, <2>3, AllocThenEdit DEF BookInv
<1>9. Resting' = Resting \union {h}
  <2>1. LiveSlots' = LiveSlots \union {h}
    BY <1>1, <1>6 DEF LiveSlots, Live
  <2> QED
    BY <1>2, <1>3, <2>1 DEF Resting
<1>10. \A j \in Index \ {h} : SameOrder(slots'[j], slots[j])
  BY <1>1, <1>6
<1>11. KeepsOrder(slots, ladder, Resting, slots', ladder', Resting \union {h})
  <2>1. slots \in [Index -> Order] /\ Resting \subseteq Index
    BY BookInvFacts
  <2>2. \A j \in Resting : slots[j] = s[j]
    BY <1>1, <1>3, <2>1
  <2>3. \A j \in Resting \union {h} : slots'[j] = slots'[j]
    OBVIOUS
  <2> QED
    BY <1>1, <1>6, <1>7, <2>1, <2>2, <2>3, KeepsOrderFrame
<1>12. slots'[h].order_id = MintedId
  BY <1>1, <1>6
<1> QED
  BY <1>3, <1>6, <1>8, <1>9, <1>10, <1>11, <1>12

LEMMA AddLimitPreserves ==
    ASSUME BookInv, NEW new \in NewOrders, AddLimit(new)
    PROVE  /\ BookInv' /\ KeepsPlaces
           /\ \/ Stays
              \/ /\ Joins(free_head, new.side, new.price_ticks, new.qty)
                 /\ slots'[free_head].order_id = MintedId /\ slots'[free_head].qty = new.qty
                 /\ AddLimitRests(new) /\ new.price_ticks > 0
<1>1. CASE UNCHANGED <<slots, free_head, live_count, ladder, taker>>
  BY <1>1, StutterPreserves
<1>2. CASE AddLimitRests(new) /\ new.price_ticks > 0
  <2>1. /\ PoolInv'
        /\ Structure(slots', ladder', Resting \union {free_head})
        /\ KeepsOrder(slots, ladder, Resting, slots', ladder', Resting \union {free_head})
        /\ Resting' = Resting \union {free_head}
        /\ free_head \in Index \ Resting
        /\ \A j \in Index \ {free_head} : SameOrder(slots'[j], slots[j])
        /\ slots'[free_head].side = new.side
        /\ slots'[free_head].price_ticks = new.price_ticks
        /\ slots'[free_head].remaining = new.qty /\ slots'[free_head].qty = new.qty
        /\ slots'[free_head].order_id = MintedId
    BY <1>2, AddLimitEffect
  <2>2. taker' = taker /\ Idle'
    BY <1>2 DEF AddLimitRests, Idle
  <2>3. BookInv'
    BY <2>1, <2>2, BookInvFrom DEF BookInv
  <2>4. KeepsPlaces /\ Joins(free_head, new.side, new.price_ticks, new.qty)
    <3>1. Resting \subseteq Index
      BY BookInvFacts
    <3> QED
      BY <2>1, <3>1 DEF KeepsPlaces, Joins, SameOrders
  <2> QED
    BY <1>2, <2>1, <2>3, <2>4
<1> QED
  BY <1>1, <1>2, AddLimitCases

(* One step per action of the two specifications.                           *)
LEMMA BookStepPreserves == BookInv /\ [BookNext]_bookVars => BookInv'
<1> SUFFICES ASSUME BookInv, [BookNext]_bookVars PROVE BookInv'
  OBVIOUS
<1>1. ASSUME NEW new \in NewOrders, AddInvalid(new) \/ AddToFullPool(new) PROVE BookInv'
  BY <1>1, StutterPreserves DEF AddInvalid, AddToFullPool, RejectAdd
<1>2. ASSUME NEW new \in NewOrders, Accept(new) PROVE BookInv'
  BY <1>2, NewOrdersAssumption, AcceptPreserves
<1>3. CASE Fill
  BY <1>3, FillPreserves
<1>4. CASE DropTaker
  BY <1>4, DropTakerPreserves
<1>5. CASE RestTaker
  BY <1>5, RestTakerPreserves
<1>6. ASSUME NEW id \in CancelIds, CancelOpen(id) PROVE BookInv'
  BY <1>6, CancelOpenPreserves
<1>7. ASSUME NEW id \in CancelIds, CancelUnknown(id) PROVE BookInv'
  BY <1>7, StutterPreserves DEF CancelUnknown
<1>8. CASE UNCHANGED bookVars
  BY <1>8, StutterPreserves DEF bookVars
<1> QED
  BY <1>1, <1>2, <1>3, <1>4, <1>5, <1>6, <1>7, <1>8 DEF BookNext, Add, Sweep, Cancel

LEMMA RestOnlyStepPreserves == BookInv /\ [RestOnlyNext]_bookVars => BookInv'
<1> SUFFICES ASSUME BookInv, [RestOnlyNext]_bookVars PROVE BookInv'
  OBVIOUS
<1>1. ASSUME NEW new \in NewOrders, AddLimit(new) PROVE BookInv'
  BY <1>1, AddLimitPreserves
<1>2. ASSUME NEW id \in CancelIds, CancelOpen(id) PROVE BookInv'
  BY <1>2, CancelOpenPreserves
<1>3. ASSUME NEW id \in CancelIds, CancelUnknown(id) PROVE BookInv'
  BY <1>3, StutterPreserves DEF CancelUnknown
<1>4. CASE UNCHANGED bookVars
  BY <1>4, StutterPreserves DEF bookVars
<1> QED
  BY <1>1, <1>2, <1>3, <1>4 DEF RestOnlyNext, Cancel

-----------------------------------------------------------------------------
(* What the invariant says about the properties the runs check.             *)
LEMMA BookInvMeansSound == BookInv => StructureIsSound
BY BookInvFacts, StructureMeansSound DEF Resting

LEMMA BookInvMeansTyped == BookInv => BookTypeOK
<1> SUFFICES ASSUME BookInv PROVE BookTypeOK
  OBVIOUS
<1>1. PoolTypeOK /\ taker.remaining <= taker.qty
  BY DEF BookInv, PoolInv
<1>2. taker \in [order_id : OrderId, side : Sides, type : OrderTypes,
                 price_ticks : Int, qty : Nat, remaining : Nat]
  BY DEF BookInv, TakerType
<1>3. ASSUME NEW side \in Sides
      PROVE  /\ ladder[side].levels \in [Offsets -> Level]
             /\ \A p \in DOMAIN ladder[side].overflow : ladder[side].overflow[p] \in Level
             /\ ladder[side].best_offset \in Offsets \union {kNullIdx}
  <2>1. ladder[side] \in OneSide
    BY BookInvFacts, StructureType
  <2> QED
    BY <2>1, SideFacts
<1>4. ASSUME NEW side \in Sides PROVE ladder[side].band_orders \in 0 .. Capacity
  <2> DEFINE levels == ladder[side].levels
             C(o) == Group(slots, Resting, side, low_price + o)
  <2>1. /\ CursorIsTrue(side, ladder[side]) /\ ladder[side] \in OneSide
        /\ Resting \in SUBSET Index /\ slots \in [Index -> Order]
    BY BookInvFacts, StructureType
  <2>2. levels \in [Offsets -> Level]
    BY <1>3
  <2> DEFINE T == {X \in SUBSET Offsets :
                     SumFunctionOnSet(Counts(levels), X)
                       = Cardinality({i \in Resting : slots[i].side = side
                                         /\ slots[i].price_ticks - low_price \in X})}
  <2>3. {} \in T
    <3>1. {i \in Resting : slots[i].side = side /\ slots[i].price_ticks - low_price \in {}} = {}
      OBVIOUS
    <3> QED
      BY <3>1, SumEmpty, FS_EmptySet
  <2>4. ASSUME NEW X \in SUBSET Offsets, X \in T, NEW o \in Offsets \ X
        PROVE  X \union {o} \in T
    <3> DEFINE A == {i \in Resting : slots[i].side = side
                                      /\ slots[i].price_ticks - low_price \in X}
               B == {i \in Resting : slots[i].side = side
                                      /\ slots[i].price_ticks - low_price \in X \union {o}}
               G == Group(slots, Resting, side, low_price + o)
    <3>1. SumFunctionOnSet(Counts(levels), X \union {o})
            = Counts(levels)[o] + SumFunctionOnSet(Counts(levels), X)
      <4>1. \A x \in Offsets : Counts(levels)[x] \in Int
        BY <2>2, CountsFacts
      <4> QED
        BY <4>1, OffsetsFinite, SumInsert
    <3>2. PICK p \in Int : p = low_price + o /\ p - low_price = o
      BY LadderFacts
    <3>3. PICK w : IsList(slots, LevelIn(ladder[side], p), G, w)
      BY <3>2, BookInvFacts, StructureType DEF Listed
    <3>4. LevelIn(ladder[side], p) = levels[o]
      BY <2>1, <3>2, BandLevel
    <3>5. Cardinality(G) = levels[o].order_count
      BY <3>3, <3>4, ListCount
    <3>6. \A i \in Resting : slots[i].price_ticks \in Int
      BY <2>1, OrderFields
    <3>7. G = {i \in Resting : slots[i].side = side /\ slots[i].price_ticks - low_price = o}
      <4>1. \A i \in Resting : slots[i].price_ticks = p <=> slots[i].price_ticks - low_price = o
        BY <3>2, <3>6, LadderFacts
      <4> QED
        BY <3>2, <4>1 DEF Group, At
    <3>8. B = A \union G /\ A \intersect G = {}
      BY <3>7
    <3>9. IsFiniteSet(A) /\ IsFiniteSet(G)
      <4>1. A \in SUBSET Index /\ G \in SUBSET Index
        BY <2>1, <3>7
      <4> QED
        BY <4>1, IndexFinite
    <3> HIDE DEF A, B, G
    <3>10. Cardinality(B) = Cardinality(A) + Cardinality(G)
      <4>1. Cardinality(A \union G) = Cardinality(A) + Cardinality(G) - Cardinality(A \intersect G)
        BY <3>9, FS_Union
      <4>2. Cardinality(A \intersect G) = 0
        BY <3>8, FS_EmptySet
      <4>3. Cardinality(A) \in Nat /\ Cardinality(G) \in Nat
        BY <3>9, FS_CardinalityType
      <4> QED
        BY <3>8, <4>1, <4>2, <4>3
    <3>11. SumFunctionOnSet(Counts(levels), X) = Cardinality(A)
      BY <2>4 DEF A
    <3>12. Counts(levels)[o] = levels[o].order_count /\ Counts(levels)[o] \in Nat
      BY <2>2, CountsFacts
    <3>13. Cardinality(A) \in Nat
      BY <3>9, FS_CardinalityType
    <3>14. SumFunctionOnSet(Counts(levels), X \union {o}) = Cardinality(B)
      BY <3>1, <3>5, <3>10, <3>11, <3>12, <3>13
    <3> QED
      BY <3>14 DEF B
  <2> HIDE DEF T, levels
  <2>5. SUBSET Offsets \subseteq T
    BY <2>3, <2>4, OffsetsFinite, SubsetInduction
  <2> DEFINE All == {i \in Resting : slots[i].side = side
                                      /\ slots[i].price_ticks - low_price \in Offsets}
  <2>6. SumFunctionOnSet(Counts(levels), Offsets) = Cardinality(All)
    BY <2>5 DEF T
  <2>7. All \in SUBSET Index
    BY <2>1
  <2> HIDE DEF All
  <2>8. Cardinality(All) \in Nat /\ Cardinality(All) <= Capacity
    <3>1. Cardinality(Index) = Capacity /\ IsFiniteSet(Index)
      BY FS_Interval DEF Index
    <3>2. IsFiniteSet(All) /\ Cardinality(All) <= Cardinality(Index)
      BY <2>7, <3>1, FS_Subset
    <3> QED
      BY <3>1, <3>2, FS_CardinalityType
  <2>9. ladder[side].band_orders = SumFunctionOnSet(Counts(levels), Offsets)
    BY <2>1 DEF CursorIsTrue, levels
  <2> QED
    BY <2>6, <2>8, <2>9
<1> QED
  BY <1>1, <1>2, <1>3, <1>4 DEF BookTypeOK

-----------------------------------------------------------------------------
(* The two specifications of the book have the types of order_book.h: the   *)
(* band and the counters stay in their ranges, and what is left of an order *)
(* never exceeds what it was sent with.                                     *)
THEOREM BookIsTyped == BookSpec => []BookTypeOK
<1>1. BookInit => BookInv
  BY InitEstablishes
<1>2. BookInv /\ [BookNext]_bookVars => BookInv'
  BY BookStepPreserves
<1>3. BookInv => BookTypeOK
  BY BookInvMeansTyped
<1> QED
  BY <1>1, <1>2, <1>3, PTL DEF BookSpec

(* check_invariants() holds after every step of add() and cancel(), in the  *)
(* middle of a sweep too: the FIFOs are sound lists with true aggregates,   *)
(* best_price() is the best price where an order rests, and every live slot *)
(* of the pool is linked into one level or is the order in flight.          *)
THEOREM StructureStaysSound == BookSpec => []StructureIsSound
<1>1. BookInit => BookInv
  BY InitEstablishes
<1>2. BookInv /\ [BookNext]_bookVars => BookInv'
  BY BookStepPreserves
<1>3. BookInv => StructureIsSound
  BY BookInvMeansSound
<1> QED
  BY <1>1, <1>2, <1>3, PTL DEF BookSpec

(* The same for add_limit() and cancel(), which can cross the book.         *)
THEOREM RestOnlyStaysSound == RestOnlySpec => [](BookTypeOK /\ StructureIsSound)
<1>1. BookInit => BookInv
  BY InitEstablishes
<1>2. BookInv /\ [RestOnlyNext]_bookVars => BookInv'
  BY RestOnlyStepPreserves
<1>3. BookInv => BookTypeOK /\ StructureIsSound
  BY BookInvMeansSound, BookInvMeansTyped
<1> QED
  BY <1>1, <1>2, <1>3, PTL DEF RestOnlySpec

-----------------------------------------------------------------------------
(* Uncrossed: stated of the orders, since a step moves orders, not prices.  *)
Uncrossed ==
    \A b, a \in Resting :
        slots[b].side = kBuy /\ slots[a].side = kSell
        => slots[b].price_ticks < slots[a].price_ticks

LEMMA SidesFacts ==
    /\ kBuy \in Sides /\ kSell \in Sides /\ kBuy # kSell
    /\ Opposite(kBuy) = kSell /\ Opposite(kSell) = kBuy
    /\ \A side \in Sides : side = kBuy \/ side = kSell
BY DEF Sides, Opposite, kBuy, kSell

(* A step that adds no order to those at rest leaves none crossed.          *)
LEMMA FewerStayUncrossed ==
    ASSUME Uncrossed, BookInv, Resting' \subseteq Resting,
           \A j \in Resting' : /\ slots'[j].side = slots[j].side
                               /\ slots'[j].price_ticks = slots[j].price_ticks
    PROVE  Uncrossed'
BY DEF Uncrossed

(* When Match's loop ends with quantity left, the taker's own price is on   *)
(* its side of every order of the other side.                               *)
LEMMA RemainderDoesNotCross ==
    ASSUME BookInv, RestTaker, NEW i \in Resting, slots[i].side = Opposite(taker.side)
    PROVE  ~Crosses(taker.side, taker.price_ticks, slots[i].price_ticks)
<1> DEFINE opposite == Opposite(taker.side)
           best == best_price(opposite)
           p == slots[i].price_ticks
<1>1. /\ opposite \in Sides /\ taker.side \in Sides /\ taker.price_ticks \in Int
      /\ taker.remaining \in Nat
  BY TakerFacts DEF BookInv
<1>2. /\ slots \in [Index -> Order] /\ Structure(slots, ladder, Resting) /\ Resting \subseteq LiveSlots
      /\ Resting \in SUBSET Index
  BY BookInvFacts, StructureType
<1>3. taker.remaining > 0 /\ LimitPrice = taker.price_ticks /\ ~MatchContinues
  <2>1. taker.type = kLimit /\ taker.remaining # 0
    BY DEF RestTaker, Drops
  <2>2. kLimit # kMarket
    BY DEF kLimit, kMarket
  <2> QED
    BY <1>1, <2>1, <2>2 DEF RestTaker, LimitPrice
<1>4. p \in RestingPrices(opposite)
  BY <1>1, <1>2, PricesAreThoseOfOrders DEF Sided
<1>5. best \in RestingPrices(opposite) /\ ~IsBetter(opposite, p, best) /\ ~SideEmpty(opposite)
  BY <1>1, <1>2, <1>4, BestIsTrue
<1>6. p \in Int /\ best \in Int
  BY <1>1, <1>2, <1>4, <1>5, PricesAreThoseOfOrders
<1>7. ~Crosses(taker.side, taker.price_ticks, best)
  BY <1>3, <1>5 DEF MatchContinues
<1>8. CASE taker.side = kBuy
  <2>2. opposite = kSell /\ kSell # kBuy
    BY <1>8, SidesFacts
  <2>3. ~(p < best)
    BY <1>5, <2>2 DEF IsBetter
  <2>4. ~(best <= taker.price_ticks)
    BY <1>7, <1>8 DEF Crosses
  <2>5. ~(p <= taker.price_ticks)
    BY <1>1, <1>6, <2>3, <2>4
  <2> QED
    BY <1>8, <2>5 DEF Crosses
<1>9. CASE taker.side = kSell
  <2>2. opposite = kBuy /\ kSell # kBuy
    BY <1>9, SidesFacts
  <2>3. ~(p > best)
    BY <1>5, <2>2 DEF IsBetter
  <2>4. ~(best >= taker.price_ticks)
    BY <1>7, <1>9, <2>2 DEF Crosses
  <2>5. ~(p >= taker.price_ticks)
    BY <1>1, <1>6, <2>3, <2>4
  <2> QED
    BY <1>9, <2>2, <2>5 DEF Crosses
<1> QED
  BY <1>1, <1>8, <1>9, SidesFacts

LEMMA UncrossedStep == BookInv /\ Uncrossed /\ [BookNext]_bookVars => Uncrossed'
<1> SUFFICES ASSUME BookInv, Uncrossed, [BookNext]_bookVars PROVE Uncrossed'
  OBVIOUS
<1>0. BookInv' /\ slots \in [Index -> Order] /\ Resting \subseteq Index
  BY BookStepPreserves, BookInvFacts
<1>1. Stays => Uncrossed'
  BY FewerStayUncrossed DEF Stays, SameOrders, SameOrder
<1>2. ASSUME NEW i, Leaves(i) PROVE Uncrossed'
  BY <1>2, FewerStayUncrossed DEF Leaves, SameOrders, SameOrder
<1>3. ASSUME NEW i, NEW fill, Shrinks(i, fill) PROVE Uncrossed'
  <2>1. slots[i] \in Order
    BY <1>0, <1>3 DEF Shrinks
  <2>2. slots'[i].side = slots[i].side /\ slots'[i].price_ticks = slots[i].price_ticks
    BY <1>3, <2>1 DEF Shrinks, Order
  <2> QED
    BY <1>3, <2>2, FewerStayUncrossed DEF Shrinks, SameOrders, SameOrder
<1>4. CASE RestTaker
  <2> DEFINE k == index_of(taker.order_id)
  <2>1. Joins(k, taker.side, taker.price_ticks, taker.remaining)
    BY <1>4, RestTakerPreserves
  <2> HIDE DEF k
  <2>2. /\ Resting' = Resting \union {k} /\ slots'[k].side = taker.side
        /\ slots'[k].price_ticks = taker.price_ticks
        /\ \A j \in Resting : /\ slots'[j].side = slots[j].side
                              /\ slots'[j].price_ticks = slots[j].price_ticks
    BY <2>1 DEF Joins, SameOrders, SameOrder
  <2>3. taker.side \in Sides /\ taker.price_ticks \in Int
    BY TakerFacts DEF BookInv
  <2>4. \A j \in Resting : slots[j].price_ticks \in Int
    BY <1>0, OrderFields
  <2> SUFFICES ASSUME NEW b \in Resting', NEW a \in Resting',
                      slots'[b].side = kBuy, slots'[a].side = kSell
               PROVE  slots'[b].price_ticks < slots'[a].price_ticks
    BY DEF Uncrossed
  <2>5. CASE b \in Resting /\ a \in Resting
    BY <2>2, <2>5 DEF Uncrossed
  <2>6. CASE b = k /\ a \in Resting
    <3>1. taker.side = kBuy /\ slots[a].side = Opposite(taker.side)
      BY <2>2, <2>6, SidesFacts
    <3>2. ~Crosses(taker.side, taker.price_ticks, slots[a].price_ticks)
      BY <1>4, <2>6, <3>1, RemainderDoesNotCross
    <3>3. ~(slots[a].price_ticks <= taker.price_ticks)
      BY <3>1, <3>2 DEF Crosses
    <3>4. taker.price_ticks < slots[a].price_ticks
      BY <2>3, <2>4, <2>6, <3>3
    <3> QED
      BY <2>2, <2>6, <3>4
  <2>7. CASE b \in Resting /\ a = k
    <3>1. taker.side = kSell /\ slots[b].side = Opposite(taker.side)
      BY <2>2, <2>7, SidesFacts
    <3>2. ~Crosses(taker.side, taker.price_ticks, slots[b].price_ticks)
      BY <1>4, <2>7, <3>1, RemainderDoesNotCross
    <3>3. ~(slots[b].price_ticks >= taker.price_ticks)
      BY <3>1, <3>2, SidesFacts DEF Crosses
    <3>4. slots[b].price_ticks < taker.price_ticks
      BY <2>3, <2>4, <2>7, <3>3
    <3> QED
      BY <2>2, <2>7, <3>4
  <2>8. CASE b = k /\ a = k
    BY <2>8, SidesFacts
  <2> QED
    BY <2>2, <2>5, <2>6, <2>7, <2>8
<1>5. ASSUME NEW new \in NewOrders, AddInvalid(new) \/ AddToFullPool(new) PROVE Uncrossed'
  BY <1>1, <1>5, StutterPreserves DEF AddInvalid, AddToFullPool, RejectAdd
<1>6. ASSUME NEW new \in NewOrders, Accept(new) PROVE Uncrossed'
  BY <1>1, <1>6, NewOrdersAssumption, AcceptPreserves
<1>7. CASE Fill
  BY <1>2, <1>3, <1>7, FillPreserves
<1>8. CASE DropTaker
  BY <1>1, <1>8, DropTakerPreserves
<1>9. ASSUME NEW id \in CancelIds, CancelOpen(id) PROVE Uncrossed'
  BY <1>2, <1>9, CancelOpenPreserves
<1>10. ASSUME NEW id \in CancelIds, CancelUnknown(id) PROVE Uncrossed'
  BY <1>1, <1>10, StutterPreserves DEF CancelUnknown
<1>11. CASE UNCHANGED bookVars
  BY <1>1, <1>11, StutterPreserves DEF bookVars
<1> QED
  BY <1>4, <1>5, <1>6, <1>7, <1>8, <1>9, <1>10, <1>11 DEF BookNext, Add, Sweep, Cancel

LEMMA UncrossedMeansPrices == BookInv /\ Uncrossed => BookIsUncrossed
<1> SUFFICES ASSUME BookInv, Uncrossed,
                    NEW bid \in RestingPrices(kBuy), NEW ask \in RestingPrices(kSell)
             PROVE  bid < ask
  BY DEF BookIsUncrossed
<1>1. Structure(slots, ladder, Resting) /\ Resting \subseteq LiveSlots
  BY BookInvFacts
<1>2. PICK b \in Sided(Resting, kBuy) : slots[b].price_ticks = bid
  BY <1>1, SidesFacts, PricesAreThoseOfOrders
<1>3. PICK a \in Sided(Resting, kSell) : slots[a].price_ticks = ask
  BY <1>1, SidesFacts, PricesAreThoseOfOrders
<1> QED
  BY <1>2, <1>3 DEF Sided, Uncrossed

(* Matching never leaves nor makes the book crossed: uncrossed(), which the *)
(* code asserts after each add(), holds after every single fill.            *)
THEOREM BookStaysUncrossed == BookSpec => []BookIsUncrossed
<1>1. BookInit => BookInv /\ Uncrossed
  <2> SUFFICES ASSUME BookInit PROVE BookInv /\ Uncrossed
    OBVIOUS
  <2>1. Resting = {}
    BY DEF BookInit, PoolInit, FreshSlot, LiveSlots, Live, Resting
  <2> QED
    BY <2>1, InitEstablishes DEF Uncrossed
<1>2. BookInv /\ Uncrossed /\ [BookNext]_bookVars => (BookInv /\ Uncrossed)'
  BY BookStepPreserves, UncrossedStep
<1>3. BookInv /\ Uncrossed => BookIsUncrossed
  BY UncrossedMeansPrices
<1> QED
  BY <1>1, <1>2, <1>3, PTL DEF BookSpec

-----------------------------------------------------------------------------
(* The walks of the levels, in this state and in the next one.              *)
WalksTrue ==
    \A level, G, w :
        IsList(slots, level, G, w) =>
            /\ Fifo(level) = w
            /\ \A k \in 1 .. level.order_count : Position(level, w[k]) = k

LEMMA WalkIsList == WalksTrue
<1> SUFFICES ASSUME NEW level, NEW G, NEW w, IsList(slots, level, G, w)
             PROVE  /\ Fifo(level) = w
                    /\ \A k \in 1 .. level.order_count : Position(level, w[k]) = k
  BY DEF WalksTrue
<1>1. Fifo(level) = w
  BY FifoIsList
<1>2. \A j, k \in 1 .. level.order_count : w[j] = w[k] => j = k
  BY DEF IsList
<1> QED
  BY <1>1, <1>2 DEF Position

LEMMA WalkIsListNext ==
    \A level, G, w :
        IsList(slots', level, G, w) =>
            /\ Fifo(level)' = w
            /\ \A k \in 1 .. level.order_count : Position(level, w[k])' = k
<1>1. WalksTrue'
  BY WalkIsList, PTL
<1> QED
  BY <1>1 DEF WalksTrue

LEMMA RestingIsWalked == BookInv => RestingSlots = Resting
BY BookInvMeansSound DEF StructureIsSound, CensusMatchesPool, Resting

LEMMA RestingIsWalkedNext == (BookInv => RestingSlots = Resting)'
BY RestingIsWalked, PTL

(* At one price, "before" is the place in the list.                         *)
BeforeIsPlace ==
    \A side, price, G, w :
        /\ price \in Int
        /\ IsList(slots, LevelIn(ladder[side], price), G, w)
        /\ \A i \in G : slots[i].side = side /\ slots[i].price_ticks = price
        => \A a, b \in 1 .. LevelIn(ladder[side], price).order_count :
              Before(w[a], w[b]) <=> a < b

LEMMA PlacesAtPrice == BeforeIsPlace
<1> SUFFICES ASSUME NEW side, NEW price, NEW G, NEW w, price \in Int,
                    IsList(slots, LevelIn(ladder[side], price), G, w),
                    \A i \in G : slots[i].side = side /\ slots[i].price_ticks = price,
                    NEW a \in 1 .. LevelIn(ladder[side], price).order_count,
                    NEW b \in 1 .. LevelIn(ladder[side], price).order_count
             PROVE  Before(w[a], w[b]) <=> a < b
  BY DEF BeforeIsPlace
<1> DEFINE level == LevelIn(ladder[side], price)
<1>1. w[a] \in G /\ w[b] \in G
  BY DEF IsList
<1>2. Position(level, w[a]) = a /\ Position(level, w[b]) = b
  BY WalkIsList DEF WalksTrue
<1>3. /\ slots[w[a]].side = side /\ slots[w[a]].price_ticks = price
      /\ slots[w[b]].side = side /\ slots[w[b]].price_ticks = price
  BY <1>1
<1>4. LevelAt(side, price) = level
  BY LevelAtIsIn
<1>5. ~IsBetter(side, price, price)
  BY DEF IsBetter
<1> HIDE DEF level
<1> QED
  BY <1>2, <1>3, <1>4, <1>5 DEF Before

LEMMA PlacesAtPriceNext == BeforeIsPlace'
BY PlacesAtPrice, PTL

(* What every step keeps of an order that rests before and after it.        *)
StillThere ==
    \A i \in Resting \intersect Resting' :
        /\ slots'[i].order_id = slots[i].order_id
        /\ slots'[i].side = slots[i].side
        /\ slots'[i].price_ticks = slots[i].price_ticks

LEMMA BookStepKeepsPlaces == BookInv /\ [BookNext]_bookVars => KeepsPlaces /\ StillThere
<1> SUFFICES ASSUME BookInv, [BookNext]_bookVars PROVE KeepsPlaces /\ StillThere
  OBVIOUS
<1>0. slots \in [Index -> Order] /\ Resting \subseteq Index
  BY BookInvFacts
<1>1. Stays => StillThere
  BY DEF Stays, StillThere, SameOrders, SameOrder
<1>2. ASSUME NEW i, Leaves(i) PROVE StillThere
  BY <1>2 DEF Leaves, StillThere, SameOrders, SameOrder
<1>3. ASSUME NEW i, NEW fill, Shrinks(i, fill) PROVE StillThere
  <2>1. slots[i] \in Order
    BY <1>0, <1>3 DEF Shrinks
  <2>2. /\ slots'[i].side = slots[i].side /\ slots'[i].price_ticks = slots[i].price_ticks
        /\ slots'[i].order_id = slots[i].order_id
    BY <1>3, <2>1 DEF Shrinks, Order
  <2> QED
    BY <1>3, <2>2 DEF Shrinks, StillThere, SameOrders, SameOrder
<1>4. CASE RestTaker
  <2>1. KeepsPlaces /\ Joins(index_of(taker.order_id), taker.side, taker.price_ticks, taker.remaining)
    BY <1>4, RestTakerPreserves
  <2> QED
    BY <2>1 DEF Joins, StillThere, SameOrders, SameOrder
<1>5. ASSUME NEW new \in NewOrders, AddInvalid(new) \/ AddToFullPool(new)
      PROVE  KeepsPlaces /\ StillThere
  BY <1>1, <1>5, StutterPreserves DEF AddInvalid, AddToFullPool, RejectAdd
<1>6. ASSUME NEW new \in NewOrders, Accept(new) PROVE KeepsPlaces /\ StillThere
  BY <1>1, <1>6, NewOrdersAssumption, AcceptPreserves
<1>7. CASE Fill
  BY <1>2, <1>3, <1>7, FillPreserves
<1>8. CASE DropTaker
  BY <1>1, <1>8, DropTakerPreserves
<1>9. ASSUME NEW id \in CancelIds, CancelOpen(id) PROVE KeepsPlaces /\ StillThere
  BY <1>2, <1>9, CancelOpenPreserves
<1>10. ASSUME NEW id \in CancelIds, CancelUnknown(id) PROVE KeepsPlaces /\ StillThere
  BY <1>1, <1>10, StutterPreserves DEF CancelUnknown
<1>11. CASE UNCHANGED bookVars
  BY <1>1, <1>11, StutterPreserves DEF bookVars
<1> QED
  BY <1>4, <1>5, <1>6, <1>7, <1>8, <1>9, <1>10, <1>11 DEF BookNext, Add, Sweep, Cancel

LEMMA StepKeepsTimePriority ==
    ASSUME BookInv, BookInv', KeepsPlaces, StillThere,
           NEW i \in Resting', NEW j \in Resting', i # j,
           slots'[i].side = slots'[j].side, slots'[i].price_ticks = slots'[j].price_ticks,
           i \in Resting
    PROVE  \/ j \in Resting /\ (Before(i, j) <=> Before(i, j)')
           \/ j \notin Resting /\ Before(i, j)'
<1> DEFINE side == slots'[i].side
           price == slots'[i].price_ticks
           G == Group(slots, Resting, side, price)
           H == Group(slots', Resting', side, price)
           old == LevelIn(ladder[side], price)
           new == LevelIn(ladder'[side], price)
<1>1. slots \in [Index -> Order] /\ Resting \subseteq Index
  BY BookInvFacts
<1>2. slots' \in [Index -> Order] /\ Resting' \subseteq Index
  <2>1. Structure(slots', ladder', Resting')
    BY DEF BookInv
  <2> QED
    BY <2>1, StructureType
<1>3. side \in Sides /\ price \in Int
  BY <1>2, OrderFields
<1>4. slots[i].side = side /\ slots[i].price_ticks = price
  BY DEF StillThere
<1>5. i \in H /\ j \in H /\ i \in G
  BY <1>4 DEF Group, At
<1>6. j \in Resting => j \in G
  BY DEF Group, At, StillThere
<1>7. j \in G => j \in Resting
  BY DEF Group
<1>8. PICK w, v : /\ IsList(slots, old, G, w)
                  /\ IsList(slots', new, H, v)
                  /\ OrderKept(w, old.order_count, v, new.order_count)
  BY <1>3 DEF KeepsPlaces, KeepsOrder
<1>9. /\ \A k \in G : slots[k].side = side /\ slots[k].price_ticks = price
      /\ \A k \in H : slots'[k].side = side /\ slots'[k].price_ticks = price
  BY DEF Group, At
<1> HIDE DEF side, price, G, H
<1>10. \A a, b \in 1 .. old.order_count : Before(w[a], w[b]) <=> a < b
  BY <1>3, <1>8, <1>9, PlacesAtPrice DEF BeforeIsPlace
<1>11. \A c, d \in 1 .. new.order_count : Before(v[c], v[d])' <=> c < d
  BY <1>3, <1>8, <1>9, PlacesAtPriceNext DEF BeforeIsPlace
<1> HIDE DEF old, new
<1>12. /\ \A k \in Index : k \in G <=> \E a \in 1 .. old.order_count : w[a] = k
       /\ \A k \in Index : k \in H <=> \E a \in 1 .. new.order_count : v[a] = k
  BY <1>8 DEF IsList
<1>13. PICK c \in 1 .. new.order_count, d \in 1 .. new.order_count : v[c] = i /\ v[d] = j
  BY <1>2, <1>5, <1>12
<1>14. PICK a \in 1 .. old.order_count : w[a] = i
  BY <1>1, <1>5, <1>12
<1>15. Before(i, j)' <=> c < d
  BY <1>11, <1>13
<1>16. CASE j \in Resting
  <2>1. PICK b \in 1 .. old.order_count : w[b] = j
    BY <1>1, <1>6, <1>12, <1>16
  <2>2. Before(i, j) <=> a < b
    BY <1>10, <1>14, <2>1
  <2>3. a < b <=> c < d
    BY <1>8, <1>13, <1>14, <2>1 DEF OrderKept
  <2> QED
    BY <1>15, <1>16, <2>2, <2>3
<1>17. CASE j \notin Resting
  <2>1. \A b \in 1 .. old.order_count : w[b] # j
    <3>1. j \notin G
      BY <1>7, <1>17
    <3>2. j \in Index
      BY <1>2
    <3> QED
      BY <1>12, <3>1, <3>2
  <2>2. c < d
    BY <1>8, <1>13, <1>14, <2>1 DEF OrderKept
  <2> QED
    BY <1>15, <1>17, <2>2
<1> QED
  BY <1>16, <1>17

(* Time priority survives every step of a sweep, of a cancel and of an add: *)
(* of two orders at a price the first stays first, and one that comes to    *)
(* rest goes behind those that are there.                                   *)
THEOREM BookKeepsTimePriority == BookSpec => TimePriorityIsKept
<1> DEFINE Kept ==
        \A i, j \in RestingSlots' :
          /\ i # j
          /\ slots'[i].side = slots'[j].side /\ slots'[i].price_ticks = slots'[j].price_ticks
          /\ i \in RestingSlots /\ slots'[i].order_id = slots[i].order_id
          => \/ j \in RestingSlots /\ (Before(i, j) <=> Before(i, j)')
             \/ j \notin RestingSlots /\ Before(i, j)'
<1>1. BookInit => BookInv
  BY InitEstablishes
<1>2. BookInv /\ [BookNext]_bookVars => BookInv'
  BY BookStepPreserves
<1>3. BookInv /\ [BookNext]_bookVars => [Kept]_bookVars
  <2> SUFFICES ASSUME BookInv, [BookNext]_bookVars PROVE Kept
    OBVIOUS
  <2>1. BookInv' /\ KeepsPlaces /\ StillThere
    BY BookStepPreserves, BookStepKeepsPlaces
  <2>2. RestingSlots = Resting /\ RestingSlots' = Resting'
    BY <2>1, RestingIsWalked, RestingIsWalkedNext
  <2> QED
    BY <2>1, <2>2, StepKeepsTimePriority
<1> QED
  BY <1>1, <1>2, <1>3, PTL DEF BookSpec, TimePriorityIsKept

-----------------------------------------------------------------------------
(* Priority.  Nothing of its side rests before the head of the best level.  *)
LEMMA NothingBeforeHead ==
    ASSUME BookInv, MatchContinues, NEW j \in Resting \ {BestLevelHead}
    PROVE  ~Before(j, BestLevelHead)
<1> DEFINE side == Opposite(taker.side)
           price == best_price(side)
           i == BestLevelHead
           G == Group(slots, Resting, side, price)
           level == LevelIn(ladder[side], price)
<1>1. /\ i \in Resting /\ i \in Index /\ slots[i].side = side /\ slots[i].price_ticks = price
      /\ side \in Sides /\ price \in Int
      /\ \A q \in RestingPrices(side) : ~IsBetter(side, q, price)
  BY HeadRests
<1>2. /\ slots \in [Index -> Order] /\ Structure(slots, ladder, Resting) /\ Resting \subseteq LiveSlots
      /\ Resting \subseteq Index
  BY BookInvFacts, StructureType
<1>3. i = LevelAt(side, price).head_idx /\ LevelAt(side, price) = level
  BY LevelAtIsIn DEF BestLevelHead
<1> HIDE DEF i, side, price
<1> SUFFICES ASSUME Before(j, i) PROVE FALSE
  BY DEF i
<1>4. slots[j].side = side
  BY <1>1 DEF Before
<1>5. ~IsBetter(side, slots[j].price_ticks, price)
  <2>1. slots[j].price_ticks \in RestingPrices(side)
    BY <1>1, <1>2, <1>4, PricesAreThoseOfOrders DEF Sided
  <2> QED
    BY <1>1, <2>1
<1>6. slots[j].price_ticks = price
  BY <1>1, <1>5 DEF Before
<1>7. i \in G /\ j \in G /\ j # i
  BY <1>1, <1>4, <1>6 DEF Group, At, i
<1>8. PICK w : IsList(slots, level, G, w)
  BY <1>1, <1>2 DEF Structure, Listed
<1>9. \A k \in G : slots[k].side = side /\ slots[k].price_ticks = price
  BY DEF Group, At
<1> HIDE DEF G
<1>10. \A a, b \in 1 .. level.order_count : Before(w[a], w[b]) <=> a < b
  <2>1. /\ price \in Int
        /\ IsList(slots, LevelIn(ladder[side], price), G, w)
        /\ \A k \in G : slots[k].side = side /\ slots[k].price_ticks = price
    BY <1>1, <1>8, <1>9
  <2> QED
    BY <2>1, PlacesAtPrice, Zenon DEF BeforeIsPlace
<1> HIDE DEF level
<1>11. PICK a \in 1 .. level.order_count : w[a] = j
  BY <1>2, <1>7, <1>8 DEF IsList
<1>12. level.order_count \in Nat
  BY <1>8, LevelFacts DEF IsList
<1>13. 1 \in 1 .. level.order_count /\ i = w[1]
  <2>1. level.order_count # 0
    BY <1>11
  <2> QED
    BY <1>3, <1>8, <1>12, <2>1 DEF IsList
<1>14. a < 1
  BY <1>10, <1>11, <1>13
<1> QED
  BY <1>11, <1>14

(* What a fill tells the sink.                                              *)
LEMMA FillEventsFacts ==
    ASSUME NEW maker, NEW fill
    PROVE  /\ FillEvents(maker, fill) =
                <<MakeEvent(kTraded, maker.side, kNone, fill, maker.remaining - fill,
                            maker.price_ticks, maker.order_id),
                  MakeEvent(kTraded, taker.side, kNone, fill, taker.remaining - fill,
                            maker.price_ticks, taker.order_id)>>
           /\ Len(FillEvents(maker, fill)) = 2
           /\ \A k \in 1 .. 2 : /\ FillEvents(maker, fill)[k].price_ticks = maker.price_ticks
                                /\ FillEvents(maker, fill)[k].kind = kTraded
                                /\ FillEvents(maker, fill)[k].qty = fill
BY DEF FillEvents, MakeEvent

(* Only a fill disturbs the orders at rest while an order is in flight, and *)
(* the order it disturbs is the one with the best priority.                 *)
LEMMA StepFollowsPriority ==
    ASSUME BookInv, BookNext, ~Idle, NEW i \in Resting,
           slots'[i].remaining # slots[i].remaining \/ slots'[i].order_id # slots[i].order_id
    PROVE  /\ slots[i].side = Opposite(taker.side)
           /\ Crosses(taker.side, LimitPrice, slots[i].price_ticks)
           /\ \A j \in Resting \ {i} : ~Before(j, i)
           /\ \A k \in 1 .. Len(out') : out'[k].price_ticks = slots[i].price_ticks
<1> DEFINE fill == SmallerOf(taker.remaining, slots[BestLevelHead].remaining)
<1>1. ~Stays
  BY DEF Stays, SameOrders, SameOrder
<1>2. Fill
  <2>1. \A new \in NewOrders : ~(AddInvalid(new) \/ AddToFullPool(new) \/ Accept(new))
    BY DEF AddInvalid, AddToFullPool, Accept
  <2>2. \A id \in CancelIds : ~(CancelOpen(id) \/ CancelUnknown(id))
    BY DEF CancelOpen, CancelUnknown
  <2>3. ~DropTaker
    BY <1>1, DropTakerPreserves
  <2>4. ~RestTaker
    BY RestTakerPreserves DEF Joins, SameOrders, SameOrder
  <2> QED
    BY <2>1, <2>2, <2>3, <2>4 DEF BookNext, Add, Cancel, Sweep
<1>3. MatchContinues /\ out' = FillEvents(slots[BestLevelHead], fill)
  BY <1>2 DEF Fill
<1>4. i = BestLevelHead
  <2>1. Leaves(BestLevelHead) \/ Shrinks(BestLevelHead, fill)
    BY <1>2, FillPreserves
  <2>2. SameOrders(Resting \ {BestLevelHead})
    BY <2>1 DEF Leaves, Shrinks
  <2> QED
    BY <2>2 DEF SameOrders, SameOrder
<1>5. /\ slots[i].side = Opposite(taker.side)
      /\ slots[i].price_ticks = best_price(Opposite(taker.side))
  BY <1>3, <1>4, HeadRests
<1>6. Crosses(taker.side, LimitPrice, slots[i].price_ticks)
  BY <1>3, <1>5 DEF MatchContinues
<1>7. \A j \in Resting \ {i} : ~Before(j, i)
  BY <1>3, <1>4, NothingBeforeHead
<1>8. \A k \in 1 .. Len(out') : out'[k].price_ticks = slots[i].price_ticks
  BY <1>3, <1>4, FillEventsFacts
<1> QED
  BY <1>5, <1>6, <1>7, <1>8

(* Price-time priority: whatever is resting, Match fills the order that     *)
(* nothing of its side rests before, within the taker's limit and at that   *)
(* order's own price.                                                       *)
THEOREM BookFollowsPriority == BookSpec => FillsFollowPriority
<1> DEFINE Follows ==
        \A i \in RestingSlots :
          /\ ~Idle /\ i \in RestingSlots
          /\ slots'[i].remaining # slots[i].remaining \/ slots'[i].order_id # slots[i].order_id
          => /\ slots[i].side = Opposite(taker.side)
             /\ Crosses(taker.side, LimitPrice, slots[i].price_ticks)
             /\ \A j \in RestingSlots \ {i} : ~Before(j, i)
             /\ \A k \in 1 .. Len(out') : out'[k].price_ticks = slots[i].price_ticks
<1>1. BookInit => BookInv
  BY InitEstablishes
<1>2. BookInv /\ [BookNext]_bookVars => BookInv'
  BY BookStepPreserves
<1>3. BookInv /\ [BookNext]_bookVars => [Follows]_bookVars
  <2> SUFFICES ASSUME BookInv, BookNext PROVE Follows
    OBVIOUS
  <2>1. RestingSlots = Resting
    BY RestingIsWalked
  <2> QED
    BY <2>1, StepFollowsPriority
<1> QED
  BY <1>1, <1>2, <1>3, PTL DEF BookSpec, FillsFollowPriority

-----------------------------------------------------------------------------
(* Quantities.  The sum of what an event sequence of up to two carries.     *)
LEMMA EventQtyOfNone == \A kind : EventQty(<<>>, kind) = 0
<1> TAKE kind
<1> DEFINE f == [k \in DOMAIN <<>> |-> IF <<>>[k].kind = kind THEN <<>>[k].qty ELSE 0]
<1>1. DOMAIN f = {}
  OBVIOUS
<1> HIDE DEF f
<1>2. SumFunction(f) = 0
  BY <1>1, SumEmpty DEF SumFunction
<1> QED
  BY <1>2 DEF EventQty, f

LEMMA EventQtyOfOne ==
    ASSUME NEW e, e.qty \in Int
    PROVE  \A kind : EventQty(<<e>>, kind) = IF e.kind = kind THEN e.qty ELSE 0
<1> TAKE kind
<1> DEFINE f == [k \in DOMAIN <<e>> |-> IF <<e>>[k].kind = kind THEN <<e>>[k].qty ELSE 0]
<1>1. DOMAIN f = {1} /\ f[1] = (IF e.kind = kind THEN e.qty ELSE 0) /\ f[1] \in Int
  OBVIOUS
<1> HIDE DEF f
<1>2. {} \union {1} = {1} /\ IsFiniteSet({1}) /\ {} \in SUBSET {1} /\ 1 \in {1} \ {}
  BY FS_Singleton
<1>3. SumFunctionOnSet(f, {} \union {1}) = f[1] + SumFunctionOnSet(f, {})
  BY <1>1, <1>2, SumInsert
<1>4. SumFunction(f) = f[1]
  BY <1>1, <1>2, <1>3, SumEmpty DEF SumFunction
<1> QED
  BY <1>1, <1>4 DEF EventQty, f

LEMMA EventQtyOfTwo ==
    ASSUME NEW d, d.qty \in Int, NEW e, e.qty \in Int
    PROVE  \A kind : EventQty(<<d, e>>, kind) = (IF d.kind = kind THEN d.qty ELSE 0)
                                                + (IF e.kind = kind THEN e.qty ELSE 0)
<1> TAKE kind
<1> DEFINE f == [k \in DOMAIN <<d, e>> |-> IF <<d, e>>[k].kind = kind
                                            THEN <<d, e>>[k].qty ELSE 0]
<1>1. /\ DOMAIN f = {1, 2}
      /\ f[1] = (IF d.kind = kind THEN d.qty ELSE 0) /\ f[1] \in Int
      /\ f[2] = (IF e.kind = kind THEN e.qty ELSE 0) /\ f[2] \in Int
  OBVIOUS
<1> HIDE DEF f
<1>2. IsFiniteSet({1, 2})
  <2>1. IsFiniteSet({1})
    BY FS_Singleton
  <2>2. IsFiniteSet({1} \union {2})
    BY <2>1, FS_AddElement
  <2> QED
    BY <2>2, {1} \union {2} = {1, 2}
<1>3. \A x \in {1, 2} : f[x] \in Int
  BY <1>1
<1>4. /\ {} \union {1} = {1} /\ {1} \union {2} = {1, 2}
      /\ {} \in SUBSET {1, 2} /\ {1} \in SUBSET {1, 2}
      /\ 1 \in {1, 2} \ {} /\ 2 \in {1, 2} \ {1}
  OBVIOUS
<1> DEFINE S == {1, 2}
<1> HIDE DEF S
<1>0. \A X \in SUBSET S : \A x \in S \ X :
         SumFunctionOnSet(f, X \union {x}) = f[x] + SumFunctionOnSet(f, X)
  BY <1>2, <1>3, SumInsert DEF S
<1>5. SumFunctionOnSet(f, {} \union {1}) = f[1] + SumFunctionOnSet(f, {})
  BY <1>0, <1>4 DEF S
<1>6. SumFunctionOnSet(f, {1} \union {2}) = f[2] + SumFunctionOnSet(f, {1})
  BY <1>0, <1>4 DEF S
<1>7. SumFunction(f) = f[1] + f[2]
  BY <1>1, <1>4, <1>5, <1>6, SumEmpty DEF SumFunction
<1> QED
  BY <1>1, <1>7 DEF EventQty, f

(* The open quantity at rest, under each change of the orders at rest.      *)
QtyAtRest == SumFunctionOnSet(Remaining(slots), Resting)

LEMMA QtyAtRestType ==
    ASSUME BookInv
    PROVE  /\ QtyAtRest \in Nat /\ IsFiniteSet(Resting) /\ Resting \subseteq Index
           /\ \A i \in Index : Remaining(slots)[i] = slots[i].remaining /\ slots[i].remaining \in Nat
BY BookInvFacts, RemainingType, IndexFinite DEF QtyAtRest

LEMMA QtyAtRestTypeNext ==
    ASSUME BookInv'
    PROVE  /\ QtyAtRest' \in Nat /\ IsFiniteSet(Resting') /\ Resting' \subseteq Index
           /\ \A i \in Index : Remaining(slots')[i] = slots'[i].remaining /\ slots'[i].remaining \in Nat
<1>1. slots' \in [Index -> Order] /\ Resting' \subseteq Index
  <2>1. Structure(slots', ladder', Resting')
    BY DEF BookInv
  <2> QED
    BY <2>1, StructureType
<1> QED
  BY <1>1, RemainingType, IndexFinite DEF QtyAtRest

LEMMA QtyStays == ASSUME BookInv, BookInv', Stays PROVE QtyAtRest' = QtyAtRest
<1>1. \A i \in Resting : /\ Remaining(slots)[i] \in Int
                         /\ Remaining(slots')[i] = Remaining(slots)[i]
  BY QtyAtRestType, QtyAtRestTypeNext DEF Stays, SameOrders, SameOrder
<1> QED
  BY <1>1, QtyAtRestType, SumSame DEF QtyAtRest, Stays

LEMMA QtyLeaves ==
    ASSUME BookInv, BookInv', NEW i, Leaves(i)
    PROVE  QtyAtRest' = QtyAtRest - slots[i].remaining
<1>1. \A j \in Resting : Remaining(slots)[j] \in Int
  BY QtyAtRestType
<1>2. QtyAtRest = Remaining(slots)[i] + SumFunctionOnSet(Remaining(slots), Resting \ {i})
  BY <1>1, QtyAtRestType, SumRemove DEF QtyAtRest, Leaves
<1>3. IsFiniteSet(Resting \ {i})
  BY QtyAtRestType, FS_RemoveElement
<1>4. \A j \in Resting \ {i} : /\ Remaining(slots)[j] \in Int
                               /\ Remaining(slots')[j] = Remaining(slots)[j]
  BY QtyAtRestType, QtyAtRestTypeNext DEF Leaves, SameOrders, SameOrder
<1>5. SumFunctionOnSet(Remaining(slots'), Resting \ {i})
        = SumFunctionOnSet(Remaining(slots), Resting \ {i})
  BY <1>3, <1>4, SumSame
<1>6. QtyAtRest' = SumFunctionOnSet(Remaining(slots), Resting \ {i})
  BY <1>5 DEF QtyAtRest, Leaves
<1>7. Remaining(slots)[i] = slots[i].remaining /\ slots[i].remaining \in Nat
  BY QtyAtRestType DEF Leaves
<1> QED
  BY <1>2, <1>6, <1>7, QtyAtRestType, QtyAtRestTypeNext

LEMMA QtyShrinks ==
    ASSUME BookInv, BookInv', NEW i, NEW fill \in Nat, Shrinks(i, fill)
    PROVE  QtyAtRest' = QtyAtRest - fill
<1>1. i \in Resting /\ i \in Index /\ slots[i] \in Order /\ slots[i].remaining \in Nat
  BY BookInvFacts, QtyAtRestType DEF Shrinks
<1>2. slots'[i].remaining = slots[i].remaining - fill
  BY <1>1 DEF Shrinks, Order
<1>3. \A j \in Resting : Remaining(slots)[j] \in Int /\ Remaining(slots')[j] \in Int
  BY QtyAtRestType, QtyAtRestTypeNext
<1>4. \A j \in Resting \ {i} : Remaining(slots')[j] = Remaining(slots)[j]
  BY QtyAtRestType, QtyAtRestTypeNext DEF Shrinks, SameOrders, SameOrder
<1>5. SumFunctionOnSet(Remaining(slots'), Resting)
        = SumFunctionOnSet(Remaining(slots), Resting) - Remaining(slots)[i] + Remaining(slots')[i]
  BY <1>1, <1>3, <1>4, QtyAtRestType, SumChange
<1>6. /\ Remaining(slots)[i] = slots[i].remaining
      /\ Remaining(slots')[i] = slots[i].remaining - fill
  BY <1>1, <1>2, QtyAtRestType, QtyAtRestTypeNext
<1>7. QtyAtRest' = QtyAtRest - slots[i].remaining + (slots[i].remaining - fill)
  BY <1>5, <1>6 DEF QtyAtRest, Shrinks
<1> QED
  BY <1>1, <1>7, QtyAtRestType

LEMMA QtyJoins ==
    ASSUME BookInv, BookInv', NEW k, NEW side, NEW price, NEW remaining,
           Joins(k, side, price, remaining)
    PROVE  QtyAtRest' = QtyAtRest + remaining
<1>1. /\ k \in Index \ Resting /\ Resting' = Resting \union {k}
      /\ slots'[k].remaining = remaining
  BY DEF Joins
<1>2. IsFiniteSet(Index) /\ Resting \in SUBSET Index
  BY QtyAtRestType, IndexFinite
<1>3. \A j \in Index : Remaining(slots')[j] \in Int
  BY QtyAtRestTypeNext
<1>4. SumFunctionOnSet(Remaining(slots'), Resting \union {k})
        = Remaining(slots')[k] + SumFunctionOnSet(Remaining(slots'), Resting)
  BY <1>1, <1>2, <1>3, SumInsert
<1>5. \A j \in Resting : /\ Remaining(slots)[j] \in Int
                         /\ Remaining(slots')[j] = Remaining(slots)[j]
  BY QtyAtRestType, QtyAtRestTypeNext DEF Joins, SameOrders, SameOrder
<1>6. SumFunctionOnSet(Remaining(slots'), Resting) = QtyAtRest
  BY <1>5, QtyAtRestType, SumSame DEF QtyAtRest
<1>7. Remaining(slots')[k] = remaining /\ remaining \in Nat
  BY <1>1, QtyAtRestTypeNext
<1> QED
  BY <1>1, <1>4, <1>6, <1>7, QtyAtRestType DEF QtyAtRest

LEMMA MakeEventFields ==
    \A kind, side, reason, qty, remaining, price, id :
        LET e == MakeEvent(kind, side, reason, qty, remaining, price, id) IN
        /\ e.kind = kind /\ e.side = side /\ e.reason = reason /\ e.qty = qty
        /\ e.remaining = remaining /\ e.price_ticks = price /\ e.order_id = id
BY DEF MakeEvent

LEMMA KindsDiffer ==
    /\ kAccepted # kRejected /\ kAccepted # kTraded /\ kAccepted # kCanceled
    /\ kRejected # kTraded /\ kRejected # kCanceled /\ kTraded # kCanceled
BY DEF kAccepted, kRejected, kTraded, kCanceled

(* What a step's events add up to: accepted, minus traded, minus canceled.  *)
EventBalance(events) ==
    EventQty(events, kAccepted) - EventQty(events, kTraded) - EventQty(events, kCanceled)

LEMMA NoBalance == EventBalance(<<>>) = 0
BY EventQtyOfNone DEF EventBalance

LEMMA BalanceOfOne ==
    ASSUME NEW kind, NEW side, NEW reason, NEW qty \in Int, NEW remaining, NEW price, NEW id
    PROVE  EventBalance(<<MakeEvent(kind, side, reason, qty, remaining, price, id)>>)
             = IF kind = kAccepted THEN qty
               ELSE IF kind \in {kTraded, kCanceled} THEN -qty ELSE 0
<1> DEFINE e == MakeEvent(kind, side, reason, qty, remaining, price, id)
<1>1. e.kind = kind /\ e.qty = qty /\ e.qty \in Int
  BY MakeEventFields
<1> HIDE DEF e
<1>2. \A t : EventQty(<<e>>, t) = IF kind = t THEN qty ELSE 0
  BY <1>1, EventQtyOfOne
<1>3. EventBalance(<<e>>) = IF kind = kAccepted THEN qty
                            ELSE IF kind \in {kTraded, kCanceled} THEN -qty ELSE 0
  BY <1>2, KindsDiffer DEF EventBalance
<1> QED
  BY <1>3 DEF e

LEMMA BalanceOfFill ==
    ASSUME NEW maker, NEW fill \in Int
    PROVE  EventBalance(FillEvents(maker, fill)) = -(fill + fill)
<1> DEFINE d == MakeEvent(kTraded, maker.side, kNone, fill, maker.remaining - fill,
                          maker.price_ticks, maker.order_id)
           e == MakeEvent(kTraded, taker.side, kNone, fill, taker.remaining - fill,
                          maker.price_ticks, taker.order_id)
<1>1. FillEvents(maker, fill) = <<d, e>>
  BY DEF FillEvents
<1>2. d.kind = kTraded /\ d.qty = fill /\ e.kind = kTraded /\ e.qty = fill
  BY MakeEventFields
<1> HIDE DEF d, e
<1>3. \A t : EventQty(<<d, e>>, t) = (IF kTraded = t THEN fill ELSE 0)
                                     + (IF kTraded = t THEN fill ELSE 0)
  BY <1>2, EventQtyOfTwo
<1>4. EventBalance(<<d, e>>) = -(fill + fill)
  BY <1>3, KindsDiffer DEF EventBalance
<1> QED
  BY <1>1, <1>4

LEMMA StepBalances ==
    ASSUME BookInv, BookNext
    PROVE  QtyAtRest' + taker'.remaining = QtyAtRest + taker.remaining + EventBalance(out')
<1>0. /\ BookInv' /\ QtyAtRest \in Nat /\ QtyAtRest' \in Nat
      /\ taker.remaining \in Nat
  BY BookStepPreserves, QtyAtRestType, QtyAtRestTypeNext, TakerFacts DEF BookInv
<1>1. ASSUME NEW new \in NewOrders, AddInvalid(new) \/ AddToFullPool(new)
      PROVE  QtyAtRest' + taker'.remaining = QtyAtRest + taker.remaining + EventBalance(out')
  <2>1. PICK reason : RejectAdd(new, reason)
    BY <1>1 DEF AddInvalid, AddToFullPool
  <2>2. new.qty \in Int
    BY NewOrdersAssumption DEF NewOrder
  <2>3. EventBalance(out') = 0
    BY <2>1, <2>2, BalanceOfOne, KindsDiffer DEF RejectAdd
  <2>4. UNCHANGED <<slots, free_head, live_count, ladder, taker>>
    BY <2>1 DEF RejectAdd
  <2>5. Stays
    BY <2>4, StutterPreserves
  <2>6. QtyAtRest' = QtyAtRest
    BY <1>0, <2>5, QtyStays
  <2> QED
    BY <1>0, <2>3, <2>4, <2>6
<1>2. ASSUME NEW new \in NewOrders, Accept(new)
      PROVE  QtyAtRest' + taker'.remaining = QtyAtRest + taker.remaining + EventBalance(out')
  <2>1. new.qty \in Int /\ new.qty \in Nat
    BY NewOrdersAssumption DEF NewOrder
  <2>2. EventBalance(out') = new.qty
    BY <1>2, <2>1, BalanceOfOne DEF Accept
  <2>3. QtyAtRest' = QtyAtRest
    BY <1>0, <1>2, NewOrdersAssumption, AcceptPreserves, QtyStays
  <2>4. taker.remaining = 0 /\ taker'.remaining = new.qty
    BY <1>2 DEF Accept, Idle, NoTaker
  <2> QED
    BY <1>0, <2>1, <2>2, <2>3, <2>4
<1>3. ASSUME Fill
      PROVE  QtyAtRest' + taker'.remaining = QtyAtRest + taker.remaining + EventBalance(out')
  <2> DEFINE i == BestLevelHead
             fill == SmallerOf(taker.remaining, slots[i].remaining)
  <2>1. /\ fill \in Nat /\ fill \in Int /\ taker'.remaining = taker.remaining - fill
    BY <1>3, TakerAfterFill
  <2>2. EventBalance(out') = -(fill + fill)
    BY <1>3, <2>1, BalanceOfFill DEF Fill
  <2>3. (fill = slots[i].remaining /\ Leaves(i)) \/ Shrinks(i, fill)
    BY <1>3, FillPreserves
  <2> HIDE DEF fill
  <2>4. QtyAtRest' = QtyAtRest - fill
    BY <1>0, <2>1, <2>3, QtyLeaves, QtyShrinks
  <2> QED
    BY <1>0, <2>1, <2>2, <2>4
<1>4. ASSUME DropTaker
      PROVE  QtyAtRest' + taker'.remaining = QtyAtRest + taker.remaining + EventBalance(out')
  <2>1. QtyAtRest' = QtyAtRest
    BY <1>0, <1>4, DropTakerPreserves, QtyStays
  <2>2. taker'.remaining = 0
    BY <1>4 DEF DropTaker, NoTaker
  <2>3. EventBalance(out') = -taker.remaining
    <3>1. CASE taker.remaining = 0
      BY <1>4, <3>1, NoBalance DEF DropTaker
    <3>2. CASE taker.remaining # 0
      <4>1. out' = <<MakeEvent(kCanceled, taker.side, kNone, taker.remaining, 0,
                               taker.price_ticks, taker.order_id)>>
        BY <1>4, <3>2 DEF DropTaker
      <4>2. taker.remaining \in Int
        BY <1>0
      <4> QED
        BY <4>1, <4>2, BalanceOfOne, KindsDiffer
    <3> QED
      BY <3>1, <3>2
  <2> QED
    BY <1>0, <2>1, <2>2, <2>3
<1>5. ASSUME RestTaker
      PROVE  QtyAtRest' + taker'.remaining = QtyAtRest + taker.remaining + EventBalance(out')
  <2>1. QtyAtRest' = QtyAtRest + taker.remaining
    BY <1>0, <1>5, RestTakerPreserves, QtyJoins
  <2>2. taker'.remaining = 0 /\ EventBalance(out') = 0
    BY <1>5, NoBalance DEF RestTaker, NoTaker
  <2> QED
    BY <1>0, <2>1, <2>2
<1>6. ASSUME NEW id \in CancelIds, CancelOpen(id)
      PROVE  QtyAtRest' + taker'.remaining = QtyAtRest + taker.remaining + EventBalance(out')
  <2> DEFINE i == index_of(id)
  <2>1. QtyAtRest' = QtyAtRest - slots[i].remaining
    BY <1>0, <1>6, CancelOpenPreserves, QtyLeaves
  <2>2. slots[i].remaining \in Nat /\ slots[i].remaining \in Int
    <3>1. i \in Index
      BY <1>6, CancelOpenPreserves, QtyAtRestType DEF Leaves
    <3> QED
      BY <3>1, QtyAtRestType
  <2>3. /\ taker' = taker
        /\ out' = <<MakeEvent(kCanceled, slots[i].side, kNone, slots[i].remaining, 0,
                              slots[i].price_ticks, id)>>
    BY <1>6 DEF CancelOpen
  <2>4. EventBalance(out') = -slots[i].remaining
    BY <2>2, <2>3, BalanceOfOne, KindsDiffer
  <2> QED
    BY <1>0, <2>1, <2>2, <2>3, <2>4
<1>7. ASSUME NEW id \in CancelIds, CancelUnknown(id)
      PROVE  QtyAtRest' + taker'.remaining = QtyAtRest + taker.remaining + EventBalance(out')
  <2>1. /\ UNCHANGED <<slots, free_head, live_count, ladder, taker>>
        /\ out' = <<MakeEvent(kRejected, kBuy, kUnknownOrder, 0, 0, 0, id)>>
    BY <1>7 DEF CancelUnknown
  <2>2. EventBalance(out') = 0
    BY <2>1, BalanceOfOne, KindsDiffer
  <2>3. QtyAtRest' = QtyAtRest
    BY <1>0, <2>1, StutterPreserves, QtyStays
  <2> QED
    BY <1>0, <2>1, <2>2, <2>3
<1> QED
  BY <1>1, <1>2, <1>3, <1>4, <1>5, <1>6, <1>7 DEF BookNext, Add, Sweep, Cancel

LEMMA OpenQtyIsAtRest == BookInv => OpenQty = QtyAtRest + taker.remaining
BY RestingIsWalked DEF OpenQty, QtyAtRest, OpenQuantities, Remaining

LEMMA OpenQtyIsAtRestNext == (BookInv => OpenQty = QtyAtRest + taker.remaining)'
BY OpenQtyIsAtRest, PTL

LEMMA EventQtyType ==
    ASSUME BookInv, BookNext
    PROVE  EventQty(out', kAccepted) \in Int /\ EventQty(out', kTraded) \in Int
           /\ EventQty(out', kCanceled) \in Int
<1> DEFINE Typed(events) == \A kind : EventQty(events, kind) \in Int
<1>1. Typed(<<>>)
  BY EventQtyOfNone
<1>2. ASSUME NEW kind, NEW side, NEW reason, NEW qty \in Int, NEW remaining, NEW price, NEW id
      PROVE  Typed(<<MakeEvent(kind, side, reason, qty, remaining, price, id)>>)
  <2> DEFINE e == MakeEvent(kind, side, reason, qty, remaining, price, id)
  <2>1. e.qty \in Int
    BY MakeEventFields
  <2> HIDE DEF e
  <2>2. \A t : EventQty(<<e>>, t) \in Int
    BY <2>1, EventQtyOfOne
  <2> QED
    BY <2>2 DEF e
<1>3. ASSUME NEW maker, NEW fill \in Int PROVE Typed(FillEvents(maker, fill))
  <2> DEFINE d == MakeEvent(kTraded, maker.side, kNone, fill, maker.remaining - fill,
                            maker.price_ticks, maker.order_id)
             e == MakeEvent(kTraded, taker.side, kNone, fill, taker.remaining - fill,
                            maker.price_ticks, taker.order_id)
  <2>1. FillEvents(maker, fill) = <<d, e>> /\ d.qty \in Int /\ e.qty \in Int
    BY MakeEventFields DEF FillEvents
  <2> HIDE DEF d, e
  <2>2. \A t : EventQty(<<d, e>>, t) \in Int
    BY <2>1, EventQtyOfTwo
  <2> QED
    BY <2>1, <2>2
<1> HIDE DEF Typed
<1>4. ASSUME NEW new \in NewOrders, AddInvalid(new) \/ AddToFullPool(new) \/ Accept(new)
      PROVE  Typed(out')
  <2>1. new.qty \in Int
    BY NewOrdersAssumption DEF NewOrder
  <2> QED
    BY <1>2, <1>4, <2>1 DEF AddInvalid, AddToFullPool, RejectAdd, Accept
<1>5. Fill => Typed(out')
  BY <1>3, TakerAfterFill DEF Fill
<1>6. ASSUME DropTaker PROVE Typed(out')
  <2>1. taker.remaining \in Int
    BY TakerFacts DEF BookInv
  <2> QED
    BY <1>1, <1>2, <1>6, <2>1 DEF DropTaker
<1>7. RestTaker => Typed(out')
  BY <1>1 DEF RestTaker
<1>8. ASSUME NEW id \in CancelIds, CancelOpen(id) PROVE Typed(out')
  <2>1. slots[index_of(id)].remaining \in Int
    BY <1>8, CancelOpenPreserves, QtyAtRestType DEF Leaves
  <2> QED
    BY <1>2, <1>8, <2>1 DEF CancelOpen
<1>9. ASSUME NEW id \in CancelIds, CancelUnknown(id) PROVE Typed(out')
  BY <1>2, <1>9 DEF CancelUnknown
<1>10. Typed(out')
  BY <1>4, <1>5, <1>6, <1>7, <1>8, <1>9 DEF BookNext, Add, Sweep, Cancel
<1> QED
  BY <1>10 DEF Typed

(* The events are the book's ledger: the quantity open, at rest and in      *)
(* flight, grows by what a step's events accept and shrinks by what they    *)
(* trade, on each of the two sides, or cancel.                              *)
THEOREM BookEventsBalance == BookSpec => EventsAccountForQuantity
<1>1. BookInit => BookInv
  BY InitEstablishes
<1>2. BookInv /\ [BookNext]_bookVars => BookInv'
  BY BookStepPreserves
<1>3. BookInv /\ [BookNext]_bookVars =>
        [OpenQty' = OpenQty + EventQty(out', kAccepted)
                    - EventQty(out', kTraded) - EventQty(out', kCanceled)]_bookVars
  <2> SUFFICES ASSUME BookInv, BookNext
               PROVE  OpenQty' = OpenQty + EventQty(out', kAccepted)
                                 - EventQty(out', kTraded) - EventQty(out', kCanceled)
    OBVIOUS
  <2>1. BookInv'
    BY BookStepPreserves
  <2>2. OpenQty = QtyAtRest + taker.remaining /\ OpenQty' = QtyAtRest' + taker'.remaining
    BY <2>1, OpenQtyIsAtRest, OpenQtyIsAtRestNext
  <2>3. QtyAtRest' + taker'.remaining = QtyAtRest + taker.remaining
          + (EventQty(out', kAccepted) - EventQty(out', kTraded) - EventQty(out', kCanceled))
    BY StepBalances DEF EventBalance
  <2>4. QtyAtRest \in Int /\ taker.remaining \in Int
    BY QtyAtRestType, TakerFacts DEF BookInv
  <2> QED
    BY <2>2, <2>3, <2>4, EventQtyType
<1> QED
  BY <1>1, <1>2, <1>3, PTL DEF BookSpec, EventsAccountForQuantity

-----------------------------------------------------------------------------
(* Event::remaining.  An id names the slot it is in, for orders at rest and *)
(* for the one in flight alike.                                             *)
LEMMA LiveIdNamesSlot ==
    ASSUME BookInv
    PROVE  \A i \in LiveSlots : /\ index_of(slots[i].order_id) = i /\ i \in Index
                                /\ slots[i].order_id # kInvalidOrderId
BY DEF BookInv, PoolInv, LiveIdsNameTheirSlot, make_order_id, index_of, LiveSlots, Live

(* The quantity an id stands for, by what became of its slot.               *)
LEMMA OpenQtyInFlight ==
    ASSUME NEW id, id = taker'.order_id
    PROVE  OpenQtyOf(id)' = taker'.remaining
BY DEF OpenQtyOf

LEMMA OpenQtyGone ==
    ASSUME NEW id, id # taker'.order_id, id # kInvalidOrderId,
           index_of(id) \in Index => slots'[index_of(id)].order_id # id
    PROVE  OpenQtyOf(id)' = 0
BY DEF OpenQtyOf, Found

LEMMA OpenQtyAtRest ==
    ASSUME NEW id, id # taker'.order_id, id # kInvalidOrderId,
           index_of(id) \in Index, slots'[index_of(id)].order_id = id
    PROVE  OpenQtyOf(id)' = slots'[index_of(id)].remaining
BY DEF OpenQtyOf, Found

LEMMA FillReports ==
    ASSUME BookInv, Fill, NEW id, id # kInvalidOrderId,
           NEW k \in 1 .. Len(out'), out'[k].order_id = id
    PROVE  OpenQtyOf(id)' = out'[k].remaining
<1> DEFINE i    == BestLevelHead
           fill == SmallerOf(taker.remaining, slots[i].remaining)
<1>1. /\ i \in Resting /\ i \in Index /\ slots[i].remaining \in Nat
  <2>1. MatchContinues
    BY DEF Fill
  <2> QED
    BY <2>1, HeadRests
<1>2. /\ fill \in Nat /\ ~Idle /\ taker'.order_id = taker.order_id
      /\ taker'.remaining = taker.remaining - fill
  BY TakerAfterFill
<1>3. out' = FillEvents(slots[i], fill)
  BY DEF Fill
<1>4. (fill = slots[i].remaining /\ Leaves(i)) \/ Shrinks(i, fill)
  BY FillPreserves
<1> HIDE DEF fill, i
<1>5. /\ out'[1].order_id = slots[i].order_id /\ out'[1].remaining = slots[i].remaining - fill
      /\ out'[2].order_id = taker.order_id /\ out'[2].remaining = taker.remaining - fill
      /\ Len(out') = 2
  BY <1>3 DEF FillEvents, MakeEvent
<1>6. /\ index_of(slots[i].order_id) = i /\ slots[i].order_id # kInvalidOrderId
      /\ index_of(taker.order_id) \notin Resting
  <2>1. i \in LiveSlots
    BY <1>1 DEF Resting
  <2>2. index_of(taker.order_id) \in InFlight
    BY <1>2 DEF InFlight
  <2> QED
    BY <2>1, <2>2, LiveIdNamesSlot DEF Resting
<1>7. CASE k = 2
  <2>1. id = taker'.order_id
    BY <1>2, <1>5, <1>7
  <2>2. OpenQtyOf(id)' = taker'.remaining
    BY <2>1, OpenQtyInFlight
  <2> QED
    BY <1>2, <1>5, <1>7, <2>2
<1>8. CASE k = 1
  <2>1. id = slots[i].order_id /\ index_of(id) = i /\ id # taker'.order_id
    BY <1>1, <1>2, <1>5, <1>6, <1>8
  <2>2. CASE fill = slots[i].remaining /\ Leaves(i)
    <3>1. slots'[i].order_id # id
      BY <2>2 DEF Leaves
    <3>2. OpenQtyOf(id)' = 0
      BY <2>1, <3>1, OpenQtyGone
    <3>3. slots[i].remaining - fill = 0
      BY <1>1, <2>2
    <3> QED
      BY <1>5, <1>8, <3>2, <3>3
  <2>3. CASE Shrinks(i, fill)
    <3>1. slots[i] \in Order
      BY <1>1, BookInvFacts
    <3>2. slots'[i].order_id = id /\ slots'[i].remaining = slots[i].remaining - fill
      BY <2>1, <2>3, <3>1 DEF Shrinks, Order
    <3>3. OpenQtyOf(id)' = slots'[index_of(id)].remaining
      BY <1>1, <2>1, <3>2, OpenQtyAtRest
    <3> QED
      BY <1>5, <1>8, <2>1, <3>2, <3>3
  <2> QED
    BY <1>4, <2>2, <2>3
<1> QED
  BY <1>5, <1>7, <1>8

LEMMA StepReports ==
    ASSUME BookInv, BookNext, NEW id, id # kInvalidOrderId,
           NEW k \in 1 .. Len(out'), out'[k].order_id = id
    PROVE  OpenQtyOf(id)' = out'[k].remaining
<1>1. ASSUME NEW new \in NewOrders, AddInvalid(new) \/ AddToFullPool(new) PROVE FALSE
  <2>1. PICK reason : RejectAdd(new, reason)
    BY <1>1 DEF AddInvalid, AddToFullPool
  <2> QED
    BY <2>1 DEF RejectAdd, MakeEvent
<1>2. ASSUME NEW new \in NewOrders, Accept(new) PROVE OpenQtyOf(id)' = out'[k].remaining
  <2>1. /\ id = taker'.order_id /\ out'[k].remaining = taker'.remaining
    BY <1>2 DEF Accept, MakeEvent
  <2> QED
    BY <2>1, OpenQtyInFlight
<1>3. Fill => OpenQtyOf(id)' = out'[k].remaining
  BY FillReports
<1>4. ASSUME DropTaker PROVE OpenQtyOf(id)' = out'[k].remaining
  <2>1. id = taker.order_id /\ out'[k].remaining = 0
    BY <1>4 DEF DropTaker, MakeEvent
  <2>2. /\ taker'.order_id = kInvalidOrderId
        /\ slots'[index_of(id)].order_id = kInvalidOrderId
    BY <1>4, <2>1, DropTakerPreserves, NoTakerFacts DEF DropTaker
  <2> QED
    BY <2>1, <2>2, OpenQtyGone
<1>5. RestTaker => FALSE
  BY DEF RestTaker
<1>6. ASSUME NEW other \in CancelIds, CancelOpen(other)
      PROVE  OpenQtyOf(id)' = out'[k].remaining
  <2>1. other = id /\ out'[k].remaining = 0
    BY <1>6 DEF CancelOpen, MakeEvent
  <2>2. taker'.order_id = kInvalidOrderId
    BY <1>6, NoTakerFacts DEF CancelOpen, Idle
  <2>3. slots'[index_of(id)].order_id = kInvalidOrderId
    BY <1>6, <2>1, CancelOpenPreserves DEF Leaves
  <2> QED
    BY <2>1, <2>2, <2>3, OpenQtyGone
<1>7. ASSUME NEW other \in CancelIds, CancelUnknown(other)
      PROVE  OpenQtyOf(id)' = out'[k].remaining
  <2>1. other = id /\ out'[k].remaining = 0
    BY <1>7 DEF CancelUnknown, MakeEvent
  <2>2. taker'.order_id = kInvalidOrderId
    BY <1>7, NoTakerFacts DEF CancelUnknown, Idle
  <2>3. index_of(id) \in Index => slots'[index_of(id)].order_id # id
    BY <1>7, <2>1 DEF CancelUnknown, Found
  <2> QED
    BY <2>1, <2>2, <2>3, OpenQtyGone
<1> QED
  BY <1>1, <1>2, <1>3, <1>4, <1>5, <1>6, <1>7 DEF BookNext, Add, Sweep, Cancel

(* Event::remaining is the open quantity of the order after the event: the  *)
(* id of every event a step emits stands for just that in the book the step *)
(* leaves, a filled, dropped or canceled order being gone.                  *)
THEOREM BookEventsReportOpenQty == BookSpec => EventsReportOpenQty
<1> DEFINE Report ==
        \A id \in CancelIds \ {kInvalidOrderId}, k \in 1 .. Len(out') :
            out'[k].order_id = id => OpenQtyOf(id)' = out'[k].remaining
<1>1. BookInit => BookInv
  BY InitEstablishes
<1>2. BookInv /\ [BookNext]_bookVars => BookInv'
  BY BookStepPreserves
<1>3. BookInv /\ [BookNext]_bookVars => [Report]_bookVars
  BY StepReports
<1> QED
  BY <1>1, <1>2, <1>3, PTL DEF BookSpec, EventsReportOpenQty

-----------------------------------------------------------------------------
(* The engine.  Its commands are the book's steps with their events counted.*)
LEMMA EngineStepIsBookStep == EngineNext => [BookNext]_bookVars
BY DEF EngineNext, Submit, ContinueSubmit, CancelRequest, ResetStats, BookNext, Add, Cancel

(* The engine's callers see what the book's do.                             *)
THEOREM EngineEventsReportOpenQty == EngineSpec => EventsReportOpenQty
<1> DEFINE Report ==
        \A id \in CancelIds \ {kInvalidOrderId}, k \in 1 .. Len(out') :
            out'[k].order_id = id => OpenQtyOf(id)' = out'[k].remaining
<1>1. EngineInit => BookInv
  BY InitEstablishes DEF EngineInit
<1>2. [EngineNext]_engineVars => [BookNext]_bookVars
  BY EngineStepIsBookStep DEF engineVars
<1>3. BookInv /\ [BookNext]_bookVars => BookInv'
  BY BookStepPreserves
<1>4. BookInv /\ [BookNext]_bookVars => [Report]_bookVars
  BY StepReports
<1> QED
  BY <1>1, <1>2, <1>3, <1>4, PTL DEF EngineSpec, EventsReportOpenQty

(* The counts of the events of a step.                                      *)
LEMMA NoneCounted ==
    /\ \A kind : Counting(<<>>, kind) = 0
    /\ \A reasons : Rejects(<<>>, reasons) = 0
    /\ LastFills(<<>>) = 0 /\ Len(<<>>) = 0
<1>1. DOMAIN <<>> = {} /\ Cardinality({}) = 0
  BY FS_EmptySet
<1> QED
  BY <1>1 DEF Counting, Rejects, LastFills

LEMMA OneCounted ==
    ASSUME NEW e
    PROVE  /\ \A kind : Counting(<<e>>, kind) = IF e.kind = kind THEN 1 ELSE 0
           /\ \A reasons : Rejects(<<e>>, reasons)
                             = IF e.kind = kRejected /\ e.reason \in reasons THEN 1 ELSE 0
           /\ LastFills(<<e>>) = IF e.kind = kTraded /\ e.remaining = 0 THEN 1 ELSE 0
           /\ Len(<<e>>) = 1
<1>1. DOMAIN <<e>> = {1} /\ <<e>>[1] = e
  OBVIOUS
<1>2. Cardinality({}) = 0 /\ Cardinality({1}) = 1
  BY FS_EmptySet, FS_Singleton
<1>3. ASSUME NEW kind PROVE Counting(<<e>>, kind) = IF e.kind = kind THEN 1 ELSE 0
  <2>1. {k \in DOMAIN <<e>> : <<e>>[k].kind = kind} = IF e.kind = kind THEN {1} ELSE {}
    BY <1>1
  <2> QED
    BY <1>2, <2>1 DEF Counting
<1>4. ASSUME NEW reasons
      PROVE  Rejects(<<e>>, reasons) = IF e.kind = kRejected /\ e.reason \in reasons THEN 1 ELSE 0
  <2>1. {k \in DOMAIN <<e>> : <<e>>[k].kind = kRejected /\ <<e>>[k].reason \in reasons}
          = IF e.kind = kRejected /\ e.reason \in reasons THEN {1} ELSE {}
    BY <1>1
  <2> QED
    BY <1>2, <2>1 DEF Rejects
<1>5. LastFills(<<e>>) = IF e.kind = kTraded /\ e.remaining = 0 THEN 1 ELSE 0
  <2>1. {k \in DOMAIN <<e>> : <<e>>[k].kind = kTraded /\ <<e>>[k].remaining = 0}
          = IF e.kind = kTraded /\ e.remaining = 0 THEN {1} ELSE {}
    BY <1>1
  <2> QED
    BY <1>2, <2>1 DEF LastFills
<1> QED
  BY <1>3, <1>4, <1>5

(* The two events of a fill.                                                *)
LEMMA TwoCounted ==
    ASSUME NEW d, NEW e, d.kind = kTraded, e.kind = kTraded
    PROVE  /\ \A kind : Counting(<<d, e>>, kind) = IF kind = kTraded THEN 2 ELSE 0
           /\ \A reasons : Rejects(<<d, e>>, reasons) = 0
           /\ LastFills(<<d, e>>) = (IF d.remaining = 0 THEN 1 ELSE 0)
                                    + (IF e.remaining = 0 THEN 1 ELSE 0)
           /\ Len(<<d, e>>) = 2
<1>1. DOMAIN <<d, e>> = {1, 2} /\ <<d, e>>[1] = d /\ <<d, e>>[2] = e
  OBVIOUS
<1>2. /\ Cardinality({}) = 0 /\ Cardinality({1}) = 1 /\ Cardinality({2}) = 1
      /\ Cardinality({1, 2}) = 2
  <2>1. /\ Cardinality({}) = 0 /\ Cardinality({1}) = 1 /\ Cardinality({2}) = 1
        /\ IsFiniteSet({1})
    BY FS_EmptySet, FS_Singleton
  <2>2. 2 \notin {1} /\ {1} \union {2} = {1, 2}
    OBVIOUS
  <2>3. Cardinality({1} \union {2}) = Cardinality({1}) + 1
    BY <2>1, <2>2, FS_AddElement
  <2>4. Cardinality({1, 2}) = 1 + 1
    BY <2>1, <2>2, <2>3, Zenon
  <2>5. 1 + 1 = 2
    OBVIOUS
  <2> QED
    BY <2>1, <2>4, <2>5, Zenon
<1>3. ASSUME NEW kind PROVE Counting(<<d, e>>, kind) = IF kind = kTraded THEN 2 ELSE 0
  <2>1. {k \in DOMAIN <<d, e>> : <<d, e>>[k].kind = kind}
          = IF kind = kTraded THEN {1, 2} ELSE {}
    BY <1>1
  <2> QED
    BY <1>2, <2>1 DEF Counting
<1>4. ASSUME NEW reasons PROVE Rejects(<<d, e>>, reasons) = 0
  <2>1. {k \in DOMAIN <<d, e>> : <<d, e>>[k].kind = kRejected /\ <<d, e>>[k].reason \in reasons} = {}
    BY <1>1, KindsDiffer
  <2> QED
    BY <1>2, <2>1 DEF Rejects
<1>5. LastFills(<<d, e>>) = (IF d.remaining = 0 THEN 1 ELSE 0)
                            + (IF e.remaining = 0 THEN 1 ELSE 0)
  <2>1. {k \in DOMAIN <<d, e>> : <<d, e>>[k].kind = kTraded /\ <<d, e>>[k].remaining = 0}
          = IF d.remaining = 0 THEN IF e.remaining = 0 THEN {1, 2} ELSE {1}
                               ELSE IF e.remaining = 0 THEN {2} ELSE {}
    BY <1>1
  <2>2. LastFills(<<d, e>>) = IF d.remaining = 0 THEN IF e.remaining = 0 THEN 2 ELSE 1
                                                 ELSE IF e.remaining = 0 THEN 1 ELSE 0
    <3> DEFINE full == {k \in DOMAIN <<d, e>> : <<d, e>>[k].kind = kTraded /\ <<d, e>>[k].remaining = 0}
    <3>1. LastFills(<<d, e>>) = Cardinality(full)
      BY DEF LastFills
    <3> HIDE DEF full
    <3>2. full = IF d.remaining = 0 THEN IF e.remaining = 0 THEN {1, 2} ELSE {1}
                                    ELSE IF e.remaining = 0 THEN {2} ELSE {}
      BY <2>1 DEF full
    <3> QED
      BY <1>2, <3>1, <3>2
  <2> QED
    BY <2>2
<1>6. Len(<<d, e>>) = 2
  OBVIOUS
<1> QED
  BY <1>3, <1>4, <1>5, <1>6

StatsType ==
    [news : Int, cancel_requests : Int, events : Int, accepted : Int, rejected : Int,
     rejected_unknown_order : Int, rejected_invalid : Int, rejected_pool_exhausted : Int,
     traded_events : Int, traded_qty_both_sides : Int, canceled : Int]

(* The order in flight has been counted as filled and still holds its slot. *)
Done == IF ~Idle /\ taker.remaining = 0 THEN 1 ELSE 0

EngineInv ==
    /\ BookInv
    /\ stats \in StatsType /\ base \in Int /\ filled \in Int
    /\ CountersAgree
    /\ live_count = base + stats.accepted - stats.canceled - filled + Done

(* A step of the book with `news' new commands: its events are classified   *)
(* once each, and explain the change of the live count.                     *)
Tallies(news) ==
    LET accepted == Counting(out', kAccepted)
        rejected == Counting(out', kRejected)
        traded   == Counting(out', kTraded)
        canceled == Counting(out', kCanceled)
        unknown  == Rejects(out', {kUnknownOrder})
        invalid  == Rejects(out', {kInvalidQty, kInvalidPrice})
        full     == Rejects(out', {kPoolExhausted})
    IN  /\ accepted \in Int /\ rejected \in Int /\ traded \in Int /\ canceled \in Int
        /\ unknown \in Int /\ invalid \in Int /\ full \in Int
        /\ EventQty(out', kTraded) \in Int /\ LastFills(out') \in Int
        /\ Len(out') = accepted + rejected + traded + canceled
        /\ news = accepted + invalid + full
        /\ rejected = invalid + full + unknown
        /\ live_count' = live_count + accepted - canceled - LastFills(out') + Done' - Done

LEMMA ReasonsDiffer ==
    /\ kNone \notin {kInvalidQty, kInvalidPrice, kPoolExhausted, kUnknownOrder}
    /\ kInvalidQty # kInvalidPrice /\ kInvalidQty # kPoolExhausted /\ kInvalidQty # kUnknownOrder
    /\ kInvalidPrice # kPoolExhausted /\ kInvalidPrice # kUnknownOrder
    /\ kPoolExhausted # kUnknownOrder
BY DEF kNone, kInvalidQty, kInvalidPrice, kPoolExhausted, kUnknownOrder

(* One event of the given kind and reason.                                  *)
LEMMA OneTallied ==
    ASSUME NEW kind \in {kAccepted, kRejected, kCanceled}, NEW side,
           NEW reason, NEW qty \in Int, NEW remaining, NEW price, NEW id,
           out' = <<MakeEvent(kind, side, reason, qty, remaining, price, id)>>
    PROVE  /\ \A k \in {kAccepted, kRejected, kTraded, kCanceled} :
                 Counting(out', k) = IF k = kind THEN 1 ELSE 0
           /\ \A reasons : Rejects(out', reasons)
                             = IF kind = kRejected /\ reason \in reasons THEN 1 ELSE 0
           /\ LastFills(out') = 0 /\ Len(out') = 1
           /\ EventQty(out', kTraded) \in Int
<1> DEFINE e == MakeEvent(kind, side, reason, qty, remaining, price, id)
<1>1. e.kind = kind /\ e.reason = reason /\ e.qty = qty /\ e.qty \in Int
  BY MakeEventFields
<1>2. out' = <<e>>
  OBVIOUS
<1> HIDE DEF e
<1>3. EventQty(out', kTraded) \in Int
  BY <1>1, <1>2, EventQtyOfOne
<1>4. kind # kTraded
  BY KindsDiffer
<1> QED
  BY <1>1, <1>2, <1>3, <1>4, OneCounted

LEMMA LiveCountType == BookInv => live_count \in Int
BY DEF BookInv, PoolInv, PoolTypeOK

LEMMA AddTallies ==
    ASSUME BookInv, NEW new \in NewOrder, AddInvalid(new) \/ AddToFullPool(new) \/ Accept(new)
    PROVE  Tallies(1)
<1>0. live_count \in Int /\ new.qty \in Int /\ Idle
  BY LiveCountType DEF NewOrder, AddInvalid, AddToFullPool, Accept
<1>1. ASSUME NEW reason \in {kInvalidQty, kInvalidPrice, kPoolExhausted}, RejectAdd(new, reason)
      PROVE  Tallies(1)
  <2>1. out' = <<MakeEvent(kRejected, new.side, reason, new.qty, 0, new.price_ticks,
                           kInvalidOrderId)>>
        /\ live_count' = live_count /\ taker' = taker
    BY <1>1 DEF RejectAdd
  <2>2. /\ \A k \in {kAccepted, kRejected, kTraded, kCanceled} :
              Counting(out', k) = IF k = kRejected THEN 1 ELSE 0
        /\ \A reasons : Rejects(out', reasons)
                          = IF kRejected = kRejected /\ reason \in reasons THEN 1 ELSE 0
        /\ LastFills(out') = 0 /\ Len(out') = 1
        /\ EventQty(out', kTraded) \in Int
    BY <1>0, <2>1, OneTallied
  <2>3. Done' = 0 /\ Done = 0
    BY <1>0, <2>1 DEF Done, Idle
  <2> QED
    BY <1>0, <1>1, <2>1, <2>2, <2>3, KindsDiffer, ReasonsDiffer DEF Tallies
<1>2. ASSUME Accept(new) PROVE Tallies(1)
  <2>1. /\ out' = <<MakeEvent(kAccepted, new.side, kNone, new.qty, new.qty, OrderPrice(new),
                              MintedId)>>
        /\ live_count' = live_count + 1 /\ taker'.remaining # 0
    BY <1>2 DEF Accept, Alloc, PopFreeList, ValidQty
  <2>2. /\ \A k \in {kAccepted, kRejected, kTraded, kCanceled} :
              Counting(out', k) = IF k = kAccepted THEN 1 ELSE 0
        /\ \A reasons : Rejects(out', reasons)
                          = IF kAccepted = kRejected /\ kNone \in reasons THEN 1 ELSE 0
        /\ LastFills(out') = 0 /\ Len(out') = 1
        /\ EventQty(out', kTraded) \in Int
    BY <1>0, <2>1, OneTallied
  <2>3. Done' = 0 /\ Done = 0
    BY <1>0, <2>1 DEF Done
  <2> QED
    BY <1>0, <2>1, <2>2, <2>3, KindsDiffer DEF Tallies
<1> QED
  BY <1>1, <1>2 DEF AddInvalid, AddToFullPool

LEMMA CancelTallies ==
    ASSUME BookInv, NEW id \in CancelIds, CancelOpen(id) \/ CancelUnknown(id)
    PROVE  Tallies(0)
<1>0. live_count \in Int /\ Idle /\ Idle' /\ Done = 0 /\ Done' = 0
  BY LiveCountType DEF CancelOpen, CancelUnknown, Idle, Done
<1>1. ASSUME CancelUnknown(id) PROVE Tallies(0)
  <2>1. out' = <<MakeEvent(kRejected, kBuy, kUnknownOrder, 0, 0, 0, id)>>
        /\ live_count' = live_count
    BY <1>1 DEF CancelUnknown
  <2>2. /\ \A k \in {kAccepted, kRejected, kTraded, kCanceled} :
              Counting(out', k) = IF k = kRejected THEN 1 ELSE 0
        /\ \A reasons : Rejects(out', reasons)
                          = IF kRejected = kRejected /\ kUnknownOrder \in reasons THEN 1 ELSE 0
        /\ LastFills(out') = 0 /\ Len(out') = 1
        /\ EventQty(out', kTraded) \in Int
    BY <2>1, OneTallied
  <2> QED
    BY <1>0, <2>1, <2>2, KindsDiffer, ReasonsDiffer DEF Tallies
<1>2. ASSUME CancelOpen(id) PROVE Tallies(0)
  <2> DEFINE i == index_of(id)
  <2>1. /\ out' = <<MakeEvent(kCanceled, slots[i].side, kNone, slots[i].remaining, 0,
                              slots[i].price_ticks, id)>>
        /\ live_count' = live_count - 1
    BY <1>2 DEF CancelOpen, FreeIn
  <2>2. slots[i].remaining \in Int
    <3>1. i \in Index
      BY <1>2 DEF CancelOpen, Found
    <3> QED
      BY <3>1, QtyAtRestType
  <2> HIDE DEF i
  <2>3. /\ \A k \in {kAccepted, kRejected, kTraded, kCanceled} :
              Counting(out', k) = IF k = kCanceled THEN 1 ELSE 0
        /\ \A reasons : Rejects(out', reasons)
                          = IF kCanceled = kRejected /\ kNone \in reasons THEN 1 ELSE 0
        /\ LastFills(out') = 0 /\ Len(out') = 1
        /\ EventQty(out', kTraded) \in Int
    BY <2>1, <2>2, OneTallied
  <2> QED
    BY <1>0, <2>1, <2>3, KindsDiffer DEF Tallies
<1> QED
  BY <1>1, <1>2

LEMMA SweepTallies ==
    ASSUME BookInv, Sweep
    PROVE  Tallies(0)
<1>0. live_count \in Int /\ taker.remaining \in Nat /\ taker.remaining \in Int
  BY LiveCountType, TakerFacts DEF BookInv
<1>1. ASSUME Fill PROVE Tallies(0)
  <2> DEFINE i == BestLevelHead
             fill == SmallerOf(taker.remaining, slots[i].remaining)
             d == MakeEvent(kTraded, slots[i].side, kNone, fill, slots[i].remaining - fill,
                            slots[i].price_ticks, slots[i].order_id)
             e == MakeEvent(kTraded, taker.side, kNone, fill, taker.remaining - fill,
                            slots[i].price_ticks, taker.order_id)
  <2>1. /\ fill \in Nat \ {0} /\ fill \in Int /\ ~Idle /\ ~Idle'
        /\ taker'.remaining = taker.remaining - fill
    BY <1>1, TakerAfterFill
  <2>2. slots[i].remaining \in Nat /\ taker.remaining > 0 /\ i \in Index
    <3>1. MatchContinues
      BY <1>1 DEF Fill
    <3> QED
      BY <3>1, HeadRests DEF MatchContinues
  <2>3. out' = <<d, e>>
    BY <1>1 DEF Fill, FillEvents
  <2>4. /\ d.kind = kTraded /\ e.kind = kTraded /\ d.qty \in Int /\ e.qty \in Int
        /\ d.remaining = slots[i].remaining - fill /\ e.remaining = taker.remaining - fill
    BY <2>1, MakeEventFields
  <2>5. live_count' = live_count - (IF slots[i].remaining - fill = 0 THEN 1 ELSE 0)
    <3>1. FillMaker(i) \/ DebitMaker(i, fill)
      BY <1>1 DEF Fill
    <3>2. CASE FillMaker(i)
      <4>1. fill = slots[i].remaining /\ live_count' = live_count - 1
        BY <1>0, <2>2, <3>2 DEF FillMaker, FreeIn, SmallerOf
      <4> QED
        BY <2>2, <4>1
    <3>3. CASE DebitMaker(i, fill)
      <4>1. live_count' = live_count /\ fill = taker.remaining
            /\ taker.remaining < slots[i].remaining
        BY <1>0, <2>2, <3>3 DEF DebitMaker, SmallerOf
      <4> QED
        BY <1>0, <2>2, <4>1
    <3> QED
      BY <3>1, <3>2, <3>3
  <2>6. Done = 0 /\ Done' = IF taker.remaining - fill = 0 THEN 1 ELSE 0
    BY <1>0, <2>1, <2>2 DEF Done
  <2> HIDE DEF d, e, fill, i
  <2>7. /\ \A kind : Counting(out', kind) = IF kind = kTraded THEN 2 ELSE 0
        /\ \A reasons : Rejects(out', reasons) = 0
        /\ LastFills(out') = (IF slots[i].remaining - fill = 0 THEN 1 ELSE 0)
                             + (IF taker.remaining - fill = 0 THEN 1 ELSE 0)
        /\ Len(out') = 2
    BY <2>3, <2>4, TwoCounted
  <2>8. EventQty(out', kTraded) \in Int
    BY <2>3, <2>4, EventQtyOfTwo
  <2> QED
    BY <1>0, <2>5, <2>6, <2>7, <2>8, KindsDiffer DEF Tallies
<1>2. ASSUME out' = <<>>, live_count' = live_count + Done' - Done PROVE Tallies(0)
  <2>1. /\ \A kind : Counting(out', kind) = 0
        /\ \A reasons : Rejects(out', reasons) = 0
        /\ LastFills(out') = 0 /\ Len(out') = 0 /\ EventQty(out', kTraded) = 0
    BY <1>2, NoneCounted, EventQtyOfNone
  <2>2. Done \in Int /\ Done' \in Int
    BY DEF Done
  <2>3. /\ \A k \in {kAccepted, kRejected, kTraded, kCanceled} : Counting(out', k) = 0
        /\ \A reasons \in {{kUnknownOrder}, {kInvalidQty, kInvalidPrice}, {kPoolExhausted}} :
              Rejects(out', reasons) = 0
        /\ LastFills(out') = 0 /\ Len(out') = 0 /\ EventQty(out', kTraded) = 0
    BY <2>1
  <2>4. live_count' = live_count + 0 - 0 - 0 + Done' - Done
    BY <1>0, <1>2, <2>2
  <2> HIDE <2>1
  <2> QED
    BY <2>3, <2>4 DEF Tallies
<1>3. ASSUME DropTaker PROVE Tallies(0)
  <2>1. live_count' = live_count - 1 /\ ~Idle /\ taker' = NoTaker
    BY <1>3 DEF DropTaker, FreeIn
  <2>2. Done' = 0 /\ Done = IF taker.remaining = 0 THEN 1 ELSE 0
    BY <2>1 DEF Done, Idle
  <2>3. CASE taker.remaining = 0
    <3>1. out' = <<>>
      BY <1>3, <2>3 DEF DropTaker
    <3> QED
      BY <1>0, <1>2, <2>1, <2>2, <2>3, <3>1
  <2>4. CASE taker.remaining # 0
    <3>1. out' = <<MakeEvent(kCanceled, taker.side, kNone, taker.remaining, 0,
                             taker.price_ticks, taker.order_id)>>
      BY <1>3, <2>4 DEF DropTaker
    <3>2. /\ \A k \in {kAccepted, kRejected, kTraded, kCanceled} :
                Counting(out', k) = IF k = kCanceled THEN 1 ELSE 0
          /\ \A reasons : Rejects(out', reasons)
                            = IF kCanceled = kRejected /\ kNone \in reasons THEN 1 ELSE 0
          /\ LastFills(out') = 0 /\ Len(out') = 1
          /\ EventQty(out', kTraded) \in Int
      BY <1>0, <3>1, OneTallied
    <3>3. Done = 0 /\ Done' = 0
      BY <2>2, <2>4
    <3> QED
      BY <1>0, <2>1, <3>2, <3>3, KindsDiffer DEF Tallies
  <2> QED
    BY <2>3, <2>4
<1>4. ASSUME RestTaker PROVE Tallies(0)
  <2>1. /\ out' = <<>> /\ live_count' = live_count /\ taker' = NoTaker
        /\ taker.remaining # 0
    BY <1>4 DEF RestTaker, Drops
  <2>2. Done = 0 /\ Done' = 0
    BY <2>1 DEF Done, Idle
  <2> QED
    BY <1>0, <1>2, <2>1, <2>2
<1> QED
  BY <1>1, <1>3, <1>4 DEF Sweep

(* The counters stay numbers.                                               *)
LEMMA StatsAreInts ==
    ASSUME NEW s \in StatsType
    PROVE  /\ s.news \in Int /\ s.cancel_requests \in Int /\ s.events \in Int
           /\ s.accepted \in Int /\ s.rejected \in Int /\ s.rejected_unknown_order \in Int
           /\ s.rejected_invalid \in Int /\ s.rejected_pool_exhausted \in Int
           /\ s.traded_events \in Int /\ s.traded_qty_both_sides \in Int /\ s.canceled \in Int
BY DEF StatsType

(* The counters once `news' commands have been counted, before their events.*)
Requested(s, news) ==
    /\ s \in StatsType /\ s.news = stats.news + news
    /\ s.events = stats.events /\ s.accepted = stats.accepted /\ s.rejected = stats.rejected
    /\ s.rejected_unknown_order = stats.rejected_unknown_order
    /\ s.rejected_invalid = stats.rejected_invalid
    /\ s.rejected_pool_exhausted = stats.rejected_pool_exhausted
    /\ s.traded_events = stats.traded_events /\ s.canceled = stats.canceled

LEMMA RequestsCounted ==
    ASSUME stats \in StatsType
    PROVE  /\ Requested(stats, 0)
           /\ Requested([stats EXCEPT !.news = @ + 1], 1)
           /\ Requested([stats EXCEPT !.cancel_requests = @ + 1], 0)
<1>1. Requested(stats, 0)
  BY StatsAreInts DEF Requested
<1>2. Requested([stats EXCEPT !.news = @ + 1], 1)
  <2> DEFINE s == [stats EXCEPT !.news = @ + 1]
  <2>1. s.news = stats.news + 1
    BY DEF StatsType
  <2>2. s \in StatsType
    BY DEF StatsType
  <2>3. s.events = stats.events /\ s.accepted = stats.accepted /\ s.rejected = stats.rejected
    BY DEF StatsType
  <2>4. /\ s.rejected_unknown_order = stats.rejected_unknown_order
        /\ s.rejected_invalid = stats.rejected_invalid
        /\ s.rejected_pool_exhausted = stats.rejected_pool_exhausted
    BY DEF StatsType
  <2>5. s.traded_events = stats.traded_events /\ s.canceled = stats.canceled
    BY DEF StatsType
  <2> HIDE DEF s
  <2>6. Requested(s, 1)
    BY <2>1, <2>2, <2>3, <2>4, <2>5 DEF Requested
  <2> QED
    BY <2>6 DEF s
<1>3. Requested([stats EXCEPT !.cancel_requests = @ + 1], 0)
  <2> DEFINE s == [stats EXCEPT !.cancel_requests = @ + 1]
  <2>1. s.news = stats.news + 0
    BY StatsAreInts DEF StatsType
  <2>2. s \in StatsType
    BY DEF StatsType
  <2>3. s.events = stats.events /\ s.accepted = stats.accepted /\ s.rejected = stats.rejected
    BY DEF StatsType
  <2>4. /\ s.rejected_unknown_order = stats.rejected_unknown_order
        /\ s.rejected_invalid = stats.rejected_invalid
        /\ s.rejected_pool_exhausted = stats.rejected_pool_exhausted
    BY DEF StatsType
  <2>5. s.traded_events = stats.traded_events /\ s.canceled = stats.canceled
    BY DEF StatsType
  <2> HIDE DEF s
  <2>6. Requested(s, 0)
    BY <2>1, <2>2, <2>3, <2>4, <2>5 DEF Requested
  <2> QED
    BY <2>6 DEF s
<1> QED
  BY <1>1, <1>2, <1>3

(* Counting what a step tallies keeps the identities.                       *)
LEMMA CountedKeeps ==
    ASSUME EngineInv, BookInv', NEW news \in Int, Tallies(news),
           NEW s, Requested(s, news), Counted(s)
    PROVE  EngineInv'
<1>0. /\ stats \in StatsType /\ base \in Int /\ filled \in Int /\ live_count \in Int
      /\ CountersAgree
      /\ live_count = base + stats.accepted - stats.canceled - filled + Done
  BY LiveCountType DEF EngineInv
<1>1. /\ s \in StatsType /\ s.news = stats.news + news
      /\ s.events = stats.events /\ s.accepted = stats.accepted /\ s.rejected = stats.rejected
      /\ s.rejected_unknown_order = stats.rejected_unknown_order
      /\ s.rejected_invalid = stats.rejected_invalid
      /\ s.rejected_pool_exhausted = stats.rejected_pool_exhausted
      /\ s.traded_events = stats.traded_events /\ s.canceled = stats.canceled
  BY DEF Requested
<1>2. stats' = OnEvents(s, out') /\ filled' = filled + LastFills(out') /\ base' = base
  BY DEF Counted
<1>t. /\ Counting(out', kAccepted) \in Int /\ Counting(out', kRejected) \in Int
      /\ Counting(out', kTraded) \in Int /\ Counting(out', kCanceled) \in Int
      /\ Rejects(out', {kUnknownOrder}) \in Int
      /\ Rejects(out', {kInvalidQty, kInvalidPrice}) \in Int
      /\ Rejects(out', {kPoolExhausted}) \in Int
      /\ Len(out') \in Int /\ EventQty(out', kTraded) \in Int
  BY DEF Tallies
<1>p1. PICK accepted \in Int : accepted = Counting(out', kAccepted)
  BY <1>t
<1>p2. PICK rejected \in Int : rejected = Counting(out', kRejected)
  BY <1>t
<1>p3. PICK traded \in Int : traded = Counting(out', kTraded)
  BY <1>t
<1>p4. PICK canceled \in Int : canceled = Counting(out', kCanceled)
  BY <1>t
<1>p5. PICK unknown \in Int : unknown = Rejects(out', {kUnknownOrder})
  BY <1>t
<1>p6. PICK invalid \in Int : invalid = Rejects(out', {kInvalidQty, kInvalidPrice})
  BY <1>t
<1>p7. PICK full \in Int : full = Rejects(out', {kPoolExhausted})
  BY <1>t
<1>p8. PICK L \in Int : L = Len(out')
  BY <1>t
<1>p9. PICK Q \in Int : Q = EventQty(out', kTraded)
  BY <1>t
<1>3. /\ LastFills(out') \in Int
      /\ L = accepted + rejected + traded + canceled
      /\ news = accepted + invalid + full
      /\ rejected = invalid + full + unknown
      /\ live_count' = live_count + accepted - canceled - LastFills(out') + Done' - Done
  BY <1>p1, <1>p2, <1>p3, <1>p4, <1>p5, <1>p6, <1>p7, <1>p8, <1>p9 DEF Tallies
<1>4. stats' = [s EXCEPT !.events                  = @ + L,
                         !.accepted                = @ + accepted,
                         !.rejected                = @ + rejected,
                         !.rejected_unknown_order  = @ + unknown,
                         !.rejected_invalid        = @ + invalid,
                         !.rejected_pool_exhausted = @ + full,
                         !.traded_events           = @ + traded,
                         !.traded_qty_both_sides   = @ + Q,
                         !.canceled                = @ + canceled]
  BY <1>2, <1>p1, <1>p2, <1>p3, <1>p4, <1>p5, <1>p6, <1>p7, <1>p8, <1>p9 DEF OnEvents
<1>6. /\ stats' \in StatsType /\ stats'.news = s.news
      /\ stats'.events = s.events + L /\ stats'.accepted = s.accepted + accepted
      /\ stats'.rejected = s.rejected + rejected
      /\ stats'.rejected_unknown_order = s.rejected_unknown_order + unknown
      /\ stats'.rejected_invalid = s.rejected_invalid + invalid
      /\ stats'.rejected_pool_exhausted = s.rejected_pool_exhausted + full
      /\ stats'.traded_events = s.traded_events + traded
      /\ stats'.canceled = s.canceled + canceled
  <2>0. s \in StatsType
    BY <1>1
  <2>1. stats' \in StatsType
    <3>1. /\ s.events + L \in Int /\ s.accepted + accepted \in Int
          /\ s.rejected + rejected \in Int /\ s.rejected_unknown_order + unknown \in Int
          /\ s.rejected_invalid + invalid \in Int /\ s.rejected_pool_exhausted + full \in Int
          /\ s.traded_events + traded \in Int /\ s.traded_qty_both_sides + Q \in Int
          /\ s.canceled + canceled \in Int
      <4>1. /\ s.events \in Int /\ s.accepted \in Int /\ s.rejected \in Int
            /\ s.rejected_unknown_order \in Int /\ s.rejected_invalid \in Int
            /\ s.rejected_pool_exhausted \in Int /\ s.traded_events \in Int
            /\ s.traded_qty_both_sides \in Int /\ s.canceled \in Int
        BY <2>0, StatsAreInts
      <4> QED
        BY <4>1
    <3>e1. PICK e1 \in Int : e1 = s.events + L
      BY <3>1
    <3>e2. PICK e2 \in Int : e2 = s.accepted + accepted
      BY <3>1
    <3>e3. PICK e3 \in Int : e3 = s.rejected + rejected
      BY <3>1
    <3>e4. PICK e4 \in Int : e4 = s.rejected_unknown_order + unknown
      BY <3>1
    <3>e5. PICK e5 \in Int : e5 = s.rejected_invalid + invalid
      BY <3>1
    <3>e6. PICK e6 \in Int : e6 = s.rejected_pool_exhausted + full
      BY <3>1
    <3>e7. PICK e7 \in Int : e7 = s.traded_events + traded
      BY <3>1
    <3>e8. PICK e8 \in Int : e8 = s.traded_qty_both_sides + Q
      BY <3>1
    <3>e9. PICK e9 \in Int : e9 = s.canceled + canceled
      BY <3>1
    <3>2. [s EXCEPT !.events = e1, !.accepted = e2, !.rejected = e3,
                    !.rejected_unknown_order = e4, !.rejected_invalid = e5,
                    !.rejected_pool_exhausted = e6, !.traded_events = e7,
                    !.traded_qty_both_sides = e8, !.canceled = e9] \in StatsType
      BY <2>0 DEF StatsType
    <3> QED
      BY <1>4, <3>2, <3>e1, <3>e2, <3>e3, <3>e4, <3>e5, <3>e6, <3>e7, <3>e8, <3>e9
  <2>2. stats'.news = s.news
    BY <1>4, <2>0 DEF StatsType
  <2>3. stats'.events = s.events + L
    BY <1>4, <2>0 DEF StatsType
  <2>4. stats'.accepted = s.accepted + accepted
    BY <1>4, <2>0 DEF StatsType
  <2>5. stats'.rejected = s.rejected + rejected
    BY <1>4, <2>0 DEF StatsType
  <2>6. stats'.rejected_unknown_order = s.rejected_unknown_order + unknown
    BY <1>4, <2>0 DEF StatsType
  <2>7. stats'.rejected_invalid = s.rejected_invalid + invalid
    BY <1>4, <2>0 DEF StatsType
  <2>8. stats'.rejected_pool_exhausted = s.rejected_pool_exhausted + full
    BY <1>4, <2>0 DEF StatsType
  <2>9. stats'.traded_events = s.traded_events + traded
    BY <1>4, <2>0 DEF StatsType
  <2>10. stats'.canceled = s.canceled + canceled
    BY <1>4, <2>0 DEF StatsType
  <2> QED
    BY <2>1, <2>2, <2>3, <2>4, <2>5, <2>6, <2>7, <2>8, <2>9, <2>10
<1>7. /\ stats.news \in Int /\ stats.events \in Int /\ stats.accepted \in Int
      /\ stats.rejected \in Int /\ stats.rejected_unknown_order \in Int
      /\ stats.rejected_invalid \in Int /\ stats.rejected_pool_exhausted \in Int
      /\ stats.traded_events \in Int /\ stats.canceled \in Int
  BY <1>0 DEF StatsType
<1>8. CountersAgree'
  BY <1>0, <1>1, <1>3, <1>6, <1>7 DEF CountersAgree
<1>9. Done \in Int /\ Done' \in Int
  BY DEF Done
<1>10. live_count' = base' + stats'.accepted - stats'.canceled - filled' + Done'
  BY <1>0, <1>1, <1>2, <1>3, <1>6, <1>7, <1>9
<1>11. base' \in Int /\ filled' \in Int
  BY <1>0, <1>2, <1>3
<1> QED
  BY <1>6, <1>8, <1>10, <1>11 DEF EngineInv

LEMMA EngineStepPreserves == EngineInv /\ [EngineNext]_engineVars => EngineInv'
<1> SUFFICES ASSUME EngineInv, [EngineNext]_engineVars PROVE EngineInv'
  OBVIOUS
<1>0. BookInv /\ BookInv' /\ stats \in StatsType
  <2>1. [BookNext]_bookVars
    BY EngineStepIsBookStep DEF engineVars
  <2> QED
    BY <2>1, BookStepPreserves DEF EngineInv
<1>1. ASSUME NEW new \in NewOrders, Submit(new) PROVE EngineInv'
  <2>1. Requested([stats EXCEPT !.news = @ + 1], 1)
    BY <1>0, RequestsCounted
  <2>2. Tallies(1) /\ Counted([stats EXCEPT !.news = @ + 1])
    BY <1>0, <1>1, NewOrdersAssumption, AddTallies DEF Submit
  <2> QED
    BY <1>0, <2>1, <2>2, CountedKeeps
<1>2. ASSUME ContinueSubmit PROVE EngineInv'
  <2>1. Requested(stats, 0)
    BY <1>0, RequestsCounted
  <2>2. Tallies(0) /\ Counted(stats)
    BY <1>0, <1>2, SweepTallies DEF ContinueSubmit
  <2> QED
    BY <1>0, <2>1, <2>2, CountedKeeps
<1>3. ASSUME NEW id \in CancelIds, CancelRequest(id) PROVE EngineInv'
  <2>1. Requested([stats EXCEPT !.cancel_requests = @ + 1], 0)
    BY <1>0, RequestsCounted
  <2>2. Tallies(0) /\ Counted([stats EXCEPT !.cancel_requests = @ + 1])
    BY <1>0, <1>3, CancelTallies DEF CancelRequest
  <2> QED
    BY <1>0, <2>1, <2>2, CountedKeeps
<1>4. ASSUME ResetStats PROVE EngineInv'
  <2>1. /\ stats' = ZeroStats /\ base' = live_count /\ filled' = 0
        /\ live_count' = live_count /\ live_count \in Int /\ taker' = taker /\ Idle
    BY <1>0, <1>4, LiveCountType DEF ResetStats, bookVars
  <2>2. Done' = 0
    BY <2>1 DEF Done, Idle
  <2> QED
    BY <1>0, <2>1, <2>2 DEF EngineInv, ZeroStats, StatsType, CountersAgree
<1>5. ASSUME UNCHANGED engineVars PROVE EngineInv'
  BY <1>0, <1>5 DEF EngineInv, engineVars, bookVars, CountersAgree, Done, Idle
<1> QED
  BY <1>1, <1>2, <1>3, <1>4, <1>5 DEF EngineNext

LEMMA EngineInitEstablishes == EngineInit => EngineInv
<1> SUFFICES ASSUME EngineInit PROVE EngineInv
  OBVIOUS
<1>1. BookInv /\ live_count = 0 /\ Idle
  BY InitEstablishes DEF EngineInit, BookInit, PoolInit, Idle
<1>2. stats = ZeroStats /\ base = 0 /\ filled = 0 /\ Done = 0
  BY <1>1 DEF EngineInit, Done
<1> QED
  BY <1>1, <1>2 DEF EngineInv, ZeroStats, StatsType, CountersAgree

(* The identities of stats.h hold at every event: each command is decided   *)
(* once, each reject has one reason and each event is counted once.         *)
THEOREM EngineCountersAgree == EngineSpec => []CountersAgree
<1>1. EngineInv => CountersAgree
  BY DEF EngineInv
<1> QED
  BY <1>1, EngineInitEstablishes, EngineStepPreserves, PTL DEF EngineSpec

(* Between commands the counters say how many orders are open, wherever the *)
(* warm-up's reset fell: those open then, plus the accepted, less those     *)
(* canceled or filled since.                                                *)
THEOREM EngineExplainsOpenOrders == EngineSpec => []OpenOrdersAreExplained
<1>1. EngineInv => OpenOrdersAreExplained
  <2> SUFFICES ASSUME EngineInv, Idle
               PROVE  live_count = base + stats.accepted - stats.canceled - filled
    BY DEF OpenOrdersAreExplained
  <2>1. Done = 0
    BY DEF Done
  <2>2. /\ base \in Int /\ filled \in Int /\ stats.accepted \in Int /\ stats.canceled \in Int
        /\ live_count = base + stats.accepted - stats.canceled - filled + Done
    BY DEF EngineInv, StatsType
  <2> QED
    BY <2>1, <2>2
<1> QED
  BY <1>1, EngineInitEstablishes, EngineStepPreserves, PTL DEF EngineSpec
=============================================================================
