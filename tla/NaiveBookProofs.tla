-------------------------- MODULE NaiveBookProofs ---------------------------
(***************************************************************************)
(* The two views of the oracle's open orders stay in step: Agree relates   *)
(* any map of lists to any index, and each of the four edits the book      *)
(* makes, all of them to one list, keeps it.                               *)
(***************************************************************************)
EXTENDS NaiveBook, DataLemmas

USE NewOrdersAssumption

-----------------------------------------------------------------------------
Locator == [side : Sides, price : Int]

OpenOrder == [id : Ids, qty : Nat, remaining : Nat]

LocatorOf(side, price) == [side |-> side, price |-> price]

(* The orders of one list are indexed at its price, once each.              *)
ListAgrees(list, ix, side, price) ==
    /\ \A k \in 1 .. Len(list) :
          /\ list[k].id \in DOMAIN ix
          /\ ix[list[k].id] = LocatorOf(side, price)
          /\ list[k].remaining \in 1 .. list[k].qty
    /\ \A j, k \in 1 .. Len(list) : list[j].id = list[k].id => j = k

IsIn(id, list) == \E k \in 1 .. Len(list) : list[k].id = id

Agree(L, ix) ==
    /\ \A id \in DOMAIN ix :
          ix[id] \in Locator /\ IsIn(id, AtPrice(L, ix[id].side, ix[id].price))
    /\ \A side \in Sides : \A price \in Int :
          ListAgrees(AtPrice(L, side, price), ix, side, price)

LEMMA LocatorFacts ==
    /\ \A side \in Sides : \A price \in Int : LocatorOf(side, price) \in Locator
    /\ \A side, price : LocatorOf(side, price).side = side /\ LocatorOf(side, price).price = price
    /\ \A loc \in Locator : loc.side \in Sides /\ loc.price \in Int
                            /\ loc = LocatorOf(loc.side, loc.price)
BY DEF LocatorOf, Locator

(* A list is edited, and the index where it speaks of that list.            *)
LEMMA EditAgrees ==
    ASSUME NEW L, NEW ix, Agree(L, ix), NEW M, NEW jx,
           NEW side \in Sides, NEW price \in Int, NEW list,
           \A s \in Sides : \A p :
              AtPrice(M, s, p) = IF s = side /\ p = price THEN list ELSE AtPrice(L, s, p),
           ListAgrees(list, jx, side, price),
           \A id \in DOMAIN jx : \/ jx[id] = LocatorOf(side, price) /\ IsIn(id, list)
                                 \/ id \in DOMAIN ix /\ jx[id] = ix[id]
                                    /\ ix[id] # LocatorOf(side, price),
           \A id \in DOMAIN ix : ix[id] # LocatorOf(side, price)
                                 => id \in DOMAIN jx /\ jx[id] = ix[id]
    PROVE  Agree(M, jx)
<1>1. ASSUME NEW id \in DOMAIN jx
      PROVE  jx[id] \in Locator /\ IsIn(id, AtPrice(M, jx[id].side, jx[id].price))
  <2>1. CASE jx[id] = LocatorOf(side, price) /\ IsIn(id, list)
    BY <2>1, LocatorFacts
  <2>2. CASE id \in DOMAIN ix /\ jx[id] = ix[id] /\ ix[id] # LocatorOf(side, price)
    <3>1. ix[id] \in Locator /\ IsIn(id, AtPrice(L, ix[id].side, ix[id].price))
      BY <2>2 DEF Agree
    <3>2. /\ ix[id].side \in Sides
          /\ ~(ix[id].side = side /\ ix[id].price = price)
      BY <2>2, <3>1, LocatorFacts
    <3>3. AtPrice(M, ix[id].side, ix[id].price) = AtPrice(L, ix[id].side, ix[id].price)
      BY <3>2
    <3> QED
      BY <2>2, <3>1, <3>3
  <2> QED
    BY <2>1, <2>2
<1>2. ASSUME NEW s \in Sides, NEW p \in Int
      PROVE  ListAgrees(AtPrice(M, s, p), jx, s, p)
  <2>1. CASE s = side /\ p = price
    BY <2>1
  <2>2. CASE ~(s = side /\ p = price)
    <3>1. PICK old : old = AtPrice(L, s, p)
      OBVIOUS
    <3>2. ListAgrees(old, ix, s, p)
      BY <3>1 DEF Agree
    <3>3. LocatorOf(s, p) # LocatorOf(side, price)
      BY <2>2, LocatorFacts
    <3>4. ListAgrees(old, jx, s, p)
      BY <3>2, <3>3 DEF ListAgrees
    <3>5. AtPrice(M, s, p) = old
      BY <2>2, <3>1
    <3> QED
      BY <3>4, <3>5
  <2> QED
    BY <2>1, <2>2
<1> QED
  BY <1>1, <1>2 DEF Agree

(* One order leaves its list, and the index.                                *)
LEMMA LeavingAgrees ==
    ASSUME NEW L, NEW ix, Agree(L, ix), NEW M, NEW jx,
           NEW side \in Sides, NEW price \in Int,
           NEW old, old = AtPrice(L, side, price), old \in Seq(OpenOrder),
           NEW m \in 1 .. Len(old),
           \A s \in Sides : \A p :
              AtPrice(M, s, p) = IF s = side /\ p = price THEN Without(old, Len(old), m)
                                 ELSE AtPrice(L, s, p),
           jx = [id \in DOMAIN ix \ {old[m].id} |-> ix[id]]
    PROVE  Agree(M, jx)
<1>1. PICK n \in Nat : n = Len(old)
  BY LenProperties
<1>2. PICK list : list = Without(old, n, m)
  OBVIOUS
<1>3. Len(list) = n - 1
  BY <1>1, <1>2, RemovedIsWithout
<1>4. ListAgrees(old, ix, side, price)
  BY DEF Agree
<1>5. \A k \in 1 .. n - 1 : \E j \in 1 .. n : j # m /\ list[k] = old[j]
                                              /\ j = IF k < m THEN k ELSE k + 1
  <2> TAKE k \in 1 .. n - 1
  <2>1. list[k] = IF k < m THEN old[k] ELSE old[k + 1]
    BY <1>2 DEF Without
  <2>2. m \in 1 .. n
    BY <1>1
  <2>3. CASE k < m
    BY <2>1, <2>2, <2>3
  <2>4. CASE ~(k < m)
    <3>1. k + 1 \in 1 .. n /\ k + 1 # m
      BY <2>2, <2>4
    <3> QED
      BY <2>1, <2>4, <3>1
  <2> QED
    BY <2>3, <2>4
<1>6. \A j \in 1 .. n : j # m => \E k \in 1 .. n - 1 : list[k] = old[j]
  <2> TAKE j \in 1 .. n
  <2>1. \A k \in 1 .. n - 1 : list[k] = IF k < m THEN old[k] ELSE old[k + 1]
    BY <1>2 DEF Without
  <2>2. m \in 1 .. n
    BY <1>1
  <2>3. CASE j < m
    <3>1. j \in 1 .. n - 1
      BY <2>2, <2>3
    <3> QED
      BY <2>1, <2>3, <3>1
  <2>4. CASE j > m
    <3>1. j - 1 \in 1 .. n - 1 /\ ~(j - 1 < m) /\ (j - 1) + 1 = j
      BY <2>2, <2>4
    <3> QED
      BY <2>1, <3>1
  <2> QED
    BY <2>2, <2>3, <2>4
<1>7. \A j, k \in 1 .. n : old[j].id = old[k].id => j = k
  BY <1>1, <1>4 DEF ListAgrees
<1>8. \A k \in 1 .. n : /\ old[k].id \in DOMAIN ix /\ ix[old[k].id] = LocatorOf(side, price)
                        /\ old[k].remaining \in 1 .. old[k].qty
  BY <1>1, <1>4 DEF ListAgrees
<1>9. ListAgrees(list, jx, side, price)
  <2>1. ASSUME NEW k \in 1 .. n - 1
        PROVE  /\ list[k].id \in DOMAIN jx /\ jx[list[k].id] = LocatorOf(side, price)
               /\ list[k].remaining \in 1 .. list[k].qty
    <3>1. PICK j \in 1 .. n : j # m /\ list[k] = old[j]
      BY <1>5
    <3>2. old[j].id # old[m].id
      BY <1>1, <1>7, <3>1
    <3> QED
      BY <1>8, <3>1, <3>2
  <2>2. ASSUME NEW a \in 1 .. n - 1, NEW b \in 1 .. n - 1, list[a].id = list[b].id
        PROVE  a = b
    <3>1. PICK i \in 1 .. n : list[a] = old[i] /\ i = IF a < m THEN a ELSE a + 1
      BY <1>5
    <3>2. PICK j \in 1 .. n : list[b] = old[j] /\ j = IF b < m THEN b ELSE b + 1
      BY <1>5
    <3>3. i = j
      BY <1>7, <2>2, <3>1, <3>2
    <3>4. m \in 1 .. n
      BY <1>1
    <3> QED
      BY <3>1, <3>2, <3>3, <3>4
  <2> QED
    BY <1>3, <2>1, <2>2 DEF ListAgrees
<1>10. ASSUME NEW id \in DOMAIN jx
       PROVE  \/ jx[id] = LocatorOf(side, price) /\ IsIn(id, list)
              \/ id \in DOMAIN ix /\ jx[id] = ix[id] /\ ix[id] # LocatorOf(side, price)
  <2>1. id \in DOMAIN ix /\ id # old[m].id /\ jx[id] = ix[id]
    OBVIOUS
  <2>2. CASE ix[id] = LocatorOf(side, price)
    <3>1. IsIn(id, AtPrice(L, ix[id].side, ix[id].price))
      BY <2>1 DEF Agree
    <3>2. IsIn(id, old)
      BY <2>2, <3>1, LocatorFacts
    <3>3. PICK j \in 1 .. n : old[j].id = id
      BY <1>1, <3>2 DEF IsIn
    <3>4. PICK k \in 1 .. n - 1 : list[k] = old[j]
      BY <1>6, <2>1, <3>3
    <3>5. IsIn(id, list)
      BY <1>3, <3>3, <3>4 DEF IsIn
    <3> QED
      BY <2>1, <2>2, <3>5
  <2> QED
    BY <2>1, <2>2
<1>11. ASSUME NEW id \in DOMAIN ix, ix[id] # LocatorOf(side, price)
       PROVE  id \in DOMAIN jx /\ jx[id] = ix[id]
  BY <1>1, <1>8, <1>11
<1>12. \A s \in Sides : \A p :
          AtPrice(M, s, p) = IF s = side /\ p = price THEN list ELSE AtPrice(L, s, p)
  BY <1>1, <1>2
<1> QED
  BY ONLY Agree(L, ix), side \in Sides, price \in Int, <1>9, <1>10, <1>11, <1>12, EditAgrees

(* The first of a list is debited.                                          *)
LEMMA DebitAgrees ==
    ASSUME NEW L, NEW ix, Agree(L, ix), NEW M,
           NEW side \in Sides, NEW price \in Int,
           NEW old, old = AtPrice(L, side, price), old \in Seq(OpenOrder), old # <<>>,
           NEW x, x \in OpenOrder, x.id = old[1].id, x.remaining \in 1 .. x.qty,
           \A s \in Sides : \A p :
              AtPrice(M, s, p) = IF s = side /\ p = price THEN WithHead(old, Len(old), x)
                                 ELSE AtPrice(L, s, p)
    PROVE  Agree(M, ix)
<1>1. PICK n \in Nat : n = Len(old) /\ n # 0
  BY EmptySeq
<1>2. PICK list : list = WithHead(old, n, x)
  OBVIOUS
<1>3. Len(list) = n
  BY <1>1, <1>2, HeadReplaced
<1>4. \A k \in 1 .. n : list[k] = IF k = 1 THEN x ELSE old[k]
  BY <1>2 DEF WithHead
<1>5. \A k \in 1 .. n : list[k].id = old[k].id
  BY <1>4
<1>6. ListAgrees(old, ix, side, price)
  BY DEF Agree
<1>7. ListAgrees(list, ix, side, price)
  BY <1>1, <1>3, <1>4, <1>5, <1>6 DEF ListAgrees
<1>8. ASSUME NEW id \in DOMAIN ix
      PROVE  \/ ix[id] = LocatorOf(side, price) /\ IsIn(id, list)
             \/ id \in DOMAIN ix /\ ix[id] = ix[id] /\ ix[id] # LocatorOf(side, price)
  <2>1. CASE ix[id] = LocatorOf(side, price)
    <3>1. IsIn(id, AtPrice(L, ix[id].side, ix[id].price))
      BY DEF Agree
    <3>2. IsIn(id, old)
      BY <2>1, <3>1, LocatorFacts
    <3> QED
      BY <1>1, <1>3, <1>5, <2>1, <3>2 DEF IsIn
  <2> QED
    BY <2>1
<1>9. \A s \in Sides : \A p :
         AtPrice(M, s, p) = IF s = side /\ p = price THEN list ELSE AtPrice(L, s, p)
  BY <1>1, <1>2
<1>10. \A id \in DOMAIN ix : ix[id] # LocatorOf(side, price) => id \in DOMAIN ix /\ ix[id] = ix[id]
  OBVIOUS
<1> QED
  BY ONLY Agree(L, ix), side \in Sides, price \in Int, <1>7, <1>8, <1>9, <1>10, EditAgrees

(* A new order goes behind a list, and into the index.                      *)
LEMMA LinkingAgrees ==
    ASSUME NEW L, NEW ix, Agree(L, ix), NEW M, NEW jx,
           NEW side \in Sides, NEW price \in Int,
           NEW old, old = AtPrice(L, side, price), old \in Seq(OpenOrder),
           NEW x, x \in OpenOrder, x.id \notin DOMAIN ix, x.remaining \in 1 .. x.qty,
           \A s \in Sides : \A p :
              AtPrice(M, s, p) = IF s = side /\ p = price THEN Appended(old, Len(old), x)
                                 ELSE AtPrice(L, s, p),
           jx = [id \in DOMAIN ix \union {x.id} |->
                    IF id = x.id THEN LocatorOf(side, price) ELSE ix[id]]
    PROVE  Agree(M, jx)
<1>1. PICK n \in Nat : n = Len(old)
  BY LenProperties
<1>2. PICK list : list = Appended(old, n, x)
  OBVIOUS
<1>3. Len(list) = n + 1
  BY <1>1, <1>2, AppendIsAppended
<1>4. /\ \A k \in 1 .. n : list[k] = old[k] /\ k \in 1 .. n + 1
      /\ list[n + 1] = x /\ n + 1 \in 1 .. n + 1
      /\ \A k \in 1 .. n + 1 : k = n + 1 \/ k \in 1 .. n
  BY <1>2 DEF Appended
<1>5. ListAgrees(old, ix, side, price)
  BY DEF Agree
<1>6. \A k \in 1 .. n : /\ old[k].id \in DOMAIN ix /\ ix[old[k].id] = LocatorOf(side, price)
                        /\ old[k].remaining \in 1 .. old[k].qty
                        /\ old[k].id # x.id
  BY <1>1, <1>5 DEF ListAgrees
<1>7. \A j, k \in 1 .. n : old[j].id = old[k].id => j = k
  BY <1>1, <1>5 DEF ListAgrees
<1>8. ListAgrees(list, jx, side, price)
  <2>1. ASSUME NEW k \in 1 .. n + 1
        PROVE  /\ list[k].id \in DOMAIN jx /\ jx[list[k].id] = LocatorOf(side, price)
               /\ list[k].remaining \in 1 .. list[k].qty
    BY <1>4, <1>6
  <2>2. ASSUME NEW a \in 1 .. n + 1, NEW b \in 1 .. n + 1, list[a].id = list[b].id
        PROVE  a = b
    BY <1>4, <1>6, <1>7, <2>2
  <2> QED
    BY <1>3, <2>1, <2>2 DEF ListAgrees
<1>9. ASSUME NEW id \in DOMAIN jx
      PROVE  \/ jx[id] = LocatorOf(side, price) /\ IsIn(id, list)
             \/ id \in DOMAIN ix /\ jx[id] = ix[id] /\ ix[id] # LocatorOf(side, price)
  <2>1. CASE id = x.id
    BY <1>3, <1>4, <2>1 DEF IsIn
  <2>2. CASE id # x.id /\ ix[id] = LocatorOf(side, price)
    <3>0. id \in DOMAIN ix /\ jx[id] = ix[id]
      BY <2>2
    <3>1. IsIn(id, AtPrice(L, ix[id].side, ix[id].price))
      BY <3>0 DEF Agree
    <3>2. IsIn(id, old)
      BY <2>2, <3>1, LocatorFacts
    <3>3. IsIn(id, list)
      BY <1>1, <1>3, <1>4, <3>2 DEF IsIn
    <3> QED
      BY <2>2, <3>0, <3>3
  <2>3. CASE id # x.id /\ ix[id] # LocatorOf(side, price)
    BY <2>3
  <2> QED
    BY <2>1, <2>2, <2>3
<1>10. \A id \in DOMAIN ix : ix[id] # LocatorOf(side, price) => id \in DOMAIN jx /\ jx[id] = ix[id]
  OBVIOUS
<1>11. \A s \in Sides : \A p :
          AtPrice(M, s, p) = IF s = side /\ p = price THEN list ELSE AtPrice(L, s, p)
  BY <1>1, <1>2
<1> QED
  BY ONLY Agree(L, ix), side \in Sides, price \in Int, <1>8, <1>9, <1>10, <1>11, EditAgrees

-----------------------------------------------------------------------------
(* The inductive invariant.                                                 *)
TakerType == [order_id : Ids \union {kInvalidOrderId}, side : Sides, type : OrderTypes,
              price_ticks : Int, qty : Nat, remaining : Nat]

MapsAreFinite(L) == \A side \in Sides : IsFiniteSet(DOMAIN L[side])

NaiveInv ==
    /\ levels \in PriceMaps(Sides, OpenOrder)
    /\ MapsAreFinite(levels)
    /\ index = [id \in DOMAIN index |-> index[id]]
    /\ Agree(levels, index)
    /\ taker \in TakerType /\ taker.remaining <= taker.qty
    /\ ~Idle => taker.order_id \in FreshIds \ DOMAIN index

LEMMA NaiveTakerFacts ==
    ASSUME taker \in TakerType
    PROVE  /\ taker.side \in Sides /\ taker.type \in OrderTypes /\ taker.price_ticks \in Int
           /\ taker.qty \in Nat /\ taker.remaining \in Nat
           /\ Opposite(taker.side) \in Sides
BY DEF TakerType, Opposite, Sides

LEMMA ListFacts ==
    ASSUME NaiveInv, NEW side \in Sides, NEW price \in Int
    PROVE  /\ Level(side, price) = AtPrice(levels, side, price)
           /\ AtPrice(levels, side, price) \in Seq(OpenOrder)
           /\ price \in DOMAIN levels[side] =>
                /\ levels[side][price] = AtPrice(levels, side, price)
                /\ levels[side][price] # <<>>
<1>1. levels \in PriceMaps(Sides, OpenOrder)
  BY DEF NaiveInv
<1>2. /\ AtPrice(levels, side, price) \in Seq(OpenOrder)
      /\ price \in DOMAIN levels[side] <=> AtPrice(levels, side, price) # <<>>
  BY <1>1, PriceMapFacts
<1> QED
  BY <1>2 DEF Level, AtPrice

(* What the insertion or the erasure of one list does to the maps.          *)
LEMMA StoredLevelEffect ==
    ASSUME NaiveInv, NEW side \in Sides, NEW price \in Int, NEW list \in Seq(OpenOrder)
    PROVE  LET M == StoredLevel(side, price, list) IN
           /\ M \in PriceMaps(Sides, OpenOrder)
           /\ MapsAreFinite(M)
           /\ \A s \in Sides : \A p :
                 AtPrice(M, s, p) = IF s = side /\ p = price THEN list
                                    ELSE AtPrice(levels, s, p)
<1>1. levels \in PriceMaps(Sides, OpenOrder) /\ MapsAreFinite(levels)
  BY DEF NaiveInv
<1>2. PICK M : M = StoredAt(levels, side, price, list)
  OBVIOUS
<1>3. StoredLevel(side, price, list) = M
  BY <1>2 DEF StoredLevel, StoredAt
<1>4. /\ M \in PriceMaps(Sides, OpenOrder)
      /\ \A s \in Sides : \A p :
            AtPrice(M, s, p) = IF s = side /\ p = price THEN list ELSE AtPrice(levels, s, p)
  BY <1>1, <1>2, StoredAtEffect
<1>5. ASSUME NEW s \in Sides PROVE IsFiniteSet(DOMAIN M[s])
  <2>1. \A p : p \in DOMAIN M[s] <=> AtPrice(M, s, p) # <<>>
    BY <1>4, PriceMapFacts
  <2>2. \A p : p \in DOMAIN levels[s] <=> AtPrice(levels, s, p) # <<>>
    BY <1>1, PriceMapFacts
  <2>3. DOMAIN M[s] \subseteq DOMAIN levels[s] \union {price}
    BY <1>4, <2>1, <2>2
  <2>4. IsFiniteSet(DOMAIN levels[s] \union {price})
    BY <1>1, FS_AddElement DEF MapsAreFinite
  <2> QED
    BY <2>3, <2>4, FS_Subset
<1> QED
  BY <1>3, <1>4, <1>5 DEF MapsAreFinite

LEMMA BestIsAPrice ==
    ASSUME NaiveInv, NEW side \in Sides, DOMAIN levels[side] # {}
    PROVE  BestPrice(side) \in DOMAIN levels[side] /\ BestPrice(side) \in Int
<1>1. DOMAIN levels[side] \in SUBSET Int
  BY PriceMapFacts DEF NaiveInv
<1>2. IsFiniteSet(DOMAIN levels[side])
  BY DEF NaiveInv, MapsAreFinite
<1>3. /\ \E x \in DOMAIN levels[side] : \A y \in DOMAIN levels[side] : x >= y
      /\ \E x \in DOMAIN levels[side] : \A y \in DOMAIN levels[side] : x <= y
  BY <1>1, <1>2, ExtremesExist
<1>4. BestPrice(side) \in DOMAIN levels[side]
  BY <1>3 DEF BestPrice, Max, Min
<1> QED
  BY <1>1, <1>4

LEMMA MinOfTwo ==
    ASSUME NEW a \in Int, NEW b \in Int
    PROVE  Min({a, b}) = IF a < b THEN a ELSE b
BY DEF Min

-----------------------------------------------------------------------------
LEMMA NaiveInitEstablishes == Init => NaiveInv
<1> SUFFICES ASSUME Init PROVE NaiveInv
  OBVIOUS
<1> DEFINE none == [p \in {} |-> <<>>]
<1>1. levels = [side \in Sides |-> none] /\ index = [id \in {} |-> <<>>] /\ taker = NoTaker
  BY DEF Init
<1>2. none \in UNION {[P -> Seq(OpenOrder) \ {<<>>}] : P \in SUBSET Int}
  <2>1. none \in [{} -> Seq(OpenOrder) \ {<<>>}] /\ {} \in SUBSET Int
    OBVIOUS
  <2> QED
    BY <2>1
<1>3. \A side \in Sides : DOMAIN levels[side] = {}
  BY <1>1
<1> HIDE DEF none
<1>4. levels \in PriceMaps(Sides, OpenOrder)
  BY <1>1, <1>2 DEF PriceMaps
<1>5. MapsAreFinite(levels)
  BY <1>3, FS_EmptySet DEF MapsAreFinite
<1>6. index = [id \in DOMAIN index |-> index[id]] /\ DOMAIN index = {}
  BY <1>1
<1>7. Agree(levels, index)
  <2>1. \A side \in Sides : \A price \in Int : Len(AtPrice(levels, side, price)) = 0
    BY <1>3 DEF AtPrice
  <2> QED
    BY <1>6, <2>1 DEF Agree, ListAgrees
<1>8. taker \in TakerType /\ taker.remaining <= taker.qty /\ Idle
  BY <1>1 DEF NoTaker, TakerType, Idle, Sides, OrderTypes
<1> QED
  BY <1>4, <1>5, <1>6, <1>7, <1>8 DEF NaiveInv

LEMMA NoTakerTyped == NoTaker \in TakerType /\ NoTaker.remaining <= NoTaker.qty
BY DEF NoTaker, TakerType, Sides, OrderTypes

LEMMA NaiveAcceptPreserves ==
    ASSUME NaiveInv, NEW id \in FreshIds, NEW new \in NewOrders, Accept(id, new)
    PROVE  NaiveInv'
<1>1. /\ new.side \in Sides /\ new.type \in OrderTypes /\ new.price_ticks \in Int
      /\ new.qty \in Nat /\ id \in Ids
  BY DEF FreshIds
<1>2. taker' \in TakerType /\ taker'.remaining <= taker'.qty /\ taker'.order_id = id
  <2> DEFINE price == IF new.type = kMarket THEN 0 ELSE new.price_ticks
  <2>1. taker' = [order_id |-> id, side |-> new.side, type |-> new.type,
                  price_ticks |-> price, qty |-> new.qty, remaining |-> new.qty]
    BY DEF Accept
  <2>2. price \in Int
    BY <1>1
  <2> HIDE DEF price
  <2> QED
    BY <1>1, <2>1, <2>2 DEF TakerType
<1>3. id \notin DOMAIN index /\ levels' = levels /\ index' = index
  BY DEF Accept, Open
<1> QED
  BY <1>1, <1>2, <1>3 DEF NaiveInv, MapsAreFinite

(* An order of a list leaves the book.                                      *)
LEMMA LeavingPreserves ==
    ASSUME NaiveInv, NEW side \in Sides, NEW price \in Int,
           NEW old, old = AtPrice(levels, side, price), NEW m \in 1 .. Len(old),
           levels' = StoredLevel(side, price, Without(old, Len(old), m)),
           index' = [id \in DOMAIN index \ {old[m].id} |-> index[id]],
           taker' \in TakerType, taker'.remaining <= taker'.qty,
           taker'.order_id = taker.order_id, Idle' <=> Idle
    PROVE  NaiveInv'
<1>1. old \in Seq(OpenOrder)
  BY ListFacts
<1>2. PICK list : list = Without(old, Len(old), m)
  OBVIOUS
<1>3. list \in Seq(OpenOrder)
  BY <1>1, <1>2, RemovedIsWithout
<1>4. PICK M : M = StoredLevel(side, price, list)
  OBVIOUS
<1>5. /\ M \in PriceMaps(Sides, OpenOrder) /\ MapsAreFinite(M)
      /\ \A s \in Sides : \A p :
            AtPrice(M, s, p) = IF s = side /\ p = price THEN list ELSE AtPrice(levels, s, p)
  BY <1>3, <1>4, StoredLevelEffect
<1>6. PICK jx : jx = [id \in DOMAIN index \ {old[m].id} |-> index[id]]
  OBVIOUS
<1>7. Agree(levels, index)
  BY DEF NaiveInv
<1>8. \A s \in Sides : \A p :
         AtPrice(M, s, p) = IF s = side /\ p = price THEN Without(old, Len(old), m)
                            ELSE AtPrice(levels, s, p)
  BY <1>2, <1>5
<1>9. Agree(M, jx)
  BY ONLY <1>1, <1>6, <1>7, <1>8, side \in Sides, price \in Int,
          old = AtPrice(levels, side, price), m \in 1 .. Len(old), LeavingAgrees
<1>10. levels' = M /\ index' = jx
  BY <1>2, <1>4, <1>6
<1>11. jx = [id \in DOMAIN jx |-> jx[id]] /\ DOMAIN jx \subseteq DOMAIN index
  BY <1>6
<1> QED
  BY <1>5, <1>9, <1>10, <1>11 DEF NaiveInv, MapsAreFinite

(* The first of a list is debited.                                          *)
LEMMA DebitPreserves ==
    ASSUME NaiveInv, NEW side \in Sides, NEW price \in Int,
           NEW old, old = AtPrice(levels, side, price), old # <<>>,
           NEW x, x \in OpenOrder, x.id = old[1].id, x.remaining \in 1 .. x.qty,
           levels' = StoredLevel(side, price, WithHead(old, Len(old), x)),
           index' = index,
           taker' \in TakerType, taker'.remaining <= taker'.qty,
           taker'.order_id = taker.order_id, Idle' <=> Idle
    PROVE  NaiveInv'
<1>1. old \in Seq(OpenOrder)
  BY ListFacts
<1>2. PICK list : list = WithHead(old, Len(old), x)
  OBVIOUS
<1>3. list \in Seq(OpenOrder)
  BY <1>1, <1>2, HeadReplaced
<1>4. PICK M : M = StoredLevel(side, price, list)
  OBVIOUS
<1>5. /\ M \in PriceMaps(Sides, OpenOrder) /\ MapsAreFinite(M)
      /\ \A s \in Sides : \A p :
            AtPrice(M, s, p) = IF s = side /\ p = price THEN list ELSE AtPrice(levels, s, p)
  BY <1>3, <1>4, StoredLevelEffect
<1>7. Agree(levels, index)
  BY DEF NaiveInv
<1>8. \A s \in Sides : \A p :
         AtPrice(M, s, p) = IF s = side /\ p = price THEN WithHead(old, Len(old), x)
                            ELSE AtPrice(levels, s, p)
  BY <1>2, <1>5
<1>9. Agree(M, index)
  BY ONLY <1>1, <1>7, <1>8, side \in Sides, price \in Int, old # <<>>,
          old = AtPrice(levels, side, price), x \in OpenOrder, x.id = old[1].id,
          x.remaining \in 1 .. x.qty, DebitAgrees
<1>10. levels' = M
  BY <1>2, <1>4
<1> QED
  BY <1>5, <1>9, <1>10 DEF NaiveInv, MapsAreFinite

(* An order goes behind its list and into the index.                        *)
LEMMA LinkedPreserves ==
    ASSUME NaiveInv, NEW side \in Sides, NEW price \in Int,
           NEW x, x \in OpenOrder, x.id \notin DOMAIN index, x.remaining \in 1 .. x.qty,
           Linked(side, price, x), taker' = NoTaker
    PROVE  NaiveInv'
<1>0. PICK old : old = AtPrice(levels, side, price)
  OBVIOUS
<1>1. old \in Seq(OpenOrder) /\ Level(side, price) = old
  BY <1>0, ListFacts
<1>2. PICK list : list = Appended(old, Len(old), x)
  OBVIOUS
<1>3. list \in Seq(OpenOrder) /\ Append(old, x) = list
  BY <1>1, <1>2, AppendIsAppended
<1>4. PICK M : M = StoredLevel(side, price, list)
  OBVIOUS
<1>5. /\ M \in PriceMaps(Sides, OpenOrder) /\ MapsAreFinite(M)
      /\ \A s \in Sides : \A p :
            AtPrice(M, s, p) = IF s = side /\ p = price THEN list ELSE AtPrice(levels, s, p)
  BY <1>3, <1>4, StoredLevelEffect
<1>6. PICK jx : jx = [id \in DOMAIN index \union {x.id} |->
                         IF id = x.id THEN LocatorOf(side, price) ELSE index[id]]
  OBVIOUS
<1>7. Agree(levels, index)
  BY DEF NaiveInv
<1>8. \A s \in Sides : \A p :
         AtPrice(M, s, p) = IF s = side /\ p = price THEN Appended(old, Len(old), x)
                            ELSE AtPrice(levels, s, p)
  BY <1>2, <1>5
<1>9. Agree(M, jx)
  BY ONLY <1>0, <1>1, <1>6, <1>7, <1>8, side \in Sides, price \in Int, x \in OpenOrder,
          x.id \notin DOMAIN index, x.remaining \in 1 .. x.qty, LinkingAgrees
<1>10. levels' = M /\ index' = jx
  BY <1>1, <1>3, <1>4, <1>6 DEF Linked, LocatorOf
<1>11. jx = [id \in DOMAIN jx |-> jx[id]]
  BY <1>6
<1>12. Idle'
  BY DEF Idle
<1> QED
  BY <1>5, <1>9, <1>10, <1>11, <1>12, NoTakerTyped DEF NaiveInv, MapsAreFinite

LEMMA NaiveFillPreserves ==
    ASSUME NaiveInv, Fill
    PROVE  NaiveInv'
<1> USE NaiveTakerFacts DEF NaiveInv
<1> DEFINE side == Opposite(taker.side)
<1>1. PICK price : price = BestPrice(side)
  OBVIOUS
<1>2. side \in Sides /\ DOMAIN levels[side] # {} /\ taker.remaining > 0 /\ ~Idle
  BY DEF Fill, MatchContinues
<1>3. price \in DOMAIN levels[side] /\ price \in Int
  BY <1>1, <1>2, BestIsAPrice
<1>4. PICK old : old = levels[side][price]
  OBVIOUS
<1>5. old = AtPrice(levels, side, price) /\ old \in Seq(OpenOrder) /\ old # <<>>
  BY <1>2, <1>3, <1>4, ListFacts
<1>6. /\ Len(old) \in Nat \ {0} /\ 1 \in 1 .. Len(old) /\ Head(old) = old[1] /\ old[1] \in OpenOrder
      /\ <<>> \o Tail(old) = Without(old, Len(old), 1)
  BY <1>5, TailIsWithout
<1>7. PICK maker \in OpenOrder : maker = old[1]
  BY <1>6
<1>8. maker.remaining \in 1 .. maker.qty /\ maker.qty \in Nat /\ maker.id \in Ids
  <2>1. ListAgrees(old, index, side, price)
    BY <1>2, <1>3, <1>5 DEF Agree
  <2>2. old[1].remaining \in 1 .. old[1].qty
    BY <1>6, <2>1 DEF ListAgrees
  <2> QED
    BY <1>7, <2>2 DEF OpenOrder
<1>9. PICK fill \in Nat : /\ fill = Min({taker.remaining, maker.remaining})
                          /\ fill <= taker.remaining /\ fill <= maker.remaining
  BY <1>2, <1>8, MinOfTwo
<1>10. PICK left \in Nat : left = maker.remaining - fill /\ left <= maker.qty
  BY <1>8, <1>9
<1>11. /\ levels' = StoredLevel(side, price,
                       (IF left = 0 THEN <<>> ELSE <<[maker EXCEPT !.remaining = left]>>)
                       \o Tail(old))
       /\ index' = [id \in DOMAIN index \ (IF left = 0 THEN {maker.id} ELSE {}) |-> index[id]]
       /\ taker' = [taker EXCEPT !.remaining = @ - fill]
  BY <1>1, <1>4, <1>6, <1>7, <1>9, <1>10 DEF Fill
<1>12. /\ taker' \in TakerType /\ taker'.remaining <= taker'.qty
       /\ taker'.order_id = taker.order_id
  <2>1. PICK r \in Nat : r = taker.remaining - fill /\ r <= taker.qty
    BY <1>9
  <2>2. taker' = [taker EXCEPT !.remaining = r]
    BY <1>11, <2>1
  <2>3. taker \in TakerType
    OBVIOUS
  <2> QED
    BY ONLY <2>1, <2>2, <2>3 DEF TakerType
<1>13. ~Idle'
  <2>1. taker'.order_id # kInvalidOrderId
    BY <1>2, <1>12 DEF FreshIds
  <2> QED
    BY <2>1 DEF Idle, NoTaker
<1>14. CASE left = 0
  <2>1. /\ levels' = StoredLevel(side, price, Without(old, Len(old), 1))
        /\ index' = [id \in DOMAIN index \ {old[1].id} |-> index[id]]
    BY <1>6, <1>7, <1>11, <1>14
  <2> QED
    BY <1>2, <1>3, <1>5, <1>6, <1>12, <1>13, <2>1, LeavingPreserves
<1>15. CASE left # 0
  <2>1. PICK x : x = [maker EXCEPT !.remaining = left]
    OBVIOUS
  <2>2. x \in OpenOrder /\ x.id = old[1].id /\ x.remaining \in 1 .. x.qty
    BY <1>7, <1>10, <1>15, <2>1 DEF OpenOrder
  <2>3. <<x>> \o Tail(old) = WithHead(old, Len(old), x)
    BY <1>5, <2>2, HeadReplaced
  <2>4. levels' = StoredLevel(side, price, WithHead(old, Len(old), x)) /\ index' = index
    BY <1>11, <1>15, <2>1, <2>3
  <2> QED
    BY <1>2, <1>3, <1>5, <1>12, <1>13, <2>2, <2>4, DebitPreserves
<1> QED
  BY <1>14, <1>15

LEMMA NaiveRestPreserves ==
    ASSUME NaiveInv, Rest
    PROVE  NaiveInv'
<1>1. /\ ~Idle /\ taker.remaining > 0 /\ taker' = NoTaker
      /\ taker \in TakerType /\ taker.remaining <= taker.qty
      /\ taker.order_id \in Ids \ DOMAIN index
  BY DEF Rest, NaiveInv, FreshIds
<1>2. PICK x : x = [id |-> taker.order_id, qty |-> taker.qty, remaining |-> taker.remaining]
  OBVIOUS
<1>3. /\ x \in OpenOrder /\ x.id \notin DOMAIN index /\ x.remaining \in 1 .. x.qty
  BY <1>1, <1>2, NaiveTakerFacts DEF OpenOrder
<1>4. Linked(taker.side, taker.price_ticks, x)
  BY <1>2 DEF Rest
<1>5. taker.side \in Sides /\ taker.price_ticks \in Int
  BY <1>1, NaiveTakerFacts
<1> QED
  BY <1>1, <1>3, <1>4, <1>5, LinkedPreserves

LEMMA NaiveDropPreserves ==
    ASSUME NaiveInv, Drop
    PROVE  NaiveInv'
<1>1. levels' = levels /\ index' = index /\ taker' = NoTaker
  BY DEF Drop
<1>2. Idle'
  BY <1>1 DEF Idle
<1> QED
  BY <1>1, <1>2, NoTakerTyped DEF NaiveInv, MapsAreFinite

LEMMA NaiveStutterPreserves ==
    ASSUME NaiveInv, UNCHANGED <<levels, index, taker>>
    PROVE  NaiveInv'
BY DEF NaiveInv, MapsAreFinite, Idle

LEMMA NaiveCancelPreserves ==
    ASSUME NaiveInv, NEW id \in Ids, Cancel(id)
    PROVE  NaiveInv'
<1>1. CASE ~Open(id)
  <2>1. UNCHANGED <<levels, index, taker>>
    BY <1>1 DEF Cancel, Reject
  <2> QED
    BY <2>1, NaiveStutterPreserves
<1>2. CASE Open(id)
  <2>1. PICK loc : loc = index[id]
    OBVIOUS
  <2>2. loc \in Locator /\ loc.side \in Sides /\ loc.price \in Int
    BY <1>2, <2>1, LocatorFacts DEF Open, NaiveInv, Agree
  <2>3. PICK old : old = AtPrice(levels, loc.side, loc.price)
    OBVIOUS
  <2>4. old \in Seq(OpenOrder) /\ Level(loc.side, loc.price) = old
    BY <2>2, <2>3, ListFacts
  <2>5. PICK m \in DOMAIN old :
           /\ old[m].id = id
           /\ levels' = StoredLevel(loc.side, loc.price, RemoveAt(old, m))
           /\ index' = [open \in DOMAIN index \ {id} |-> index[open]]
           /\ taker' = taker
    BY <1>2, <2>1, <2>4 DEF Cancel
  <2>6. m \in 1 .. Len(old)
    BY <2>4, LenProperties
  <2>7. RemoveAt(old, m) = Without(old, Len(old), m)
    BY <2>4, <2>6, RemovedIsWithout DEF RemoveAt
  <2>8. /\ taker' \in TakerType /\ taker'.remaining <= taker'.qty
        /\ taker'.order_id = taker.order_id /\ (Idle' <=> Idle)
    BY <2>5 DEF NaiveInv, Idle
  <2>9. /\ levels' = StoredLevel(loc.side, loc.price, Without(old, Len(old), m))
        /\ index' = [open \in DOMAIN index \ {old[m].id} |-> index[open]]
    BY <2>5, <2>7
  <2> QED
    BY <2>2, <2>3, <2>6, <2>8, <2>9, LeavingPreserves
<1> QED
  BY <1>1, <1>2

(* add_limit between two commands.                                          *)
LEMMA NaiveAddLimitPreserves ==
    ASSUME NaiveInv, NEW id \in FreshIds, NEW new \in NewOrders, AddLimit(id, new)
    PROVE  NaiveInv'
<1>1. Idle /\ new.side \in Sides /\ new.price_ticks \in Int /\ new.qty \in Nat /\ id \in Ids
  BY DEF AddLimit, FreshIds
<1>2. CASE UNCHANGED <<levels, index, taker>>
  BY <1>2, NaiveStutterPreserves
<1>3. CASE RestLimit(id, new) /\ UNCHANGED taker
  <2>1. PICK x : x = [id |-> id, qty |-> new.qty, remaining |-> new.qty]
    OBVIOUS
  <2>2. /\ x \in OpenOrder /\ x.id \notin DOMAIN index /\ x.remaining \in 1 .. x.qty
    BY <1>1, <1>3, <2>1 DEF OpenOrder, RestLimit, Open
  <2>3. Linked(new.side, new.price_ticks, x) /\ taker' = NoTaker
    BY <1>1, <1>3, <2>1 DEF RestLimit, Idle
  <2> QED
    BY <1>1, <2>2, <2>3, LinkedPreserves
<1>4. UNCHANGED <<levels, index, taker>> \/ (RestLimit(id, new) /\ UNCHANGED taker)
  BY DEF AddLimit, Reject
<1> QED
  BY <1>2, <1>3, <1>4

LEMMA NaiveStepPreserves == NaiveInv /\ [Next]_naiveVars => NaiveInv'
<1> SUFFICES ASSUME NaiveInv, [Next]_naiveVars PROVE NaiveInv'
  OBVIOUS
<1>1. ASSUME NEW id \in FreshIds, NEW new \in NewOrders, AddInvalid(id, new)
      PROVE  NaiveInv'
  BY <1>1, NaiveStutterPreserves DEF AddInvalid, Reject
<1>2. CASE MatchingNext
  BY <1>1, <1>2, NaiveAcceptPreserves, NaiveFillPreserves, NaiveRestPreserves,
     NaiveDropPreserves, NaiveCancelPreserves DEF MatchingNext
<1>3. CASE RestingNext
  BY <1>3, NaiveAddLimitPreserves, NaiveCancelPreserves DEF RestingNext
<1>4. CASE UNCHANGED naiveVars
  BY <1>4, NaiveStutterPreserves DEF naiveVars
<1> QED
  BY <1>2, <1>3, <1>4 DEF Next

LEMMA NaiveInvMeansMatched == NaiveInv => IndexMatchesLevels
<1> SUFFICES ASSUME NaiveInv PROVE IndexMatchesLevels
  OBVIOUS
<1>0. Agree(levels, index) /\ levels \in PriceMaps(Sides, OpenOrder)
  BY DEF NaiveInv
<1>1. ASSUME NEW id \in DOMAIN index
      PROVE  \E k \in DOMAIN Level(index[id].side, index[id].price) :
                Level(index[id].side, index[id].price)[k].id = id
  <2>1. PICK loc \in Locator : loc = index[id]
    BY <1>0 DEF Agree
  <2>2. loc.side \in Sides /\ loc.price \in Int
    BY LocatorFacts
  <2>3. PICK list : list = Level(loc.side, loc.price)
    OBVIOUS
  <2>4. list \in Seq(OpenOrder) /\ list = AtPrice(levels, loc.side, loc.price)
    BY <2>2, <2>3, ListFacts
  <2>5. IsIn(id, list)
    BY <1>0, <2>1, <2>4 DEF Agree
  <2>6. DOMAIN list = 1 .. Len(list)
    BY <2>4, LenProperties
  <2> QED
    BY <2>1, <2>3, <2>5, <2>6 DEF IsIn
<1>2. ASSUME NEW side \in Sides, NEW price \in DOMAIN levels[side],
             NEW level, level = levels[side][price]
      PROVE  /\ level # <<>>
             /\ \A k \in DOMAIN level :
                   /\ level[k].id \in DOMAIN index
                   /\ index[level[k].id] = [side |-> side, price |-> price]
                   /\ level[k].remaining \in 1 .. level[k].qty
             /\ \A j, k \in DOMAIN level : level[j].id = level[k].id => j = k
  <2>1. price \in Int
    BY <1>0, PriceMapFacts
  <2>2. level # <<>> /\ level = AtPrice(levels, side, price) /\ level \in Seq(OpenOrder)
    BY <1>2, <2>1, ListFacts
  <2>3. ListAgrees(level, index, side, price)
    BY <1>0, <2>1, <2>2 DEF Agree
  <2>4. DOMAIN level = 1 .. Len(level)
    BY <2>2, LenProperties
  <2> QED
    BY <2>2, <2>3, <2>4 DEF ListAgrees, LocatorOf
<1> QED
  BY <1>1, <1>2 DEF IndexMatchesLevels

(* index_ and the maps are two views of the same open orders in every state *)
(* of naive_book.h, inside a sweep too, for any set of ids and orders and   *)
(* any mix of add, add_limit and cancel.                                    *)
THEOREM NaiveIndexMatchesLevels == Spec => []IndexMatchesLevels
<1>1. Init => NaiveInv
  BY NaiveInitEstablishes
<1>2. NaiveInv /\ [Next]_naiveVars => NaiveInv'
  BY NaiveStepPreserves
<1>3. NaiveInv => IndexMatchesLevels
  BY NaiveInvMeansMatched
<1> QED
  BY <1>1, <1>2, <1>3, PTL DEF Spec
=============================================================================
