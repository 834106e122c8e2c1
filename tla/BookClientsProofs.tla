-------------------------- MODULE BookClientsProofs -------------------------
(***************************************************************************)
(* Two programs that run the book: the optimized book implements the naive *)
(* one, for every capacity, price window and stream of orders, and the     *)
(* workload generator knows the open orders of its shadow engine.          *)
(***************************************************************************)
EXTENDS BookRefinesNaive, OrderBookProofs, WorkloadGenerator

USE CapacityAssumption, MaxGenerationAssumption, AnchorAssumption, RadiusAssumption,
    NewOrdersAssumption

-----------------------------------------------------------------------------
(* A list is determined by its orders and their order.                      *)
SameOrdering(n, w, v, X) ==
    /\ w \in [1 .. n -> X] /\ v \in [1 .. n -> X]
    /\ \A j, k \in 1 .. n : w[j] = w[k] => j = k
    /\ \A j, k \in 1 .. n : v[j] = v[k] => j = k
    /\ \A c \in 1 .. n : \E a \in 1 .. n : w[a] = v[c]
    /\ \A a \in 1 .. n : \E c \in 1 .. n : w[a] = v[c]
    /\ \A a, b, c, d \in 1 .. n : w[a] = v[c] /\ w[b] = v[d] => (a < b <=> c < d)

LEMMA SameOrderSameList ==
    ASSUME NEW n \in Nat, NEW w, NEW v, NEW X, SameOrdering(n, w, v, X)
    PROVE  v = w
<1> USE DEF SameOrdering
<1> DEFINE T == {k \in 1 .. n : w[k] # v[k]}
<1>1. ASSUME T # {} PROVE FALSE
  <2>1. PICK a \in T : \A k \in T : a <= k
    <3>1. T \in SUBSET Nat
      OBVIOUS
    <3> HIDE DEF T
    <3> QED
      BY <1>1, <3>1, LeastElement
  <2>2. a \in 1 .. n /\ w[a] # v[a]
    OBVIOUS
  <2>3. \A k \in 1 .. n : k < a => w[k] = v[k]
    BY <2>1, <2>2
  <2>4. PICK b \in 1 .. n : w[b] = v[a]
    BY <2>2
  <2>5. PICK c \in 1 .. n : w[a] = v[c]
    BY <2>2
  <2>6. b # a /\ c # a
    BY <2>2, <2>4, <2>5
  <2>7. ~(b < a)
    BY <2>2, <2>3, <2>4, <2>6
  <2>8. ~(c < a)
    BY <2>2, <2>3, <2>5, <2>6
  <2>9. a < b /\ ~(c < a)
    BY <2>2, <2>4, <2>6, <2>7, <2>8
  <2>10. a < b <=> c < a
    BY <2>2, <2>4, <2>5
  <2> QED
    BY <2>9, <2>10
<1>2. \A k \in 1 .. n : w[k] = v[k]
  BY <1>1
<1> QED
  BY <1>2

LEMMA ListParts ==
    ASSUME NEW s, NEW level, NEW G, NEW w, IsList(s, level, G, w)
    PROVE  /\ level.order_count \in Nat /\ G \subseteq Index
           /\ w \in [1 .. level.order_count -> Index]
           /\ \A k \in 1 .. level.order_count : w[k] \in G
           /\ \A j, k \in 1 .. level.order_count : w[j] = w[k] => j = k
           /\ \A i \in G : \E k \in 1 .. level.order_count : w[k] = i
           /\ Cardinality(G) = level.order_count
<1>1. level.order_count \in Nat
  BY LevelFacts DEF IsList
<1>2. Cardinality(G) = level.order_count
  BY ListCount
<1>3. w \in [1 .. level.order_count -> Index] /\ G \subseteq Index
  BY DEF IsList
<1>4. \A k \in 1 .. level.order_count : w[k] \in G
  BY <1>3 DEF IsList
<1> QED
  BY <1>1, <1>2, <1>3, <1>4 DEF IsList

LEMMA ListStays ==
    ASSUME NEW s, NEW t, NEW old, NEW new, NEW G, NEW w, NEW v,
           IsList(s, old, G, w), IsList(t, new, G, v),
           OrderKept(w, old.order_count, v, new.order_count)
    PROVE  new.order_count = old.order_count /\ v = w
<1>1. PICK n \in Nat : n = old.order_count
  BY ListParts
<1>2. new.order_count = n
  BY <1>1, ListParts
<1>3. /\ w \in [1 .. n -> Index] /\ \A k \in 1 .. n : w[k] \in G
      /\ \A j, k \in 1 .. n : w[j] = w[k] => j = k
      /\ \A i \in G : \E k \in 1 .. n : w[k] = i
  BY <1>1, ListParts
<1>4. /\ v \in [1 .. n -> Index] /\ \A k \in 1 .. n : v[k] \in G
      /\ \A j, k \in 1 .. n : v[j] = v[k] => j = k
      /\ \A i \in G : \E k \in 1 .. n : v[k] = i
  BY <1>2, ListParts
<1>5. \A a, b, c, d \in 1 .. n : w[a] = v[c] /\ w[b] = v[d] => (a < b <=> c < d)
  BY <1>1, <1>2 DEF OrderKept
<1>6. \A c \in 1 .. n : \E a \in 1 .. n : w[a] = v[c]
  BY <1>3, <1>4
<1>7. \A a \in 1 .. n : \E c \in 1 .. n : w[a] = v[c]
  BY <1>3, <1>4
<1>8. SameOrdering(n, w, v, Index)
  BY <1>3, <1>4, <1>5, <1>6, <1>7 DEF SameOrdering
<1>9. v = w
  BY <1>8, SameOrderSameList
<1> QED
  BY <1>1, <1>2, <1>9

LEMMA ListLeaves ==
    ASSUME NEW s, NEW t, NEW old, NEW new, NEW G, NEW i \in G, NEW w, NEW v,
           IsList(s, old, G, w), IsList(t, new, G \ {i}, v),
           OrderKept(w, old.order_count, v, new.order_count)
    PROVE  \E m \in 1 .. old.order_count :
              /\ w[m] = i /\ new.order_count = old.order_count - 1
              /\ v = Without(w, old.order_count, m)
<1>1. PICK n \in Nat : n = old.order_count
  BY ListParts
<1>2. Cardinality(G) = n /\ IsFiniteSet(G)
  BY <1>1, ListParts, IndexFinite
<1>3. new.order_count = n - 1
  <2>1. Cardinality(G \ {i}) = Cardinality(G) - 1
    BY <1>2, FS_RemoveElement
  <2> QED
    BY <1>2, <2>1, ListParts
<1>4. /\ w \in [1 .. n -> Index] /\ \A k \in 1 .. n : w[k] \in G
      /\ \A j, k \in 1 .. n : w[j] = w[k] => j = k
      /\ \A j \in G : \E k \in 1 .. n : w[k] = j
  BY <1>1, ListParts
<1>5. /\ v \in [1 .. n - 1 -> Index] /\ \A k \in 1 .. n - 1 : v[k] \in G \ {i}
      /\ \A j, k \in 1 .. n - 1 : v[j] = v[k] => j = k
      /\ \A j \in G \ {i} : \E k \in 1 .. n - 1 : v[k] = j
  <2>1. PICK H, h : H = G \ {i} /\ IsList(t, new, H, v) /\ h = new.order_count
    OBVIOUS
  <2>2. /\ v \in [1 .. h -> Index] /\ \A k \in 1 .. h : v[k] \in H
        /\ \A j, k \in 1 .. h : v[j] = v[k] => j = k
        /\ \A j \in H : \E k \in 1 .. h : v[k] = j
    <3>1. IsList(t, new, H, v) /\ h = new.order_count
      BY <2>1
    <3> QED
      BY ONLY <3>1, ListParts
  <2>3. h = n - 1
    BY <1>3, <2>1
  <2> QED
    BY <2>1, <2>2, <2>3
<1>6. PICK m \in 1 .. n : w[m] = i
  BY <1>4
<1>7. PICK u : u = Without(w, n, m)
  OBVIOUS
<1>8. \A k \in 1 .. n - 1 : u[k] = IF k < m THEN w[k] ELSE w[k + 1]
  BY <1>7 DEF Without
<1>9. \A k \in 1 .. n - 1 : \E j \in 1 .. n : j # m /\ u[k] = w[j] /\ j = IF k < m THEN k ELSE k + 1
  <2> TAKE k \in 1 .. n - 1
  <2>1. CASE k < m
    BY <1>8, <2>1
  <2>2. CASE ~(k < m)
    <3>1. k + 1 \in 1 .. n /\ k + 1 # m
      BY <2>2
    <3> QED
      BY <1>8, <2>2, <3>1
  <2> QED
    BY <2>1, <2>2
<1>10. \A j \in 1 .. n : j # m => \E k \in 1 .. n - 1 : u[k] = w[j]
  <2> TAKE j \in 1 .. n
  <2>1. CASE j < m
    <3>1. j \in 1 .. n - 1
      BY <2>1
    <3> QED
      BY <1>8, <2>1, <3>1
  <2>2. CASE j > m
    <3>1. j - 1 \in 1 .. n - 1 /\ ~(j - 1 < m) /\ (j - 1) + 1 = j
      BY <2>2
    <3> QED
      BY <1>8, <3>1
  <2> QED
    BY <2>1, <2>2
<1>11. \A j, k \in 1 .. n - 1 : u[j] = u[k] => j = k
  <2> TAKE j, k \in 1 .. n - 1
  <2> HAVE u[j] = u[k]
  <2>1. PICK a \in 1 .. n : u[j] = w[a] /\ a = IF j < m THEN j ELSE j + 1
    BY <1>9
  <2>2. PICK b \in 1 .. n : u[k] = w[b] /\ b = IF k < m THEN k ELSE k + 1
    BY <1>9
  <2>3. a = b
    BY <1>4, <2>1, <2>2
  <2> QED
    BY <2>1, <2>2, <2>3
<1>12. \A c \in 1 .. n - 1 : \E a \in 1 .. n - 1 : u[a] = v[c]
  <2> TAKE c \in 1 .. n - 1
  <2>1. PICK j \in 1 .. n : w[j] = v[c]
    BY <1>4, <1>5
  <2>2. j # m
    BY <1>5, <1>6, <2>1
  <2> QED
    BY <1>10, <2>1, <2>2
<1>13. \A a \in 1 .. n - 1 : \E c \in 1 .. n - 1 : u[a] = v[c]
  <2> TAKE a \in 1 .. n - 1
  <2>1. PICK j \in 1 .. n : j # m /\ u[a] = w[j]
    BY <1>9
  <2>2. w[j] \in G \ {i}
    BY <1>4, <1>6, <2>1
  <2> QED
    BY <1>5, <2>1, <2>2
<1>14. \A a, b \in 1 .. n : \A c, d \in 1 .. n - 1 : w[a] = v[c] /\ w[b] = v[d] => (a < b <=> c < d)
  BY <1>1, <1>3 DEF OrderKept
<1>15. \A a, b, c, d \in 1 .. n - 1 : u[a] = v[c] /\ u[b] = v[d] => (a < b <=> c < d)
  <2> TAKE a, b, c, d \in 1 .. n - 1
  <2> HAVE u[a] = v[c] /\ u[b] = v[d]
  <2>1. PICK j \in 1 .. n : u[a] = w[j] /\ j = IF a < m THEN a ELSE a + 1
    BY <1>9
  <2>2. PICK k \in 1 .. n : u[b] = w[k] /\ k = IF b < m THEN b ELSE b + 1
    BY <1>9
  <2>3. j < k <=> c < d
    <3>1. w[j] = v[c] /\ w[k] = v[d]
      BY <2>1, <2>2
    <3> QED
      BY <1>14, <3>1
  <2>4. j < k <=> a < b
    BY <2>1, <2>2
  <2> QED
    BY <2>3, <2>4
<1>16. n - 1 \in Nat /\ u \in [1 .. n - 1 -> Index]
  <2>1. \A k \in 1 .. n - 1 : u[k] \in Index
    BY <1>4, <1>9
  <2>2. u = [k \in 1 .. n - 1 |-> u[k]]
    BY <1>7 DEF Without
  <2> QED
    BY <2>1, <2>2
<1>17. v = u
  <2>1. SameOrdering(n - 1, u, v, Index)
    BY <1>5, <1>11, <1>12, <1>13, <1>15, <1>16 DEF SameOrdering
  <2> QED
    BY <1>16, <2>1, SameOrderSameList
<1> QED
  BY <1>1, <1>3, <1>6, <1>7, <1>17

LEMMA ListJoins ==
    ASSUME NEW s, NEW t, NEW old, NEW new, NEW G, NEW i, i \notin G, NEW w, NEW v,
           IsList(s, old, G, w), IsList(t, new, G \union {i}, v),
           OrderKept(w, old.order_count, v, new.order_count)
    PROVE  /\ new.order_count = old.order_count + 1
           /\ v = Appended(w, old.order_count, i)
<1>1. PICK n \in Nat : n = old.order_count
  BY ListParts
<1>2. Cardinality(G) = n /\ IsFiniteSet(G)
  BY <1>1, ListParts, IndexFinite
<1>3. new.order_count = n + 1
  <2>1. Cardinality(G \union {i}) = Cardinality(G) + 1
    BY <1>2, FS_AddElement
  <2> QED
    BY <1>2, <2>1, ListParts
<1>4. /\ w \in [1 .. n -> Index] /\ \A k \in 1 .. n : w[k] \in G
      /\ \A j, k \in 1 .. n : w[j] = w[k] => j = k
      /\ \A j \in G : \E k \in 1 .. n : w[k] = j
  BY <1>1, ListParts
<1>5. /\ v \in [1 .. n + 1 -> Index] /\ \A k \in 1 .. n + 1 : v[k] \in G \union {i}
      /\ \A j, k \in 1 .. n + 1 : v[j] = v[k] => j = k
      /\ \A j \in G \union {i} : \E k \in 1 .. n + 1 : v[k] = j
  <2>1. PICK H, h : H = G \union {i} /\ IsList(t, new, H, v) /\ h = new.order_count
    OBVIOUS
  <2>2. /\ v \in [1 .. h -> Index] /\ \A k \in 1 .. h : v[k] \in H
        /\ \A j, k \in 1 .. h : v[j] = v[k] => j = k
        /\ \A j \in H : \E k \in 1 .. h : v[k] = j
    <3>1. IsList(t, new, H, v) /\ h = new.order_count
      BY <2>1
    <3> QED
      BY ONLY <3>1, ListParts
  <2>3. h = n + 1
    BY <1>3, <2>1
  <2> QED
    BY <2>1, <2>2, <2>3
<1>7. PICK u : u = Appended(w, n, i)
  OBVIOUS
<1>8. /\ \A k \in 1 .. n : u[k] = w[k] /\ k \in 1 .. n + 1
      /\ u[n + 1] = i /\ n + 1 \in 1 .. n + 1
      /\ \A k \in 1 .. n + 1 : k = n + 1 \/ k \in 1 .. n
  BY <1>7 DEF Appended
<1>11. \A j, k \in 1 .. n + 1 : u[j] = u[k] => j = k
  <2> TAKE j, k \in 1 .. n + 1
  <2> HAVE u[j] = u[k]
  <2>1. \A a \in 1 .. n : u[a] # i
    BY <1>4, <1>8
  <2>2. CASE j = n + 1 \/ k = n + 1
    <3>1. u[j] = i
      BY <1>8, <2>2
    <3> QED
      BY <1>8, <2>1, <3>1
  <2>3. CASE j \in 1 .. n /\ k \in 1 .. n
    <3>1. w[j] = w[k]
      BY <1>8, <2>3
    <3> QED
      BY <1>4, <2>3, <3>1
  <2> QED
    BY <1>8, <2>2, <2>3
<1>12. \A c \in 1 .. n + 1 : \E a \in 1 .. n + 1 : u[a] = v[c]
  <2> TAKE c \in 1 .. n + 1
  <2>1. CASE v[c] = i
    BY <1>8, <2>1
  <2>2. CASE v[c] # i
    <3>1. v[c] \in G
      BY <1>5, <2>2
    <3>2. PICK k \in 1 .. n : w[k] = v[c]
      BY <1>4, <3>1
    <3> QED
      BY <1>8, <3>2
  <2> QED
    BY <2>1, <2>2
<1>13. \A a \in 1 .. n + 1 : \E c \in 1 .. n + 1 : u[a] = v[c]
  <2>1. \A a \in 1 .. n + 1 : u[a] \in G \union {i}
    BY <1>4, <1>8
  <2> QED
    BY <1>5, <2>1
<1>14. /\ \A a, b \in 1 .. n : \A c, d \in 1 .. n + 1 : w[a] = v[c] /\ w[b] = v[d] => (a < b <=> c < d)
       /\ \A a \in 1 .. n : \A c, d \in 1 .. n + 1 :
             w[a] = v[c] /\ (\A b \in 1 .. n : w[b] # v[d]) => c < d
  BY <1>1, <1>3 DEF OrderKept
<1>15. \A a, b, c, d \in 1 .. n + 1 : u[a] = v[c] /\ u[b] = v[d] => (a < b <=> c < d)
  <2> TAKE a, b, c, d \in 1 .. n + 1
  <2> HAVE u[a] = v[c] /\ u[b] = v[d]
  <2>1. CASE a \in 1 .. n /\ b \in 1 .. n
    BY <1>8, <1>14, <2>1
  <2>2. CASE a \in 1 .. n /\ b = n + 1
    <3>1. \A k \in 1 .. n : w[k] # v[d]
      BY <1>4, <1>8, <2>2
    <3>2. c < d
      BY <1>8, <1>14, <2>2, <3>1
    <3> QED
      BY <2>2, <3>2
  <2>3. CASE a = n + 1 /\ b \in 1 .. n
    <3>1. \A k \in 1 .. n : w[k] # v[c]
      BY <1>4, <1>8, <2>3
    <3>2. d < c
      BY <1>8, <1>14, <2>3, <3>1
    <3> QED
      BY <2>3, <3>2
  <2>4. CASE a = n + 1 /\ b = n + 1
    <3>1. c = d
      BY <1>5, <2>4
    <3> QED
      BY <2>4, <3>1
  <2> QED
    BY <1>8, <2>1, <2>2, <2>3, <2>4
<1>16. n + 1 \in Nat /\ u \in [1 .. n + 1 -> Index]
  <2>1. i \in Index
    BY <1>5
  <2>2. \A k \in 1 .. n + 1 : u[k] \in Index
    BY <1>4, <1>8, <2>1
  <2>3. u = [k \in 1 .. n + 1 |-> u[k]]
    BY <1>7 DEF Appended
  <2> QED
    BY <2>2, <2>3
<1>17. v = u
  <2>1. SameOrdering(n + 1, u, v, Index)
    BY <1>5, <1>11, <1>12, <1>13, <1>15, <1>16 DEF SameOrdering
  <2> QED
    BY <1>16, <2>1, SameOrderSameList
<1> QED
  BY <1>1, <1>3, <1>7, <1>17

-----------------------------------------------------------------------------
(* What the naive book is shown of the optimized one.                       *)
OracleOrder == [id : OrderId, qty : Nat, remaining : Nat]

OrderIn(s, i) == [id |-> s[i].order_id, qty |-> s[i].qty, remaining |-> s[i].remaining]

Shown(s, w, n) == [k \in 1 .. n |-> OrderIn(s, w[k])]

Locator(side, price) == [side |-> side, price |-> price]

ShowsLists ==
    /\ naiveLevels \in PriceMaps(Sides, OracleOrder)
    /\ \A side \in Sides : \A price \in Int : \A w :
          IsList(slots, LevelIn(ladder[side], price), Group(slots, Resting, side, price), w) =>
              AtPrice(naiveLevels, side, price)
                = Shown(slots, w, LevelIn(ladder[side], price).order_count)

ShowsIndex ==
    /\ naiveIndex = [id \in DOMAIN naiveIndex |-> naiveIndex[id]]
    /\ DOMAIN naiveIndex = {slots[i].order_id : i \in Resting}
    /\ \A i \in Resting : naiveIndex[slots[i].order_id]
                            = Locator(slots[i].side, slots[i].price_ticks)
    /\ \A i, j \in Resting : slots[i].order_id = slots[j].order_id => i = j
    /\ \A i \in Resting : index_of(slots[i].order_id) = i

LEMMA ShownType ==
    ASSUME NEW s \in [Index -> Order], NEW n \in Nat, NEW w \in [1 .. n -> Index]
    PROVE  /\ Shown(s, w, n) \in [1 .. n -> OracleOrder]
           /\ Shown(s, w, n) \in Seq(OracleOrder) /\ Len(Shown(s, w, n)) = n
           /\ \A k \in 1 .. n : Shown(s, w, n)[k] = OrderIn(s, w[k])
<1>1. \A i \in Index : OrderIn(s, i) \in OracleOrder
  BY OrderFields DEF OrderIn, OracleOrder
<1>2. Shown(s, w, n) \in [1 .. n -> OracleOrder]
  BY <1>1 DEF Shown
<1>3. \A k \in 1 .. n : Shown(s, w, n)[k] = OrderIn(s, w[k])
  BY DEF Shown
<1> QED
  BY <1>2, <1>3, ListIsSeq

LEMMA ListsShown == BookInv => ShowsLists
<1> SUFFICES ASSUME BookInv PROVE ShowsLists
  OBVIOUS
<1>0. /\ slots \in [Index -> Order] /\ Structure(slots, ladder, Resting)
      /\ Resting \subseteq LiveSlots
  BY BookInvFacts
<1>1. ASSUME NEW side \in Sides, NEW price \in Int
      PROVE  price \in RestingPrices(side) <=> Group(slots, Resting, side, price) # {}
  <2>1. price \in RestingPrices(side) <=> \E i \in Sided(Resting, side) : slots[i].price_ticks = price
    BY <1>0, PricesAreThoseOfOrders
  <2> QED
    BY <2>1 DEF Sided, Group, At
<1>2. naiveLevels \in [Sides -> UNION {[P -> Seq(OracleOrder) \ {<<>>}] : P \in SUBSET Int}]
      /\ \A side \in Sides : \A price \in Int : \A w :
          IsList(slots, LevelIn(ladder[side], price), Group(slots, Resting, side, price), w) =>
              AtPrice(naiveLevels, side, price)
                = Shown(slots, w, LevelIn(ladder[side], price).order_count)
  <2> DEFINE map(side) == [price \in RestingPrices(side) |->
                              LET fifo == Fifo(LevelAt(side, price))
                              IN  [k \in DOMAIN fifo |-> NaiveOrder(fifo[k])]]
  <2>1. naiveLevels = [side \in Sides |-> map(side)]
    BY DEF naiveLevels
  <2>2. ASSUME NEW side \in Sides, NEW price \in RestingPrices(side), NEW w,
               IsList(slots, LevelIn(ladder[side], price), Group(slots, Resting, side, price), w)
        PROVE  map(side)[price] = Shown(slots, w, LevelIn(ladder[side], price).order_count)
    <3>1. PICK level, n : level = LevelIn(ladder[side], price) /\ n = level.order_count
      OBVIOUS
    <3>2. LevelAt(side, price) = level
      BY <3>1, LevelAtIsIn
    <3>3. Fifo(level) = w
      BY <2>2, <3>1, FifoIsList
    <3>4. w \in [1 .. n -> Index]
      BY <2>2, <3>1, ListParts
    <3>5. map(side)[price] = [k \in DOMAIN w |-> NaiveOrder(w[k])]
      BY <3>2, <3>3
    <3>6. DOMAIN w = 1 .. n
      BY <3>4
    <3>7. Shown(slots, w, n) = [k \in 1 .. n |-> NaiveOrder(w[k])]
      BY DEF Shown, OrderIn, NaiveOrder
    <3> QED
      BY <3>1, <3>5, <3>6, <3>7
  <2>3. \A side \in Sides : DOMAIN map(side) = RestingPrices(side)
    OBVIOUS
  <2>4. \A side \in Sides : map(side) = [price \in RestingPrices(side) |-> map(side)[price]]
    OBVIOUS
  <2> HIDE DEF map
  <2>5. ASSUME NEW side \in Sides, NEW price \in RestingPrices(side)
        PROVE  map(side)[price] \in Seq(OracleOrder) \ {<<>>}
    <3>1. price \in Int
      BY <1>0, PricesAreThoseOfOrders
    <3>2. PICK w : IsList(slots, LevelIn(ladder[side], price),
                          Group(slots, Resting, side, price), w)
      BY <1>0, <3>1, StructureType DEF Listed
    <3>3. PICK n : n = LevelIn(ladder[side], price).order_count
      OBVIOUS
    <3>4. n \in Nat /\ w \in [1 .. n -> Index]
      BY <3>2, <3>3, ListParts
    <3>5. \E i \in Group(slots, Resting, side, price) : TRUE
      BY <1>1, <3>1
    <3>6. n # 0
      <4>1. \A i \in Group(slots, Resting, side, price) : \E k \in 1 .. n : w[k] = i
        BY <3>2, <3>3, ListParts
      <4>2. \E k \in 1 .. n : TRUE
        BY <3>5, <4>1
      <4> QED
        BY <4>2
    <3>7. Shown(slots, w, n) \in Seq(OracleOrder) /\ Len(Shown(slots, w, n)) = n
      BY <1>0, <3>4, ShownType
    <3>8. Shown(slots, w, n) # <<>>
      BY <3>6, <3>7, EmptySeq
    <3> QED
      BY <2>2, <3>2, <3>3, <3>7, <3>8
  <2>6. ASSUME NEW side \in Sides
        PROVE  map(side) \in UNION {[P -> Seq(OracleOrder) \ {<<>>}] : P \in SUBSET Int}
    <3>1. RestingPrices(side) \in SUBSET Int
      BY <1>0, PricesAreThoseOfOrders
    <3>2. map(side) \in [RestingPrices(side) -> Seq(OracleOrder) \ {<<>>}]
      BY <2>4, <2>5
    <3> QED
      BY <3>1, <3>2
  <2>7. ASSUME NEW side \in Sides, NEW price \in Int, NEW w,
               IsList(slots, LevelIn(ladder[side], price), Group(slots, Resting, side, price), w)
        PROVE  AtPrice(naiveLevels, side, price)
                 = Shown(slots, w, LevelIn(ladder[side], price).order_count)
    <3>1. naiveLevels[side] = map(side)
      BY <2>1
    <3>2. CASE price \in RestingPrices(side)
      BY <2>2, <2>3, <2>7, <3>1, <3>2 DEF AtPrice
    <3>3. CASE price \notin RestingPrices(side)
      <4>1. PICK n : n = LevelIn(ladder[side], price).order_count
        OBVIOUS
      <4>2. n \in Nat /\ w \in [1 .. n -> Index]
            /\ \A k \in 1 .. n : w[k] \in Group(slots, Resting, side, price)
        BY <2>7, <4>1, ListParts
      <4>3. Group(slots, Resting, side, price) = {}
        BY <1>1, <3>3
      <4>4. n = 0
        <5>1. ~(1 \in 1 .. n)
          BY <4>2, <4>3
        <5> QED
          BY <4>2, <5>1
      <4>5. Shown(slots, w, n) \in Seq(OracleOrder) /\ Len(Shown(slots, w, n)) = 0
        BY <1>0, <4>2, <4>4, ShownType
      <4>6. Shown(slots, w, n) = <<>>
        BY <4>5, EmptySeq
      <4>7. AtPrice(naiveLevels, side, price) = <<>>
        BY <2>3, <3>1, <3>3 DEF AtPrice
      <4> QED
        BY <4>1, <4>6, <4>7
    <3> QED
      BY <3>2, <3>3
  <2> QED
    BY <2>1, <2>6, <2>7
<1> QED
  BY <1>2 DEF ShowsLists, PriceMaps

LEMMA IndexShown == BookInv => ShowsIndex
<1> SUFFICES ASSUME BookInv PROVE ShowsIndex
  OBVIOUS
<1>1. Resting \subseteq LiveSlots
  BY BookInvFacts
<1>2. \A i \in Resting : index_of(slots[i].order_id) = i
  BY <1>1, LiveIdNamesSlot
<1>3. naiveIndex = [id \in {slots[i].order_id : i \in Resting} |->
                       Locator(slots[index_of(id)].side, slots[index_of(id)].price_ticks)]
  BY DEF naiveIndex, Resting, Locator
<1> QED
  BY <1>2, <1>3 DEF ShowsIndex

LEMMA ShownNext == (BookInv => ShowsLists /\ ShowsIndex)'
<1>1. BookInv => ShowsLists /\ ShowsIndex
  BY ListsShown, IndexShown
<1> QED
  BY <1>1, PTL

-----------------------------------------------------------------------------
(* What a step does to the list of one price, and to the index.             *)
Oracle(side, price) == AtPrice(naiveLevels, side, price)

SameInOracle(i) == OrderIn(slots', i) = OrderIn(slots, i)

LEMMA SameOrderShown ==
    ASSUME NEW i, SameOrder(slots'[i], slots[i])
    PROVE  SameInOracle(i)
BY DEF SameOrder, SameInOracle, OrderIn

(* The list before and after, with the slots each of them shows.            *)
TwoLists(side, price, n, w, G, m, v, H) ==
    /\ n \in Nat /\ w \in [1 .. n -> Index] /\ m \in Nat /\ v \in [1 .. m -> Index]
    /\ G = Group(slots, Resting, side, price) /\ H = Group(slots', Resting', side, price)
    /\ \E s, t, old, new : /\ n = old.order_count /\ m = new.order_count
                           /\ IsList(s, old, G, w) /\ IsList(t, new, H, v)
                           /\ OrderKept(w, old.order_count, v, new.order_count)
                           /\ old.head_idx = LevelIn(ladder[side], price).head_idx
    /\ Oracle(side, price) = Shown(slots, w, n) /\ Oracle(side, price)' = Shown(slots', v, m)

LEMMA BothLists ==
    ASSUME BookInv, BookInv', KeepsPlaces, NEW side \in Sides, NEW price \in Int
    PROVE  \E n, w, G, m, v, H : TwoLists(side, price, n, w, G, m, v, H)
<1>1. PICK G, H : /\ G = Group(slots, Resting, side, price)
                  /\ H = Group(slots', Resting', side, price)
  OBVIOUS
<1>2. PICK w, v :
        /\ IsList(slots, LevelIn(ladder[side], price), G, w)
        /\ IsList(slots', LevelIn(ladder'[side], price), H, v)
        /\ OrderKept(w, LevelIn(ladder[side], price).order_count,
                     v, LevelIn(ladder'[side], price).order_count)
  BY <1>1 DEF KeepsPlaces, KeepsOrder
<1>3. PICK old, new : old = LevelIn(ladder[side], price) /\ new = LevelIn(ladder'[side], price)
  OBVIOUS
<1>4. /\ old.order_count \in Nat /\ w \in [1 .. old.order_count -> Index]
  BY <1>2, <1>3, ListParts
<1>5. /\ new.order_count \in Nat /\ v \in [1 .. new.order_count -> Index]
  BY <1>2, <1>3, ListParts
<1>6. ShowsLists /\ ShowsLists'
  BY ListsShown, ShownNext
<1>7. Oracle(side, price) = Shown(slots, w, old.order_count)
  BY <1>1, <1>2, <1>3, <1>6 DEF ShowsLists, Oracle
<1>8. Oracle(side, price)' = Shown(slots', v, new.order_count)
  BY <1>1, <1>2, <1>3, <1>6 DEF ShowsLists, Oracle
<1> QED
  BY <1>1, <1>2, <1>3, <1>4, <1>5, <1>7, <1>8 DEF TwoLists

LEMMA ListUntouched ==
    ASSUME BookInv, BookInv', KeepsPlaces, NEW side \in Sides, NEW price \in Int,
           Group(slots', Resting', side, price) = Group(slots, Resting, side, price),
           \A j \in Group(slots, Resting, side, price) : SameInOracle(j)
    PROVE  Oracle(side, price)' = Oracle(side, price)
<1>1. PICK n, w, G, m, v, H : TwoLists(side, price, n, w, G, m, v, H)
  BY BothLists
<1>2. H = G /\ \A j \in G : SameInOracle(j)
  BY <1>1 DEF TwoLists
<1>3. m = n /\ v = w /\ \A k \in 1 .. n : w[k] \in G
  <2>1. PICK s, t, old, new : /\ n = old.order_count /\ m = new.order_count
                              /\ IsList(s, old, G, w) /\ IsList(t, new, H, v)
                              /\ OrderKept(w, old.order_count, v, new.order_count)
    BY <1>1 DEF TwoLists
  <2> QED
    BY <1>2, <2>1, ListStays, ListParts
<1>4. Shown(slots', w, n) = Shown(slots, w, n)
  BY <1>2, <1>3 DEF Shown, SameInOracle
<1> QED
  BY <1>1, <1>3, <1>4 DEF TwoLists

LEMMA ListLoses ==
    ASSUME BookInv, BookInv', KeepsPlaces, NEW side \in Sides, NEW price \in Int,
           NEW i \in Group(slots, Resting, side, price),
           Group(slots', Resting', side, price) = Group(slots, Resting, side, price) \ {i},
           \A j \in Group(slots, Resting, side, price) \ {i} : SameInOracle(j)
    PROVE  \E k \in 1 .. Len(Oracle(side, price)) :
              /\ Oracle(side, price)[k] = OrderIn(slots, i)
              /\ Oracle(side, price)' = Without(Oracle(side, price), Len(Oracle(side, price)), k)
              /\ i = LevelIn(ladder[side], price).head_idx => k = 1
<1>1. PICK n, w, G, m, v, H : TwoLists(side, price, n, w, G, m, v, H)
  BY BothLists
<1>2. i \in G /\ H = G \ {i} /\ \A j \in G \ {i} : SameInOracle(j)
  BY <1>1 DEF TwoLists
<1>3. PICK s, t, old, new : /\ n = old.order_count /\ m = new.order_count
                            /\ IsList(s, old, G, w) /\ IsList(t, new, H, v)
                            /\ OrderKept(w, old.order_count, v, new.order_count)
                            /\ old.head_idx = LevelIn(ladder[side], price).head_idx
  BY <1>1 DEF TwoLists
<1>4. /\ \A k \in 1 .. n : w[k] \in G
      /\ \A j, k \in 1 .. n : w[j] = w[k] => j = k
  BY <1>3, ListParts
<1>5. PICK k \in 1 .. n : w[k] = i /\ m = n - 1 /\ v = Without(w, n, k)
  <2>1. \E k \in 1 .. old.order_count :
              /\ w[k] = i /\ new.order_count = old.order_count - 1
              /\ v = Without(w, old.order_count, k)
    <3>1. IsList(t, new, G \ {i}, v)
      BY <1>2, <1>3
    <3> QED
      BY <1>2, <1>3, <3>1, ListLeaves
  <2> QED
    BY <1>3, <2>1
<1>6. n \in Nat /\ Oracle(side, price) = Shown(slots, w, n) /\ Len(Shown(slots, w, n)) = n
  BY <1>1, BookInvFacts, ShownType DEF TwoLists
<1>7. Oracle(side, price)' = Shown(slots', v, n - 1)
  BY <1>1, <1>5 DEF TwoLists
<1>8. Shown(slots', v, n - 1) = Without(Shown(slots, w, n), n, k)
  <2>1. ASSUME NEW a \in 1 .. n - 1
        PROVE  OrderIn(slots', v[a]) = IF a < k THEN Shown(slots, w, n)[a]
                                       ELSE Shown(slots, w, n)[a + 1]
    <3>1. PICK b \in 1 .. n : b = (IF a < k THEN a ELSE a + 1)
      BY <1>6
    <3>2. b # k /\ v[a] = w[b]
      BY <1>5, <3>1 DEF Without
    <3>3. w[b] \in G \ {i}
      BY <1>4, <1>5, <3>2
    <3>4. OrderIn(slots', v[a]) = OrderIn(slots, w[b])
      BY <1>2, <3>2, <3>3 DEF SameInOracle
    <3>5. Shown(slots, w, n)[b] = OrderIn(slots, w[b])
      BY DEF Shown
    <3> QED
      BY <3>1, <3>4, <3>5
  <2>2. Shown(slots', v, n - 1) = [a \in 1 .. n - 1 |-> OrderIn(slots', v[a])]
    BY DEF Shown
  <2> QED
    BY <2>1, <2>2 DEF Without
<1>9. Oracle(side, price)[k] = OrderIn(slots, i)
  <2>1. Shown(slots, w, n)[k] = OrderIn(slots, w[k])
    BY DEF Shown
  <2> QED
    BY <1>5, <1>6, <2>1
<1>10. ASSUME i = LevelIn(ladder[side], price).head_idx PROVE k = 1
  <2>1. old.head_idx = w[1] /\ 1 \in 1 .. n
    BY <1>3, <1>5, <1>6 DEF IsList
  <2> QED
    BY <1>3, <1>4, <1>5, <1>10, <2>1
<1> QED
  BY <1>5, <1>6, <1>7, <1>8, <1>9, <1>10

LEMMA HeadChanges ==
    ASSUME BookInv, BookInv', KeepsPlaces, NEW side \in Sides, NEW price \in Int,
           NEW i \in Group(slots, Resting, side, price),
           i = LevelIn(ladder[side], price).head_idx,
           Group(slots', Resting', side, price) = Group(slots, Resting, side, price),
           \A j \in Group(slots, Resting, side, price) \ {i} : SameInOracle(j)
    PROVE  /\ Oracle(side, price) # <<>> /\ Oracle(side, price)[1] = OrderIn(slots, i)
           /\ Oracle(side, price)' = WithHead(Oracle(side, price), Len(Oracle(side, price)),
                                              OrderIn(slots', i))
<1>1. PICK n, w, G, m, v, H : TwoLists(side, price, n, w, G, m, v, H)
  BY BothLists
<1>2. i \in G /\ H = G /\ \A j \in G \ {i} : SameInOracle(j)
  BY <1>1 DEF TwoLists
<1>3. PICK s, t, old, new : /\ n = old.order_count /\ m = new.order_count
                            /\ IsList(s, old, G, w) /\ IsList(t, new, H, v)
                            /\ OrderKept(w, old.order_count, v, new.order_count)
                            /\ old.head_idx = LevelIn(ladder[side], price).head_idx
  BY <1>1 DEF TwoLists
<1>4. /\ \A k \in 1 .. n : w[k] \in G
      /\ \A j, k \in 1 .. n : w[j] = w[k] => j = k
      /\ \E k \in 1 .. n : w[k] = i
  <2>1. /\ \A k \in 1 .. n : w[k] \in G
        /\ \A j, k \in 1 .. n : w[j] = w[k] => j = k
        /\ \A j \in G : \E k \in 1 .. n : w[k] = j
    BY <1>3, ListParts
  <2> QED
    BY <1>2, <2>1
<1>5. m = n /\ v = w
  <2>1. IsList(t, new, G, v)
    BY <1>2, <1>3
  <2> QED
    BY <1>3, <2>1, ListStays
<1>6. /\ n \in Nat /\ Oracle(side, price) = Shown(slots, w, n) /\ Len(Shown(slots, w, n)) = n
      /\ Shown(slots, w, n) \in Seq(OracleOrder)
  BY <1>1, BookInvFacts, ShownType DEF TwoLists
<1>7. Oracle(side, price)' = Shown(slots', w, n)
  BY <1>1, <1>5 DEF TwoLists
<1>8. w[1] = i /\ 1 \in 1 .. n
  <2>1. 1 \in 1 .. n
    BY <1>4, <1>6
  <2>2. old.head_idx = w[1]
    BY <1>3, <2>1 DEF IsList
  <2> QED
    BY <1>3, <2>1, <2>2
<1>9. Shown(slots', w, n) = WithHead(Shown(slots, w, n), n, OrderIn(slots', i))
  <2>1. ASSUME NEW k \in 1 .. n
        PROVE  OrderIn(slots', w[k]) = IF k = 1 THEN OrderIn(slots', i)
                                       ELSE Shown(slots, w, n)[k]
    <3>1. CASE k = 1
      BY <1>8, <3>1
    <3>2. CASE k # 1
      <4>1. w[k] \in G \ {i}
        BY <1>4, <1>8, <3>2
      <4>2. OrderIn(slots', w[k]) = OrderIn(slots, w[k])
        BY <1>2, <4>1 DEF SameInOracle
      <4>3. Shown(slots, w, n)[k] = OrderIn(slots, w[k])
        BY DEF Shown
      <4> QED
        BY <3>2, <4>2, <4>3
    <3> QED
      BY <3>1, <3>2
  <2>2. Shown(slots', w, n) = [k \in 1 .. n |-> OrderIn(slots', w[k])]
    BY DEF Shown
  <2> QED
    BY <2>1, <2>2 DEF WithHead
<1>10. Shown(slots, w, n)[1] = OrderIn(slots, i) /\ Shown(slots, w, n) # <<>>
  <2>1. Shown(slots, w, n)[1] = OrderIn(slots, w[1])
    BY <1>8 DEF Shown
  <2> QED
    BY <1>6, <1>8, <2>1, EmptySeq
<1> QED
  BY <1>6, <1>7, <1>9, <1>10

LEMMA ListGains ==
    ASSUME BookInv, BookInv', KeepsPlaces, NEW side \in Sides, NEW price \in Int,
           NEW i, i \notin Group(slots, Resting, side, price),
           Group(slots', Resting', side, price) = Group(slots, Resting, side, price) \union {i},
           \A j \in Group(slots, Resting, side, price) : SameInOracle(j)
    PROVE  Oracle(side, price)' = Appended(Oracle(side, price), Len(Oracle(side, price)),
                                           OrderIn(slots', i))
<1>1. PICK n, w, G, m, v, H : TwoLists(side, price, n, w, G, m, v, H)
  BY BothLists
<1>2. i \notin G /\ H = G \union {i} /\ \A j \in G : SameInOracle(j)
  BY <1>1 DEF TwoLists
<1>3. PICK s, t, old, new : /\ n = old.order_count /\ m = new.order_count
                            /\ IsList(s, old, G, w) /\ IsList(t, new, H, v)
                            /\ OrderKept(w, old.order_count, v, new.order_count)
  BY <1>1 DEF TwoLists
<1>4. \A k \in 1 .. n : w[k] \in G
  BY <1>3, ListParts
<1>5. m = n + 1 /\ v = Appended(w, n, i)
  <2>1. IsList(t, new, G \union {i}, v)
    BY <1>2, <1>3
  <2> QED
    BY <1>2, <1>3, <2>1, ListJoins
<1>6. n \in Nat /\ Oracle(side, price) = Shown(slots, w, n) /\ Len(Shown(slots, w, n)) = n
  BY <1>1, BookInvFacts, ShownType DEF TwoLists
<1>7. Oracle(side, price)' = Shown(slots', v, n + 1)
  BY <1>1, <1>5 DEF TwoLists
<1>8. Shown(slots', v, n + 1) = Appended(Shown(slots, w, n), n, OrderIn(slots', i))
  <2>1. ASSUME NEW a \in 1 .. n + 1
        PROVE  OrderIn(slots', v[a]) = IF a = n + 1 THEN OrderIn(slots', i)
                                       ELSE Shown(slots, w, n)[a]
    <3>1. v[a] = IF a = n + 1 THEN i ELSE w[a]
      BY <1>5 DEF Appended
    <3>2. CASE a # n + 1
      <4>1. a \in 1 .. n
        BY <1>6, <3>2
      <4>2. OrderIn(slots', w[a]) = OrderIn(slots, w[a])
        BY <1>2, <1>4, <4>1 DEF SameInOracle
      <4>3. Shown(slots, w, n)[a] = OrderIn(slots, w[a])
        BY <4>1 DEF Shown
      <4> QED
        BY <3>1, <3>2, <4>2, <4>3
    <3> QED
      BY <3>1, <3>2
  <2>2. Shown(slots', v, n + 1) = [a \in 1 .. n + 1 |-> OrderIn(slots', v[a])]
    BY DEF Shown
  <2> QED
    BY <2>1, <2>2 DEF Appended
<1> QED
  BY <1>6, <1>7, <1>8

-----------------------------------------------------------------------------
(* What a step does to the naive book, by what it does to the orders at     *)
(* rest.                                                                    *)
LEMMA OnePriceChanges ==
    ASSUME BookInv, BookInv', NEW side \in Sides, NEW price \in Int,
           NEW list \in Seq(OracleOrder), Oracle(side, price)' = list,
           \A s \in Sides : \A p \in Int :
              ~(s = side /\ p = price) => Oracle(s, p)' = Oracle(s, p)
    PROVE  naiveLevels' = StoredAt(naiveLevels, side, price, list)
<1>1. naiveLevels \in PriceMaps(Sides, OracleOrder) /\ naiveLevels' \in PriceMaps(Sides, OracleOrder)
  BY ListsShown, ShownNext DEF ShowsLists
<1>2. PICK L, M, K : L = naiveLevels /\ M = naiveLevels' /\ K = StoredAt(L, side, price, list)
  OBVIOUS
<1>3. /\ K \in PriceMaps(Sides, OracleOrder)
      /\ \A s \in Sides : \A p :
            AtPrice(K, s, p) = IF s = side /\ p = price THEN list ELSE AtPrice(L, s, p)
  BY <1>1, <1>2, StoredAtEffect
<1>4. \A s \in Sides : \A p \in Int : AtPrice(K, s, p) = AtPrice(M, s, p)
  BY <1>2, <1>3 DEF Oracle
<1>5. M \in PriceMaps(Sides, OracleOrder)
  BY <1>1, <1>2
<1>6. K = M
  BY <1>3, <1>4, <1>5, SamePriceMaps
<1> QED
  BY <1>2, <1>6

LEMMA OracleType ==
    ASSUME BookInv, NEW side \in Sides, NEW price \in Int
    PROVE  Oracle(side, price) \in Seq(OracleOrder) /\ Len(Oracle(side, price)) \in Nat
<1>1. Oracle(side, price) \in Seq(OracleOrder)
  BY ListsShown, PriceMapFacts DEF ShowsLists, Oracle
<1> QED
  BY <1>1, LenProperties

LEMMA OracleStays ==
    ASSUME BookInv, BookInv', KeepsPlaces, Stays
    PROVE  naiveLevels' = naiveLevels /\ naiveIndex' = naiveIndex
<1>1. \A j \in Resting : SameOrder(slots'[j], slots[j]) /\ SameInOracle(j)
  BY SameOrderShown DEF Stays, SameOrders
<1>2. \A side \in Sides : \A price \in Int :
         Group(slots', Resting', side, price) = Group(slots, Resting, side, price)
  BY <1>1 DEF Stays, Group, At, SameOrder
<1>3. \A side \in Sides : \A price \in Int : Oracle(side, price)' = Oracle(side, price)
  <2> TAKE side \in Sides, price \in Int
  <2>1. \A j \in Group(slots, Resting, side, price) : SameInOracle(j)
    BY <1>1 DEF Group
  <2> QED
    BY <1>2, <2>1, ListUntouched
<1>4. naiveLevels' = naiveLevels
  <2>1. naiveLevels \in PriceMaps(Sides, OracleOrder) /\ naiveLevels' \in PriceMaps(Sides, OracleOrder)
    BY ListsShown, ShownNext DEF ShowsLists
  <2>2. PICK L, M : L = naiveLevels /\ M = naiveLevels'
    OBVIOUS
  <2>3. \A side \in Sides : \A p \in Int : AtPrice(M, side, p) = AtPrice(L, side, p)
    BY <1>3, <2>2 DEF Oracle
  <2> QED
    BY <2>1, <2>2, <2>3, SamePriceMaps
<1>5. naiveIndex' = naiveIndex
  <2>1. PICK I, J : I = naiveIndex /\ J = naiveIndex'
    OBVIOUS
  <2>2. /\ I = [id \in DOMAIN I |-> I[id]]
        /\ DOMAIN I = {slots[i].order_id : i \in Resting}
        /\ \A i \in Resting : I[slots[i].order_id] = Locator(slots[i].side, slots[i].price_ticks)
    BY <2>1, IndexShown DEF ShowsIndex
  <2>3. /\ J = [id \in DOMAIN J |-> J[id]]
        /\ DOMAIN J = {slots'[i].order_id : i \in Resting}
        /\ \A i \in Resting : J[slots'[i].order_id] = Locator(slots'[i].side, slots'[i].price_ticks)
    BY <2>1, ShownNext DEF ShowsIndex, Stays
  <2>4. \A i \in Resting : /\ slots'[i].order_id = slots[i].order_id
                           /\ slots'[i].side = slots[i].side
                           /\ slots'[i].price_ticks = slots[i].price_ticks
    BY <1>1 DEF SameOrder
  <2>5. DOMAIN J = DOMAIN I
    BY <2>2, <2>3, <2>4
  <2>6. \A id \in DOMAIN I : J[id] = I[id]
    BY <2>2, <2>3, <2>4
  <2>7. J = I
    BY <2>2, <2>3, <2>5, <2>6
  <2> QED
    BY <2>1, <2>7
<1> QED
  BY <1>4, <1>5

OrderGone(i, side, price, id, old) ==
    /\ side \in Sides /\ price \in Int
    /\ \E k \in 1 .. Len(old) :
          /\ old[k] = OrderIn(slots, i)
          /\ naiveLevels' = StoredAt(naiveLevels, side, price, Without(old, Len(old), k))
          /\ i = LevelIn(ladder[side], price).head_idx => k = 1
    /\ id \in DOMAIN naiveIndex /\ naiveIndex[id] = Locator(side, price)
    /\ naiveIndex' = [open \in DOMAIN naiveIndex \ {id} |-> naiveIndex[open]]

LEMMA OracleLoses ==
    ASSUME BookInv, BookInv', KeepsPlaces, NEW i, Leaves(i),
           NEW side, side = slots[i].side, NEW price, price = slots[i].price_ticks,
           NEW id, id = slots[i].order_id, NEW old, old = Oracle(side, price)
    PROVE  OrderGone(i, side, price, id, old)
<1>0. i \in Resting /\ Resting' = Resting \ {i} /\ Resting \subseteq Index
      /\ slots \in [Index -> Order]
  BY BookInvFacts DEF Leaves
<1>1. \A j \in Resting \ {i} : SameOrder(slots'[j], slots[j]) /\ SameInOracle(j)
  BY SameOrderShown DEF Leaves, SameOrders
<1>2. side \in Sides /\ price \in Int
  BY <1>0, OrderFields
<1>3. Group(slots', Resting', side, price) = Group(slots, Resting, side, price) \ {i}
      /\ i \in Group(slots, Resting, side, price)
  BY <1>0, <1>1 DEF Group, At, SameOrder
<1>4. ASSUME NEW s \in Sides, NEW p \in Int, ~(s = side /\ p = price)
      PROVE  Oracle(s, p)' = Oracle(s, p)
  <2>1. Group(slots', Resting', s, p) = Group(slots, Resting, s, p)
    BY <1>0, <1>1, <1>4 DEF Group, At, SameOrder
  <2>2. \A j \in Group(slots, Resting, s, p) : SameInOracle(j)
    BY <1>0, <1>1, <1>4 DEF Group, At
  <2> QED
    BY <2>1, <2>2, ListUntouched
<1>5. PICK n : n = Len(old)
  OBVIOUS
<1>6. old \in Seq(OracleOrder)
  BY <1>2, <1>5, OracleType
<1>7. PICK k \in 1 .. n :
         /\ old[k] = OrderIn(slots, i)
         /\ Oracle(side, price)' = Without(old, n, k)
         /\ i = LevelIn(ladder[side], price).head_idx => k = 1
  <2>1. \A j \in Group(slots, Resting, side, price) \ {i} : SameInOracle(j)
    BY <1>1 DEF Group
  <2> QED
    BY <1>2, <1>3, <1>5, <2>1, ListLoses
<1>8. Without(old, n, k) \in Seq(OracleOrder)
  BY <1>5, <1>6, <1>7, RemovedIsWithout
<1>9. naiveLevels' = StoredAt(naiveLevels, side, price, Without(old, n, k))
  BY <1>2, <1>4, <1>7, <1>8, OnePriceChanges
<1>10. /\ id \in DOMAIN naiveIndex /\ naiveIndex[id] = Locator(side, price)
       /\ naiveIndex' = [open \in DOMAIN naiveIndex \ {id} |-> naiveIndex[open]]
  <2>1. PICK I, J : I = naiveIndex /\ J = naiveIndex'
    OBVIOUS
  <2>2. /\ DOMAIN I = {slots[j].order_id : j \in Resting}
        /\ \A j \in Resting : I[slots[j].order_id] = Locator(slots[j].side, slots[j].price_ticks)
        /\ \A j, h \in Resting : slots[j].order_id = slots[h].order_id => j = h
    BY <2>1, IndexShown DEF ShowsIndex
  <2>3. /\ J = [open \in DOMAIN J |-> J[open]]
        /\ DOMAIN J = {slots'[j].order_id : j \in Resting \ {i}}
        /\ \A j \in Resting \ {i} :
              J[slots'[j].order_id] = Locator(slots'[j].side, slots'[j].price_ticks)
    BY <1>0, <2>1, ShownNext DEF ShowsIndex
  <2>4. \A j \in Resting \ {i} : /\ slots'[j].order_id = slots[j].order_id
                                 /\ slots'[j].side = slots[j].side
                                 /\ slots'[j].price_ticks = slots[j].price_ticks
    BY <1>1 DEF SameOrder
  <2>5. DOMAIN J = DOMAIN I \ {id}
    BY <1>0, <2>2, <2>3, <2>4
  <2>6. \A open \in DOMAIN J : J[open] = I[open]
    BY <2>2, <2>3, <2>4
  <2>7. J = [open \in DOMAIN I \ {id} |-> I[open]]
    BY <2>3, <2>5, <2>6
  <2> QED
    BY <1>0, <2>1, <2>2, <2>7
<1> QED
  BY <1>2, <1>5, <1>7, <1>9, <1>10 DEF OrderGone

OrderDebited(i, side, price, old, new) ==
    /\ side \in Sides /\ price \in Int
    /\ old # <<>> /\ old[1] = OrderIn(slots, i)
    /\ naiveLevels' = StoredAt(naiveLevels, side, price, WithHead(old, Len(old), new))
    /\ naiveIndex' = naiveIndex

LEMMA OracleShrinks ==
    ASSUME BookInv, BookInv', KeepsPlaces, NEW i, NEW fill, Shrinks(i, fill),
           NEW side, side = slots[i].side, NEW price, price = slots[i].price_ticks,
           i = LevelIn(ladder[side], price).head_idx,
           NEW before, before = Oracle(side, price), NEW after, after = OrderIn(slots', i)
    PROVE  OrderDebited(i, side, price, before, after)
<1>0. i \in Resting /\ Resting' = Resting /\ Resting \subseteq Index
      /\ slots \in [Index -> Order] /\ slots' \in [Index -> Order]
  <2>1. slots' \in [Index -> Order]
    BY StructureType DEF BookInv
  <2> QED
    BY <2>1, BookInvFacts DEF Shrinks
<1>1. \A j \in Resting \ {i} : SameOrder(slots'[j], slots[j]) /\ SameInOracle(j)
  BY SameOrderShown DEF Shrinks, SameOrders
<1>2. side \in Sides /\ price \in Int
  BY <1>0, OrderFields
<1>3. /\ slots'[i].order_id = slots[i].order_id /\ slots'[i].side = slots[i].side
      /\ slots'[i].price_ticks = slots[i].price_ticks
  <2>1. slots[i] \in Order /\ slots'[i] = [slots[i] EXCEPT !.remaining = @ - fill]
    BY <1>0 DEF Shrinks
  <2> QED
    BY <2>1 DEF Order
<1>4. \A s \in Sides : \A p \in Int :
         Group(slots', Resting', s, p) = Group(slots, Resting, s, p)
  BY <1>0, <1>1, <1>3 DEF Group, At, SameOrder
<1>5. i \in Group(slots, Resting, side, price)
  BY <1>0 DEF Group, At
<1>6. ASSUME NEW s \in Sides, NEW p \in Int, ~(s = side /\ p = price)
      PROVE  Oracle(s, p)' = Oracle(s, p)
  <2>1. \A j \in Group(slots, Resting, s, p) : SameInOracle(j)
    BY <1>0, <1>1, <1>6 DEF Group, At
  <2> QED
    BY <1>4, <2>1, ListUntouched
<1>7. PICK old, n, x : old = Oracle(side, price) /\ n = Len(old) /\ x = OrderIn(slots', i)
  OBVIOUS
<1>8. old \in Seq(OracleOrder)
  BY <1>2, <1>7, OracleType
<1>9. old # <<>> /\ old[1] = OrderIn(slots, i) /\ Oracle(side, price)' = WithHead(old, n, x)
  <2>1. \A j \in Group(slots, Resting, side, price) \ {i} : SameInOracle(j)
    BY <1>1 DEF Group
  <2>2. Group(slots', Resting', side, price) = Group(slots, Resting, side, price)
    BY <1>2, <1>4
  <2>3. /\ Oracle(side, price) # <<>> /\ Oracle(side, price)[1] = OrderIn(slots, i)
        /\ Oracle(side, price)' = WithHead(Oracle(side, price), Len(Oracle(side, price)),
                                           OrderIn(slots', i))
    BY <1>2, <1>5, <2>1, <2>2, HeadChanges
  <2> QED
    BY <1>7, <2>3
<1>10. x \in OracleOrder
  BY <1>0, <1>7, OrderFields DEF OrderIn, OracleOrder
<1>11. WithHead(old, n, x) \in Seq(OracleOrder)
  BY <1>7, <1>8, <1>9, <1>10, HeadReplaced
<1>12. naiveLevels' = StoredAt(naiveLevels, side, price, WithHead(old, n, x))
  BY <1>2, <1>6, <1>9, <1>11, OnePriceChanges
<1>13. naiveIndex' = naiveIndex
  <2>1. PICK I, J : I = naiveIndex /\ J = naiveIndex'
    OBVIOUS
  <2>2. /\ I = [id \in DOMAIN I |-> I[id]]
        /\ DOMAIN I = {slots[j].order_id : j \in Resting}
        /\ \A j \in Resting : I[slots[j].order_id] = Locator(slots[j].side, slots[j].price_ticks)
    BY <2>1, IndexShown DEF ShowsIndex
  <2>3. /\ J = [id \in DOMAIN J |-> J[id]]
        /\ DOMAIN J = {slots'[j].order_id : j \in Resting}
        /\ \A j \in Resting : J[slots'[j].order_id] = Locator(slots'[j].side, slots'[j].price_ticks)
    BY <1>0, <2>1, ShownNext DEF ShowsIndex
  <2>4. \A j \in Resting : /\ slots'[j].order_id = slots[j].order_id
                           /\ slots'[j].side = slots[j].side
                           /\ slots'[j].price_ticks = slots[j].price_ticks
    BY <1>1, <1>3 DEF SameOrder
  <2>5. DOMAIN J = DOMAIN I
    BY ONLY <2>2, <2>3, <2>4
  <2>6. \A id \in DOMAIN I : J[id] = I[id]
    BY ONLY <2>2, <2>3, <2>4
  <2>7. J = I
    BY <2>2, <2>3, <2>5, <2>6
  <2> QED
    BY <2>1, <2>7
<1> QED
  BY <1>2, <1>7, <1>9, <1>12, <1>13 DEF OrderDebited

LEMMA OracleGains ==
    ASSUME BookInv, BookInv', KeepsPlaces, NEW i, NEW side, NEW price, NEW remaining,
           Joins(i, side, price, remaining), side \in Sides, price \in Int
    PROVE  /\ slots'[i].order_id \notin DOMAIN naiveIndex
           /\ OrderIn(slots', i) \in OracleOrder
           /\ naiveLevels' = StoredAt(naiveLevels, side, price,
                  Appended(Oracle(side, price), Len(Oracle(side, price)), OrderIn(slots', i)))
           /\ naiveIndex' = [id \in DOMAIN naiveIndex \union {slots'[i].order_id} |->
                                IF id = slots'[i].order_id THEN Locator(side, price)
                                ELSE naiveIndex[id]]
<1>0. i \in Index /\ i \notin Resting /\ Resting' = Resting \union {i} /\ Resting \subseteq Index
      /\ slots \in [Index -> Order] /\ slots' \in [Index -> Order]
      /\ slots'[i].side = side /\ slots'[i].price_ticks = price
  <2>1. slots' \in [Index -> Order]
    BY StructureType DEF BookInv
  <2> QED
    BY <2>1, BookInvFacts DEF Joins
<1>1. \A j \in Resting : SameOrder(slots'[j], slots[j]) /\ SameInOracle(j)
  BY SameOrderShown DEF Joins, SameOrders
<1>3. Group(slots', Resting', side, price) = Group(slots, Resting, side, price) \union {i}
      /\ i \notin Group(slots, Resting, side, price)
  BY <1>0, <1>1 DEF Group, At, SameOrder
<1>4. ASSUME NEW s \in Sides, NEW p \in Int, ~(s = side /\ p = price)
      PROVE  Oracle(s, p)' = Oracle(s, p)
  <2>1. Group(slots', Resting', s, p) = Group(slots, Resting, s, p)
    BY <1>0, <1>1, <1>4 DEF Group, At, SameOrder
  <2>2. \A j \in Group(slots, Resting, s, p) : SameInOracle(j)
    BY <1>1 DEF Group
  <2> QED
    BY <2>1, <2>2, ListUntouched
<1>5. PICK old, n, x : old = Oracle(side, price) /\ n = Len(old) /\ x = OrderIn(slots', i)
  OBVIOUS
<1>6. old \in Seq(OracleOrder)
  BY <1>5, OracleType
<1>7. Oracle(side, price)' = Appended(old, n, x)
  <2>1. \A j \in Group(slots, Resting, side, price) : SameInOracle(j)
    BY <1>1 DEF Group
  <2> QED
    BY <1>3, <1>5, <2>1, ListGains
<1>8. x \in OracleOrder
  BY <1>0, <1>5, OrderFields DEF OrderIn, OracleOrder
<1>9. Appended(old, n, x) \in Seq(OracleOrder)
  BY <1>5, <1>6, <1>8, AppendIsAppended
<1>10. naiveLevels' = StoredAt(naiveLevels, side, price, Appended(old, n, x))
  BY <1>4, <1>7, <1>9, OnePriceChanges
<1>11. /\ slots'[i].order_id \notin DOMAIN naiveIndex
       /\ naiveIndex' = [id \in DOMAIN naiveIndex \union {slots'[i].order_id} |->
                            IF id = slots'[i].order_id THEN Locator(side, price)
                            ELSE naiveIndex[id]]
  <2>1. PICK I, J, come : I = naiveIndex /\ J = naiveIndex' /\ come = slots'[i].order_id
    OBVIOUS
  <2>2. /\ DOMAIN I = {slots[j].order_id : j \in Resting}
        /\ \A j \in Resting : I[slots[j].order_id] = Locator(slots[j].side, slots[j].price_ticks)
    BY <2>1, IndexShown DEF ShowsIndex
  <2>3. /\ J = [id \in DOMAIN J |-> J[id]]
        /\ DOMAIN J = {slots'[j].order_id : j \in Resting \union {i}}
        /\ \A j \in Resting \union {i} :
              J[slots'[j].order_id] = Locator(slots'[j].side, slots'[j].price_ticks)
        /\ \A j, k \in Resting \union {i} : slots'[j].order_id = slots'[k].order_id => j = k
    BY <1>0, <2>1, ShownNext DEF ShowsIndex
  <2>4. \A j \in Resting : /\ slots'[j].order_id = slots[j].order_id
                           /\ slots'[j].side = slots[j].side
                           /\ slots'[j].price_ticks = slots[j].price_ticks
    BY <1>1 DEF SameOrder
  <2>5. come \notin DOMAIN I
    BY <1>0, <2>1, <2>2, <2>3, <2>4
  <2>6. DOMAIN J = DOMAIN I \union {come}
    BY <2>1, <2>2, <2>3, <2>4
  <2>7. J[come] = Locator(side, price) /\ \A id \in DOMAIN I : J[id] = I[id]
    BY <1>0, <2>1, <2>2, <2>3, <2>4
  <2>8. J = [id \in DOMAIN I \union {come} |->
                IF id = come THEN Locator(side, price) ELSE I[id]]
    BY <2>3, <2>5, <2>6, <2>7
  <2> QED
    BY <2>1, <2>5, <2>8
<1> QED
  BY <1>5, <1>8, <1>10, <1>11

-----------------------------------------------------------------------------
(* The words of the naive book, as it is instantiated here.                 *)
LEMMA NaiveWords ==
    /\ N!kBuy = kBuy /\ N!kSell = kSell /\ N!Sides = Sides
    /\ N!kLimit = kLimit /\ N!kMarket = kMarket
    /\ N!kAccepted = kAccepted /\ N!kRejected = kRejected
    /\ N!kTraded = kTraded /\ N!kCanceled = kCanceled
    /\ N!kNone = kNone /\ N!kInvalidQty = kInvalidQty /\ N!kInvalidPrice = kInvalidPrice
    /\ N!kUnknownOrder = kUnknownOrder
    /\ N!kInvalidOrderId = kInvalidOrderId
    /\ \A side : N!Opposite(side) = Opposite(side)
BY DEF N!kBuy, N!kSell, N!Sides, N!kLimit, N!kMarket, N!kAccepted, N!kRejected, N!kTraded,
       N!kCanceled, N!kNone, N!kInvalidQty, N!kInvalidPrice, N!kUnknownOrder,
       N!kInvalidOrderId, N!make_order_id, N!Opposite,
       kBuy, kSell, Sides, kLimit, kMarket, kAccepted, kRejected, kTraded,
       kCanceled, kNone, kInvalidQty, kInvalidPrice, kUnknownOrder,
       kInvalidOrderId, make_order_id, Opposite

LEMMA NaiveEvents ==
    \A kind, side, reason, qty, remaining, price, id :
        N!MakeEvent(kind, side, reason, qty, remaining, price, id)
          = MakeEvent(kind, side, reason, qty, remaining, price, id)
BY DEF N!MakeEvent, MakeEvent

LEMMA NaiveIdle == N!NoTaker = NoTaker /\ (N!Idle <=> Idle)
BY NaiveWords DEF N!NoTaker, NoTaker, N!Idle, Idle

LEMMA NaiveLists ==
    /\ \A side, price, list :
          N!StoredLevel(side, price, list) = StoredAt(naiveLevels, side, price, list)
    /\ \A side, price : N!Level(side, price) = Oracle(side, price)
    /\ \A id : N!Open(id) <=> id \in DOMAIN naiveIndex
BY DEF N!StoredLevel, StoredAt, N!Level, Oracle, AtPrice, N!Open

LEMMA NaiveRemoves ==
    ASSUME NEW s \in Seq(OracleOrder), NEW k \in 1 .. Len(s)
    PROVE  N!RemoveAt(s, k) = Without(s, Len(s), k)
BY RemovedIsWithout DEF N!RemoveAt

-----------------------------------------------------------------------------
(* The events, as the naive book would have emitted them.                   *)
LEMMA SameEvents ==
    /\ out' = <<>> => naiveOut' = <<>>
    /\ \A e : out' = <<e>> /\ ~IsAddReject(e) => naiveOut' = <<e>>
    /\ \A e : out' = <<e>> /\ IsAddReject(e) => naiveOut' = <<[e EXCEPT !.order_id = kDummyId]>>
    /\ \A d, e : out' = <<d, e>> /\ ~IsAddReject(d) /\ ~IsAddReject(e) => naiveOut' = <<d, e>>
<1>1. ASSUME out' = <<>> PROVE naiveOut' = <<>>
  BY <1>1 DEF naiveOut
<1>2. ASSUME NEW e, out' = <<e>>
      PROVE  naiveOut' = <<IF IsAddReject(e) THEN [e EXCEPT !.order_id = kDummyId] ELSE e>>
  <2>1. DOMAIN out' = 1 .. 1 /\ out'[1] = e
    BY <1>2
  <2>2. naiveOut' = [k \in DOMAIN out' |-> IF IsAddReject(out'[k])
                                           THEN [out'[k] EXCEPT !.order_id = kDummyId]
                                           ELSE out'[k]]
    BY DEF naiveOut, IsAddReject
  <2>3. naiveOut' = [k \in 1 .. 1 |-> IF IsAddReject(e) THEN [e EXCEPT !.order_id = kDummyId]
                                      ELSE e]
    BY <2>1, <2>2
  <2> QED
    BY <2>3
<1>3. ASSUME NEW d, NEW e, out' = <<d, e>>, ~IsAddReject(d), ~IsAddReject(e)
      PROVE  naiveOut' = <<d, e>>
  <2>1. DOMAIN out' = 1 .. 2 /\ out'[1] = d /\ out'[2] = e
    BY <1>3
  <2>2. naiveOut' = [k \in DOMAIN out' |-> IF IsAddReject(out'[k])
                                           THEN [out'[k] EXCEPT !.order_id = kDummyId]
                                           ELSE out'[k]]
    BY DEF naiveOut, IsAddReject
  <2>3. \A k \in 1 .. 2 : k = 1 \/ k = 2
    OBVIOUS
  <2>4. naiveOut' = [k \in 1 .. 2 |-> out'[k]]
    BY <1>3, <2>1, <2>2, <2>3
  <2> QED
    BY <1>3, <2>1, <2>4
<1> QED
  BY <1>1, <1>2, <1>3

LEMMA EventIsAddReject ==
    \A kind, side, reason, qty, remaining, price, id :
        IsAddReject(MakeEvent(kind, side, reason, qty, remaining, price, id))
          <=> kind = kRejected /\ reason # kUnknownOrder
BY MakeEventFields DEF IsAddReject

-----------------------------------------------------------------------------
(* The actions that put orders at rest and take them out.                   *)
LEMMA NaiveRests ==
    ASSUME BookInv, BookInv', KeepsPlaces, NEW i, NEW side \in Sides, NEW price \in Int,
           NEW remaining, Joins(i, side, price, remaining),
           NEW order, order = OrderIn(slots', i)
    PROVE  N!Linked(side, price, order) /\ ~N!Open(order.id)
<1>1. PICK old, n : old = Oracle(side, price) /\ n = Len(old)
  OBVIOUS
<1>2. /\ order.id \notin DOMAIN naiveIndex /\ order \in OracleOrder
      /\ naiveLevels' = StoredAt(naiveLevels, side, price, Appended(old, n, order))
      /\ naiveIndex' = [id \in DOMAIN naiveIndex \union {order.id} |->
                           IF id = order.id THEN Locator(side, price) ELSE naiveIndex[id]]
  <2>1. slots'[i].order_id = order.id
    BY DEF OrderIn
  <2>2. /\ slots'[i].order_id \notin DOMAIN naiveIndex
        /\ OrderIn(slots', i) \in OracleOrder
        /\ naiveLevels' = StoredAt(naiveLevels, side, price,
               Appended(Oracle(side, price), Len(Oracle(side, price)), OrderIn(slots', i)))
        /\ naiveIndex' = [id \in DOMAIN naiveIndex \union {slots'[i].order_id} |->
                             IF id = slots'[i].order_id THEN Locator(side, price)
                             ELSE naiveIndex[id]]
    BY OracleGains
  <2>3. /\ order.id \notin DOMAIN naiveIndex
        /\ naiveIndex' = [id \in DOMAIN naiveIndex \union {order.id} |->
                             IF id = order.id THEN Locator(side, price) ELSE naiveIndex[id]]
    BY ONLY <2>1, <2>2, Zenon
  <2> QED
    BY <1>1, <2>2, <2>3
<1>3. old \in Seq(OracleOrder)
  BY <1>1, OracleType
<1>4. Append(old, order) = Appended(old, n, order)
  BY <1>1, <1>2, <1>3, AppendIsAppended
<1>5. N!StoredLevel(side, price, Append(N!Level(side, price), order)) = naiveLevels'
  BY <1>1, <1>2, <1>4, NaiveLists
<1> QED
  BY <1>2, <1>5, NaiveLists DEF N!Linked, Locator

LEMMA NaiveCancels ==
    ASSUME BookInv, NEW id \in CancelIds, CancelOpen(id)
    PROVE  N!Cancel(id)
<1>1. PICK i, side, price : /\ i = index_of(id)
                            /\ side = slots[i].side /\ price = slots[i].price_ticks
  OBVIOUS
<1>2. BookInv' /\ KeepsPlaces /\ Leaves(i)
  BY <1>1, CancelOpenPreserves
<1>3. slots[i].order_id = id
  BY <1>1 DEF CancelOpen, Found
<1>4. PICK old, n : old = Oracle(side, price) /\ n = Len(old)
  OBVIOUS
<1>5. OrderGone(i, side, price, id, old)
  BY <1>1, <1>2, <1>3, <1>4, OracleLoses
<1>6. PICK k \in 1 .. n : /\ old[k] = OrderIn(slots, i)
                          /\ naiveLevels' = StoredAt(naiveLevels, side, price, Without(old, n, k))
  BY <1>4, <1>5 DEF OrderGone
<1>7. /\ side \in Sides /\ price \in Int
      /\ id \in DOMAIN naiveIndex /\ naiveIndex[id] = Locator(side, price)
      /\ naiveIndex' = [open \in DOMAIN naiveIndex \ {id} |-> naiveIndex[open]]
      /\ old \in Seq(OracleOrder)
  BY <1>4, <1>5, OracleType DEF OrderGone
<1>8. DOMAIN old = 1 .. n /\ N!RemoveAt(old, k) = Without(old, n, k)
  BY <1>4, <1>6, <1>7, NaiveRemoves
<1>9. old[k].id = id /\ old[k].remaining = slots[i].remaining
  BY <1>3, <1>6 DEF OrderIn
<1>10. naiveIndex[id].side = side /\ naiveIndex[id].price = price
  BY <1>7 DEF Locator
<1>11. naiveLevels' = N!StoredLevel(side, price, N!RemoveAt(old, k)) /\ N!Level(side, price) = old
  BY <1>4, <1>6, <1>8, NaiveLists
<1>12. N!Open(id) /\ N!Idle
  BY <1>7, NaiveLists, NaiveIdle DEF CancelOpen
<1>13. naiveOut' = <<N!MakeEvent(N!kCanceled, side, N!kNone, slots[i].remaining, 0, price, id)>>
  <2>1. out' = <<MakeEvent(kCanceled, side, kNone, slots[i].remaining, 0, price, id)>>
    BY <1>1 DEF CancelOpen
  <2>2. ~IsAddReject(MakeEvent(kCanceled, side, kNone, slots[i].remaining, 0, price, id))
    BY EventIsAddReject, KindsDiffer
  <2>3. naiveOut' = <<MakeEvent(kCanceled, side, kNone, slots[i].remaining, 0, price, id)>>
    BY <2>1, <2>2, SameEvents
  <2> QED
    BY <2>3, NaiveEvents, NaiveWords
<1>14. UNCHANGED taker
  BY DEF CancelOpen
<1> QED
  BY <1>7, <1>8, <1>9, <1>10, <1>11, <1>12, <1>13, <1>14 DEF N!Cancel

-----------------------------------------------------------------------------
(* The structural harness.                                                  *)
LEMMA OracleIdles ==
    ASSUME BookInv, UNCHANGED <<slots, free_head, live_count, ladder, taker>>
    PROVE  UNCHANGED <<naiveLevels, naiveIndex>>
BY StutterPreserves, OracleStays

LEMMA AddLimitImplements ==
    ASSUME BookInv, NEW new \in NewOrders, AddLimit(new)
    PROVE  \/ UNCHANGED <<naiveLevels, naiveIndex>>
           \/ \E id \in DOMAIN naiveIndex' : N!RestLimit(id, new)
<1>1. BookInv' /\ KeepsPlaces
  BY AddLimitPreserves
<1>2. CASE Stays
  BY <1>1, <1>2, OracleStays
<1>3. CASE ~Stays
  <2>1. PICK i, id : i = free_head /\ id = MintedId
    OBVIOUS
  <2>2. /\ Joins(i, new.side, new.price_ticks, new.qty)
        /\ slots'[i].order_id = id /\ slots'[i].qty = new.qty
        /\ AddLimitRests(new) /\ new.price_ticks > 0
    <3>1. /\ Joins(free_head, new.side, new.price_ticks, new.qty)
          /\ slots'[free_head].order_id = MintedId /\ slots'[free_head].qty = new.qty
          /\ AddLimitRests(new) /\ new.price_ticks > 0
      <4>1. BookInv /\ new \in NewOrders /\ AddLimit(new) /\ ~Stays
        BY <1>3
      <4> QED
        BY ONLY <4>1, AddLimitPreserves
    <3> QED
      BY <2>1, <3>1
  <2>3. new.side \in Sides /\ new.price_ticks \in Int /\ new.qty \in Nat
    BY NewOrdersAssumption DEF NewOrder
  <2>4. PICK order : order = OrderIn(slots', i)
    OBVIOUS
  <2>5. N!Linked(new.side, new.price_ticks, order) /\ ~N!Open(order.id)
    BY <1>1, <2>2, <2>3, <2>4, NaiveRests
  <2>6. order = [id |-> id, qty |-> new.qty, remaining |-> new.qty] /\ order.id = id
    BY <2>2, <2>4 DEF OrderIn, Joins
  <2>7. N!RestLimit(id, new)
    BY <2>2, <2>5, <2>6 DEF N!RestLimit, AddLimitRests
  <2>8. id \in DOMAIN naiveIndex'
    BY <2>5, <2>6 DEF N!Linked
  <2> QED
    BY <2>7, <2>8
<1> QED
  BY <1>2, <1>3

(* add_limit and cancel do to the optimized book what they do to the naive  *)
(* one (order_book.h add_limit, "exactly like NaiveBook::add_limit"), where *)
(* the book is crossed too.                                                 *)
THEOREM RestOnlyImplementsNaive == RestOnlySpec => RestingImplementsNaive
<1>1. BookInit => BookInv
  BY InitEstablishes
<1>2. BookInv /\ [RestOnlyNext]_bookVars => BookInv'
  BY RestOnlyStepPreserves
<1>3. BookInv /\ [RestOnlyNext]_bookVars =>
        [\/ \E id \in DOMAIN naiveIndex' : \E new \in NewOrders : N!RestLimit(id, new)
         \/ \E id \in CancelIds : N!Cancel(id)]_<<naiveLevels, naiveIndex>>
  <2> SUFFICES ASSUME BookInv, [RestOnlyNext]_bookVars
               PROVE  \/ UNCHANGED <<naiveLevels, naiveIndex>>
                      \/ \E id \in DOMAIN naiveIndex' : \E new \in NewOrders : N!RestLimit(id, new)
                      \/ \E id \in CancelIds : N!Cancel(id)
    OBVIOUS
  <2>1. ASSUME NEW new \in NewOrders, AddLimit(new)
        PROVE  \/ UNCHANGED <<naiveLevels, naiveIndex>>
               \/ \E id \in DOMAIN naiveIndex' : N!RestLimit(id, new)
    BY <2>1, AddLimitImplements
  <2>2. ASSUME NEW id \in CancelIds, CancelOpen(id) PROVE N!Cancel(id)
    BY <2>2, NaiveCancels
  <2>3. ASSUME NEW id \in CancelIds, CancelUnknown(id)
        PROVE  UNCHANGED <<naiveLevels, naiveIndex>>
    BY <2>3, OracleIdles DEF CancelUnknown
  <2>4. CASE UNCHANGED bookVars
    BY <2>4, OracleIdles DEF bookVars
  <2> QED
    BY <2>1, <2>2, <2>3, <2>4 DEF RestOnlyNext, Cancel
<1> QED
  BY <1>1, <1>2, <1>3, PTL DEF RestOnlySpec, RestingImplementsNaive

-----------------------------------------------------------------------------
(* The loop condition.  A market order is a limit at an unbeatable price    *)
(* because every price at rest is one that a caller may submit.             *)
Submitted(price) == price \in kMinPrice .. kMaxPrice

PricesSubmitted ==
    /\ \A i \in Resting : Submitted(slots[i].price_ticks)
    /\ ~Idle /\ taker.type # kMarket => Submitted(taker.price_ticks)

LEMMA FewerSubmitted ==
    ASSUME PricesSubmitted, Resting' \subseteq Resting,
           \A i \in Resting' : slots'[i].price_ticks = slots[i].price_ticks,
           ~Idle' => ~Idle /\ taker'.type = taker.type /\ taker'.price_ticks = taker.price_ticks
    PROVE  PricesSubmitted'
BY DEF PricesSubmitted, Submitted

LEMMA SubmittedStep == BookInv /\ PricesSubmitted /\ [BookNext]_bookVars => PricesSubmitted'
<1> SUFFICES ASSUME BookInv, PricesSubmitted, [BookNext]_bookVars PROVE PricesSubmitted'
  OBVIOUS
<1>1. ASSUME UNCHANGED <<slots, free_head, live_count, ladder, taker>> PROVE PricesSubmitted'
  <2>1. Resting' = Resting
    BY <1>1, StutterPreserves DEF Stays
  <2> QED
    BY <1>1, <2>1, FewerSubmitted DEF Idle
<1>2. ASSUME NEW new \in NewOrders, Accept(new) PROVE PricesSubmitted'
  <2>1. Resting' = Resting /\ SameOrders(Resting)
    BY <1>2, AcceptPreserves DEF Stays
  <2>2. \A i \in Resting' : Submitted(slots'[i].price_ticks)
    BY <2>1 DEF PricesSubmitted, SameOrders, SameOrder
  <2>3. taker'.type # kMarket => Submitted(taker'.price_ticks)
    <3>1. taker'.type = new.type /\ taker'.price_ticks = OrderPrice(new)
      BY <1>2 DEF Accept
    <3>2. Submitted(new.price_ticks)
      BY NewOrdersAssumption DEF Submitted
    <3> QED
      BY <3>1, <3>2 DEF OrderPrice
  <2> QED
    BY <2>2, <2>3 DEF PricesSubmitted, Submitted
<1>3. ASSUME Fill PROVE PricesSubmitted'
  <2>1. \/ Leaves(BestLevelHead)
        \/ Shrinks(BestLevelHead, SmallerOf(taker.remaining, slots[BestLevelHead].remaining))
    BY <1>3, FillPreserves
  <2>2. BestLevelHead \in Index /\ slots \in [Index -> Order]
    BY <1>3, HeadRests, BookInvFacts DEF Fill
  <2>3. Resting' \subseteq Resting /\ \A i \in Resting' : slots'[i].price_ticks = slots[i].price_ticks
    <3>1. CASE Leaves(BestLevelHead)
      BY <3>1 DEF Leaves, SameOrders, SameOrder
    <3>2. CASE Shrinks(BestLevelHead, SmallerOf(taker.remaining, slots[BestLevelHead].remaining))
      <4>1. slots[BestLevelHead] \in Order
        BY <2>2
      <4>2. slots'[BestLevelHead].price_ticks = slots[BestLevelHead].price_ticks
        BY <3>2, <4>1 DEF Shrinks, Order
      <4> QED
        BY <3>2, <4>2 DEF Shrinks, SameOrders, SameOrder
    <3> QED
      BY <2>1, <3>1, <3>2
  <2>4. ~Idle /\ taker'.type = taker.type /\ taker'.price_ticks = taker.price_ticks
    <3>1. taker \in TakerType
      BY DEF BookInv
    <3> QED
      BY <1>3, <3>1 DEF Fill, TakerType
  <2> QED
    BY <2>3, <2>4, FewerSubmitted
<1>4. ASSUME DropTaker PROVE PricesSubmitted'
  <2>1. Resting' = Resting /\ SameOrders(Resting) /\ Idle'
    BY <1>4, DropTakerPreserves DEF Stays, DropTaker, Idle
  <2> QED
    BY <2>1, FewerSubmitted DEF SameOrders, SameOrder
<1>5. ASSUME RestTaker PROVE PricesSubmitted'
  <2>1. PICK k : k = index_of(taker.order_id)
    OBVIOUS
  <2>2. /\ Resting' = Resting \union {k} /\ SameOrders(Resting)
        /\ slots'[k].price_ticks = taker.price_ticks /\ Idle'
    BY <1>5, <2>1, RestTakerPreserves DEF Joins, RestTaker, Idle
  <2>3. ~Idle /\ taker.type = kLimit /\ kLimit # kMarket
    BY <1>5 DEF RestTaker, Drops, kLimit, kMarket
  <2>4. Submitted(slots'[k].price_ticks)
    BY <2>2, <2>3 DEF PricesSubmitted
  <2>5. \A i \in Resting' : Submitted(slots'[i].price_ticks)
    BY <2>2, <2>4 DEF PricesSubmitted, SameOrders, SameOrder
  <2> QED
    BY <2>2, <2>5 DEF PricesSubmitted, Submitted
<1>6. ASSUME NEW id \in CancelIds, CancelOpen(id) PROVE PricesSubmitted'
  <2>1. Leaves(index_of(id)) /\ Idle'
    BY <1>6, CancelOpenPreserves DEF CancelOpen, Idle
  <2> QED
    BY <2>1, FewerSubmitted DEF Leaves, SameOrders, SameOrder
<1> QED
  BY <1>1, <1>2, <1>3, <1>4, <1>5, <1>6
  DEF BookNext, Add, Sweep, Cancel, AddInvalid, AddToFullPool, RejectAdd, CancelUnknown, bookVars

LEMMA NaiveExtremes ==
    ASSUME NEW P, P \subseteq Int, NEW b \in P
    PROVE  /\ (\A p \in P : b >= p) => N!Max(P) = b
           /\ (\A p \in P : b <= p) => N!Min(P) = b
<1>1. ASSUME \A p \in P : b >= p PROVE N!Max(P) = b
  <2>1. PICK c : c = N!Max(P)
    OBVIOUS
  <2>2. c = CHOOSE x \in P : \A y \in P : x >= y
    BY <2>1 DEF N!Max
  <2>3. c \in P /\ \A y \in P : c >= y
    BY <1>1, <2>2, Zenon
  <2>4. c >= b /\ b >= c /\ b \in Int /\ c \in Int
    BY <1>1, <2>3
  <2> QED
    BY <2>1, <2>4
<1>2. ASSUME \A p \in P : b <= p PROVE N!Min(P) = b
  <2>1. PICK c : c = N!Min(P)
    OBVIOUS
  <2>2. c = CHOOSE x \in P : \A y \in P : x <= y
    BY <2>1 DEF N!Min
  <2>3. c \in P /\ \A y \in P : c <= y
    BY <1>2, <2>2, Zenon
  <2>4. c <= b /\ b <= c /\ b \in Int /\ c \in Int
    BY <1>2, <2>3
  <2> QED
    BY <2>1, <2>4
<1> QED
  BY <1>1, <1>2

LEMMA NaivePrices ==
    ASSUME BookInv, NEW side \in Sides
    PROVE  /\ DOMAIN naiveLevels[side] = RestingPrices(side)
           /\ SideEmpty(side) <=> DOMAIN naiveLevels[side] = {}
           /\ ~SideEmpty(side) => /\ N!BestPrice(side) = best_price(side)
                                  /\ best_price(side) \in DOMAIN naiveLevels[side]
<1>0. Structure(slots, ladder, Resting) /\ Resting \subseteq LiveSlots
  BY BookInvFacts
<1>1. DOMAIN naiveLevels[side] = RestingPrices(side)
  BY DEF naiveLevels
<1>2. PICK P : P = RestingPrices(side)
  OBVIOUS
<1>3. /\ SideEmpty(side) <=> P = {}
      /\ P # {} => /\ best_price(side) \in P
                   /\ \A p \in P : ~IsBetter(side, p, best_price(side))
      /\ P \subseteq Int
  BY <1>0, <1>2, BestIsTrue, PricesAreThoseOfOrders
<1>4. ASSUME P # {} PROVE N!BestPrice(side) = best_price(side)
  <2>1. PICK b : b = best_price(side)
    OBVIOUS
  <2>2. b \in P /\ b \in Int /\ \A p \in P : p \in Int /\ ~IsBetter(side, p, b)
    BY <1>3, <1>4, <2>1
  <2>3. CASE side = kBuy
    <3>1. \A p \in P : b >= p
      BY <2>2, <2>3 DEF IsBetter
    <3>2. N!Max(P) = b
      BY <1>3, <2>2, <3>1, NaiveExtremes
    <3> QED
      BY <1>1, <1>2, <2>1, <2>3, <3>2, NaiveWords DEF N!BestPrice
  <2>4. CASE side # kBuy
    <3>1. \A p \in P : b <= p
      BY <2>2, <2>4 DEF IsBetter
    <3>2. N!Min(P) = b
      BY <1>3, <2>2, <3>1, NaiveExtremes
    <3> QED
      BY <1>1, <1>2, <2>1, <2>4, <3>2, NaiveWords DEF N!BestPrice
  <2> QED
    BY <2>3, <2>4
<1> QED
  BY <1>1, <1>2, <1>3, <1>4

LEMMA NaiveMatches ==
    ASSUME BookInv, PricesSubmitted, ~Idle
    PROVE  N!MatchContinues <=> MatchContinues
<1>1. PICK side : side = Opposite(taker.side)
  OBVIOUS
<1>2. side \in Sides /\ taker.side \in Sides /\ taker.price_ticks \in Int /\ taker.remaining \in Nat
      /\ (taker.side = kBuy \/ taker.side = kSell) /\ kBuy # kSell
  BY <1>1, TakerFacts, SidesFacts DEF BookInv
<1>3. /\ SideEmpty(side) <=> DOMAIN naiveLevels[side] = {}
      /\ ~SideEmpty(side) => /\ N!BestPrice(side) = best_price(side)
                             /\ best_price(side) \in RestingPrices(side)
  BY <1>2, NaivePrices
<1>4. ~SideEmpty(side) => best_price(side) \in kMinPrice .. kMaxPrice
  <2> SUFFICES ASSUME ~SideEmpty(side) PROVE best_price(side) \in kMinPrice .. kMaxPrice
    OBVIOUS
  <2>1. PICK i \in Sided(Resting, side) : slots[i].price_ticks = best_price(side)
    BY <1>2, <1>3, BookInvFacts, PricesAreThoseOfOrders
  <2> QED
    BY <2>1 DEF Sided, PricesSubmitted, Submitted
<1>5. N!Opposite(taker.side) = side
  BY <1>1, NaiveWords
<1>6. N!MatchContinues <=>
         /\ taker.remaining > 0
         /\ DOMAIN naiveLevels[side] # {}
         /\ \/ taker.type = kMarket
            \/ taker.side = kBuy /\ N!BestPrice(side) <= taker.price_ticks
            \/ taker.side = kSell /\ N!BestPrice(side) >= taker.price_ticks
  BY <1>5, NaiveWords DEF N!MatchContinues
<1>7. MatchContinues <=>
         /\ taker.remaining > 0
         /\ ~SideEmpty(side)
         /\ Crosses(taker.side, LimitPrice, best_price(side))
  BY <1>1 DEF MatchContinues
<1>8. ASSUME ~SideEmpty(side)
      PROVE  Crosses(taker.side, LimitPrice, best_price(side)) <=>
                \/ taker.type = kMarket
                \/ taker.side = kBuy /\ best_price(side) <= taker.price_ticks
                \/ taker.side = kSell /\ best_price(side) >= taker.price_ticks
  <2>1. PICK b : b = best_price(side)
    OBVIOUS
  <2>2. b \in kMinPrice .. kMaxPrice /\ kMinPrice \in Int /\ kMaxPrice \in Int
    BY <1>4, <1>8, <2>1
  <2> QED
    BY <1>2, <2>1, <2>2 DEF Crosses, LimitPrice
<1> QED
  BY <1>3, <1>6, <1>7, <1>8

-----------------------------------------------------------------------------
(* The actions of matching.                                                 *)
LEMMA FreshForNaive ==
    /\ kDummyId \in N!FreshIds
    /\ \A id \in CancelIds : id # kInvalidOrderId => id \in N!FreshIds
    /\ \A id \in CancelIds : id \in CancelIds \union {kDummyId}
<1>1. kDummyId # kInvalidOrderId
  BY DEF kDummyId, kInvalidOrderId, make_order_id
<1> QED
  BY <1>1, NaiveWords DEF N!FreshIds

LEMMA NaiveAddInvalid ==
    ASSUME BookInv, NEW new \in NewOrders, AddInvalid(new)
    PROVE  N!AddInvalid(kDummyId, new)
<1>1. UNCHANGED <<slots, free_head, live_count, ladder, taker>> /\ Idle
  BY DEF AddInvalid, RejectAdd
<1>2. UNCHANGED <<naiveLevels, naiveIndex, taker>> /\ N!Idle
  BY <1>1, OracleIdles, NaiveIdle
<1>3. ASSUME NEW reason \in {kInvalidQty, kInvalidPrice}, RejectAdd(new, reason)
      PROVE  naiveOut' = <<N!MakeEvent(N!kRejected, new.side, reason, new.qty, 0,
                                       new.price_ticks, kDummyId)>>
  <2>1. PICK e : e = MakeEvent(kRejected, new.side, reason, new.qty, 0, new.price_ticks,
                               kInvalidOrderId)
    OBVIOUS
  <2>2. out' = <<e>>
    BY <1>3, <2>1 DEF RejectAdd
  <2>3. IsAddReject(e)
    BY <1>3, <2>1, EventIsAddReject, ReasonsDiffer
  <2>4. naiveOut' = <<[e EXCEPT !.order_id = kDummyId]>>
    BY <2>2, <2>3, SameEvents
  <2>5. [e EXCEPT !.order_id = kDummyId]
           = MakeEvent(kRejected, new.side, reason, new.qty, 0, new.price_ticks, kDummyId)
    BY <2>1 DEF MakeEvent
  <2> QED
    BY <2>4, <2>5, NaiveEvents, NaiveWords
<1>4. CASE ~ValidQty(new) /\ RejectAdd(new, kInvalidQty)
  <2>1. new.qty = 0
    BY <1>4 DEF ValidQty
  <2> QED
    BY <1>2, <1>3, <1>4, <2>1, NaiveWords DEF N!AddInvalid, N!Reject
<1>5. CASE ValidQty(new) /\ ~ValidPrice(new) /\ RejectAdd(new, kInvalidPrice)
  <2>1. new.qty # 0 /\ new.type # kMarket /\ ~(new.price_ticks > 0) /\ new.price_ticks \in Int
    BY <1>5, NewOrdersAssumption DEF ValidQty, ValidPrice, NewOrder
  <2>2. new.price_ticks <= 0
    BY <2>1
  <2> QED
    BY <1>2, <1>3, <1>5, <2>1, <2>2, NaiveWords DEF N!AddInvalid, N!Reject
<1> QED
  BY <1>4, <1>5 DEF AddInvalid

LEMMA NaiveFullPool ==
    ASSUME BookInv, NEW new \in NewOrders, AddToFullPool(new)
    PROVE  FullPoolReject
<1>1. UNCHANGED <<slots, free_head, live_count, ladder, taker>>
  BY DEF AddToFullPool, RejectAdd
<1>2. UNCHANGED <<naiveLevels, naiveIndex, taker>>
  BY <1>1, OracleIdles
<1>3. PICK e : e = MakeEvent(kRejected, new.side, kPoolExhausted, new.qty, 0, new.price_ticks,
                             kInvalidOrderId)
  OBVIOUS
<1>4. out' = <<e>>
  BY <1>3 DEF AddToFullPool, RejectAdd
<1>5. IsAddReject(e)
  BY <1>3, EventIsAddReject, ReasonsDiffer
<1>6. naiveOut' = <<[e EXCEPT !.order_id = kDummyId]>>
  BY <1>4, <1>5, SameEvents
<1>7. [e EXCEPT !.order_id = kDummyId]
         = MakeEvent(kRejected, new.side, kPoolExhausted, new.qty, 0, new.price_ticks, kDummyId)
  BY <1>3 DEF MakeEvent
<1> QED
  BY <1>2, <1>6, <1>7 DEF FullPoolReject

LEMMA MintedIdIsNew ==
    ASSUME BookInv, Alloc
    PROVE  MintedId \in CancelIds /\ MintedId # kInvalidOrderId /\ MintedId \notin DOMAIN naiveIndex
<1>1. PICK h \in Index : /\ h = free_head /\ ~Live(h)
                         /\ MintedId = <<NextGeneration(slots[h].generation), h>>
                         /\ NextGeneration(slots[h].generation) \in 1 .. MaxGeneration
  BY AllocEffect DEF BookInv
<1>2. MintedId \in CancelIds
  <2>1. h \in 0 .. Capacity /\ NextGeneration(slots[h].generation) \in Generation
    BY <1>1 DEF Index, Generation
  <2> QED
    BY <1>1, <2>1 DEF CancelIds
<1>3. MintedId # kInvalidOrderId
  BY <1>1 DEF kInvalidOrderId, make_order_id
<1>4. ASSUME MintedId \in DOMAIN naiveIndex PROVE FALSE
  <2>1. PICK i \in Resting : slots[i].order_id = MintedId /\ index_of(MintedId) = i
    BY <1>4, IndexShown DEF ShowsIndex
  <2>2. i = h
    BY <1>1, <2>1 DEF index_of
  <2> QED
    BY <1>1, <2>2 DEF Resting, LiveSlots
<1> QED
  BY <1>2, <1>3, <1>4

LEMMA NaiveAccept ==
    ASSUME BookInv, NEW new \in NewOrders, Accept(new)
    PROVE  MintedId \in N!FreshIds /\ N!Accept(MintedId, new)
<1>1. PICK id : id = MintedId
  OBVIOUS
<1>2. id \in N!FreshIds /\ ~N!Open(id)
  BY <1>1, MintedIdIsNew, FreshForNaive, NaiveLists DEF Accept
<1>3. UNCHANGED <<naiveLevels, naiveIndex>>
  BY AcceptPreserves, OracleStays
<1>4. PICK price : price = OrderPrice(new)
  OBVIOUS
<1>5. naiveOut' = <<N!MakeEvent(N!kAccepted, new.side, N!kNone, new.qty, new.qty, price, id)>>
  <2>1. PICK e : e = MakeEvent(kAccepted, new.side, kNone, new.qty, new.qty, price, id)
    OBVIOUS
  <2>2. out' = <<e>> /\ ~IsAddReject(e)
    BY <1>1, <1>4, <2>1, EventIsAddReject, KindsDiffer DEF Accept
  <2>3. naiveOut' = <<e>>
    BY <2>2, SameEvents
  <2> QED
    BY <2>1, <2>3, NaiveEvents, NaiveWords
<1>6. taker' = [order_id |-> id, side |-> new.side, type |-> new.type,
                price_ticks |-> price, qty |-> new.qty, remaining |-> new.qty]
  BY <1>1, <1>4 DEF Accept
<1>7. /\ N!Idle /\ new.qty # 0 /\ (new.type = N!kMarket \/ new.price_ticks > 0)
      /\ price = IF new.type = N!kMarket THEN 0 ELSE new.price_ticks
  BY <1>4, NaiveIdle, NaiveWords DEF Accept, ValidQty, ValidPrice, OrderPrice
<1>8. N!Accept(id, new)
  <2>1. taker' = [order_id |-> id, side |-> new.side, type |-> new.type,
                  price_ticks |-> IF new.type = N!kMarket THEN 0 ELSE new.price_ticks,
                  qty |-> new.qty, remaining |-> new.qty]
    BY ONLY <1>6, <1>7
  <2>2. naiveOut' = <<N!MakeEvent(N!kAccepted, new.side, N!kNone, new.qty, new.qty,
                                  IF new.type = N!kMarket THEN 0 ELSE new.price_ticks, id)>>
    BY ONLY <1>5, <1>7
  <2>3. /\ N!Idle /\ new.qty # 0 /\ (new.type = N!kMarket \/ new.price_ticks > 0)
        /\ ~N!Open(id) /\ naiveLevels' = naiveLevels /\ naiveIndex' = naiveIndex
    BY <1>2, <1>3, <1>7
  <2> QED
    BY ONLY <2>1, <2>2, <2>3, Zenon DEF N!Accept
<1> QED
  BY <1>1, <1>2, <1>8

LEMMA NaiveCancelUnknown ==
    ASSUME BookInv, NEW id \in CancelIds, CancelUnknown(id)
    PROVE  N!Cancel(id)
<1>1. UNCHANGED <<slots, free_head, live_count, ladder, taker>> /\ N!Idle
  BY NaiveIdle DEF CancelUnknown
<1>2. UNCHANGED <<naiveLevels, naiveIndex, taker>>
  BY <1>1, OracleIdles
<1>3. ~N!Open(id)
  <2>1. SUFFICES ASSUME id \in DOMAIN naiveIndex PROVE Found(id)
    BY NaiveLists DEF CancelUnknown
  <2>2. PICK i \in Resting : slots[i].order_id = id /\ index_of(id) = i
    BY <2>1, IndexShown DEF ShowsIndex
  <2>3. i \in Index /\ Live(i)
    BY <2>2 DEF Resting, LiveSlots
  <2> QED
    BY <2>2, <2>3 DEF Found, Live
<1>4. naiveOut' = <<N!MakeEvent(N!kRejected, N!kBuy, N!kUnknownOrder, 0, 0, 0, id)>>
  <2>1. PICK e : e = MakeEvent(kRejected, kBuy, kUnknownOrder, 0, 0, 0, id)
    OBVIOUS
  <2>2. out' = <<e>> /\ ~IsAddReject(e)
    BY <2>1, EventIsAddReject DEF CancelUnknown
  <2>3. naiveOut' = <<e>>
    BY <2>2, SameEvents
  <2> QED
    BY <2>1, <2>3, NaiveEvents, NaiveWords
<1> QED
  BY <1>1, <1>2, <1>3, <1>4 DEF N!Cancel, N!Reject

LEMMA NaiveDrops ==
    ASSUME BookInv, PricesSubmitted, DropTaker
    PROVE  N!Drop
<1>1. UNCHANGED <<naiveLevels, naiveIndex>>
  BY DropTakerPreserves, OracleStays
<1>2. /\ ~N!Idle /\ ~N!MatchContinues /\ taker' = N!NoTaker
      /\ taker.remaining = 0 \/ taker.type # N!kLimit
  BY NaiveIdle, NaiveMatches, NaiveWords DEF DropTaker, Drops
<1>3. naiveOut' = IF taker.remaining = 0 THEN <<>>
                  ELSE <<N!MakeEvent(N!kCanceled, taker.side, N!kNone, taker.remaining, 0,
                                     taker.price_ticks, taker.order_id)>>
  <2>1. CASE taker.remaining = 0
    <3>1. out' = <<>>
      BY <2>1 DEF DropTaker
    <3> QED
      BY <2>1, <3>1, SameEvents
  <2>2. CASE taker.remaining # 0
    <3>1. PICK e : e = MakeEvent(kCanceled, taker.side, kNone, taker.remaining, 0,
                                 taker.price_ticks, taker.order_id)
      OBVIOUS
    <3>2. out' = <<e>> /\ ~IsAddReject(e)
      BY <2>2, <3>1, EventIsAddReject, KindsDiffer DEF DropTaker
    <3>3. naiveOut' = <<e>>
      BY <3>2, SameEvents
    <3> QED
      BY <2>2, <3>1, <3>3, NaiveEvents, NaiveWords
  <2> QED
    BY <2>1, <2>2
<1> QED
  BY <1>1, <1>2, <1>3 DEF N!Drop

LEMMA NaiveRestTaker ==
    ASSUME BookInv, PricesSubmitted, RestTaker
    PROVE  N!Rest
<1>1. PICK i : i = index_of(taker.order_id)
  OBVIOUS
<1>2. BookInv' /\ KeepsPlaces /\ Joins(i, taker.side, taker.price_ticks, taker.remaining)
      /\ slots'[i].order_id = taker.order_id /\ slots'[i].qty = taker.qty
  BY <1>1, RestTakerPreserves
<1>3. PICK order : order = OrderIn(slots', i)
  OBVIOUS
<1>4. order = [id |-> taker.order_id, qty |-> taker.qty, remaining |-> taker.remaining]
  BY <1>2, <1>3 DEF OrderIn, Joins
<1>5. taker.side \in Sides /\ taker.price_ticks \in Int /\ taker.remaining \in Nat
  BY TakerFacts DEF BookInv
<1>6. N!Linked(taker.side, taker.price_ticks, order)
  BY <1>2, <1>3, <1>5, NaiveRests
<1>7. /\ ~N!Idle /\ ~N!MatchContinues /\ taker' = N!NoTaker
      /\ taker.remaining > 0 /\ taker.type = N!kLimit
  BY <1>5, NaiveIdle, NaiveMatches, NaiveWords DEF RestTaker, Drops
<1>8. naiveOut' = <<>>
  BY SameEvents DEF RestTaker
<1> QED
  BY <1>4, <1>6, <1>7, <1>8 DEF N!Rest

FilledMaps(side, price, level, maker, fill, left) ==
    /\ naiveLevels' = N!StoredLevel(side, price,
                          (IF left = 0 THEN <<>> ELSE <<[maker EXCEPT !.remaining = left]>>)
                          \o Tail(level))
    /\ naiveIndex' = [id \in DOMAIN naiveIndex \ (IF left = 0 THEN {maker.id} ELSE {}) |->
                         naiveIndex[id]]

(* What a fill does to the maps, whether the maker leaves or keeps its      *)
(* place at the head of its list.                                           *)
LEMMA FillInMaps ==
    ASSUME BookInv, Fill, NEW i, i = BestLevelHead, NEW fill,
           fill = SmallerOf(taker.remaining, slots[i].remaining),
           NEW side, side = slots[i].side, NEW price, price = slots[i].price_ticks,
           NEW level, level = Oracle(side, price)
    PROVE  /\ level \in Seq(OracleOrder) /\ level # <<>> /\ level[1] = OrderIn(slots, i)
           /\ FilledMaps(side, price, level, level[1], fill, slots[i].remaining - fill)
<1>1. /\ i \in Resting /\ i \in Index /\ slots[i].remaining \in Nat
      /\ side \in Sides /\ price \in Int
      /\ side = Opposite(taker.side) /\ price = best_price(side)
  BY HeadRests DEF Fill
<1>2. BookInv' /\ KeepsPlaces
  BY FillPreserves
<1>3. \/ fill = slots[i].remaining /\ Leaves(i)
      \/ fill < slots[i].remaining /\ Shrinks(i, fill)
  BY FillPreserves
<1>4. fill \in Nat
  BY TakerAfterFill
<1>5. i = LevelIn(ladder[side], price).head_idx
  BY <1>1, LevelAtIsIn DEF BestLevelHead
<1>6. level \in Seq(OracleOrder) /\ slots \in [Index -> Order]
  BY <1>1, OracleType, BookInvFacts
<1>7. PICK maker, left : maker = OrderIn(slots, i) /\ left = slots[i].remaining - fill
  OBVIOUS
<1>8. CASE fill = slots[i].remaining /\ Leaves(i)
  <2>1. PICK id : id = slots[i].order_id
    OBVIOUS
  <2>2. OrderGone(i, side, price, id, level)
    BY <1>2, <1>8, <2>1, OracleLoses
  <2>3. PICK k \in 1 .. Len(level) :
           /\ level[k] = OrderIn(slots, i) /\ k = 1
           /\ naiveLevels' = StoredAt(naiveLevels, side, price, Without(level, Len(level), k))
    BY <1>5, <2>2 DEF OrderGone
  <2>4. naiveIndex' = [open \in DOMAIN naiveIndex \ {id} |-> naiveIndex[open]]
    BY <2>2 DEF OrderGone
  <2>5. level # <<>> /\ level[1] = maker
    BY <1>6, <1>7, <2>3, EmptySeq
  <2>6. <<>> \o Tail(level) = Without(level, Len(level), 1)
    BY <1>6, <2>5, TailIsWithout
  <2>7. naiveLevels' = N!StoredLevel(side, price, <<>> \o Tail(level))
    BY <2>3, <2>6, NaiveLists
  <2>8. left = 0 /\ maker.id = id
    BY <1>1, <1>7, <1>8, <2>1 DEF OrderIn
  <2> QED
    BY <1>6, <1>7, <2>4, <2>5, <2>7, <2>8 DEF FilledMaps
<1>9. CASE fill < slots[i].remaining /\ Shrinks(i, fill)
  <2>1. PICK after : after = OrderIn(slots', i)
    OBVIOUS
  <2>2. /\ level # <<>> /\ level[1] = maker
        /\ naiveLevels' = StoredAt(naiveLevels, side, price, WithHead(level, Len(level), after))
        /\ naiveIndex' = naiveIndex
    <3>1. OrderDebited(i, side, price, level, after)
      BY <1>2, <1>5, <1>9, <2>1, OracleShrinks
    <3> QED
      BY <1>7, <3>1 DEF OrderDebited
  <2>3. slots'[i] = [slots[i] EXCEPT !.remaining = left]
    BY <1>1, <1>6, <1>7, <1>9 DEF Shrinks
  <2>4. /\ slots'[i].remaining = left /\ slots'[i].order_id = slots[i].order_id
        /\ slots'[i].qty = slots[i].qty
    BY <1>1, <1>6, <2>3, OrderFields DEF Order
  <2>5. after = [maker EXCEPT !.remaining = left]
    BY <1>7, <2>1, <2>4 DEF OrderIn
  <2>6. left \in Nat /\ left # 0
    BY <1>1, <1>4, <1>7, <1>9
  <2>7. maker \in OracleOrder
    BY <1>6, <2>2, TailIsWithout
  <2>8. after \in OracleOrder
    BY <2>5, <2>6, <2>7 DEF OracleOrder
  <2>9. <<after>> \o Tail(level) = WithHead(level, Len(level), after)
    BY <1>6, <2>2, <2>8, HeadReplaced
  <2>10. naiveLevels' = N!StoredLevel(side, price, <<after>> \o Tail(level))
    BY <2>2, <2>9, NaiveLists
  <2>11. naiveIndex' = [id \in DOMAIN naiveIndex \ {} |-> naiveIndex[id]]
    <3>1. naiveIndex = [id \in DOMAIN naiveIndex |-> naiveIndex[id]]
      BY IndexShown DEF ShowsIndex
    <3>2. DOMAIN naiveIndex \ {} = DOMAIN naiveIndex
      OBVIOUS
    <3> QED
      BY ONLY <2>2, <3>1, <3>2, Zenon
  <2> QED
    BY <1>6, <1>7, <2>2, <2>5, <2>6, <2>10, <2>11 DEF FilledMaps
<1> QED
  BY <1>3, <1>8, <1>9

LEMMA NaiveFill ==
    ASSUME BookInv, PricesSubmitted, Fill
    PROVE  N!Fill
<1>1. PICK i : i = BestLevelHead
  OBVIOUS
<1>2. PICK side, price : side = slots[i].side /\ price = slots[i].price_ticks
  OBVIOUS
<1>3. PICK fill : fill = SmallerOf(taker.remaining, slots[i].remaining)
  OBVIOUS
<1>4. PICK level : level = Oracle(side, price)
  OBVIOUS
<1>5. /\ level \in Seq(OracleOrder) /\ level # <<>> /\ level[1] = OrderIn(slots, i)
      /\ FilledMaps(side, price, level, level[1], fill, slots[i].remaining - fill)
  BY <1>1, <1>2, <1>3, <1>4, FillInMaps
<1>6. PICK maker : maker = OrderIn(slots, i)
  OBVIOUS
<1>7. Head(level) = maker
  BY <1>5, <1>6, TailIsWithout
<1>8. /\ side \in Sides /\ price \in Int /\ slots[i].remaining \in Nat
      /\ side = Opposite(taker.side) /\ price = best_price(side)
  BY <1>1, <1>2, HeadRests DEF Fill
<1>9. ~Idle /\ MatchContinues /\ ~SideEmpty(side)
  BY <1>8 DEF Fill, MatchContinues
<1>10. N!BestPrice(side) = price /\ price \in DOMAIN naiveLevels[side]
  BY <1>8, <1>9, NaivePrices
<1>11. naiveLevels[side][price] = level
  BY <1>4, <1>10 DEF Oracle, AtPrice
<1>12. maker.remaining = slots[i].remaining /\ maker.id = slots[i].order_id
  BY <1>6 DEF OrderIn
<1>13. N!Min({taker.remaining, maker.remaining}) = fill
  <2>1. taker.remaining \in Nat /\ maker.remaining \in Nat
    BY <1>8, <1>12, TakerFacts DEF BookInv
  <2>2. fill \in {taker.remaining, maker.remaining}
        /\ \A p \in {taker.remaining, maker.remaining} : fill <= p
    BY <1>3, <1>12, <2>1 DEF SmallerOf
  <2>3. {taker.remaining, maker.remaining} \subseteq Int
    BY <2>1
  <2> QED
    BY ONLY <2>2, <2>3, NaiveExtremes
<1>14. PICK left : left = maker.remaining - fill
  OBVIOUS
<1>15. FilledMaps(side, price, level, maker, fill, left)
  BY <1>5, <1>6, <1>12, <1>14
<1>16. taker' = [taker EXCEPT !.remaining = @ - fill]
  BY <1>1, <1>3, TakerAfterFill
<1>17. naiveOut' = <<N!MakeEvent(N!kTraded, side, N!kNone, fill, left, price, maker.id),
                     N!MakeEvent(N!kTraded, taker.side, N!kNone, fill, taker.remaining - fill,
                                 price, taker.order_id)>>
  <2>1. PICK d, e :
           /\ d = MakeEvent(kTraded, side, kNone, fill, left, price, maker.id)
           /\ e = MakeEvent(kTraded, taker.side, kNone, fill, taker.remaining - fill,
                            price, taker.order_id)
    OBVIOUS
  <2>2. out' = FillEvents(slots[i], fill)
    BY <1>1, <1>3 DEF Fill
  <2>3. out' = <<d, e>>
    BY <1>2, <1>12, <1>14, <2>1, <2>2 DEF FillEvents
  <2>4. ~IsAddReject(d) /\ ~IsAddReject(e)
    BY <2>1, EventIsAddReject, KindsDiffer
  <2>5. naiveOut' = <<d, e>>
    BY <2>3, <2>4, SameEvents
  <2> QED
    BY <2>1, <2>5, NaiveEvents, NaiveWords
<1>18. ~N!Idle /\ N!MatchContinues /\ N!Opposite(taker.side) = side
  BY <1>8, <1>9, NaiveIdle, NaiveMatches, NaiveWords
<1> QED
  BY ONLY <1>7, <1>10, <1>11, <1>13, <1>14, <1>15, <1>16, <1>17, <1>18 DEF N!Fill, FilledMaps

LEMMA NaiveInit == BookInit => N!Init /\ PricesSubmitted
<1> SUFFICES ASSUME BookInit PROVE N!Init /\ PricesSubmitted
  OBVIOUS
<1>1. BookInv /\ Idle
  BY InitEstablishes DEF BookInit, Idle
<1>2. Resting = {}
  BY DEF BookInit, PoolInit, FreshSlot, LiveSlots, Live, Resting
<1>3. naiveIndex = [id \in {} |-> <<>>]
  <2>1. PICK I : I = naiveIndex
    OBVIOUS
  <2>2. I = [id \in DOMAIN I |-> I[id]] /\ DOMAIN I = {}
    BY <1>1, <1>2, <2>1, IndexShown DEF ShowsIndex
  <2> QED
    BY ONLY <2>1, <2>2
<1>4. naiveLevels = [side \in Sides |-> [p \in {} |-> <<>>]]
  <2>1. PICK L : L = naiveLevels
    OBVIOUS
  <2>2. L \in PriceMaps(Sides, OracleOrder)
    BY <1>1, <2>1, ListsShown DEF ShowsLists
  <2>3. ASSUME NEW side \in Sides PROVE L[side] = [p \in {} |-> <<>>]
    <3>1. DOMAIN naiveLevels[side] = RestingPrices(side)
      BY <1>1, NaivePrices
    <3>2. RestingPrices(side) = {}
      BY <1>1, <1>2, BookInvFacts, PricesAreThoseOfOrders DEF Sided
    <3>3. PICK P : L[side] \in [P -> Seq(OracleOrder) \ {<<>>}]
      <4>1. L[side] \in UNION {[P -> Seq(OracleOrder) \ {<<>>}] : P \in SUBSET Int}
        BY <2>2 DEF PriceMaps
      <4> QED
        BY ONLY <4>1
    <3>4. DOMAIN L[side] = {}
      BY <2>1, <3>1, <3>2
    <3> QED
      BY ONLY <3>3, <3>4
  <2>4. L = [side \in Sides |-> L[side]]
    BY <2>2 DEF PriceMaps
  <2> QED
    BY ONLY <2>1, <2>3, <2>4
<1>5. naiveOut = <<>>
  BY DEF naiveOut, BookInit
<1>6. taker = N!NoTaker
  BY NaiveIdle DEF BookInit
<1>7. PricesSubmitted
  BY <1>1, <1>2 DEF PricesSubmitted
<1> QED
  BY <1>3, <1>4, <1>5, <1>6, <1>7, NaiveWords DEF N!Init

LEMMA NaiveStep ==
    BookInv /\ PricesSubmitted /\ [BookNext]_bookVars =>
        [N!MatchingNext \/ FullPoolReject]_<<naiveLevels, naiveIndex, taker, naiveOut>>
<1> SUFFICES ASSUME BookInv, PricesSubmitted, [BookNext]_bookVars
             PROVE  \/ N!MatchingNext \/ FullPoolReject
                    \/ UNCHANGED <<naiveLevels, naiveIndex, taker, naiveOut>>
  OBVIOUS
<1>1. ASSUME NEW new \in NewOrders, AddInvalid(new) PROVE N!MatchingNext
  <2>1. N!AddInvalid(kDummyId, new) /\ kDummyId \in N!FreshIds
    BY <1>1, NaiveAddInvalid, FreshForNaive
  <2> QED
    BY ONLY <2>1, new \in NewOrders DEF N!MatchingNext
<1>2. ASSUME NEW new \in NewOrders, AddToFullPool(new) PROVE FullPoolReject
  BY <1>2, NaiveFullPool
<1>3. ASSUME NEW new \in NewOrders, Accept(new) PROVE N!MatchingNext
  <2>1. PICK id : id \in N!FreshIds /\ N!Accept(id, new)
    BY <1>3, NaiveAccept
  <2> QED
    BY ONLY <2>1, new \in NewOrders DEF N!MatchingNext
<1>4. CASE Fill
  BY <1>4, NaiveFill DEF N!MatchingNext
<1>5. CASE DropTaker
  BY <1>5, NaiveDrops DEF N!MatchingNext
<1>6. CASE RestTaker
  BY <1>6, NaiveRestTaker DEF N!MatchingNext
<1>7. ASSUME NEW id \in CancelIds, CancelOpen(id) \/ CancelUnknown(id) PROVE N!MatchingNext
  <2>1. N!Cancel(id) /\ id \in CancelIds \union {kDummyId}
    BY <1>7, NaiveCancels, NaiveCancelUnknown
  <2> QED
    BY ONLY <2>1 DEF N!MatchingNext
<1>8. ASSUME UNCHANGED bookVars
      PROVE  UNCHANGED <<naiveLevels, naiveIndex, taker, naiveOut>>
  <2>1. UNCHANGED <<naiveLevels, naiveIndex, taker>>
    BY <1>8, OracleIdles DEF bookVars
  <2>2. naiveOut' = naiveOut
    BY <1>8 DEF bookVars, naiveOut
  <2> QED
    BY <2>1, <2>2
<1> QED
  BY <1>1, <1>2, <1>3, <1>4, <1>5, <1>6, <1>7, <1>8 DEF BookNext, Add, Sweep, Cancel

(* The book is an implementation of its executable specification            *)
(* (naive_book.h): whatever is submitted and canceled, in whatever order,   *)
(* it goes through the states of the naive book and emits its events, but   *)
(* for the rejects of a full pool, which leave the book as it was.          *)
THEOREM BookImplementsNaive == BookSpec => ImplementsNaive
<1>1. BookInit => BookInv /\ PricesSubmitted /\ N!Init
  BY InitEstablishes, NaiveInit
<1>2. BookInv /\ PricesSubmitted /\ [BookNext]_bookVars => (BookInv /\ PricesSubmitted)'
  BY BookStepPreserves, SubmittedStep
<1>3. BookInv /\ PricesSubmitted /\ [BookNext]_bookVars =>
        [N!MatchingNext \/ FullPoolReject]_<<naiveLevels, naiveIndex, taker, naiveOut>>
  BY NaiveStep
<1> QED
  BY <1>1, <1>2, <1>3, PTL DEF BookSpec, ImplementsNaive

-----------------------------------------------------------------------------
(* The queries.  qty_at adds up a list in whatever order, as a level's       *)
(* total does over the slots of its list.                                    *)
Picked(s) == CHOOSE x \in s : TRUE

ListQty(level, S) == [k \in S |-> level[k].remaining]

AddsUp(g, level, S) ==
    g = [X \in SUBSET S |->
            IF X = {} THEN 0 ELSE level[Picked(X)].remaining + g[X \ {Picked(X)}]]

LEMMA QtyAtExpanded ==
    \A side, price :
        N!qty_at(side, price)
          = (CHOOSE g : AddsUp(g, Oracle(side, price), DOMAIN Oracle(side, price)))
                [DOMAIN Oracle(side, price)] % QtyModulus
<1> TAKE side, price
<1>1. N!Level(side, price) = Oracle(side, price)
  BY NaiveLists
<1> QED
  BY ONLY <1>1, Zenon DEF N!qty_at, N!MapThenSumSet, N!MapThenFoldSet, AddsUp, Picked

LEMMA ListQtyAdds ==
    ASSUME NEW level, NEW S
    PROVE  (CHOOSE g : AddsUp(g, level, S))[S] = SumFunctionOnSet(ListQty(level, S), S)
<1>1. \A X \in SUBSET S : X # {} => Pick(X) = Picked(X) /\ Pick(X) \in S
  BY PickIn DEF Pick, Picked
<1>2. \A X \in SUBSET S : X # {} => ListQty(level, S)[Pick(X)] = level[Picked(X)].remaining
  BY <1>1 DEF ListQty
<1>3. \A g : AddsUp(g, level, S) <=> SumsTo(g, ListQty(level, S), S)
  <2> TAKE g
  <2> DEFINE A == [X \in SUBSET S |->
                     IF X = {} THEN 0 ELSE level[Picked(X)].remaining + g[X \ {Picked(X)}]]
             B == [X \in SUBSET S |->
                     IF X = {} THEN 0 ELSE ListQty(level, S)[Pick(X)] + g[X \ {Pick(X)}]]
  <2>1. A = B
    BY <1>1, <1>2
  <2> QED
    BY <2>1 DEF AddsUp, SumsTo
<1>4. (CHOOSE g : AddsUp(g, level, S)) = (CHOOSE g : SumsTo(g, ListQty(level, S), S))
  BY ONLY <1>3, Zenon
<1> QED
  BY <1>4, SumExpanded

(* The sum over the places of a list is the sum over what is at them.       *)
LEMMA SumOverPlaces ==
    ASSUME NEW I, IsFiniteSet(I), NEW f, \A i \in I : f[i] \in Int,
           NEW n \in Nat, NEW w \in [1 .. n -> I],
           \A j, k \in 1 .. n : w[j] = w[k] => j = k,
           NEW q, \A k \in 1 .. n : q[k] = f[w[k]]
    PROVE  SumFunctionOnSet(q, 1 .. n) = SumFunctionOnSet(f, {w[k] : k \in 1 .. n})
<1> DEFINE Placed(m) == {w[k] : k \in 1 .. m}
           D == {m \in Nat : m <= n => SumFunctionOnSet(q, 1 .. m) = SumFunctionOnSet(f, Placed(m))}
<1>1. 0 \in D
  <2>1. 1 .. 0 = {} /\ Placed(0) = {}
    OBVIOUS
  <2> QED
    BY <2>1, SumEmpty
<1>2. ASSUME NEW m \in Nat, m \in D PROVE m + 1 \in D
  <2> SUFFICES ASSUME m + 1 <= n
               PROVE  SumFunctionOnSet(q, 1 .. m + 1) = SumFunctionOnSet(f, Placed(m + 1))
    OBVIOUS
  <2>1. /\ 1 .. m + 1 = (1 .. m) \union {m + 1} /\ m + 1 \in (1 .. n) \ (1 .. m)
        /\ 1 .. m \in SUBSET (1 .. n)
    OBVIOUS
  <2>2. /\ Placed(m + 1) = Placed(m) \union {w[m + 1]} /\ Placed(m) \in SUBSET I
        /\ w[m + 1] \in I \ Placed(m)
    BY <2>1
  <2>3. IsFiniteSet(1 .. n) /\ \A k \in 1 .. n : q[k] \in Int
    <3>1. IsFiniteSet(1 .. n)
      BY FS_Interval
    <3>2. \A k \in 1 .. n : w[k] \in I /\ q[k] = f[w[k]]
      OBVIOUS
    <3> QED
      BY <3>1, <3>2
  <2>4. SumFunctionOnSet(q, (1 .. m) \union {m + 1}) = q[m + 1] + SumFunctionOnSet(q, 1 .. m)
    <3>1. PICK S, X, x : S = 1 .. n /\ X = 1 .. m /\ x = m + 1
      OBVIOUS
    <3>2. IsFiniteSet(S) /\ (\A k \in S : q[k] \in Int) /\ X \in SUBSET S /\ x \in S \ X
      BY <2>1, <2>3, <3>1
    <3>3. SumFunctionOnSet(q, X \union {x}) = q[x] + SumFunctionOnSet(q, X)
      BY ONLY <3>2, SumInsert
    <3> QED
      BY <3>1, <3>3
  <2> HIDE DEF Placed
  <2>5. SumFunctionOnSet(f, Placed(m) \union {w[m + 1]}) = f[w[m + 1]] + SumFunctionOnSet(f, Placed(m))
    BY <2>2, SumInsert
  <2>6. SumFunctionOnSet(q, 1 .. m) = SumFunctionOnSet(f, Placed(m))
    BY <1>2
  <2>7. q[m + 1] = f[w[m + 1]]
    BY <2>1
  <2> QED
    BY <2>1, <2>2, <2>4, <2>5, <2>6, <2>7
<1> HIDE DEF D
<1>3. n \in D
  BY <1>1, <1>2, NatSetInduction
<1> QED
  BY <1>3 DEF D

(* Between commands, a level of the ladder counts and adds up the orders of *)
(* its list.                                                                *)
LEMMA LevelQueries ==
    ASSUME BookInv, NEW side \in Sides, NEW price \in Int
    PROVE  /\ LevelAt(side, price).order_count = Len(Oracle(side, price))
           /\ LevelAt(side, price).total_qty \in Int
           /\ N!qty_at(side, price) = LevelAt(side, price).total_qty % QtyModulus
<1>1. PICK level, G : level = LevelIn(ladder[side], price) /\ G = Group(slots, Resting, side, price)
  OBVIOUS
<1>2. PICK w : IsList(slots, level, G, w)
  BY <1>1, BookInvFacts, StructureType DEF Listed
<1>3. PICK n : n = level.order_count
  OBVIOUS
<1>4. /\ n \in Nat /\ w \in [1 .. n -> Index]
      /\ \A j, k \in 1 .. n : w[j] = w[k] => j = k
      /\ G = {w[k] : k \in 1 .. n}
  <2>1. /\ n \in Nat /\ G \subseteq Index /\ w \in [1 .. n -> Index]
        /\ \A k \in 1 .. n : w[k] \in G
        /\ \A j, k \in 1 .. n : w[j] = w[k] => j = k
        /\ \A i \in G : \E k \in 1 .. n : w[k] = i
    BY ONLY <1>2, <1>3, ListParts
  <2> QED
    BY <2>1
<1>5. PICK list : list = Oracle(side, price)
  OBVIOUS
<1>6. list = Shown(slots, w, n)
  BY <1>1, <1>2, <1>3, <1>5, ListsShown DEF ShowsLists, Oracle
<1>7. slots \in [Index -> Order]
  BY BookInvFacts
<1>8. Len(list) = n /\ DOMAIN list = 1 .. n
  BY <1>4, <1>6, <1>7, ShownType DEF Shown
<1>9. \A k \in 1 .. n : list[k].remaining = slots[w[k]].remaining
  BY <1>6 DEF Shown, OrderIn
<1>10. IsFiniteSet(Index) /\ \A i \in Index : /\ Remaining(slots)[i] = slots[i].remaining
                                              /\ slots[i].remaining \in Int
  BY <1>7, QtyAtRestType, OrderFields, IndexFinite
<1>11. SumFunctionOnSet(ListQty(list, 1 .. n), 1 .. n) = SumFunctionOnSet(Remaining(slots), G)
  <2>1. PICK q : q = ListQty(list, 1 .. n)
    OBVIOUS
  <2>2. \A k \in 1 .. n : q[k] = Remaining(slots)[w[k]]
    BY <1>4, <1>9, <1>10, <2>1 DEF ListQty
  <2>3. PICK f : f = Remaining(slots)
    OBVIOUS
  <2>4. SumFunctionOnSet(q, 1 .. n) = SumFunctionOnSet(f, {w[k] : k \in 1 .. n})
    <3>1. /\ IsFiniteSet(Index) /\ \A i \in Index : f[i] \in Int
          /\ n \in Nat /\ w \in [1 .. n -> Index]
          /\ \A j, k \in 1 .. n : w[j] = w[k] => j = k
          /\ \A k \in 1 .. n : q[k] = f[w[k]]
      BY <1>4, <1>10, <2>2, <2>3
    <3> QED
      BY ONLY <3>1, SumOverPlaces
  <2> QED
    BY <1>4, <2>1, <2>3, <2>4
<1>12. level.total_qty = SumFunctionOnSet(Remaining(slots), G) /\ level.total_qty \in Int
  <2>1. level.total_qty = SumFunctionOnSet(Remaining(slots), G)
    BY <1>2 DEF IsList
  <2>2. G \in SUBSET Index
    BY <1>2 DEF IsList
  <2> QED
    BY <1>10, <2>1, <2>2, SumType
<1>13. N!qty_at(side, price) = level.total_qty % QtyModulus
  <2>1. (CHOOSE g : AddsUp(g, list, 1 .. n))[1 .. n]
          = SumFunctionOnSet(ListQty(list, 1 .. n), 1 .. n)
    BY ListQtyAdds
  <2>2. N!qty_at(side, price) = (CHOOSE g : AddsUp(g, list, DOMAIN list))[DOMAIN list] % QtyModulus
    BY <1>5, QtyAtExpanded
  <2> QED
    BY <1>8, <1>11, <1>12, <2>1, <2>2
<1> QED
  BY <1>1, <1>3, <1>5, <1>8, <1>12, <1>13, LevelAtIsIn

(* No total of a level is past the width of the Qty qty_at reports it in.   *)
QtyFits ==
    \A side \in Sides : \A price \in LevelPrices(side) :
        LevelAt(side, price).total_qty < QtyModulus

LEMMA QueriesAreThoseOfTheOracle == BookInv /\ QtyFits => QueriesAgree
<1> SUFFICES ASSUME BookInv, QtyFits, Idle PROVE QueriesAgree
  BY DEF QueriesAgree
<1>1. ASSUME NEW side \in Sides PROVE LevelPrices(side) \subseteq Int
  BY BookInvFacts, StructureType, LevelPricesType
<1>2. QtyAtAgrees
  <2> SUFFICES ASSUME NEW side \in Sides, NEW price \in LevelPrices(side)
               PROVE  LevelAt(side, price).total_qty = N!qty_at(side, price)
    BY DEF QtyAtAgrees
  <2>1. PICK total : total = LevelAt(side, price).total_qty
    OBVIOUS
  <2>2. total \in Nat
    <3>1. price \in Int
      BY <1>1
    <3>2. PICK w : IsList(slots, LevelIn(ladder[side], price),
                          Group(slots, Resting, side, price), w)
      BY <3>1, BookInvFacts, StructureType DEF Listed
    <3>3. LevelIn(ladder[side], price) \in Level
      BY <3>2 DEF IsList
    <3> QED
      BY <2>1, <3>3, LevelFacts, LevelAtIsIn
  <2>3. N!qty_at(side, price) = total % QtyModulus
    BY <1>1, <2>1, LevelQueries
  <2>4. total < QtyModulus
    BY <2>1 DEF QtyFits
  <2>5. total % QtyModulus = total
    BY ONLY <2>2, <2>4, OracleWidthAssumption
  <2> QED
    BY <2>1, <2>3, <2>5
<1>3. Resting = LiveSlots /\ IsFiniteSet(Resting)
  BY IndexFinite, BookInvFacts DEF Resting, InFlight
<1>4. live_count = Cardinality(DOMAIN naiveIndex)
  <2> DEFINE ids == [i \in Resting |-> slots[i].order_id]
             I   == DOMAIN naiveIndex
  <2>1. /\ I = {slots[i].order_id : i \in Resting}
        /\ \A i, j \in Resting : slots[i].order_id = slots[j].order_id => i = j
    BY IndexShown DEF ShowsIndex
  <2>2. ids \in Bijection(Resting, I)
    <3>1. ids \in [Resting -> I] /\ \A i, j \in Resting : ids[i] = ids[j] => i = j
      BY <2>1
    <3>2. \A id \in I : \E i \in Resting : ids[i] = id
      BY <2>1
    <3> QED
      BY <3>1, <3>2 DEF Bijection, Injection, Surjection, IsInjective
  <2>3. ExistsBijection(Resting, I)
    BY <2>2 DEF ExistsBijection
  <2>4. Cardinality(I) = Cardinality(Resting)
    BY <1>3, <2>3, FS_Bijection
  <2> QED
    BY <1>3, <2>4 DEF BookInv, PoolInv
<1>5. ASSUME NEW id \in CancelIds PROVE Found(id) <=> N!Open(id)
  <2>1. ASSUME Found(id) PROVE id \in DOMAIN naiveIndex
    <3>1. index_of(id) \in Resting /\ slots[index_of(id)].order_id = id
      BY <1>3, <2>1 DEF Found, LiveSlots, Live
    <3> QED
      BY <3>1, IndexShown DEF ShowsIndex
  <2>2. ASSUME id \in DOMAIN naiveIndex PROVE Found(id)
    <3>1. PICK i \in Resting : slots[i].order_id = id /\ index_of(id) = i
      BY <2>2, IndexShown DEF ShowsIndex
    <3>2. i \in Index /\ Live(i)
      BY <3>1 DEF Resting, LiveSlots
    <3> QED
      BY <3>1, <3>2 DEF Found, Live
  <2> QED
    BY <2>1, <2>2, NaiveLists
<1>6. ASSUME NEW side \in Sides
      PROVE  /\ SideEmpty(side) <=> DOMAIN naiveLevels[side] = {}
             /\ ~SideEmpty(side) => best_price(side) = N!BestPrice(side)
  BY NaivePrices
<1>7. ASSUME NEW side \in Sides, NEW price \in LevelPrices(side)
      PROVE  LevelAt(side, price).order_count = N!orders_at(side, price)
  BY <1>1, LevelQueries, NaiveLists DEF N!orders_at
<1> QED
  BY <1>2, <1>4, <1>5, <1>6, <1>7 DEF QueriesAgree

(* Between commands the book answers its queries as the naive one does, as  *)
(* long as no level holds more than a Qty can report; past that qty_at      *)
(* parts ways with the ladder's 64-bit total, and nothing else does.        *)
THEOREM BookQueriesAgree == BookSpec => [](QtyFits => QueriesAgree)
<1>1. BookInit => BookInv
  BY InitEstablishes
<1>2. BookInv /\ [BookNext]_bookVars => BookInv'
  BY BookStepPreserves
<1>3. BookInv => (QtyFits => QueriesAgree)
  BY QueriesAreThoseOfTheOracle
<1> QED
  BY <1>1, <1>2, <1>3, PTL DEF BookSpec

-----------------------------------------------------------------------------
(* The generator's list of live ids: it holds the ids of T, each of them     *)
(* once, and pos says where.                                                 *)
Tracks(l, T) ==
    /\ l.ids \in Seq(T)
    /\ \A id \in T : \E k \in 1 .. Len(l.ids) : l.ids[k] = id
    /\ DOMAIN l.pos = T
    /\ \A k \in 1 .. Len(l.ids) : l.pos[l.ids[k]] = k

LEMMA AddTracks ==
    ASSUME NEW l, NEW T, Tracks(l, T), NEW id, id \notin T
    PROVE  Tracks(AddLive(l, id), T \union {id})
<1> DEFINE U == T \union {id}
<1>1. PICK s, n : s = l.ids /\ n = Len(s)
  OBVIOUS
<1>2. s \in Seq(T) /\ n \in Nat /\ \A k \in 1 .. n : s[k] \in T
  BY <1>1, LenProperties, ElementOfSeq DEF Tracks
<1>3. s \in Seq(U)
  BY <1>1, <1>2, SeqDef
<1>4. PICK t, pos : t = Append(s, id) /\ pos = [y \in DOMAIN l.pos \union {id} |->
                                         IF y = id THEN n + 1 ELSE l.pos[y]]
  OBVIOUS
<1>5. t \in Seq(U) /\ Len(t) = n + 1 /\ t[n + 1] = id /\ \A k \in 1 .. n : t[k] = s[k]
  <2>1. t \in Seq(U)
    BY <1>3, <1>4, AppendProperties
  <2>2. Len(t) = Len(s) + 1
    BY <1>3, <1>4, AppendProperties
  <2>3. \A k \in 1 .. Len(s) : t[k] = s[k]
    BY <1>3, <1>4, AppendProperties
  <2>4. t[Len(s) + 1] = id
    BY <1>3, <1>4, AppendProperties
  <2> QED
    BY <1>1, <2>1, <2>2, <2>3, <2>4
<1>6. DOMAIN pos = U /\ pos[id] = n + 1 /\ \A y \in T : pos[y] = l.pos[y]
  <2>1. DOMAIN l.pos = T
    BY DEF Tracks
  <2> QED
    BY <1>4, <2>1
<1>7. AddLive(l, id) = [ids |-> t, pos |-> pos]
  BY <1>1, <1>4 DEF AddLive
<1>8. \A y \in U : \E k \in 1 .. n + 1 : t[k] = y
  <2>1. \A y \in T : \E k \in 1 .. n : s[k] = y
    BY <1>1 DEF Tracks
  <2>2. n + 1 \in 1 .. n + 1 /\ 1 .. n \subseteq 1 .. n + 1
    BY <1>2
  <2> QED
    BY <1>5, <2>1, <2>2
<1>9. \A k \in 1 .. n + 1 : pos[t[k]] = k
  <2> TAKE k \in 1 .. n + 1
  <2>1. CASE k = n + 1
    BY <1>5, <1>6, <2>1
  <2>2. CASE k # n + 1
    <3>1. k \in 1 .. n
      BY <1>2, <2>2
    <3>2. l.pos[s[k]] = k
      BY <1>1, <3>1 DEF Tracks
    <3> QED
      BY <1>2, <1>5, <1>6, <3>1, <3>2
  <2> QED
    BY <2>1, <2>2
<1> QED
  BY <1>5, <1>6, <1>7, <1>8, <1>9 DEF Tracks

(* Swap-remove: the last id goes where the removed one was, itself included. *)
LEMMA RemoveTracks ==
    ASSUME NEW l, NEW T, Tracks(l, T), NEW id \in T
    PROVE  Tracks(RemoveLive(l, id), T \ {id})
<1> DEFINE U == T \ {id}
<1>1. PICK s, n : s = l.ids /\ n = Len(s)
  OBVIOUS
<1>2. s \in Seq(T) /\ n \in Nat /\ \A k \in 1 .. n : s[k] \in T /\ l.pos[s[k]] = k
  BY <1>1, LenProperties, ElementOfSeq DEF Tracks
<1>3. PICK m \in 1 .. n : s[m] = id
  BY <1>1 DEF Tracks
<1>4. l.pos[id] = m /\ n \in 1 .. n /\ n - 1 \in Nat
  BY <1>2, <1>3
<1>5. PICK last : last = s[n]
  OBVIOUS
<1>6. PICK t, u, pos : /\ t = [s EXCEPT ![m] = last] /\ u = SubSeq(t, 1, n - 1)
                       /\ pos = Restrict([l.pos EXCEPT ![last] = m], DOMAIN l.pos \ {id})
  OBVIOUS
<1>7. t \in Seq(T) /\ Len(t) = n /\ \A k \in 1 .. n : t[k] = IF k = m THEN last ELSE s[k]
  <2>1. last \in T /\ s \in Seq(T) /\ m \in 1 .. Len(s)
    BY <1>1, <1>2, <1>3, <1>4, <1>5
  <2>2. /\ [s EXCEPT ![m] = last] \in Seq(T)
        /\ Len([s EXCEPT ![m] = last]) = Len(s)
        /\ \A j \in 1 .. Len(s) : [s EXCEPT ![m] = last][j] = IF j = m THEN last ELSE s[j]
    BY ONLY <2>1, ExceptSeq
  <2> QED
    BY <1>1, <1>6, <2>2
<1>8. \A k \in 1 .. n - 1 : t[k] \in U
  <2> TAKE k \in 1 .. n - 1
  <2>1. k \in 1 .. n /\ k # n
    BY <1>2
  <2>2. CASE k = m
    <3>1. last # id
      BY <1>2, <1>4, <1>5, <2>1, <2>2
    <3> QED
      BY <1>2, <1>4, <1>5, <1>7, <2>1, <2>2, <3>1
  <2>3. CASE k # m
    <3>1. s[k] # id
      BY <1>2, <1>4, <2>1, <2>3
    <3> QED
      BY <1>2, <1>7, <2>1, <2>3, <3>1
  <2> QED
    BY <2>2, <2>3
<1>9. u \in Seq(U) /\ Len(u) = n - 1 /\ \A k \in 1 .. n - 1 : u[k] = t[k]
  <2>1. 1 \in Int /\ n - 1 \in Int /\ \A k \in 1 .. n - 1 : t[k] \in U
    BY <1>4, <1>8
  <2>2. /\ SubSeq(t, 1, n - 1) \in Seq(U)
        /\ Len(SubSeq(t, 1, n - 1)) = IF 1 <= n - 1 THEN n - 1 - 1 + 1 ELSE 0
        /\ \A k \in 1 .. n - 1 - 1 + 1 : SubSeq(t, 1, n - 1)[k] = t[1 + k - 1]
    <3> HIDE DEF U
    <3> QED
      BY ONLY <2>1, SubSeqProperties, SMTT(30)
  <2> QED
    BY <1>4, <1>6, <2>2
<1>10. DOMAIN pos = U /\ \A y \in U : pos[y] = IF y = last THEN m ELSE l.pos[y]
  BY <1>6 DEF Restrict, Tracks
<1>11. RemoveLive(l, id) = [ids |-> u, pos |-> pos]
  <2>1. id \in DOMAIN l.pos
    BY DEF Tracks
  <2> QED
    BY <1>1, <1>4, <1>5, <1>6, <1>7, <2>1 DEF RemoveLive, Last, Front
<1>12. \A y \in U : \E k \in 1 .. n - 1 : u[k] = y
  <2> TAKE y \in U
  <2>1. PICK a \in 1 .. n : s[a] = y
    BY <1>1 DEF Tracks
  <2>2. a # m
    BY <1>3, <2>1
  <2>3. CASE a # n
    <3>1. a \in 1 .. n - 1
      BY <1>2, <2>3
    <3> QED
      BY <1>7, <1>9, <2>1, <2>2, <3>1
  <2>4. CASE a = n
    <3>1. m \in 1 .. n - 1
      BY <1>2, <2>2, <2>4
    <3> QED
      BY <1>5, <1>7, <1>9, <2>1, <2>4, <3>1
  <2> QED
    BY <2>3, <2>4
<1>13. \A k \in 1 .. n - 1 : pos[u[k]] = k
  <2> TAKE k \in 1 .. n - 1
  <2>1. k \in 1 .. n /\ k # n
    BY <1>2
  <2>2. u[k] = t[k] /\ t[k] \in U
    BY <1>8, <1>9
  <2>3. CASE k = m
    BY <1>7, <1>10, <2>1, <2>2, <2>3
  <2>4. CASE k # m
    <3>1. s[k] # last
      BY <1>2, <1>4, <1>5, <2>1
    <3> QED
      BY <1>2, <1>7, <1>10, <2>1, <2>2, <2>4, <3>1
  <2> QED
    BY <2>3, <2>4
<1> QED
  BY <1>9, <1>10, <1>11, <1>12, <1>13 DEF Tracks

(* What the sink makes of the one or two events of a step.                  *)
LEMMA GreatestOf ==
    ASSUME NEW P, P \subseteq Int, NEW b \in P, \A p \in P : b >= p
    PROVE  Max(P) = b
<1>1. \A x \in P : (\A y \in P : x >= y) => x = b
  BY SMT
<1> QED
  BY <1>1 DEF Max

(* The list after the sink has seen the events.                             *)
Sunk(l, events) == FoldLeft(Observe, l, events)

Folds(g, l, events) ==
    g = [X \in SUBSET DOMAIN events |->
            IF X = {} THEN l ELSE Observe(g[X \ {Max(X)}], events[Max(X)])]

LEMMA FoldExpanded ==
    ASSUME NEW l, NEW events
    PROVE  Sunk(l, events) = (CHOOSE g : Folds(g, l, events))[DOMAIN events]
BY Zenon DEF Sunk, FoldLeft, MapThenFoldSet, Folds

LEMMA ObservesNone == ASSUME NEW l PROVE Sunk(l, <<>>) = l
<1> DEFINE g == [X \in {{}} |-> l]
<1>1. DOMAIN <<>> = {} /\ SUBSET {} = {{}}
  OBVIOUS
<1>2. Folds(g, l, <<>>)
  BY <1>1 DEF Folds
<1>3. PICK h : h = CHOOSE f : Folds(f, l, <<>>)
  OBVIOUS
<1>4. Folds(h, l, <<>>)
  <2> HIDE DEF g
  <2> QED
    BY ONLY <1>2, <1>3, Zenon
<1>5. h[{}] = l
  BY <1>1, <1>4 DEF Folds
<1> QED
  BY <1>1, <1>3, <1>5, FoldExpanded

LEMMA ObservesOne == ASSUME NEW l, NEW e PROVE Sunk(l, <<e>>) = Observe(l, e)
<1> DEFINE g == [X \in SUBSET {1} |-> IF X = {} THEN l ELSE Observe(l, e)]
<1>1. DOMAIN <<e>> = {1} /\ <<e>>[1] = e
  OBVIOUS
<1>2. Max({1}) = 1
  <2>1. 1 \in {1} /\ {1} \subseteq Int /\ \A p \in {1} : 1 >= p
    OBVIOUS
  <2> QED
    BY ONLY <2>1, GreatestOf
<1>3. \A X \in SUBSET {1} : X = {} \/ X = {1}
  OBVIOUS
<1>4. {1} \ {1} = {}
  OBVIOUS
<1>5. Folds(g, l, <<e>>)
  <2>1. g[{}] = l /\ g[{1}] = Observe(l, e) /\ {1} # {}
    OBVIOUS
  <2>2. ASSUME NEW X \in SUBSET {1}
        PROVE  g[X] = IF X = {} THEN l ELSE Observe(g[X \ {Max(X)}], <<e>>[Max(X)])
    <3> HIDE DEF g
    <3>1. CASE X = {}
      BY <2>1, <3>1
    <3>2. CASE X = {1}
      BY ONLY <1>1, <1>2, <1>4, <2>1, <3>2, Zenon
    <3> QED
      BY <1>3, <3>1, <3>2
  <2>3. g = [X \in SUBSET {1} |-> g[X]]
    OBVIOUS
  <2> HIDE DEF g
  <2> QED
    BY <1>1, <2>2, <2>3 DEF Folds
<1>6. PICK h : h = CHOOSE f : Folds(f, l, <<e>>)
  OBVIOUS
<1>7. Folds(h, l, <<e>>)
  <2> HIDE DEF g
  <2> QED
    BY ONLY <1>5, <1>6, Zenon
<1>8. h[{}] = l
  BY <1>1, <1>7 DEF Folds
<1>9. h[{1}] = Observe(h[{1} \ {Max({1})}], <<e>>[Max({1})])
  BY <1>1, <1>7 DEF Folds
<1>10. h[{1}] = Observe(l, e)
  BY ONLY <1>1, <1>2, <1>4, <1>8, <1>9, Zenon
<1> QED
  BY <1>1, <1>6, <1>10, FoldExpanded

LEMMA ObservesTwo ==
    ASSUME NEW l, NEW d, NEW e
    PROVE  Sunk(l, <<d, e>>) = Observe(Observe(l, d), e)
<1> DEFINE g == [X \in SUBSET {1, 2} |->
                   IF X = {} THEN l
                   ELSE IF X = {1} THEN Observe(l, d)
                   ELSE IF X = {2} THEN Observe(l, e)
                   ELSE Observe(Observe(l, d), e)]
<1>1. DOMAIN <<d, e>> = {1, 2} /\ <<d, e>>[1] = d /\ <<d, e>>[2] = e
  OBVIOUS
<1>2. Max({1}) = 1 /\ Max({2}) = 2 /\ Max({1, 2}) = 2
  <2>1. 1 \in {1} /\ {1} \subseteq Int /\ \A p \in {1} : 1 >= p
    OBVIOUS
  <2>2. 2 \in {2} /\ {2} \subseteq Int /\ \A p \in {2} : 2 >= p
    OBVIOUS
  <2>3. 2 \in {1, 2} /\ {1, 2} \subseteq Int /\ \A p \in {1, 2} : 2 >= p
    OBVIOUS
  <2> QED
    BY ONLY <2>1, <2>2, <2>3, GreatestOf
<1>3. \A X \in SUBSET {1, 2} : X = {} \/ X = {1} \/ X = {2} \/ X = {1, 2}
  OBVIOUS
<1>4. {1} \ {1} = {} /\ {2} \ {2} = {} /\ {1, 2} \ {2} = {1}
  OBVIOUS
<1>5. /\ {} \in SUBSET {1, 2} /\ {1} \in SUBSET {1, 2} /\ {2} \in SUBSET {1, 2}
      /\ {1, 2} \in SUBSET {1, 2}
      /\ {1} # {} /\ {2} # {} /\ {1, 2} # {} /\ {1} # {2} /\ {1, 2} # {1} /\ {1, 2} # {2}
  OBVIOUS
<1>6. /\ g[{}] = l /\ g[{1}] = Observe(l, d) /\ g[{2}] = Observe(l, e)
      /\ g[{1, 2}] = Observe(Observe(l, d), e)
  BY <1>5
<1>7. Folds(g, l, <<d, e>>)
  <2>1. ASSUME NEW X \in SUBSET {1, 2}
        PROVE  g[X] = IF X = {} THEN l ELSE Observe(g[X \ {Max(X)}], <<d, e>>[Max(X)])
    <3> HIDE DEF g
    <3>1. CASE X = {}
      BY <1>6, <3>1
    <3>2. CASE X = {1}
      BY ONLY <1>1, <1>2, <1>4, <1>5, <1>6, <3>2, Zenon
    <3>3. CASE X = {2}
      BY ONLY <1>1, <1>2, <1>4, <1>5, <1>6, <3>3, Zenon
    <3>4. CASE X = {1, 2}
      BY ONLY <1>1, <1>2, <1>4, <1>5, <1>6, <3>4, Zenon
    <3> QED
      BY <1>3, <3>1, <3>2, <3>3, <3>4
  <2>2. g = [X \in SUBSET {1, 2} |-> g[X]]
    OBVIOUS
  <2> HIDE DEF g
  <2> QED
    BY <1>1, <2>1, <2>2 DEF Folds
<1>8. PICK h : h = CHOOSE f : Folds(f, l, <<d, e>>)
  OBVIOUS
<1>9. Folds(h, l, <<d, e>>)
  <2> HIDE DEF g
  <2> QED
    BY ONLY <1>7, <1>8, Zenon
<1>10. \A X \in SUBSET {1, 2} :
          h[X] = IF X = {} THEN l ELSE Observe(h[X \ {Max(X)}], <<d, e>>[Max(X)])
  BY <1>1, <1>9 DEF Folds
<1>11. h[{}] = l
  BY <1>5, <1>10
<1>12. h[{1}] = Observe(h[{1} \ {Max({1})}], <<d, e>>[Max({1})])
  BY <1>5, <1>10
<1>13. h[{1, 2}] = Observe(h[{1, 2} \ {Max({1, 2})}], <<d, e>>[Max({1, 2})])
  BY <1>5, <1>10
<1>14. h[{1}] = Observe(l, d)
  BY ONLY <1>1, <1>2, <1>4, <1>11, <1>12, Zenon
<1>15. h[{1, 2}] = Observe(Observe(l, d), e)
  BY ONLY <1>1, <1>2, <1>4, <1>13, <1>14, Zenon
<1> QED
  BY <1>1, <1>8, <1>15, FoldExpanded

-----------------------------------------------------------------------------
(* The ids of the orders with open quantity: those at rest and, until it is *)
(* filled, the one in flight.                                               *)
RestingIds == {slots[i].order_id : i \in Resting}

FlightIds == IF taker.remaining > 0 THEN {taker.order_id} ELSE {}

OpenIds == RestingIds \union FlightIds

LEMMA FlightIsNotResting == ASSUME BookInv, ~Idle PROVE taker.order_id \notin RestingIds
<1>1. index_of(taker.order_id) \notin Resting
  BY DEF Resting, InFlight
<1>2. \A i \in Resting : index_of(slots[i].order_id) = i
  BY LiveIdNamesSlot DEF Resting
<1> QED
  BY <1>1, <1>2 DEF RestingIds

LEMMA NobodyInFlight == ASSUME Idle PROVE FlightIds = {}
BY DEF Idle, NoTaker, FlightIds

LEMMA NobodyInFlightNext == ASSUME Idle' PROVE FlightIds' = {}
BY DEF Idle, NoTaker, FlightIds

LEMMA IdsStay == ASSUME Stays PROVE RestingIds' = RestingIds
<1>1. Resting' = Resting /\ \A i \in Resting : slots'[i].order_id = slots[i].order_id
  BY DEF Stays, SameOrders, SameOrder
<1> QED
  BY <1>1 DEF RestingIds

LEMMA IdsLeave ==
    ASSUME BookInv, NEW i, Leaves(i)
    PROVE  RestingIds' = RestingIds \ {slots[i].order_id} /\ slots[i].order_id \in RestingIds
<1>1. /\ i \in Resting /\ Resting' = Resting \ {i}
      /\ \A j \in Resting \ {i} : slots'[j].order_id = slots[j].order_id
  BY DEF Leaves, SameOrders, SameOrder
<1>2. \A j \in Resting : index_of(slots[j].order_id) = j
  BY LiveIdNamesSlot DEF Resting
<1>3. \A j \in Resting \ {i} : slots[j].order_id # slots[i].order_id
  BY <1>1, <1>2
<1> QED
  BY <1>1, <1>3 DEF RestingIds

LEMMA IdsShrink ==
    ASSUME BookInv, NEW i, NEW fill, Shrinks(i, fill)
    PROVE  RestingIds' = RestingIds /\ slots[i].order_id \in RestingIds
<1>1. i \in Resting /\ Resting' = Resting /\ slots[i] \in Order
  BY BookInvFacts DEF Shrinks
<1>2. \A j \in Resting : slots'[j].order_id = slots[j].order_id
  BY <1>1 DEF Shrinks, SameOrders, SameOrder, Order
<1> QED
  BY <1>1, <1>2 DEF RestingIds

LEMMA IdsJoin ==
    ASSUME NEW k, NEW side, NEW price, NEW remaining, Joins(k, side, price, remaining)
    PROVE  RestingIds' = RestingIds \union {slots'[k].order_id}
<1>1. Resting' = Resting \union {k} /\ \A j \in Resting : slots'[j].order_id = slots[j].order_id
  BY DEF Joins, SameOrders, SameOrder
<1> QED
  BY <1>1 DEF RestingIds

-----------------------------------------------------------------------------
(* Each step of the engine keeps the list exact.                            *)
ListsOpen == Tracks(live, OpenIds)

LEMMA SinkObserves ==
    ASSUME NEW l, NEW kind, NEW side, NEW reason, NEW qty, NEW remaining, NEW price, NEW id,
           NEW e, e = MakeEvent(kind, side, reason, qty, remaining, price, id)
    PROVE  Observe(l, e) = CASE kind = kAccepted -> AddLive(l, id)
                             [] kind = kTraded /\ remaining = 0 -> RemoveLive(l, id)
                             [] kind = kCanceled -> RemoveLive(l, id)
                             [] OTHER -> l
<1>1. e.kind = kind /\ e.remaining = remaining /\ e.order_id = id
  BY MakeEventFields
<1> QED
  BY <1>1 DEF Observe

LEMMA SinkAdds ==
    ASSUME NEW l, NEW side, NEW reason, NEW qty, NEW remaining, NEW price, NEW id,
           NEW e, e = MakeEvent(kAccepted, side, reason, qty, remaining, price, id)
    PROVE  Observe(l, e) = AddLive(l, id)
BY SinkObserves, KindsDiffer

LEMMA SinkRemoves ==
    ASSUME NEW l, NEW side, NEW reason, NEW qty, NEW remaining, NEW price, NEW id,
           NEW e, e = MakeEvent(kCanceled, side, reason, qty, remaining, price, id)
    PROVE  Observe(l, e) = RemoveLive(l, id)
BY SinkObserves, KindsDiffer

LEMMA SinkIgnores ==
    ASSUME NEW l, NEW side, NEW reason, NEW qty, NEW remaining, NEW price, NEW id,
           NEW e, e = MakeEvent(kRejected, side, reason, qty, remaining, price, id)
    PROVE  Observe(l, e) = l
BY SinkObserves, KindsDiffer

LEMMA SinkTrades ==
    ASSUME NEW l, NEW side, NEW reason, NEW qty, NEW remaining, NEW price, NEW id,
           NEW e, e = MakeEvent(kTraded, side, reason, qty, remaining, price, id)
    PROVE  Observe(l, e) = IF remaining = 0 THEN RemoveLive(l, id) ELSE l
BY SinkObserves, KindsDiffer

LEMMA AcceptTracks ==
    ASSUME BookInv, NEW new \in NewOrder, Accept(new), ListsOpen, Observed
    PROVE  ListsOpen'
<1>1. /\ Idle /\ Alloc /\ taker'.order_id = MintedId /\ taker'.remaining = new.qty
      /\ new.qty # 0 /\ new.qty \in Nat
  BY DEF Accept, ValidQty, NewOrder
<1>2. PICK id : id = MintedId
  OBVIOUS
<1>3. RestingIds' = RestingIds /\ FlightIds = {} /\ FlightIds' = {id}
  <2>1. Stays
    BY AcceptPreserves
  <2>2. taker'.remaining > 0
    BY <1>1
  <2> QED
    BY <1>1, <1>2, <2>1, <2>2, IdsStay, NobodyInFlight DEF FlightIds
<1>4. id \notin OpenIds
  <2>1. id \notin RestingIds
    BY <1>1, <1>2, MintedIdIsNew, IndexShown DEF ShowsIndex, RestingIds
  <2> QED
    BY <1>3, <2>1 DEF OpenIds
<1>5. live' = AddLive(live, id)
  <2>1. PICK e : e = MakeEvent(kAccepted, new.side, kNone, new.qty, new.qty, OrderPrice(new), id)
    OBVIOUS
  <2>2. out' = <<e>>
    BY <1>2, <2>1 DEF Accept
  <2>3. live' = Observe(live, e)
    BY <2>2, ObservesOne DEF Observed, Sunk
  <2> QED
    BY <2>1, <2>3, SinkAdds
<1>6. Tracks(AddLive(live, id), OpenIds \union {id})
  BY <1>4, AddTracks DEF ListsOpen
<1>7. OpenIds' = OpenIds \union {id}
  BY <1>3 DEF OpenIds
<1> QED
  BY <1>5, <1>6, <1>7 DEF ListsOpen

LEMMA RejectTracks ==
    ASSUME BookInv, NEW new, AddToFullPool(new), ListsOpen, Observed
    PROVE  ListsOpen'
<1>1. PICK e : e = MakeEvent(kRejected, new.side, kPoolExhausted, new.qty, 0, new.price_ticks,
                             kInvalidOrderId)
  OBVIOUS
<1>2. out' = <<e>> /\ UNCHANGED <<slots, free_head, live_count, ladder, taker>>
  BY <1>1 DEF AddToFullPool, RejectAdd
<1>3. live' = live
  <2>1. live' = Observe(live, e)
    BY <1>2, ObservesOne DEF Observed, Sunk
  <2> QED
    BY <1>1, <2>1, SinkIgnores
<1>4. OpenIds' = OpenIds
  BY <1>2, StutterPreserves, IdsStay DEF OpenIds, FlightIds
<1> QED
  BY <1>3, <1>4 DEF ListsOpen

LEMMA CancelTracks ==
    ASSUME BookInv, NEW id \in CancelIds, CancelOpen(id), ListsOpen, Observed
    PROVE  ListsOpen'
<1>1. PICK i : i = index_of(id)
  OBVIOUS
<1>2. Leaves(i) /\ slots[i].order_id = id /\ Idle /\ Idle'
  <2>1. slots[i].order_id = id /\ Idle /\ Idle'
    BY <1>1 DEF CancelOpen, Found, Idle
  <2> QED
    BY <1>1, <2>1, CancelOpenPreserves
<1>3. RestingIds' = RestingIds \ {id} /\ id \in RestingIds
  BY <1>2, IdsLeave
<1>4. OpenIds' = OpenIds \ {id} /\ id \in OpenIds
  BY <1>2, <1>3, NobodyInFlight, NobodyInFlightNext DEF OpenIds
<1>5. live' = RemoveLive(live, id)
  <2>1. PICK e : e = MakeEvent(kCanceled, slots[i].side, kNone, slots[i].remaining, 0,
                               slots[i].price_ticks, id)
    OBVIOUS
  <2>2. out' = <<e>>
    BY <1>1, <2>1 DEF CancelOpen
  <2>3. live' = Observe(live, e)
    BY <2>2, ObservesOne DEF Observed, Sunk
  <2> QED
    BY <2>1, <2>3, SinkRemoves
<1>6. Tracks(RemoveLive(live, id), OpenIds \ {id})
  BY <1>4, RemoveTracks DEF ListsOpen
<1> QED
  BY <1>4, <1>5, <1>6 DEF ListsOpen

LEMMA DropTracks ==
    ASSUME BookInv, DropTaker, ListsOpen, Observed
    PROVE  ListsOpen'
<1>1. ~Idle /\ Idle' /\ Stays /\ taker.remaining \in Nat
  BY DropTakerPreserves, TakerFacts DEF DropTaker, Idle, BookInv
<1>2. RestingIds' = RestingIds /\ FlightIds' = {} /\ taker.order_id \notin RestingIds
  BY <1>1, IdsStay, NobodyInFlightNext, FlightIsNotResting
<1>3. CASE taker.remaining = 0
  <2>1. out' = <<>>
    BY <1>3 DEF DropTaker
  <2>2. live' = live
    BY <2>1, ObservesNone DEF Observed, Sunk
  <2>3. OpenIds' = OpenIds
    BY <1>2, <1>3 DEF OpenIds, FlightIds
  <2> QED
    BY <2>2, <2>3 DEF ListsOpen
<1>4. CASE taker.remaining # 0
  <2>1. PICK id : id = taker.order_id
    OBVIOUS
  <2>2. PICK e : e = MakeEvent(kCanceled, taker.side, kNone, taker.remaining, 0,
                               taker.price_ticks, id)
    OBVIOUS
  <2>3. out' = <<e>>
    BY <1>4, <2>1, <2>2 DEF DropTaker
  <2>4. live' = RemoveLive(live, id)
    <3>1. live' = Observe(live, e)
      BY <2>3, ObservesOne DEF Observed, Sunk
    <3> QED
      BY <2>2, <3>1, SinkRemoves
  <2>5. FlightIds = {id}
    BY <1>1, <1>4, <2>1 DEF FlightIds
  <2>6. OpenIds' = OpenIds \ {id} /\ id \in OpenIds
    BY <1>2, <2>1, <2>5 DEF OpenIds
  <2>7. Tracks(RemoveLive(live, id), OpenIds \ {id})
    BY <2>6, RemoveTracks DEF ListsOpen
  <2> QED
    BY <2>4, <2>6, <2>7 DEF ListsOpen
<1> QED
  BY <1>3, <1>4

LEMMA RestTracks ==
    ASSUME BookInv, RestTaker, ListsOpen, Observed
    PROVE  ListsOpen'
<1>1. PICK id, k : id = taker.order_id /\ k = index_of(id)
  OBVIOUS
<1>2. Joins(k, taker.side, taker.price_ticks, taker.remaining) /\ slots'[k].order_id = id
  BY <1>1, RestTakerPreserves
<1>3. RestingIds' = RestingIds \union {id}
  BY <1>2, IdsJoin
<1>4. Idle' /\ taker.remaining # 0 /\ taker.remaining \in Nat /\ out' = <<>>
  BY TakerFacts DEF RestTaker, Drops, Idle, BookInv
<1>5. FlightIds = {id} /\ FlightIds' = {}
  <2>1. taker.remaining > 0
    BY <1>4
  <2> QED
    BY <1>1, <1>4, <2>1, NobodyInFlightNext DEF FlightIds
<1>6. OpenIds' = OpenIds
  BY <1>3, <1>5 DEF OpenIds
<1>7. live' = live
  BY <1>4, ObservesNone DEF Observed, Sunk
<1> QED
  BY <1>6, <1>7 DEF ListsOpen

LEMMA FillTracks ==
    ASSUME BookInv, Fill, ListsOpen, Observed
    PROVE  ListsOpen'
<1>1. PICK i, fill : /\ i = BestLevelHead
                     /\ fill = SmallerOf(taker.remaining, slots[i].remaining)
  OBVIOUS
<1>2. /\ i \in Resting /\ slots[i].remaining \in Nat /\ taker.remaining \in Nat
      /\ fill \in Nat /\ ~Idle
      /\ taker'.order_id = taker.order_id /\ taker'.remaining = taker.remaining - fill
      /\ fill <= taker.remaining /\ fill <= slots[i].remaining
      /\ taker.remaining > 0
  <2>1. MatchContinues
    BY DEF Fill
  <2>2. i \in Resting /\ slots[i].remaining \in Nat
    BY <1>1, <2>1, HeadRests
  <2>3. taker.remaining \in Nat /\ taker.remaining > 0
    BY <2>1, TakerFacts DEF BookInv, MatchContinues
  <2> QED
    BY <1>1, <2>2, <2>3, TakerAfterFill
<1>3. \/ fill = slots[i].remaining /\ Leaves(i)
      \/ fill < slots[i].remaining /\ Shrinks(i, fill)
  BY <1>1, FillPreserves
<1>4. PICK maker, mine, left, rest :
          /\ maker = slots[i].order_id /\ mine = taker.order_id
          /\ left = slots[i].remaining - fill /\ rest = taker.remaining - fill
  OBVIOUS
<1>5. left \in Nat /\ rest \in Nat
  BY <1>2, <1>4
<1>6. maker \in RestingIds /\ mine \notin RestingIds /\ FlightIds = {mine} /\ maker # mine
  <2>1. mine \notin RestingIds /\ FlightIds = {mine}
    BY <1>2, <1>4, FlightIsNotResting DEF FlightIds
  <2>2. maker \in RestingIds
    BY <1>2, <1>4 DEF RestingIds
  <2> QED
    BY <2>1, <2>2
<1>7. RestingIds' = IF left = 0 THEN RestingIds \ {maker} ELSE RestingIds
  <2>1. CASE fill = slots[i].remaining /\ Leaves(i)
    <3>1. left = 0
      BY <1>2, <1>4, <2>1
    <3> QED
      BY <1>4, <2>1, <3>1, IdsLeave
  <2>2. CASE fill < slots[i].remaining /\ Shrinks(i, fill)
    <3>1. left # 0
      BY <1>2, <1>4, <2>2
    <3> QED
      BY <1>4, <2>2, <3>1, IdsShrink
  <2> QED
    BY <1>3, <2>1, <2>2
<1>8. FlightIds' = IF rest = 0 THEN {} ELSE {mine}
  BY <1>2, <1>4, <1>5 DEF FlightIds
<1>9. PICK d, e, price :
          /\ d = MakeEvent(kTraded, slots[i].side, kNone, fill, left, price, maker)
          /\ e = MakeEvent(kTraded, taker.side, kNone, fill, rest, price, mine)
          /\ price = slots[i].price_ticks
  OBVIOUS
<1>10. out' = <<d, e>>
  <2>1. out' = FillEvents(slots[i], fill)
    BY <1>1 DEF Fill
  <2> QED
    BY <1>4, <1>9, <2>1 DEF FillEvents
<1>11. live' = Observe(Observe(live, d), e)
  <2>1. live' = Sunk(live, out')
    BY DEF Observed, Sunk
  <2> QED
    BY <1>10, <2>1, ObservesTwo
<1>12. PICK T : T = RestingIds' \union {mine}
  OBVIOUS
<1>13. Tracks(Observe(live, d), T)
  <2>1. Observe(live, d) = IF left = 0 THEN RemoveLive(live, maker) ELSE live
    BY <1>9, SinkTrades
  <2>2. maker \in OpenIds
    BY <1>6 DEF OpenIds
  <2>3. CASE left = 0
    <3>1. T = OpenIds \ {maker}
      BY <1>6, <1>7, <1>12, <2>3 DEF OpenIds
    <3> QED
      BY <2>1, <2>2, <2>3, <3>1, RemoveTracks DEF ListsOpen
  <2>4. CASE left # 0
    <3>1. T = OpenIds
      BY <1>6, <1>7, <1>12, <2>4 DEF OpenIds
    <3> QED
      BY <2>1, <2>4, <3>1 DEF ListsOpen
  <2> QED
    BY <2>3, <2>4
<1>14. Tracks(live', OpenIds')
  <2>1. PICK l : l = Observe(live, d)
    OBVIOUS
  <2>2. live' = IF rest = 0 THEN RemoveLive(l, mine) ELSE l
    BY <1>9, <1>11, <2>1, SinkTrades
  <2>3. mine \in T /\ mine \notin RestingIds'
    BY <1>6, <1>7, <1>12
  <2>4. CASE rest = 0
    <3>1. OpenIds' = T \ {mine}
      BY <1>8, <1>12, <2>3, <2>4 DEF OpenIds
    <3>2. Tracks(RemoveLive(l, mine), T \ {mine})
      BY <1>13, <2>1, <2>3, RemoveTracks
    <3> QED
      BY <2>2, <2>4, <3>1, <3>2
  <2>5. CASE rest # 0
    <3>1. OpenIds' = T
      BY <1>8, <1>12, <2>5 DEF OpenIds
    <3> QED
      BY <1>13, <2>1, <2>2, <2>5, <3>1
  <2> QED
    BY <2>4, <2>5
<1> QED
  BY <1>14 DEF ListsOpen

-----------------------------------------------------------------------------
(* What the generator makes is what a book accepts, and its cancels name    *)
(* orders at rest.                                                          *)
LEMMA MidsAreInts == ASSUME mid \in Int, NEW m \in NextMids PROVE m \in Int
<1>1. AnchorPrice \in Int /\ WalkRadius \in Int /\ MaxWalkStep \in Int
  BY WorkloadAssumption
<1>2. walk_lo \in Int /\ walk_hi \in Int
  BY <1>1 DEF walk_lo, walk_hi, LargerOf
<1> HIDE DEF walk_lo, walk_hi
<1>3. \A step \in (-MaxWalkStep .. MaxWalkStep) \ {0} :
          LargerOf(walk_lo, SmallerOf(walk_hi, mid + step)) \in Int
  BY <1>1, <1>2 DEF LargerOf, SmallerOf
<1> QED
  BY <1>3 DEF NextMids

LEMMA GeneratedAreValid ==
    ASSUME NEW type \in OrderTypes, NEW m \in Int, NEW new \in GeneratedOrders(type, m)
    PROVE  new \in NewOrder /\ ValidQty(new) /\ ValidPrice(new)
<1>1. /\ new.side \in Sides /\ new.type = type /\ new.qty \in MinOrderQty .. MaxOrderQty
      /\ new.price_ticks \in GeneratedPrices(type, m)
      /\ new = [side |-> new.side, type |-> new.type, price_ticks |-> new.price_ticks,
                qty |-> new.qty]
  BY DEF GeneratedOrders
<1>2. new.qty \in Nat /\ new.qty # 0
  BY <1>1, WorkloadAssumption
<1>3. new.price_ticks \in Int /\ (type = kMarket \/ new.price_ticks > 0)
  <2>1. MaxPriceOffset \in Nat
    BY WorkloadAssumption
  <2>2. \A offset \in -MaxPriceOffset .. MaxPriceOffset :
            LargerOf(1, m + offset) \in Int /\ LargerOf(1, m + offset) > 0
    BY <2>1 DEF LargerOf
  <2> QED
    BY <1>1, <2>2 DEF GeneratedPrices
<1> QED
  BY <1>1, <1>2, <1>3 DEF NewOrder, ValidQty, ValidPrice

LEMMA ListedIdIsCancelable ==
    ASSUME BookInv, Idle, ListsOpen, NEW k \in 1 .. Len(live.ids)
    PROVE  live.ids[k] \in CancelIds /\ Found(live.ids[k])
<1>1. live.ids[k] \in OpenIds
  BY ElementOfSeq DEF ListsOpen, Tracks
<1>2. PICK i \in Resting : live.ids[k] = slots[i].order_id
  BY <1>1, NobodyInFlight DEF OpenIds, RestingIds
<1>3. /\ i \in LiveSlots /\ i \in Index /\ slots[i] \in Order
      /\ index_of(slots[i].order_id) = i /\ slots[i].order_id # kInvalidOrderId
  BY LiveIdNamesSlot, BookInvFacts DEF Resting
<1>4. slots[i].order_id \in CancelIds
  <2>1. slots[i].order_id \in OrderId /\ i \in 0 .. Capacity
    BY <1>3, OrderFields DEF Index
  <2>2. slots[i].order_id[2] = i
    BY <1>3 DEF index_of
  <2> QED
    BY <2>1, <2>2 DEF CancelIds, OrderId
<1> QED
  BY <1>2, <1>3, <1>4 DEF Found

(* The rejects a step counts.                                               *)
LEMMA RejectsCounted ==
    ASSUME stats \in StatsType, NEW news \in Int, Tallies(news), NEW s, Requested(s, news),
           Counted(s)
    PROVE  /\ stats'.rejected = stats.rejected + Counting(out', kRejected)
           /\ stats'.rejected_pool_exhausted
                = stats.rejected_pool_exhausted + Rejects(out', {kPoolExhausted})
<1>1. /\ s \in StatsType /\ s.rejected = stats.rejected
      /\ s.rejected_pool_exhausted = stats.rejected_pool_exhausted
  BY DEF Requested
<1>2. stats' = OnEvents(s, out')
  BY DEF Counted
<1>3. PICK L, accepted, rejected, unknown, invalid, full, traded, Q, canceled :
          /\ L = Len(out') /\ accepted = Counting(out', kAccepted)
          /\ rejected = Counting(out', kRejected)
          /\ unknown = Rejects(out', {kUnknownOrder})
          /\ invalid = Rejects(out', {kInvalidQty, kInvalidPrice})
          /\ full = Rejects(out', {kPoolExhausted})
          /\ traded = Counting(out', kTraded) /\ Q = EventQty(out', kTraded)
          /\ canceled = Counting(out', kCanceled)
  OBVIOUS
<1>4. stats' = [s EXCEPT !.events                  = @ + L,
                         !.accepted                = @ + accepted,
                         !.rejected                = @ + rejected,
                         !.rejected_unknown_order  = @ + unknown,
                         !.rejected_invalid        = @ + invalid,
                         !.rejected_pool_exhausted = @ + full,
                         !.traded_events           = @ + traded,
                         !.traded_qty_both_sides   = @ + Q,
                         !.canceled                = @ + canceled]
  BY <1>2, <1>3 DEF OnEvents
<1>5. stats'.rejected = s.rejected + rejected
  BY ONLY <1>1, <1>4 DEF StatsType
<1>6. stats'.rejected_pool_exhausted = s.rejected_pool_exhausted + full
  BY ONLY <1>1, <1>4 DEF StatsType
<1> QED
  BY <1>1, <1>3, <1>5, <1>6

(* A full pool is the only cause of a reject in the step.                   *)
OnlyFullPoolRejects == Counting(out', kRejected) = Rejects(out', {kPoolExhausted})

LEMMA NoneRejected == ASSUME out' = <<>> PROVE OnlyFullPoolRejects
BY NoneCounted DEF OnlyFullPoolRejects

LEMMA OneRejected ==
    ASSUME NEW e, out' = <<e>>, e.kind = kRejected => e.reason = kPoolExhausted
    PROVE  OnlyFullPoolRejects
<1>1. Counting(<<e>>, kRejected) = IF e.kind = kRejected THEN 1 ELSE 0
  BY OneCounted
<1>2. Rejects(<<e>>, {kPoolExhausted})
        = IF e.kind = kRejected /\ e.reason \in {kPoolExhausted} THEN 1 ELSE 0
  BY OneCounted
<1> QED
  BY <1>1, <1>2 DEF OnlyFullPoolRejects

LEMMA FillRejectsNone == ASSUME Fill PROVE OnlyFullPoolRejects
<1>1. PICK i, fill : out' = FillEvents(slots[i], fill)
  BY DEF Fill
<1>2. PICK d, e :
          /\ d = MakeEvent(kTraded, slots[i].side, kNone, fill, slots[i].remaining - fill,
                           slots[i].price_ticks, slots[i].order_id)
          /\ e = MakeEvent(kTraded, taker.side, kNone, fill, taker.remaining - fill,
                           slots[i].price_ticks, taker.order_id)
  OBVIOUS
<1>3. out' = <<d, e>>
  BY <1>1, <1>2 DEF FillEvents
<1>4. d.kind = kTraded /\ e.kind = kTraded
  BY <1>2, MakeEventFields
<1>5. Counting(<<d, e>>, kRejected) = IF kRejected = kTraded THEN 2 ELSE 0
  BY <1>4, TwoCounted
<1>6. Rejects(<<d, e>>, {kPoolExhausted}) = 0
  BY <1>4, TwoCounted
<1> QED
  BY <1>3, <1>5, <1>6, KindsDiffer DEF OnlyFullPoolRejects

-----------------------------------------------------------------------------
(* The inductive invariant of the generator.                                *)
GenInv == EngineInv /\ ListsOpen /\ StreamIsValid /\ mid \in Int

(* What a step of the shadow engine has to give.                            *)
LEMMA GenStepPreserves ==
    ASSUME GenInv, BookInv', ListsOpen', NEW news \in Int, Tallies(news),
           NEW s, Requested(s, news), Counted(s), OnlyFullPoolRejects, mid' \in Int
    PROVE  GenInv'
<1>1. EngineInv'
  BY CountedKeeps DEF GenInv
<1>2. stats \in StatsType
  BY DEF GenInv, EngineInv
<1>3. PICK rejected \in Int : rejected = Counting(out', kRejected)
  BY DEF Tallies
<1>4. /\ stats'.rejected = stats.rejected + rejected
      /\ stats'.rejected_pool_exhausted = stats.rejected_pool_exhausted + rejected
  BY <1>2, <1>3, RejectsCounted DEF OnlyFullPoolRejects
<1>5. StreamIsValid'
  BY <1>4 DEF GenInv, StreamIsValid
<1> QED
  BY <1>1, <1>5 DEF GenInv

LEMMA GeneratedAddPreserves ==
    ASSUME GenInv, NEW type \in OrderTypes, mid' \in NextMids,
           NEW new \in GeneratedOrders(type, mid'), Submit(new), Observed
    PROVE  GenInv'
<1>1. BookInv /\ ListsOpen /\ stats \in StatsType
  BY DEF GenInv, EngineInv
<1>2. mid' \in Int
  BY MidsAreInts DEF GenInv
<1>3. new \in NewOrder /\ ValidQty(new) /\ ValidPrice(new)
  BY <1>2, GeneratedAreValid
<1>4. AddToFullPool(new) \/ Accept(new)
  BY <1>3 DEF Submit, AddInvalid
<1>5. Tallies(1)
  BY <1>1, <1>3, <1>4, AddTallies
<1>6. PICK s : s = [stats EXCEPT !.news = @ + 1]
  OBVIOUS
<1>7. Requested(s, 1) /\ Counted(s)
  BY <1>1, <1>6, RequestsCounted DEF Submit
<1>8. CASE AddToFullPool(new)
  <2>1. BookInv'
    BY <1>1, <1>8, StutterPreserves DEF AddToFullPool, RejectAdd
  <2>2. ListsOpen'
    BY <1>1, <1>8, RejectTracks
  <2>3. OnlyFullPoolRejects
    <3>1. PICK e : e = MakeEvent(kRejected, new.side, kPoolExhausted, new.qty, 0,
                                 new.price_ticks, kInvalidOrderId)
      OBVIOUS
    <3>2. out' = <<e>> /\ e.reason = kPoolExhausted
      BY <1>8, <3>1, MakeEventFields DEF AddToFullPool, RejectAdd
    <3> QED
      BY <3>2, OneRejected
  <2> QED
    BY <1>2, <1>5, <1>7, <2>1, <2>2, <2>3, GenStepPreserves
<1>9. CASE Accept(new)
  <2>1. BookInv'
    BY <1>1, <1>3, <1>9, AcceptPreserves
  <2>2. ListsOpen'
    BY <1>1, <1>3, <1>9, AcceptTracks
  <2>3. OnlyFullPoolRejects
    <3>1. PICK e : e = MakeEvent(kAccepted, new.side, kNone, new.qty, new.qty,
                                 OrderPrice(new), MintedId)
      OBVIOUS
    <3>2. out' = <<e>> /\ e.kind # kRejected
      BY <1>9, <3>1, MakeEventFields, KindsDiffer DEF Accept
    <3> QED
      BY <3>2, OneRejected
  <2> QED
    BY <1>2, <1>5, <1>7, <2>1, <2>2, <2>3, GenStepPreserves
<1> QED
  BY <1>4, <1>8, <1>9

LEMMA GeneratedCancelPreserves ==
    ASSUME GenInv, mid' \in NextMids, NEW k \in 1 .. Len(live.ids),
           CancelRequest(live.ids[k]), Observed
    PROVE  GenInv'
<1>1. BookInv /\ ListsOpen /\ stats \in StatsType
  BY DEF GenInv, EngineInv
<1>2. mid' \in Int
  BY MidsAreInts DEF GenInv
<1>3. PICK id : id = live.ids[k]
  OBVIOUS
<1>4. CancelOpen(id) \/ CancelUnknown(id)
  BY <1>3 DEF CancelRequest
<1>5. id \in CancelIds /\ Found(id)
  <2>1. Idle
    BY <1>4 DEF CancelOpen, CancelUnknown
  <2> QED
    BY <1>1, <1>3, <2>1, ListedIdIsCancelable
<1>6. CancelOpen(id)
  BY <1>4, <1>5 DEF CancelUnknown
<1>7. Tallies(0)
  BY <1>1, <1>5, <1>6, CancelTallies
<1>8. PICK s : s = [stats EXCEPT !.cancel_requests = @ + 1]
  OBVIOUS
<1>9. Requested(s, 0) /\ Counted(s)
  BY <1>1, <1>8, RequestsCounted DEF CancelRequest
<1>10. BookInv' /\ ListsOpen'
  BY <1>1, <1>5, <1>6, CancelOpenPreserves, CancelTracks
<1>11. OnlyFullPoolRejects
  <2>1. PICK i : i = index_of(id)
    OBVIOUS
  <2>2. PICK e : e = MakeEvent(kCanceled, slots[i].side, kNone, slots[i].remaining, 0,
                               slots[i].price_ticks, id)
    OBVIOUS
  <2>3. out' = <<e>> /\ e.kind # kRejected
    BY <1>6, <2>1, <2>2, MakeEventFields, KindsDiffer DEF CancelOpen
  <2> QED
    BY <2>3, OneRejected
<1> QED
  BY <1>2, <1>7, <1>9, <1>10, <1>11, GenStepPreserves

LEMMA ApplyRestPreserves == ASSUME GenInv, ApplyRest PROVE GenInv'
<1>1. BookInv /\ ListsOpen /\ stats \in StatsType /\ mid' \in Int
  BY DEF GenInv, EngineInv, ApplyRest
<1>2. Sweep /\ Counted(stats) /\ Observed
  BY DEF ApplyRest, ContinueSubmit
<1>3. Tallies(0) /\ Requested(stats, 0)
  BY <1>1, <1>2, SweepTallies, RequestsCounted
<1>4. BookInv'
  BY <1>1, <1>2, BookStepPreserves DEF BookNext
<1>5. CASE Fill
  BY <1>1, <1>2, <1>3, <1>4, <1>5, FillTracks, FillRejectsNone, GenStepPreserves
<1>6. CASE DropTaker
  <2>1. ListsOpen'
    BY <1>1, <1>2, <1>6, DropTracks
  <2>2. OnlyFullPoolRejects
    <3>1. CASE taker.remaining = 0
      BY <1>6, <3>1, NoneRejected DEF DropTaker
    <3>2. CASE taker.remaining # 0
      <4>1. PICK e : e = MakeEvent(kCanceled, taker.side, kNone, taker.remaining, 0,
                                   taker.price_ticks, taker.order_id)
        OBVIOUS
      <4>2. out' = <<e>> /\ e.kind # kRejected
        BY <1>6, <3>2, <4>1, MakeEventFields, KindsDiffer DEF DropTaker
      <4> QED
        BY <4>2, OneRejected
    <3> QED
      BY <3>1, <3>2
  <2> QED
    BY <1>1, <1>2, <1>3, <1>4, <2>1, <2>2, GenStepPreserves
<1>7. CASE RestTaker
  <2>1. ListsOpen' /\ OnlyFullPoolRejects
    BY <1>1, <1>2, <1>7, RestTracks, NoneRejected DEF RestTaker
  <2> QED
    BY <1>1, <1>2, <1>3, <1>4, <2>1, GenStepPreserves
<1> QED
  BY <1>2, <1>5, <1>6, <1>7 DEF Sweep

LEMMA GenNextPreserves == GenInv /\ [GenNext]_genVars => GenInv'
<1> SUFFICES ASSUME GenInv, [GenNext]_genVars PROVE GenInv'
  OBVIOUS
<1>1. ASSUME NEW type \in OrderTypes, GenerateAdd(type) PROVE GenInv'
  BY <1>1, GeneratedAddPreserves DEF GenerateAdd
<1>2. ASSUME DegradeCancel PROVE GenInv'
  <2>1. kLimit \in OrderTypes
    BY DEF OrderTypes
  <2> QED
    BY <1>2, <2>1, GeneratedAddPreserves DEF DegradeCancel
<1>3. ASSUME GenerateCancel PROVE GenInv'
  BY <1>3, GeneratedCancelPreserves DEF GenerateCancel
<1>4. ASSUME ApplyRest PROVE GenInv'
  BY <1>4, ApplyRestPreserves
<1>5. ASSUME UNCHANGED genVars PROVE GenInv'
  <2>1. UNCHANGED engineVars /\ live' = live /\ mid' = mid
    BY <1>5 DEF genVars
  <2>2. EngineInv'
    BY <2>1, EngineStepPreserves DEF GenInv
  <2>3. taker' = taker /\ slots' = slots /\ stats' = stats
    BY <2>1 DEF engineVars, bookVars
  <2>4. OpenIds' = OpenIds
    BY <2>3 DEF OpenIds, RestingIds, FlightIds, Resting, LiveSlots, Live, InFlight, Idle
  <2> QED
    BY <2>1, <2>2, <2>3, <2>4 DEF GenInv, ListsOpen, StreamIsValid
<1> QED
  BY <1>1, <1>2, <1>3, <1>4, <1>5 DEF GenNext

LEMMA GenInitEstablishes == GenInit => GenInv
<1> SUFFICES ASSUME GenInit PROVE GenInv
  OBVIOUS
<1>1. EngineInv /\ mid \in Int
  BY EngineInitEstablishes DEF GenInit
<1>2. StreamIsValid
  BY DEF GenInit, EngineInit, ZeroStats, StreamIsValid
<1>3. OpenIds = {}
  <2>1. Idle /\ Resting = {}
    <3>1. \A i \in Index : slots[i].order_id = kInvalidOrderId
      BY DEF GenInit, EngineInit, BookInit, PoolInit, FreshSlot
    <3> QED
      BY <3>1 DEF GenInit, EngineInit, BookInit, Idle, Resting, LiveSlots, Live
  <2> QED
    BY <2>1, NobodyInFlight DEF OpenIds, RestingIds
<1>4. ListsOpen
  <2>1. live.ids = <<>> /\ live.pos = <<>>
    BY DEF GenInit
  <2>2. <<>> \in Seq({}) /\ Len(<<>>) = 0 /\ DOMAIN <<>> = {}
    BY EmptySeq
  <2> QED
    BY <1>3, <2>1, <2>2 DEF ListsOpen, Tracks
<1> QED
  BY <1>1, <1>2, <1>4 DEF GenInv

(* After every event the generator's live ids are the ids of the orders     *)
(* with open quantity, each of them listed once, where its position says.   *)
THEOREM GeneratorTracksExactly == GenSpec => []TrackingIsExact
<1>1. GenInv => TrackingIsExact
  <2> SUFFICES ASSUME GenInv PROVE TrackingIsExact
    OBVIOUS
  <2>1. PICK s : s = live.ids
    OBVIOUS
  <2>2. /\ s \in Seq(OpenIds) /\ \A id \in OpenIds : \E k \in 1 .. Len(s) : s[k] = id
        /\ DOMAIN live.pos = OpenIds /\ \A k \in 1 .. Len(s) : live.pos[s[k]] = k
    BY <2>1 DEF GenInv, ListsOpen, Tracks
  <2>3. DOMAIN s = 1 .. Len(s) /\ \A k \in 1 .. Len(s) : s[k] \in OpenIds
    BY <2>2, LenProperties, ElementOfSeq
  <2>4. {s[k] : k \in DOMAIN s} = OpenIds
    BY <2>2, <2>3
  <2>5. RestingSlots = Resting
    BY RestingIsWalked DEF GenInv, EngineInv
  <2>6. OpenIds = {slots[i].order_id : i \in RestingSlots}
                   \union (IF taker.remaining > 0 THEN {taker.order_id} ELSE {})
    BY <2>5 DEF OpenIds, RestingIds, FlightIds
  <2>7. DOMAIN live.pos = {s[k] : k \in DOMAIN s} /\ \A k \in DOMAIN s : live.pos[s[k]] = k
    BY <2>2, <2>3, <2>4
  <2> QED
    <3>1. {live.ids[k] : k \in DOMAIN live.ids} = OpenIds
      BY ONLY <2>1, <2>4, Zenon
    <3>2. DOMAIN live.pos = {live.ids[k] : k \in DOMAIN live.ids}
      BY ONLY <2>1, <2>7, Zenon
    <3>3. \A k \in DOMAIN live.ids : live.pos[live.ids[k]] = k
      BY ONLY <2>1, <2>7, Zenon
    <3>4. {live.ids[k] : k \in DOMAIN live.ids}
            = {slots[i].order_id : i \in RestingSlots}
              \union (IF taker.remaining > 0 THEN {taker.order_id} ELSE {})
      BY ONLY <2>6, <3>1, Zenon
    <3> QED
      BY ONLY <3>2, <3>3, <3>4, Zenon DEF TrackingIsExact
<1> QED
  BY <1>1, GenInitEstablishes, GenNextPreserves, PTL DEF GenSpec

(* Every generated cancel finds its order and no generated order is         *)
(* malformed: the shadow engine rejects nothing but for a full pool.        *)
THEOREM GeneratedStreamIsValid == GenSpec => []StreamIsValid
<1>1. GenInv => StreamIsValid
  BY DEF GenInv
<1> QED
  BY <1>1, GenInitEstablishes, GenNextPreserves, PTL DEF GenSpec
=============================================================================
