------------------------- MODULE ShoppingCartProofs -------------------------
(***************************************************************************)
(* A cart holds whole requests, for any number of carts, of requests and   *)
(* of failing calls.  First what merging and inserting do to the number of *)
(* units of a product in a list of items, then that every list a cart has  *)
(* had, and every list a request has read, holds a set of requests.        *)
(***************************************************************************)
EXTENDS ShoppingCart, TLAPS, FiniteSetTheorems, FunctionTheorems, SequenceTheorems

Item == [product : Products, quantity : Nat]

-----------------------------------------------------------------------------
(* Units of a product *)

\* n more elements, one for each element of L, make a set larger by their number.
LEMMA GrowsBy ==
  ASSUME NEW U, IsFiniteSet(U), NEW V, NEW L, IsFiniteSet(L), U \cap V = {},
         NEW f \in Bijection(L, V)
  PROVE  IsFiniteSet(U \cup V) /\ Cardinality(U \cup V) = Cardinality(U) + Cardinality(L)
<1>1. f \in Surjection(L, V) /\ f \in Injection(L, V)
  BY DEF Bijection
<1>2. IsFiniteSet(V) /\ Cardinality(V) = Cardinality(L)
  BY <1>1, FS_Surjection
<1>3. Cardinality(U \cap V) = 0
  BY FS_EmptySet
<1>4. Cardinality(U) \in Nat /\ Cardinality(V) \in Nat
  BY <1>2, FS_CardinalityType
<1>5. IsFiniteSet(U \cup V)
      /\ Cardinality(U \cup V) = Cardinality(U) + Cardinality(V) - Cardinality(U \cap V)
  BY <1>2, FS_Union
<1> QED BY <1>2, <1>3, <1>4, <1>5

LEMMA FunctionIsSeq ==
  ASSUME NEW S, NEW n \in Nat, NEW f \in [1 .. n -> S]
  PROVE  f \in Seq(S) /\ Len(f) = n
<1>1. f \in Seq(S)
  BY SeqDef
<1> QED BY <1>1, LenProperties

\* A list holds finitely many units of a product.
LEMMA UnitsFinite ==
  ASSUME NEW items \in Seq(Item), NEW p
  PROVE  IsFiniteSet(Units(items, p))
<1> DEFINE J == Holding(items, p)
           f == [i \in J |-> {i} \X (1 .. items[i].quantity)]
           F == {f[i] : i \in J}
<1>1. IsFiniteSet(J)
  <2>1. IsFiniteSet(1 .. Len(items)) /\ J \subseteq 1 .. Len(items)
    BY FS_Interval DEF Holding
  <2> QED BY <2>1, FS_Subset
<1>2. f \in Surjection(J, F)
  BY Fun_IsSurj
<1>3. IsFiniteSet(F)
  BY <1>1, <1>2, FS_Surjection
<1>4. ASSUME NEW s \in F PROVE IsFiniteSet(s)
  <2>1. PICK i \in J : s = {i} \X (1 .. items[i].quantity)
    BY <1>4
  <2>2. items[i] \in Item
    BY <2>1 DEF Holding
  <2>3. PICK q \in Nat : q = items[i].quantity
    BY <2>2 DEF Item
  <2>4. IsFiniteSet({i})
    BY FS_Singleton
  <2>5. IsFiniteSet(1 .. q)
    BY FS_Interval
  <2>6. IsFiniteSet({i} \X (1 .. q))
    BY <2>4, <2>5, FS_Product
  <2> QED BY <2>1, <2>3, <2>6
<1>5. IsFiniteSet(UNION F)
  BY <1>3, <1>4, FS_UNION
<1>6. Units(items, p) = UNION F
  BY DEF Units
<1> QED BY <1>5, <1>6

LEMMA UnitsAre ==
  ASSUME NEW items \in Seq(Item), NEW p, NEW i, NEW n
  PROVE  <<i, n>> \in Units(items, p) <=>
           i \in 1 .. Len(items) /\ items[i].product = p /\ n \in 1 .. items[i].quantity
BY DEF Units, Holding

LEMMA UnitIsPair ==
  ASSUME NEW items \in Seq(Item), NEW p, NEW u \in Units(items, p)
  PROVE  u = <<u[1], u[2]>> /\ u[1] \in Nat /\ u[2] \in Nat
BY DEF Units, Holding, Item

LEMMA ListedFinite ==
  ASSUME NEW products \in Seq(Products), NEW p
  PROVE  /\ Listed(products, p) \subseteq 1 .. Len(products)
         /\ IsFiniteSet(Listed(products, p)) /\ Cardinality(Listed(products, p)) \in Nat
<1>1. Listed(products, p) \subseteq 1 .. Len(products)
  BY DEF Listed
<1>2. IsFiniteSet(1 .. Len(products))
  BY FS_Interval
<1> QED BY <1>1, <1>2, FS_Subset, FS_CardinalityType

\* Rows of one unit each hold as many units as there are rows.
LEMMA InCartOfConcat ==
  ASSUME NEW items \in Seq(Item), NEW rows \in Seq(Item), NEW p,
         \A i \in 1 .. Len(rows) : rows[i].quantity = 1
  PROVE  /\ IsFiniteSet(Holding(rows, p))
         /\ InCart(items \o rows, p) = InCart(items, p) + Cardinality(Holding(rows, p))
<1> DEFINE L == Holding(rows, p)
           f == [i \in L |-> <<Len(items) + i, 1>>]
           V == {f[i] : i \in L}
<1>1. Len(items) \in Nat /\ Len(rows) \in Nat
  OBVIOUS
<1>2. PICK both \in Seq(Item) : both = items \o rows
  BY ConcatProperties
<1>3. /\ Len(both) = Len(items) + Len(rows)
      /\ \A i \in 1 .. Len(items) : both[i] = items[i]
      /\ \A i \in 1 .. Len(rows) : both[Len(items) + i] = rows[i]
  BY <1>1, <1>2, ConcatProperties
<1>4. IsFiniteSet(L)
  <2>1. IsFiniteSet(1 .. Len(rows))
    BY <1>1, FS_Interval
  <2> QED BY <2>1, FS_Subset DEF Holding
<1> HIDE DEF L, f, V
<1>5. ASSUME NEW u \in Units(both, p) PROVE u \in Units(items, p) \cup V
  <2>1. PICK i \in Nat, n \in Nat : u = <<i, n>>
    BY <1>5, UnitIsPair
  <2>2. i \in 1 .. Len(both) /\ both[i].product = p /\ n \in 1 .. both[i].quantity
    BY <1>5, <2>1, UnitsAre
  <2>3. CASE i <= Len(items)
    <3>1. i \in 1 .. Len(items) /\ both[i] = items[i]
      BY <1>1, <1>3, <2>2, <2>3
    <3>2. <<i, n>> \in Units(items, p)
      BY <2>2, <3>1, UnitsAre
    <3> QED BY <2>1, <3>2
  <2>4. CASE i > Len(items)
    <3>0. i - Len(items) \in 1 .. Len(rows) /\ i = Len(items) + (i - Len(items))
      BY <1>1, <1>3, <2>2, <2>4
    <3>1. PICK k \in 1 .. Len(rows) : i = Len(items) + k
      BY <3>0
    <3>2. both[i] = rows[k]
      BY <1>3, <3>1
    <3>3. k \in L /\ n = 1
      BY <2>2, <3>1, <3>2 DEF L, Holding
    <3>4. f[k] = u
      BY <2>1, <3>1, <3>3 DEF f
    <3> QED BY <3>3, <3>4 DEF V
  <2> QED BY <1>1, <2>3, <2>4
<1>6. ASSUME NEW u \in Units(items, p) PROVE u \in Units(both, p)
  <2>1. PICK i \in Nat, n \in Nat : u = <<i, n>>
    BY <1>6, UnitIsPair
  <2>2. i \in 1 .. Len(items) /\ items[i].product = p /\ n \in 1 .. items[i].quantity
    BY <1>6, <2>1, UnitsAre
  <2>3. i \in 1 .. Len(both) /\ both[i] = items[i]
    BY <1>1, <1>3, <2>2
  <2>4. <<i, n>> \in Units(both, p)
    BY <2>2, <2>3, UnitsAre
  <2> QED BY <2>1, <2>4
<1>7. ASSUME NEW k \in L PROVE f[k] \in Units(both, p) /\ f[k] \notin Units(items, p)
  <2>0. k \in 1 .. Len(rows) /\ rows[k].product = p /\ rows[k].quantity = 1
    BY DEF L, Holding
  <2>1. PICK i \in Nat : i = Len(items) + k
    BY <1>1, <2>0
  <2>2. i \in 1 .. Len(both) /\ both[i] = rows[k] /\ i \notin 1 .. Len(items)
    BY <1>1, <1>3, <2>0, <2>1
  <2>3. rows[k].product = p /\ rows[k].quantity = 1 /\ 1 \in 1 .. 1
    BY <2>0
  <2>4. <<i, 1>> \in Units(both, p)
    BY <2>2, <2>3, UnitsAre
  <2>5. <<i, 1>> \notin Units(items, p)
    BY <2>2, UnitsAre
  <2> QED BY <2>1, <2>4, <2>5 DEF f
<1>8. Units(both, p) = Units(items, p) \cup V /\ Units(items, p) \cap V = {}
  BY <1>5, <1>6, <1>7 DEF V
<1>9. \A x, y \in L : f[x] = f[y] => x = y
  BY <1>1 DEF L, Holding, f
<1>10. f \in [L -> V] /\ \A v \in V : \E x \in L : f[x] = v
  BY DEF f, V
<1>11. IsFiniteSet(Units(items, p))
  BY UnitsFinite
<1>12. Cardinality(Units(items, p) \cup V) = Cardinality(Units(items, p)) + Cardinality(L)
  <2>1. f \in Bijection(L, V)
    BY <1>9, <1>10, Fun_IsBij
  <2> QED BY <1>4, <1>8, <1>11, <2>1, GrowsBy
<1> QED BY <1>2, <1>4, <1>8, <1>12 DEF InCart, L

\* The rows of a transaction hold what their request lists.
LEMMA InCartOfInsert ==
  ASSUME NEW items \in Seq(Item), NEW a \in Adds, NEW p
  PROVE  /\ items \o Rows(a) \in Seq(Item)
         /\ InCart(items \o Rows(a), p) = InCart(items, p) + Cardinality(Listed(ItemsOf[a], p))
<1>1. PICK n \in Nat : n = Len(ItemsOf[a]) /\ ItemsOf[a] \in [1 .. n -> Products]
  BY AddsAssumption, LenProperties
<1>2. Rows(a) \in [1 .. n -> Item]
  BY <1>1 DEF Rows, Item
<1>3. Rows(a) \in Seq(Item) /\ Len(Rows(a)) = n
  BY <1>2, FunctionIsSeq
<1>4. \A i \in 1 .. Len(Rows(a)) : Rows(a)[i].quantity = 1
  BY <1>1, <1>3 DEF Rows
<1>5. Holding(Rows(a), p) = Listed(ItemsOf[a], p)
  BY <1>1, <1>3 DEF Rows, Listed, Holding
<1> QED BY <1>3, <1>4, <1>5, InCartOfConcat, ConcatProperties

-----------------------------------------------------------------------------
(* Merging *)

\* A set of places is enumerated in order.
LEMMA NthProperties ==
  ASSUME NEW n \in Nat, NEW S \in SUBSET (1 .. n)
  PROVE  /\ IsFiniteSet(S) /\ Cardinality(S) \in Nat
         /\ \A k \in 1 .. Cardinality(S) :
              Nth(S, k) \in S /\ Cardinality(S \cap 1 .. Nth(S, k)) = k
         /\ \A i \in S : /\ Cardinality(S \cap 1 .. i) \in 1 .. Cardinality(S)
                         /\ Nth(S, Cardinality(S \cap 1 .. i)) = i
<1> DEFINE rank(i) == Cardinality(S \cap 1 .. i)
           m == Cardinality(S)
           f == [i \in S |-> rank(i)]
<1>1. IsFiniteSet(S)
  <2>1. IsFiniteSet(1 .. n)
    BY FS_Interval
  <2> QED BY <2>1, FS_Subset
<1>2. m \in Nat
  BY <1>1, FS_CardinalityType
<1>3. ASSUME NEW i \in S PROVE IsFiniteSet(S \cap 1 .. i) /\ rank(i) \in Nat /\ rank(i) <= m
  <2>1. S \cap 1 .. i \subseteq S
    OBVIOUS
  <2> QED BY <1>1, <2>1, FS_Subset, FS_CardinalityType
<1> HIDE DEF rank, m, f
<1>4. ASSUME NEW i \in S, NEW j \in S, i < j PROVE rank(i) < rank(j)
  <2>1. (S \cap 1 .. i) \cup {j} \subseteq S \cap 1 .. j /\ j \notin S \cap 1 .. i
    BY <1>4
  <2>2. Cardinality((S \cap 1 .. i) \cup {j}) = rank(i) + 1
    BY <1>3, <2>1, FS_AddElement DEF rank
  <2>3. Cardinality((S \cap 1 .. i) \cup {j}) <= rank(j)
    BY <1>3, <2>1, FS_Subset DEF rank
  <2>4. rank(i) \in Nat /\ rank(j) \in Nat
    BY <1>3
  <2> QED BY <2>2, <2>3, <2>4
<1>5. ASSUME NEW i \in S PROVE rank(i) \in 1 .. m
  <2>1. i \in S \cap 1 .. i
    BY <1>5
  <2>2. rank(i) # 0
    BY <1>3, <2>1, FS_EmptySet DEF rank
  <2>3. rank(i) \in Nat /\ rank(i) <= m
    BY <1>3
  <2> QED BY <1>2, <2>2, <2>3
<1>6. \A i, j \in S : rank(i) = rank(j) => i = j
  <2>1. TAKE i, j \in S
  <2>2. i < j \/ i = j \/ j < i
    OBVIOUS
  <2>3. rank(i) \in Nat /\ rank(j) \in Nat
    BY <1>3
  <2> QED BY <1>4, <2>2, <2>3
<1>7. f \in Injection(S, 1 .. m)
  BY <1>5, <1>6, Fun_IsInj DEF f
<1>8. IsFiniteSet(1 .. m) /\ Cardinality(1 .. m) = m
  BY <1>2, FS_Interval
<1>9. f \in Surjection(S, 1 .. m)
  BY <1>7, <1>8, FS_Injection DEF m
<1>10. \A k \in 1 .. m : \E i \in S : rank(i) = k
  BY <1>9 DEF Surjection, f
<1>11. \A k \in 1 .. m : Nth(S, k) \in S /\ rank(Nth(S, k)) = k
  BY <1>10 DEF Nth, rank
<1>12. \A i \in S : rank(i) \in 1 .. m /\ Nth(S, rank(i)) = i
  BY <1>5, <1>6, <1>11
<1> QED BY <1>1, <1>2, <1>11, <1>12 DEF rank, m

\* A set of places that is not empty has a last one.
LEMMA LastPlace ==
  ASSUME NEW n \in Nat, NEW S \in SUBSET (1 .. n), S # {}
  PROVE  \E i \in S : \A j \in S : j <= i
<1> DEFINE m == Cardinality(S)
<1>1. IsFiniteSet(S) /\ m \in Nat
  BY NthProperties
<1>2. m # 0
  BY <1>1, FS_EmptySet
<1>3. PICK i \in S : Cardinality(S \cap 1 .. i) = m
  <2>1. m \in 1 .. m
    BY <1>1, <1>2
  <2> QED BY <2>1, NthProperties
<1>4. S \cap 1 .. i = S
  BY <1>1, <1>3, FS_Subset
<1> QED BY <1>4

\* The places of a product are places of the list.
LEMMA HoldingPlaces ==
  ASSUME NEW items \in Seq(Item), NEW p
  PROVE  Len(items) \in Nat /\ Holding(items, p) \in SUBSET (1 .. Len(items))
BY DEF Holding

\* Raising quantities gives a list of items, as long as before.
LEMMA RaisedType ==
  ASSUME NEW old \in Seq(Item), NEW products \in Seq(Products)
  PROVE  /\ Raised(old, products) \in Seq(Item)
         /\ Len(Raised(old, products)) = Len(old)
         /\ \A i \in 1 .. Len(old) : Raised(old, products)[i].product = old[i].product
<1>1. PICK n \in Nat : n = Len(old) /\ old \in [1 .. n -> Item]
  BY LenProperties
<1>2. ASSUME NEW i \in 1 .. n
      PROVE  [old[i] EXCEPT !.quantity = @ + Cardinality(Listed(products, old[i].product))] \in Item
  <2>1. PICK c \in Nat : c = Cardinality(Listed(products, old[i].product))
    BY ListedFinite
  <2>2. old[i] \in Item
    BY <1>1
  <2>3. [old[i] EXCEPT !.quantity = @ + c] \in Item
    BY <2>2 DEF Item
  <2> QED BY <2>1, <2>3
<1>3. Raised(old, products) \in [1 .. n -> Item]
  BY <1>1, <1>2 DEF Raised
<1>4. \A i \in 1 .. n : Raised(old, products)[i].product = old[i].product
  BY <1>1 DEF Raised, Item
<1> QED BY <1>1, <1>3, <1>4, FunctionIsSeq

\* What a product that is held gains is what is listed of it.
LEMMA InCartOfRaised ==
  ASSUME NEW old \in Seq(Item), NEW products \in Seq(Products), NEW p \in Products,
         Holding(old, p) # {}
  PROVE  InCart(Raised(old, products), p) = InCart(old, p) + Cardinality(Listed(products, p))
<1>1. PICK raised \in Seq(Item) : raised = Raised(old, products) /\ Len(raised) = Len(old)
  BY RaisedType
<1>2. PICK last \in Holding(old, p) : \A j \in Holding(old, p) : j <= last
  BY HoldingPlaces, LastPlace
<1>3. PICK t \in Nat : t = Cardinality(Listed(products, p))
  BY ListedFinite
<1>4. last \in 1 .. Len(old) /\ old[last] \in Item /\ old[last].product = p /\ Len(old) \in Nat
  BY <1>2 DEF Holding
<1>5. PICK q \in Nat : q = old[last].quantity
  BY <1>4 DEF Item
<1>6. raised[last].product = p /\ raised[last].quantity = q + t
  BY <1>1, <1>2, <1>3, <1>4, <1>5 DEF Raised, Item
<1>7. ASSUME NEW i \in 1 .. Len(old), old[i].product = p, i # last PROVE raised[i] = old[i]
  <2>1. i \in Holding(old, p) /\ last \in Holding(old, p) /\ ~ last <= i
    BY <1>2, <1>4, <1>7 DEF Holding
  <2> QED BY <1>1, <1>7, <2>1 DEF Raised
<1>8. \A i \in 1 .. Len(old) : raised[i].product = old[i].product
  BY <1>1, RaisedType
<1> DEFINE L == 1 .. t
           f == [j \in L |-> <<last, q + j>>]
           V == {f[j] : j \in L}
<1> HIDE DEF L, f, V
<1>9. ASSUME NEW u \in Units(raised, p) PROVE u \in Units(old, p) \cup V
  <2>1. PICK i \in Nat, n \in Nat : u = <<i, n>>
    BY <1>9, UnitIsPair
  <2>2. i \in 1 .. Len(old) /\ raised[i].product = p /\ n \in 1 .. raised[i].quantity
    BY <1>1, <1>9, <2>1, UnitsAre
  <2>3. old[i].product = p
    BY <1>8, <2>2
  <2>4. CASE i # last \/ n <= q
    <3>1. n \in 1 .. old[i].quantity
      BY <1>5, <1>7, <2>2, <2>3, <2>4
    <3> QED BY <2>1, <2>2, <2>3, <3>1, UnitsAre
  <2>5. CASE i = last /\ n > q
    <3>1. PICK j \in L : n = q + j
      <4>1. n - q \in L /\ n = q + (n - q)
        BY <1>6, <2>2, <2>5 DEF L
      <4> QED BY <4>1
    <3> QED BY <2>1, <2>5, <3>1 DEF V, f
  <2> QED BY <2>4, <2>5
<1>10. ASSUME NEW u \in Units(old, p) PROVE u \in Units(raised, p)
  <2>1. PICK i \in Nat, n \in Nat : u = <<i, n>>
    BY <1>10, UnitIsPair
  <2>2. i \in 1 .. Len(old) /\ old[i].product = p /\ n \in 1 .. old[i].quantity
    BY <1>10, <2>1, UnitsAre
  <2>3. raised[i].product = p /\ n \in 1 .. raised[i].quantity
    BY <1>5, <1>6, <1>7, <1>8, <2>2
  <2> QED BY <1>1, <2>1, <2>2, <2>3, UnitsAre
<1>11. ASSUME NEW j \in L PROVE f[j] \in Units(raised, p) /\ f[j] \notin Units(old, p)
  <2>1. j \in 1 .. t /\ f[j] = <<last, q + j>>
    BY DEF L, f
  <2>2. q + j \in 1 .. raised[last].quantity /\ q + j \notin 1 .. old[last].quantity
    <3>1. q + j \in 1 .. q + t /\ q + j \notin 1 .. q
      BY <2>1
    <3> QED BY <1>5, <1>6, <3>1
  <2>3. <<last, q + j>> \in Units(raised, p)
    BY <1>1, <1>4, <1>6, <2>2, UnitsAre
  <2>4. <<last, q + j>> \notin Units(old, p)
    BY <2>2, UnitsAre
  <2> QED BY <2>1, <2>3, <2>4
<1>12. Units(raised, p) = Units(old, p) \cup V /\ Units(old, p) \cap V = {}
  BY <1>9, <1>10, <1>11 DEF V
<1>13. \A x, y \in L : f[x] = f[y] => x = y
  <2>1. \A x, y \in L : <<last, q + x>> = <<last, q + y>> => q + x = q + y
    OBVIOUS
  <2>2. \A x, y \in L : q + x = q + y => x = y
    BY DEF L
  <2> QED BY <2>1, <2>2 DEF f
<1>14. f \in [L -> V] /\ \A v \in V : \E x \in L : f[x] = v
  BY DEF f, V
<1>15. IsFiniteSet(Units(old, p)) /\ IsFiniteSet(L) /\ Cardinality(L) = t
  <2>1. IsFiniteSet(1 .. t) /\ Cardinality(1 .. t) = t
    BY FS_Interval
  <2> QED BY <2>1, UnitsFinite DEF L
<1>16. Cardinality(Units(old, p) \cup V) = Cardinality(Units(old, p)) + Cardinality(L)
  <2>1. f \in Bijection(L, V)
    BY <1>13, <1>14, Fun_IsBij
  <2> QED BY <1>12, <1>15, <2>1, GrowsBy
<1> QED BY <1>1, <1>3, <1>12, <1>15, <1>16 DEF InCart

\* Merging products into a list adds what is listed of each.
LEMMA InCartOfMerge ==
  ASSUME NEW old \in Seq(Item), NEW products \in Seq(Products)
  PROVE  /\ Merge(old, products) \in Seq(Item)
         /\ \A p \in Products :
              InCart(Merge(old, products), p)
                = InCart(old, p) + Cardinality(Listed(products, p))
<1> DEFINE S == Fresh(old, products)
           m == Cardinality(S)
           rows == FreshRows(old, products)
<1>1. PICK raised \in Seq(Item) : raised = Raised(old, products)
  BY RaisedType
<1>2. PICK n \in Nat : n = Len(products) /\ products \in [1 .. n -> Products]
  BY LenProperties
<1>3. S \in SUBSET (1 .. n)
  BY <1>2 DEF Fresh
<1> HIDE DEF S
<1>4. /\ IsFiniteSet(S) /\ m \in Nat
      /\ \A k \in 1 .. m : Nth(S, k) \in S /\ Cardinality(S \cap 1 .. Nth(S, k)) = k
      /\ \A i \in S : /\ Cardinality(S \cap 1 .. i) \in 1 .. m
                      /\ Nth(S, Cardinality(S \cap 1 .. i)) = i
  BY <1>3, NthProperties
<1> HIDE DEF m
<1>5. rows = [k \in 1 .. m |-> [product |-> products[Nth(S, k)], quantity |-> 1]]
  BY DEF FreshRows, S, m
<1> HIDE DEF rows
<1>6. rows \in [1 .. m -> Item]
  BY <1>2, <1>3, <1>4, <1>5 DEF Item
<1>7. rows \in Seq(Item) /\ Len(rows) = m
  BY <1>4, <1>6, FunctionIsSeq
<1>8. Merge(old, products) = raised \o rows
  BY <1>1 DEF Merge, rows
<1>9. raised \o rows \in Seq(Item)
  BY <1>7, ConcatProperties
<1>10. ASSUME NEW p \in Products
       PROVE  InCart(raised \o rows, p) = InCart(old, p) + Cardinality(Listed(products, p))
  <2> DEFINE L == Holding(rows, p)
             N == Listed(products, p)
  <2>1. L = {k \in 1 .. m : products[Nth(S, k)] = p}
    BY <1>5, <1>7 DEF Holding
  <2>2. IsFiniteSet(L) /\ InCart(raised \o rows, p) = InCart(raised, p) + Cardinality(L)
    <3>1. \A i \in 1 .. Len(rows) : rows[i].quantity = 1
      BY <1>5, <1>7
    <3> QED BY <1>7, <3>1, InCartOfConcat DEF L
  <2>3. InCart(raised, p) \in Nat /\ InCart(old, p) \in Nat
    BY UnitsFinite, FS_CardinalityType DEF InCart
  <2>4. N \in SUBSET (1 .. n) /\ IsFiniteSet(N) /\ \A i \in 1 .. n : i \in N <=> products[i] = p
    BY <1>2, ListedFinite DEF Listed
  <2> HIDE DEF L, N
  <2>5. CASE Holding(old, p) # {}
    <3>1. InCart(raised, p) = InCart(old, p) + Cardinality(N)
      BY <1>1, <2>5, InCartOfRaised DEF N
    <3>2. L = {}
      <4>1. \A i \in S : Holding(old, products[i]) = {}
        BY DEF S, Fresh
      <4> QED BY <1>4, <2>1, <2>5, <4>1
    <3>3. Cardinality(L) = 0
      BY <3>2, FS_EmptySet
    <3> QED BY <2>2, <2>3, <3>1, <3>3 DEF N
  <2>6. CASE Holding(old, p) = {}
    <3>1. Units(raised, p) = {} /\ Units(old, p) = {}
      <4>1. \A i \in 1 .. Len(old) : raised[i].product = old[i].product
        BY <1>1, RaisedType
      <4>2. Len(raised) = Len(old)
        BY <1>1, RaisedType
      <4>3. Holding(raised, p) = {}
        BY <2>6, <4>1, <4>2 DEF Holding
      <4> QED BY <2>6, <4>3 DEF Units
    <3>2. InCart(raised, p) = InCart(old, p)
      BY <3>1 DEF InCart
    <3>3. N \subseteq S
      BY <1>2, <2>4, <2>6 DEF S, Fresh
    <3>4. Cardinality(L) = Cardinality(N)
      <4> DEFINE g == [i \in N |-> Cardinality(S \cap 1 .. i)]
      <4>1. g \in [N -> L]
        BY <1>4, <2>1, <2>4, <3>3
      <4>2. \A i, j \in N : g[i] = g[j] => i = j
        BY <1>4, <3>3
      <4>3. \A k \in L : \E i \in N : g[i] = k
        <5>1. TAKE k \in L
        <5>2. k \in 1 .. m /\ products[Nth(S, k)] = p
          BY <2>1
        <5>3. Nth(S, k) \in N /\ g[Nth(S, k)] = k
          BY <1>3, <1>4, <2>4, <5>2
        <5> QED BY <5>3
      <4>4. g \in Surjection(N, L) /\ g \in Injection(N, L)
        BY <4>1, <4>2, <4>3, Fun_IsSurj, Fun_IsInj
      <4> QED BY <2>4, <4>4, FS_Surjection
    <3> QED BY <2>2, <3>2, <3>4 DEF N
  <2> QED BY <2>5, <2>6
<1> QED BY <1>8, <1>9, <1>10

-----------------------------------------------------------------------------
(* What requests ask for *)

\* One more request asks for what it lists.
LEMMA AskedGrows ==
  ASSUME NEW kept \in SUBSET Adds, NEW a \in Adds, a \notin kept, NEW p
  PROVE  Asked(kept \cup {a}, p) = Asked(kept, p) + Cardinality(Listed(ItemsOf[a], p))
<1> DEFINE places(b) == {b} \X Listed(ItemsOf[b], p)
           g == [b \in kept |-> places(b)]
           F == {g[b] : b \in kept}
           U == UNION F
           L == Listed(ItemsOf[a], p)
           f == [i \in L |-> <<a, i>>]
           V == {f[i] : i \in L}
<1>1. IsFiniteSet(U)
  <2>1. IsFiniteSet(kept)
    BY AddsAssumption, FS_Subset
  <2>2. g \in Surjection(kept, F)
    BY Fun_IsSurj
  <2>3. IsFiniteSet(F)
    BY <2>1, <2>2, FS_Surjection
  <2>4. ASSUME NEW s \in F PROVE IsFiniteSet(s)
    <3>1. PICK b \in kept : s = {b} \X Listed(ItemsOf[b], p)
      BY <2>4
    <3>2. ItemsOf[b] \in Seq(Products)
      BY AddsAssumption
    <3>3. IsFiniteSet(Listed(ItemsOf[b], p))
      BY <3>2, ListedFinite
    <3>4. IsFiniteSet({b})
      BY FS_Singleton
    <3> QED BY <3>1, <3>3, <3>4, FS_Product
  <2> QED BY <2>3, <2>4, FS_UNION
<1>2. IsFiniteSet(L)
  BY AddsAssumption, ListedFinite
<1>3. V = places(a)
  OBVIOUS
<1>4. U \cap V = {}
  <2>1. \A u \in U : u[1] \in kept
    OBVIOUS
  <2>2. \A v \in V : v[1] = a
    OBVIOUS
  <2> QED BY <2>1, <2>2
<1>5. \A i, j \in L : f[i] = f[j] => i = j
  OBVIOUS
<1>6. f \in [L -> V] /\ \A v \in V : \E i \in L : f[i] = v
  OBVIOUS
<1>7. U = UNION {places(b) : b \in kept}
      /\ U \cup V = UNION {places(b) : b \in kept \cup {a}}
  BY <1>3
<1>8. Asked(kept, p) = Cardinality(U) /\ Asked(kept \cup {a}, p) = Cardinality(U \cup V)
  BY <1>7 DEF Asked
<1> HIDE DEF places, g, F, U, L, f, V
<1>9. Cardinality(U \cup V) = Cardinality(U) + Cardinality(L)
  <2>1. f \in Bijection(L, V)
    BY <1>5, <1>6, Fun_IsBij
  <2> QED BY <1>1, <1>2, <1>4, <2>1, GrowsBy
<1> QED BY <1>8, <1>9 DEF L

HoldsExactly(items, kept) == \A p \in Products : InCart(items, p) = Asked(kept, p)

LEMMA NothingHoldsNothing == <<>> \in Seq(Item) /\ HoldsExactly(<<>>, {})
<1>1. <<>> \in Seq(Item)
  OBVIOUS
<1>2. \A p : Units(<<>>, p) = {}
  BY DEF Units, Holding
<1>3. \A p : Asked({}, p) = Cardinality({})
  BY DEF Asked
<1> QED BY <1>1, <1>2, <1>3 DEF HoldsExactly, InCart

LEMMA InsertHolds ==
  ASSUME NEW items \in Seq(Item), NEW kept \in SUBSET Adds, HoldsExactly(items, kept),
         NEW a \in Adds, a \notin kept
  PROVE  items \o Rows(a) \in Seq(Item) /\ HoldsExactly(items \o Rows(a), kept \cup {a})
BY InCartOfInsert, AskedGrows DEF HoldsExactly

LEMMA MergeHolds ==
  ASSUME NEW items \in Seq(Item), NEW kept \in SUBSET Adds, HoldsExactly(items, kept),
         NEW a \in Adds, a \notin kept
  PROVE  /\ Merge(items, ItemsOf[a]) \in Seq(Item)
         /\ HoldsExactly(Merge(items, ItemsOf[a]), kept \cup {a})
<1>1. ItemsOf[a] \in Seq(Products)
  BY AddsAssumption
<1> QED BY <1>1, InCartOfMerge, AskedGrows DEF HoldsExactly

-----------------------------------------------------------------------------
(* Carts *)

Phases == {"none", "not found", "inserted", "read", "ok", "error"}

CartTypes ==
  /\ backend \in {"mysql", "dynamodb"}
  /\ states \in [Carts -> Seq(Seq(Item))]
  /\ add \in [Adds -> [phase : Phases, items : Seq(Item)]]

Sent(c) == {a \in Adds : CartOf[a] = c}

Begun == {a \in Adds : add[a].phase # "none"}

\* The requests whose rows MySQL has committed, and said so.
Landed(c) == {a \in Sent(c) : add[a].phase \in {"inserted", "ok"}}

\* Every list a cart has had holds requests that had begun; MySQL's current one
\* all that landed.
HoldsRequests(c, i) ==
  \E kept \in SUBSET (Sent(c) \cap Begun) :
    /\ HoldsExactly(states[c][i], kept)
    /\ backend = "mysql" /\ i = Len(states[c]) => Landed(c) \subseteq kept

\* What a request has read does not hold that request, even where its own write
\* has been applied already and it is about to be sent again.
ReadsRequests(a) ==
  add[a].phase = "read" =>
    \E kept \in SUBSET (Sent(CartOf[a]) \cap Begun) :
      a \notin kept /\ HoldsExactly(add[a].items, kept)

StoresApart ==
  \A a \in Adds :
    /\ add[a].phase = "inserted" => backend = "mysql"
    /\ add[a].phase = "read" => backend = "dynamodb"
    /\ add[a].phase \in {"inserted", "ok"} => states[CartOf[a]] # <<>>

CartInv ==
  /\ CartTypes
  /\ \A c \in Carts : \A i \in 1 .. Len(states[c]) : HoldsRequests(c, i)
  /\ \A a \in Adds : ReadsRequests(a)
  /\ StoresApart

LEMMA CartInitInv == CartInit => CartInv
<1> SUFFICES ASSUME CartInit PROVE CartInv
  OBVIOUS
<1>1. CartTypes
  <2>1. <<>> \in Seq(Seq(Item)) /\ <<>> \in Seq(Item)
    OBVIOUS
  <2> QED BY <2>1 DEF CartTypes, CartInit, Phases
<1>2. \A a \in Adds : add[a].phase = "none"
  BY DEF CartInit
<1>3. \A c \in Carts : Len(states[c]) = 0
  BY DEF CartInit
<1> QED BY <1>1, <1>2, <1>3 DEF CartInv, ReadsRequests, StoresApart

\* A list that is saved.
LEMMA SavedHolds ==
  ASSUME CartInv, NEW c \in Carts, NEW items \in Seq(Item), Save(c, items), backend' = backend,
         Begun \subseteq Begun',
         NEW kept \in SUBSET (Sent(c) \cap Begun'), HoldsExactly(items, kept),
         backend = "mysql" => Landed(c)' \subseteq kept,
         \A d \in Carts : d # c => Landed(d)' \subseteq Landed(d)
  PROVE  /\ states' \in [Carts -> Seq(Seq(Item))]
         /\ states'[c] # <<>> /\ \A d \in Carts : states[d] # <<>> => states'[d] # <<>>
         /\ \A d \in Carts : \A i \in 1 .. Len(states'[d]) : HoldsRequests(d, i)'
<1>1. states[c] \in Seq(Seq(Item)) /\ states' = [states EXCEPT ![c] = Append(states[c], items)]
  BY DEF CartInv, CartTypes, Save
<1>2. /\ Append(states[c], items) \in Seq(Seq(Item))
      /\ Append(states[c], items) # <<>>
      /\ Len(Append(states[c], items)) = Len(states[c]) + 1
      /\ \A i \in 1 .. Len(states[c]) : Append(states[c], items)[i] = states[c][i]
      /\ Append(states[c], items)[Len(states[c]) + 1] = items
  BY <1>1, AppendProperties
<1>3. states'[c] = Append(states[c], items) /\ \A d \in Carts : d # c => states'[d] = states[d]
  BY <1>1 DEF CartInv, CartTypes
<1>4. states' \in [Carts -> Seq(Seq(Item))]
  BY <1>1, <1>2 DEF CartInv, CartTypes
<1>5. ASSUME NEW d \in Carts, NEW i \in 1 .. Len(states'[d]) PROVE HoldsRequests(d, i)'
  <2>1. CASE d = c /\ i = Len(states[c]) + 1
    BY <1>2, <1>3, <2>1 DEF HoldsRequests, Sent
  <2>2. CASE d # c \/ i # Len(states[c]) + 1
    <3>1. /\ i \in 1 .. Len(states[d]) /\ states'[d][i] = states[d][i]
          /\ i = Len(states'[d]) => d # c /\ i = Len(states[d])
      BY <1>1, <1>2, <1>3, <2>2
    <3>2. PICK old \in SUBSET (Sent(d) \cap Begun) :
            /\ HoldsExactly(states[d][i], old)
            /\ backend = "mysql" /\ i = Len(states[d]) => Landed(d) \subseteq old
      BY <3>1 DEF CartInv, HoldsRequests
    <3>3. Sent(d)' = Sent(d) /\ old \in SUBSET (Sent(d) \cap Begun')
      BY DEF Sent
    <3> QED BY <3>1, <3>2, <3>3 DEF HoldsRequests
  <2> QED BY <2>1, <2>2
<1> QED BY <1>2, <1>3, <1>4, <1>5

\* No list is saved.
LEMMA UnchangedHolds ==
  ASSUME CartInv, states' = states, backend' = backend, Begun \subseteq Begun',
         \A d \in Carts : Landed(d)' \subseteq Landed(d) \/ backend # "mysql"
  PROVE  \A d \in Carts : \A i \in 1 .. Len(states'[d]) : HoldsRequests(d, i)'
<1>1. TAKE d \in Carts
<1>2. TAKE i \in 1 .. Len(states'[d])
<1>3. PICK old \in SUBSET (Sent(d) \cap Begun) :
        /\ HoldsExactly(states[d][i], old)
        /\ backend = "mysql" /\ i = Len(states[d]) => Landed(d) \subseteq old
  BY <1>2 DEF CartInv, HoldsRequests
<1>4. Sent(d)' = Sent(d) /\ old \in SUBSET (Sent(d) \cap Begun')
  BY DEF Sent
<1> QED BY <1>3, <1>4 DEF HoldsRequests

\* A step of one request.
LEMMA StepOfAdd ==
  ASSUME CartInv, NEW a \in Adds, NEW phase \in Phases \ {"none"}, NEW items \in Seq(Item),
         Step(a, phase, items)
  PROVE  /\ add' \in [Adds -> [phase : Phases, items : Seq(Item)]]
         /\ add'[a].phase = phase /\ add'[a].items = items
         /\ \A b \in Adds : b # a => add'[b] = add[b]
         /\ Begun' = Begun \cup {a}
         /\ \A d \in Carts : d # CartOf[a] => Landed(d)' \subseteq Landed(d)
         /\ \A d \in Carts : Landed(d)' \subseteq Landed(d) \cup {a}
         /\ phase \notin {"inserted", "ok"} => \A d \in Carts : Landed(d)' \subseteq Landed(d)
         /\ \A b \in Adds : b # a => ReadsRequests(b)'
<1>1. add' \in [Adds -> [phase : Phases, items : Seq(Item)]]
  BY DEF CartInv, CartTypes, Step
<1>2. add'[a].phase = phase /\ add'[a].items = items /\ \A b \in Adds : b # a => add'[b] = add[b]
  BY DEF CartInv, CartTypes, Step
<1>3. Begun' = Begun \cup {a}
  BY <1>2 DEF Begun
<1>4. \A d : Sent(d)' = Sent(d)
  BY DEF Sent
<1>5. \A d \in Carts : d # CartOf[a] => Landed(d)' \subseteq Landed(d)
  BY <1>2, <1>4 DEF Landed, Sent
<1>6. \A d \in Carts : Landed(d)' \subseteq Landed(d) \cup {a}
  BY <1>2, <1>4 DEF Landed, Sent
<1>7. phase \notin {"inserted", "ok"} => \A d \in Carts : Landed(d)' \subseteq Landed(d)
  BY <1>2, <1>4 DEF Landed, Sent
<1>8. ASSUME NEW b \in Adds, b # a PROVE ReadsRequests(b)'
  <2>1. ReadsRequests(b) /\ add'[b] = add[b]
    BY <1>2, <1>8 DEF CartInv
  <2> QED BY <1>3, <1>4, <2>1 DEF ReadsRequests
<1> QED BY <1>1, <1>2, <1>3, <1>5, <1>6, <1>7, <1>8

\* A request that ends without a trace.
LEMMA EndsInv ==
  ASSUME CartInv, NEW a \in Adds, NEW phase \in {"not found", "error"}, Step(a, phase, <<>>),
         states' = states, backend' = backend
  PROVE  CartInv'
<1>0. <<>> \in Seq(Item)
  BY EmptySeq
<1>1. <<>> \in Seq(Item) /\ phase \in Phases \ {"none"}
  BY <1>0 DEF Phases
<1>2. /\ add' \in [Adds -> [phase : Phases, items : Seq(Item)]]
      /\ add'[a].phase = phase /\ \A b \in Adds : b # a => add'[b] = add[b]
      /\ Begun \subseteq Begun' /\ \A d \in Carts : Landed(d)' \subseteq Landed(d)
      /\ \A b \in Adds : b # a => ReadsRequests(b)'
  BY <1>1, StepOfAdd
<1>3. CartTypes'
  BY <1>2 DEF CartInv, CartTypes
<1>4. \A d \in Carts : \A i \in 1 .. Len(states'[d]) : HoldsRequests(d, i)'
  BY <1>2, UnchangedHolds
<1>5. ReadsRequests(a)'
  BY <1>2 DEF ReadsRequests
<1>6. StoresApart'
  BY <1>2 DEF CartInv, StoresApart
<1> QED BY <1>2, <1>3, <1>4, <1>5, <1>6 DEF CartInv

LEMMA CreateCartInv ==
  ASSUME CartInv, NEW c \in Carts, CreateCart(c)
  PROVE  CartInv'
<1>1. /\ Save(c, <<>>) /\ backend' = backend /\ add' = add /\ states[c] = <<>>
      /\ <<>> \in Seq(Item) /\ HoldsExactly(<<>>, {})
  BY NothingHoldsNothing DEF CreateCart
<1>2. Begun' = Begun /\ \A d : Landed(d)' = Landed(d) /\ Sent(d)' = Sent(d)
  BY <1>1 DEF Begun, Landed, Sent
<1>3. Landed(c) = {}
  BY <1>1 DEF CartInv, StoresApart, Landed, Sent
<1>4. /\ states' \in [Carts -> Seq(Seq(Item))]
      /\ \A d \in Carts : states[d] # <<>> => states'[d] # <<>>
      /\ \A d \in Carts : \A i \in 1 .. Len(states'[d]) : HoldsRequests(d, i)'
  BY <1>1, <1>2, <1>3, SavedHolds
<1>5. \A a \in Adds : ReadsRequests(a)'
  BY <1>1, <1>2 DEF CartInv, ReadsRequests
<1>6. StoresApart'
  BY <1>1, <1>4, AddsAssumption DEF CartInv, StoresApart
<1> QED BY <1>1, <1>4, <1>5, <1>6 DEF CartInv, CartTypes

\* What a cart's current list holds.
LEMMA CurrentHolds ==
  ASSUME CartInv, NEW c \in Carts, states[c] # <<>>
  PROVE  /\ Current(c) \in Seq(Item)
         /\ \E kept \in SUBSET (Sent(c) \cap Begun) :
              /\ HoldsExactly(Current(c), kept)
              /\ backend = "mysql" => Landed(c) \subseteq kept
<1>1. states[c] \in Seq(Seq(Item)) /\ Len(states[c]) \in 1 .. Len(states[c])
  BY EmptySeq DEF CartInv, CartTypes
<1>2. Current(c) = states[c][Len(states[c])]
  BY DEF Current, Last
<1>3. states[c][Len(states[c])] \in Seq(Item)
  BY <1>1
<1>4. HoldsRequests(c, Len(states[c]))
  BY <1>1 DEF CartInv
<1> QED BY <1>2, <1>3, <1>4 DEF HoldsRequests

LEMMA InsertInv ==
  ASSUME CartInv, NEW a \in Adds, Insert(a)
  PROVE  CartInv'
<1> DEFINE c == CartOf[a]
<1>1. backend = "mysql" /\ add[a].phase = "none" /\ backend' = backend /\ c \in Carts
  BY AddsAssumption DEF Insert
<1>2. CASE states[c] = <<>>
  <2>1. Step(a, "not found", <<>>) /\ states' = states
    BY <1>2 DEF Insert
  <2> QED BY <1>1, <2>1, EndsInv
<1>3. CASE states[c] # <<>>
  <2>1. PICK kept \in SUBSET (Sent(c) \cap Begun) :
          HoldsExactly(Current(c), kept) /\ Landed(c) \subseteq kept
    BY <1>1, <1>3, CurrentHolds
  <2>2. a \notin kept /\ kept \in SUBSET Adds /\ Current(c) \in Seq(Item)
    BY <1>1, <1>3, <2>1, CurrentHolds DEF Begun
  <2>3. Current(c) \o Rows(a) \in Seq(Item) /\ HoldsExactly(Current(c) \o Rows(a), kept \cup {a})
    BY <2>1, <2>2, InsertHolds
  <2>4. /\ Current(c) \o <<>> \in Seq(Item) /\ HoldsExactly(Current(c) \o <<>>, kept)
    BY <2>1, <2>2, ConcatEmptySeq
  <2>5. PICK rows \in {<<>>, Rows(a)}, phase \in {"inserted", "error"} :
          /\ Save(c, Current(c) \o rows) /\ Step(a, phase, <<>>)
          /\ phase = "inserted" => rows = Rows(a)
    BY <1>3 DEF Insert, InsertedOnError
  <2>6. PICK now \in SUBSET (Sent(c) \cap (Begun \cup {a})) :
          /\ Current(c) \o rows \in Seq(Item) /\ HoldsExactly(Current(c) \o rows, now)
          /\ Landed(c) \subseteq now /\ (phase = "inserted" => a \in now)
    <3>1. CASE rows = Rows(a)
      <4>1. kept \cup {a} \in SUBSET (Sent(c) \cap (Begun \cup {a}))
        BY <2>1 DEF Sent
      <4> QED BY <2>1, <2>3, <3>1, <4>1
    <3>2. CASE rows = <<>> /\ phase = "error"
      BY <2>1, <2>4, <3>2
    <3> QED BY <2>5, <3>1, <3>2
  <2>7. <<>> \in Seq(Item) /\ phase \in Phases \ {"none"}
    <3>1. <<>> \in Seq(Item)
      OBVIOUS
    <3> QED BY <3>1 DEF Phases
  <2>8. /\ add' \in [Adds -> [phase : Phases, items : Seq(Item)]]
        /\ add'[a].phase = phase /\ \A b \in Adds : b # a => add'[b] = add[b]
        /\ Begun' = Begun \cup {a}
        /\ \A d \in Carts : d # c => Landed(d)' \subseteq Landed(d)
        /\ \A d \in Carts : Landed(d)' \subseteq Landed(d) \cup {a}
        /\ phase \notin {"inserted", "ok"} => \A d \in Carts : Landed(d)' \subseteq Landed(d)
        /\ \A b \in Adds : b # a => ReadsRequests(b)'
    BY <2>5, <2>7, StepOfAdd
  <2>9. Landed(c)' \subseteq now
    BY <1>1, <2>6, <2>8
  <2> HIDE DEF c
  <2>10. /\ states' \in [Carts -> Seq(Seq(Item))] /\ states'[c] # <<>>
         /\ \A d \in Carts : states[d] # <<>> => states'[d] # <<>>
         /\ \A d \in Carts : \A i \in 1 .. Len(states'[d]) : HoldsRequests(d, i)'
    BY <1>1, <2>5, <2>6, <2>8, <2>9, SavedHolds
  <2>11. CartTypes'
    BY <1>1, <2>8, <2>10 DEF CartInv, CartTypes
  <2>12. ReadsRequests(a)'
    BY <2>8 DEF ReadsRequests
  <2>13. StoresApart'
    BY <1>1, <2>8, <2>10, AddsAssumption DEF CartInv, StoresApart, c
  <2> QED BY <2>8, <2>10, <2>11, <2>12, <2>13 DEF CartInv
<1> QED BY <1>2, <1>3

LEMMA ReadBackInv ==
  ASSUME CartInv, NEW a \in Adds, ReadBack(a)
  PROVE  CartInv'
<1> DEFINE c == CartOf[a]
<1>1. /\ add[a].phase = "inserted" /\ backend' = backend /\ states' = states /\ c \in Carts
      /\ backend = "mysql" /\ states[c] # <<>>
  BY AddsAssumption DEF ReadBack, CartInv, StoresApart
<1>2. CASE Step(a, "error", <<>>)
  BY <1>1, <1>2, EndsInv
<1>3. CASE Step(a, "ok", Current(c))
  <2>1. Current(c) \in Seq(Item) /\ "ok" \in Phases \ {"none"}
    BY <1>1, CurrentHolds DEF Phases
  <2>2. /\ add' \in [Adds -> [phase : Phases, items : Seq(Item)]]
        /\ add'[a].phase = "ok" /\ \A b \in Adds : b # a => add'[b] = add[b]
        /\ Begun \subseteq Begun'
        /\ \A d \in Carts : d # c => Landed(d)' \subseteq Landed(d)
        /\ \A d \in Carts : Landed(d)' \subseteq Landed(d) \cup {a}
        /\ \A b \in Adds : b # a => ReadsRequests(b)'
    BY <1>3, <2>1, StepOfAdd
  <2>3. a \in Landed(c)
    BY <1>1 DEF Landed, Sent
  <2>4. \A d \in Carts : Landed(d)' \subseteq Landed(d)
    BY <2>2, <2>3
  <2>5. \A d \in Carts : \A i \in 1 .. Len(states'[d]) : HoldsRequests(d, i)'
    BY <1>1, <2>2, <2>4, UnchangedHolds
  <2>6. CartTypes'
    BY <1>1, <2>2 DEF CartInv, CartTypes
  <2>7. ReadsRequests(a)'
    BY <2>2 DEF ReadsRequests
  <2>8. StoresApart'
    BY <1>1, <2>2 DEF CartInv, StoresApart
  <2> QED BY <2>2, <2>5, <2>6, <2>7, <2>8 DEF CartInv
<1> QED BY <1>2, <1>3 DEF ReadBack

\* A read finds a list the cart has had.
LEMMA GetItemInv ==
  ASSUME CartInv, NEW a \in Adds, GetItem(a)
  PROVE  CartInv'
<1> DEFINE c == CartOf[a]
<1>1. /\ backend = "dynamodb" /\ add[a].phase = "none" /\ backend' = backend /\ states' = states
      /\ c \in Carts
  BY AddsAssumption DEF GetItem
<1>2. CASE Step(a, "not found", <<>>) \/ Step(a, "error", <<>>)
  BY <1>1, <1>2, EndsInv
<1>3. ASSUME NEW items \in Found(c), Step(a, "read", items) PROVE CartInv'
  <2>1. PICK i \in 1 .. Len(states[c]) : items = states[c][i]
    BY <1>1, <1>3 DEF Found, ToSet, CartInv, CartTypes
  <2>2. items \in Seq(Item) /\ "read" \in Phases \ {"none"}
    <3>1. states[c] \in Seq(Seq(Item))
      BY <1>1 DEF CartInv, CartTypes
    <3>2. "read" \in Phases \ {"none"}
      BY DEF Phases
    <3> QED BY <2>1, <3>1, <3>2
  <2>3. PICK kept \in SUBSET (Sent(c) \cap Begun) : HoldsExactly(items, kept)
    BY <1>1, <2>1 DEF CartInv, HoldsRequests
  <2>4. /\ add' \in [Adds -> [phase : Phases, items : Seq(Item)]]
        /\ add'[a].phase = "read" /\ add'[a].items = items
        /\ \A b \in Adds : b # a => add'[b] = add[b]
        /\ Begun \subseteq Begun' /\ \A d \in Carts : Landed(d)' \subseteq Landed(d)
        /\ \A b \in Adds : b # a => ReadsRequests(b)'
    BY <1>3, <2>2, StepOfAdd
  <2>5. a \notin kept /\ kept \in SUBSET (Sent(c)' \cap Begun')
    BY <1>1, <2>3, <2>4 DEF Begun, Sent
  <2>6. ReadsRequests(a)'
    BY <2>3, <2>4, <2>5 DEF ReadsRequests
  <2>7. \A d \in Carts : \A k \in 1 .. Len(states'[d]) : HoldsRequests(d, k)'
    BY <1>1, <2>4, UnchangedHolds
  <2>8. CartTypes'
    BY <1>1, <2>4 DEF CartInv, CartTypes
  <2>9. StoresApart'
    BY <1>1, <2>4 DEF CartInv, StoresApart
  <2> QED BY <2>4, <2>6, <2>7, <2>8, <2>9 DEF CartInv
<1> QED BY <1>2, <1>3 DEF GetItem

\* A list that is written back holds what was read and the request, once.
LEMMA UpdateItemInv ==
  ASSUME CartInv, NEW a \in Adds, UpdateItem(a)
  PROVE  CartInv'
<1> DEFINE c == CartOf[a]
           merged == Merge(add[a].items, ItemsOf[a])
<1>1. /\ backend = "dynamodb" /\ add[a].phase = "read" /\ backend' = backend /\ c \in Carts
      /\ add[a].items \in Seq(Item)
  BY AddsAssumption DEF UpdateItem, CartInv, StoresApart, CartTypes
<1>2. PICK kept \in SUBSET (Sent(c) \cap Begun) :
        a \notin kept /\ HoldsExactly(add[a].items, kept)
  BY <1>1 DEF CartInv, ReadsRequests
<1>3. kept \in SUBSET Adds /\ a \in Begun /\ a \in Sent(c)
  BY <1>1, <1>2 DEF Sent, Begun
<1>4. merged \in Seq(Item) /\ HoldsExactly(merged, kept \cup {a})
  BY <1>1, <1>2, <1>3, MergeHolds
<1>5. CASE Step(a, "error", <<>>) /\ states' = states
  BY <1>1, <1>5, EndsInv
<1>6. ASSUME Save(c, merged), NEW phase \in {"ok", "error"}, NEW items \in {merged, <<>>},
             Step(a, phase, items)
      PROVE  CartInv'
  <2>1. items \in Seq(Item) /\ phase \in Phases \ {"none"}
    <3>1. <<>> \in Seq(Item)
      OBVIOUS
    <3>2. phase \in Phases \ {"none"}
      BY DEF Phases
    <3> QED BY <1>4, <3>1, <3>2
  <2>2. /\ add' \in [Adds -> [phase : Phases, items : Seq(Item)]]
        /\ add'[a].phase = phase /\ \A b \in Adds : b # a => add'[b] = add[b]
        /\ Begun' = Begun \cup {a}
        /\ \A d \in Carts : d # c => Landed(d)' \subseteq Landed(d)
        /\ \A b \in Adds : b # a => ReadsRequests(b)'
    BY <1>6, <2>1, StepOfAdd
  <2>3. kept \cup {a} \in SUBSET (Sent(c) \cap Begun')
    BY <1>2, <1>3, <2>2
  <2> HIDE DEF c, merged
  <2>4. /\ states' \in [Carts -> Seq(Seq(Item))] /\ states'[c] # <<>>
        /\ \A d \in Carts : states[d] # <<>> => states'[d] # <<>>
        /\ \A d \in Carts : \A i \in 1 .. Len(states'[d]) : HoldsRequests(d, i)'
    BY <1>1, <1>4, <1>6, <2>2, <2>3, SavedHolds
  <2>5. CartTypes'
    BY <1>1, <2>2, <2>4 DEF CartInv, CartTypes
  <2>6. ReadsRequests(a)'
    BY <2>2 DEF ReadsRequests
  <2>7. StoresApart'
    BY <1>1, <2>2, <2>4, AddsAssumption DEF CartInv, StoresApart, c
  <2> QED BY <2>2, <2>4, <2>5, <2>6, <2>7 DEF CartInv
<1>7. CASE Save(c, merged) /\ add' = add
  <2>1. Begun' = Begun /\ \A d : Landed(d)' = Landed(d) /\ Sent(d)' = Sent(d)
    BY <1>7 DEF Begun, Landed, Sent
  <2>2. kept \cup {a} \in SUBSET (Sent(c) \cap Begun')
    BY <1>2, <1>3, <2>1
  <2> HIDE DEF c, merged
  <2>3. /\ states' \in [Carts -> Seq(Seq(Item))]
        /\ \A d \in Carts : states[d] # <<>> => states'[d] # <<>>
        /\ \A d \in Carts : \A i \in 1 .. Len(states'[d]) : HoldsRequests(d, i)'
    BY <1>1, <1>4, <1>7, <2>1, <2>2, SavedHolds
  <2>4. CartTypes'
    BY <1>1, <1>7, <2>3 DEF CartInv, CartTypes
  <2>5. \A b \in Adds : ReadsRequests(b)'
    BY <1>7, <2>1 DEF CartInv, ReadsRequests
  <2>6. StoresApart'
    BY <1>1, <1>7, <2>3, AddsAssumption DEF CartInv, StoresApart
  <2> QED BY <2>3, <2>4, <2>5, <2>6 DEF CartInv
<1> QED BY <1>5, <1>6, <1>7 DEF UpdateItem

LEMMA CartNextInv == CartInv /\ [CartNext]_cartVars => CartInv'
<1> SUFFICES ASSUME CartInv, [CartNext]_cartVars PROVE CartInv'
  OBVIOUS
<1>1. ASSUME NEW c \in Carts, CreateCart(c) PROVE CartInv'
  BY <1>1, CreateCartInv
<1>2. ASSUME NEW a \in Adds, Insert(a) \/ ReadBack(a) \/ GetItem(a) \/ UpdateItem(a)
      PROVE  CartInv'
  BY <1>2, InsertInv, ReadBackInv, GetItemInv, UpdateItemInv
<1>3. CASE UNCHANGED cartVars
  <2>1. backend' = backend /\ states' = states /\ add' = add
    BY <1>3 DEF cartVars
  <2>2. Begun' = Begun /\ \A d : Landed(d)' = Landed(d) /\ Sent(d)' = Sent(d)
    BY <2>1 DEF Begun, Landed, Sent
  <2>3. \A d \in Carts : \A i \in 1 .. Len(states'[d]) : HoldsRequests(d, i)'
    BY <2>1, <2>2, UnchangedHolds
  <2> QED BY <2>1, <2>2, <2>3 DEF CartInv, CartTypes, ReadsRequests, StoresApart
<1> QED BY <1>1, <1>2, <1>3 DEF CartNext

\* What a cart holds of every product is what a set of its requests asked for,
\* with MySQL one that has all that were answered 200: whatever overlaps, fails,
\* is retried or is read from an old copy.
THEOREM CartsHoldWholeRequests == CartSpec => []CartHoldsWholeRequests
<1>1. CartInv => CartHoldsWholeRequests
  <2> SUFFICES ASSUME CartInv, NEW c \in Carts, states[c] # <<>>
               PROVE  \E kept \in SUBSET Sent(c) :
                        /\ \A p \in Products : InCart(Current(c), p) = Asked(kept, p)
                        /\ backend = "mysql" => {a \in Sent(c) : add[a].phase = "ok"} \subseteq kept
    BY DEF CartHoldsWholeRequests, Sent
  <2>1. PICK kept \in SUBSET (Sent(c) \cap Begun) :
          /\ HoldsExactly(Current(c), kept)
          /\ backend = "mysql" => Landed(c) \subseteq kept
    BY CurrentHolds
  <2> QED BY <2>1 DEF HoldsExactly, Landed
<1> QED BY <1>1, CartInitInv, CartNextInv, PTL DEF CartSpec
=============================================================================
