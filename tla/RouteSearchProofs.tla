-------------------------- MODULE RouteSearchProofs --------------------------
(***************************************************************************)
(* The search in the routing table, for tables of any size over addresses  *)
(* of any width: it stays on the table, answers only with a route of the   *)
(* table that contains the destination, and finds the last route at or     *)
(* below the destination if that one does.                                 *)
(***************************************************************************)
EXTENDS RouteSearch, FiniteSetTheorems, FunctionTheorems, SequenceTheorems,
        WellFoundedInduction, TLAPS

Rows == {table[i] : i \in 1..Len(table)}

\* Only rows of the table that contain the destination are collected, and the
\* result is one of them.
Found == {r \in Rows : Matches(r, dest)}
FoundRight == aux \in Seq(Found) /\ route \in Found \cup {None}

Inv == TypeOK /\ FoundRight
-----------------------------------------------------------------------------
\* A table is a sequence of entries, whatever order it was sorted in.
LEMMA SortedIsTable ==
    ASSUME NEW S \in RouteSets, NEW t \in Sorted(S)
    PROVE  t \in Seq(Entries) /\ Len(t) \in Nat
<1>1. Cardinality(S) \in Nat
  BY RouteAssumption, FS_CardinalityType
<1>2. t \in [1..Cardinality(S) -> Entries]
  <2>1. t \in [1..Cardinality(S) -> S] /\ S \subseteq Entries
    BY RouteAssumption DEF Sorted, Arrangements
  <2> QED
    BY <2>1
<1> QED
  BY <1>1, <1>2

LEMMA InitInv == Init => Inv
<1> SUFFICES ASSUME Init
             PROVE  Inv
  OBVIOUS
<1>1. table \in Seq(Entries) /\ Len(table) \in Nat
  BY SortedIsTable DEF Init
<1>2. TypeOK
  BY <1>1, EmptySeq DEF Init, TypeOK
<1>3. FoundRight
  BY EmptySeq DEF Init, FoundRight
<1> QED
  BY <1>2, <1>3 DEF Inv

\* The middle is between the bounds, so that it is an index of the table.
LEMMA MidOnTable ==
    ASSUME TypeOK, left <= right
    PROVE  /\ mid \in left..right
           /\ mid + 1 \in 1..Len(table)
           /\ table[mid + 1] \in Entries
<1>1. left \in Int /\ right \in Int /\ Len(table) \in Nat /\ left >= 0 /\ right <= Len(table) - 1
  BY DEF TypeOK
<1>2. mid \in left..right
  BY <1>1 DEF mid
<1>3. mid + 1 \in 1..Len(table)
  BY <1>1, <1>2
<1> QED
  BY <1>2, <1>3, ElementOfSeq DEF TypeOK

LEMMA SearchStep ==
    ASSUME Inv, Search
    PROVE  Inv'
<1> DEFINE r == table[mid + 1]
<1>1. /\ mid \in left..right /\ mid + 1 \in 1..Len(table) /\ r \in Entries
      /\ UNCHANGED <<table, dest, route, pc>>
  BY MidOnTable DEF Search, Inv
<1>2. left' \in {left, mid + 1} /\ right' \in {right, mid - 1}
  BY DEF Search, GoOn
<1>3. left' \in 0..Len(table) /\ right' \in -1..Len(table) - 1
  BY <1>1, <1>2 DEF Inv, TypeOK
<1>4. Matches(r, dest) => r \in Found
  BY <1>1 DEF Found, Rows
<1>5. r \in Rows
  BY <1>1 DEF Rows
<1> HIDE DEF r
<1>6. aux' = aux \/ (Matches(r, dest) /\ aux' = Append(aux, r))
  BY DEF Search, Collect, r
<1>7. aux' \in Seq(Entries)
  BY <1>1, <1>6 DEF Inv, TypeOK
<1>8. aux' \in Seq(Found)
  BY <1>4, <1>6 DEF Inv, FoundRight
<1>9. Found' = Found
  BY <1>1 DEF Found, Rows, Matches, Masked
<1> QED
  BY <1>1, <1>3, <1>7, <1>8, <1>9 DEF Inv, TypeOK, FoundRight

LEMMA ChooseStep ==
    ASSUME Inv, ChooseRoute
    PROVE  Inv'
<1>1. PICK k \in 1..Len(aux) : route' = aux[k]
  BY DEF ChooseRoute
<1>2. route' \in Found /\ route' \in Entries
  BY <1>1, ElementOfSeq DEF Inv, TypeOK, FoundRight
<1>3. Found' = Found
  BY DEF ChooseRoute, Found, Rows, Matches, Masked
<1> QED
  BY <1>2, <1>3 DEF ChooseRoute, Inv, TypeOK, FoundRight

LEMMA NextInv == Inv /\ [Next]_vars => Inv'
<1> SUFFICES ASSUME Inv, [Next]_vars
             PROVE  Inv'
  OBVIOUS
<1>1. CASE EndSearch \/ NoRouteFound
  BY <1>1 DEF EndSearch, NoRouteFound, Inv, TypeOK, FoundRight, Found, Rows, Matches, Masked
<1>2. CASE UNCHANGED vars
  BY <1>2 DEF vars, Inv, TypeOK, FoundRight, Found, Rows, Matches, Masked
<1> QED
  BY <1>1, <1>2, SearchStep, ChooseStep DEF Next
-----------------------------------------------------------------------------
(* Theorems *)

\* Every variable keeps its type; in particular the search never reads beside
\* the table (router.c:286-299).
THEOREM SearchTypeCorrect == Spec => []TypeOK
<1>1. Inv => TypeOK
  BY DEF Inv
<1> QED
  BY <1>1, InitInv, NextInv, PTL DEF Spec

\* Whatever the table holds, and in whatever order, the result is a route of it
\* that contains the destination: a packet is never sent the wrong way.
THEOREM ResultIsRoute == Spec => []ResultMatches
<1>1. Inv => ResultMatches
  BY DEF Inv, FoundRight, Found, Rows, ResultMatches
<1> QED
  BY <1>1, InitInv, NextInv, PTL DEF Spec
-----------------------------------------------------------------------------
(* Powers of two, and the least number of a set *)

LEMMA LeastOf ==
    ASSUME NEW S \in SUBSET Nat, S # {}
    PROVE  \E x \in S : \A y \in S : x <= y
<1> DEFINE R == OpToRel(<, Nat)
<1>1. IsWellFoundedOn(R, Nat) /\ S \subseteq Nat
  BY NatLessThanWellFounded
<1>2. R = {ss \in Nat \X Nat : ss[1] < ss[2]}
  BY DEF OpToRel
<1> HIDE DEF R
<1>3. \E x \in S : \A y \in S : ~(<<y, x>> \in R)
  BY <1>1, WFMin, Zenon
<1>4. PICK x \in S : \A y \in S : ~(<<y, x>> \in R)
  BY <1>3
<1>5. ASSUME NEW y \in S
      PROVE  x <= y
  <2>1. <<y, x>> \in Nat \X Nat
    OBVIOUS
  <2>2. ~(y < x)
    BY <1>2, <1>4, <2>1
  <2> QED
    BY <2>2
<1> QED
  BY <1>5

\* Induction: a set that holds a, and with a number the next, holds all up to b.
LEMMA Climbs ==
    ASSUME NEW a \in Nat, NEW b \in Nat, NEW S, a \in S,
           \A n \in a..b : n \in S /\ n < b => n + 1 \in S
    PROVE  \A n \in a..b : n \in S
<1> DEFINE Missing == {n \in a..b : n \notin S}
<1> SUFFICES ASSUME Missing # {}
             PROVE  FALSE
  OBVIOUS
<1>1. PICK x \in Missing : \A y \in Missing : x <= y
  <2>1. Missing \in SUBSET Nat
    OBVIOUS
  <2> QED
    BY <2>1, LeastOf
<1>2. x # a /\ x - 1 \in a..b /\ x - 1 < b
  OBVIOUS
<1>3. x - 1 \in S
  BY <1>1, <1>2
<1> QED
  BY <1>2, <1>3

\* A set of n + 1 elements has twice as many subsets as one of n.
LEMMA PowerDoubles ==
    ASSUME NEW n \in Nat
    PROVE  2^(n + 1) = 2 * 2^n
<1> DEFINE A == SUBSET (1..n)
           B == {T \cup {n + 1} : T \in A}
           f == [T \in A |-> T \cup {n + 1}]
<1>1. IsFiniteSet(1..n) /\ Cardinality(1..n) = n
  BY FS_Interval
<1>2. IsFiniteSet(1..n + 1) /\ Cardinality(1..n + 1) = n + 1
  BY FS_Interval
<1>3. IsFiniteSet(A) /\ Cardinality(A) = 2^n
  BY <1>1, FS_SUBSET
<1>4. IsFiniteSet(SUBSET (1..n + 1)) /\ Cardinality(SUBSET (1..n + 1)) = 2^(n + 1)
  BY <1>2, FS_SUBSET
<1>5. f \in Bijection(A, B)
  <2>1. f \in [A -> B] /\ \A U \in B : \E T \in A : f[T] = U
    OBVIOUS
  <2>2. ASSUME NEW T \in A, NEW U \in A, f[T] = f[U]
        PROVE  T = U
    <3>1. n + 1 \notin T /\ n + 1 \notin U
      OBVIOUS
    <3> QED
      BY <2>2, <3>1
  <2> QED
    BY <2>1, <2>2 DEF Bijection, Injection, Surjection, IsInjective
<1>6. IsFiniteSet(B) /\ Cardinality(B) = 2^n
  BY <1>3, <1>5, FS_Bijection DEF ExistsBijection
<1>7. SUBSET (1..n + 1) = A \cup B
  <2>1. ASSUME NEW U \in SUBSET (1..n + 1)
        PROVE  U \in A \cup B
    <3>1. CASE n + 1 \notin U
      BY <2>1, <3>1
    <3>2. CASE n + 1 \in U
      <4>1. U \ {n + 1} \in A /\ U = (U \ {n + 1}) \cup {n + 1}
        BY <2>1, <3>2
      <4> QED
        BY <4>1
    <3> QED
      BY <3>1, <3>2
  <2>2. ASSUME NEW T \in A
        PROVE  T \in SUBSET (1..n + 1) /\ T \cup {n + 1} \in SUBSET (1..n + 1)
    <3>1. 1..n \subseteq 1..n + 1 /\ n + 1 \in 1..n + 1
      OBVIOUS
    <3> QED
      BY <3>1
  <2>3. ASSUME NEW U \in A \cup B
        PROVE  U \in SUBSET (1..n + 1)
    <3>1. U \in A \/ \E T \in A : U = T \cup {n + 1}
      OBVIOUS
    <3> HIDE DEF A, B
    <3> QED
      BY <2>2, <3>1
  <2> HIDE DEF A, B
  <2> QED
    BY <2>1, <2>3
<1>8. A \cap B = {}
  OBVIOUS
<1>9. Cardinality(A \cup B) = 2^n + 2^n - 0
  <2> HIDE DEF A, B
  <2>1. Cardinality(A \cap B) = 0
    BY <1>8, FS_EmptySet
  <2> QED
    BY <1>3, <1>6, <2>1, FS_Union
<1>10. 2^n \in Nat
  BY <1>3, FS_CardinalityType
<1> HIDE DEF A, B
<1>11. 2^(n + 1) = 2^n + 2^n - 0
  BY <1>4, <1>7, <1>9
<1>12. \A x \in Nat : x + x - 0 = 2 * x
  OBVIOUS
<1> QED
  BY <1>10, <1>11, <1>12

LEMMA PowerPositive ==
    ASSUME NEW n \in Nat
    PROVE  2^n \in Nat \ {0}
<1> DEFINE S == {k \in Nat : 2^k \in Nat \ {0}}
<1>1. 0 \in S
  OBVIOUS
<1>2. ASSUME NEW k \in 0..n, k \in S
      PROVE  k + 1 \in S
  BY <1>2, PowerDoubles
<1> HIDE DEF S
<1>3. n \in S
  BY <1>1, <1>2, Climbs
<1> QED
  BY <1>3 DEF S

\* A power of two is a multiple of each smaller one.
LEMMA PowerDivides ==
    ASSUME NEW a \in Nat, NEW b \in Nat, a <= b
    PROVE  \E c \in Nat : 2^b = 2^a * c
<1> DEFINE S == {n \in Nat : \E c \in Nat : 2^n = 2^a * c}
<1>1. a \in S
  <2>1. 2^a = 2^a * 1
    BY PowerPositive
  <2> QED
    BY <2>1
<1>2. ASSUME NEW n \in a..b, n \in S
      PROVE  n + 1 \in S
  <2>1. PICK c \in Nat : 2^n = 2^a * c
    BY <1>2
  <2>2. 2^(n + 1) = 2 * (2^a * c)
    BY <2>1, PowerDoubles
  <2>3. 2 * (2^a * c) = 2^a * (2 * c) /\ 2 * c \in Nat
    BY PowerPositive
  <2>4. \E m \in Nat : 2^(n + 1) = 2^a * m
    BY <2>2, <2>3
  <2>5. n + 1 \in Nat
    OBVIOUS
  <2> QED
    BY <2>4, <2>5
<1> HIDE DEF S
<1>3. b \in S
  BY <1>1, <1>2, Climbs
<1> QED
  BY <1>3 DEF S
-----------------------------------------------------------------------------
(* Masks and the comparator *)

LEMMA RoundDown ==
    ASSUME NEW m \in Nat \ {0}, NEW d \in Nat, NEW p \in Nat, p % m = 0, p <= d
    PROVE  p <= d - (d % m)
<1> DEFINE a == p \div m
           b == d \div m
<1>1. a \in Nat /\ p = m * a /\ b \in Nat /\ d < m * b + m /\ d - (d % m) = m * b
  OBVIOUS
<1> HIDE DEF a, b
<1>2. ASSUME a > b
      PROVE  FALSE
  <2>1. PICK k \in Nat : a = b + 1 + k
    <3>1. a - b - 1 \in Nat /\ a = b + 1 + (a - b - 1)
      BY <1>1, <1>2
    <3> QED
      BY <3>1
  <2>2. m * a = m * b + m + m * k /\ m * k \in Nat
    BY <1>1, <2>1
  <2> QED
    BY <1>1, <2>2
<1>3. PICK k \in Nat : b = a + k
  <2>1. b - a \in Nat /\ b = a + (b - a)
    BY <1>1, <1>2
  <2> QED
    BY <2>1
<1>4. m * b = m * a + m * k /\ m * k \in Nat
  BY <1>1, <1>3
<1> QED
  BY <1>1, <1>4

LEMMA RoundedIsMultiple ==
    ASSUME NEW m \in Nat \ {0}, NEW d \in Nat
    PROVE  /\ d - (d % m) = m * (d \div m)
           /\ d - (d % m) \in 0..d
OBVIOUS

LEMMA MultipleOfFactor ==
    ASSUME NEW m \in Nat \ {0}, NEW c \in Nat, NEW k \in Nat
    PROVE  ((m * c) * k) % m = 0
<1>1. (m * c) * k = m * (c * k) /\ c * k \in Nat
  OBVIOUS
<1>2. \A x \in Nat : (m * x) % m = 0
  OBVIOUS
<1> QED
  BY <1>1, <1>2

\* The bits a mask leaves out are a block of addresses of a power of two.
LEMMA MaskBlock ==
    ASSUME NEW mask \in Masks
    PROVE  \E n \in 0..W : mask = 2^W - 2^n /\ 2^W - mask = 2^n /\ 2^n \in Nat \ {0}
<1>1. PICK n \in 0..W : mask = 2^W - 2^n
  BY DEF Masks
<1>2. 2^n \in Nat \ {0} /\ 2^W \in Nat \ {0}
  BY PowerPositive, RouteAssumption
<1>3. 2^W - mask = 2^n
  <2>1. \A x, y \in Nat : x - (x - y) = y
    OBVIOUS
  <2> QED
    BY <1>1, <1>2, <2>1
<1> QED
  BY <1>1, <1>2, <1>3

\* A route at or below an address is at or below the address under its mask.
LEMMA AtOrBelowMasked ==
    ASSUME NEW d \in Addresses, NEW r \in Entries, r.mask \in Masks,
           r.prefix % (2^W - r.mask) = 0, r.prefix <= d
    PROVE  r.prefix <= Masked(d, r.mask)
<1>1. 2^W - r.mask \in Nat \ {0} /\ d \in Nat /\ r.prefix \in Nat
  BY MaskBlock DEF Entries, Addresses
<1> QED
  BY <1>1, RoundDown DEF Masked

LEMMA MaskedBelow ==
    ASSUME NEW d \in Addresses, NEW mask \in Masks
    PROVE  Masked(d, mask) \in 0..d
<1>1. 2^W - mask \in Nat \ {0} /\ d \in Nat
  BY MaskBlock DEF Addresses
<1> QED
  BY <1>1, RoundedIsMultiple DEF Masked

\* A longer mask keeps at least as much of an address.
LEMMA LongerKeepsMore ==
    ASSUME NEW d \in Addresses, NEW mask \in Masks, NEW long \in Masks, mask <= long
    PROVE  Masked(d, mask) <= Masked(d, long)
<1>1. PICK a \in 0..W : mask = 2^W - 2^a /\ 2^W - mask = 2^a /\ 2^a \in Nat \ {0}
  BY MaskBlock
<1>2. PICK b \in 0..W : long = 2^W - 2^b /\ 2^W - long = 2^b /\ 2^b \in Nat \ {0}
  BY MaskBlock
<1>3. 2^b <= 2^a
  <2>1. 2^W \in Nat
    BY PowerPositive, RouteAssumption
  <2>2. \A w, x, y \in Nat : w - x <= w - y => y <= x
    OBVIOUS
  <2> QED
    BY <1>1, <1>2, <2>1, <2>2
<1>4. \E c \in Nat : 2^a = 2^b * c
  <2>1. CASE b <= a
    BY <2>1, PowerDivides
  <2>2. CASE a <= b
    <3>1. PICK c \in Nat : 2^b = 2^a * c
      <4>1. a \in Nat /\ b \in Nat
        OBVIOUS
      <4> QED
        BY <2>2, <4>1, PowerDivides
    <3>2. \A x, y \in Nat \ {0} : \A z \in Nat : y = x * z /\ y <= x => x = y
      OBVIOUS
    <3>3. 2^a = 2^b
      BY <1>1, <1>2, <1>3, <3>1, <3>2
    <3> QED
      BY <1>1, <3>3
  <2> QED
    BY <2>1, <2>2
<1>5. PICK c \in Nat : 2^a = 2^b * c
  BY <1>4
<1>6. d \in Nat /\ d \div 2^a \in Nat
  BY <1>1 DEF Addresses
<1>7. Masked(d, mask) = (2^b * c) * (d \div 2^a) /\ Masked(d, mask) \in 0..d
  BY <1>1, <1>5, <1>6, RoundedIsMultiple DEF Masked
<1>8. Masked(d, mask) % 2^b = 0
  BY <1>2, <1>6, <1>7, MultipleOfFactor
<1>9. Masked(d, mask) \in Nat /\ Masked(d, mask) <= d
  BY <1>6, <1>7
<1>10. Masked(d, mask) <= d - (d % 2^b)
  BY <1>2, <1>6, <1>8, <1>9, RoundDown
<1> QED
  BY <1>2, <1>10 DEF Masked

\* The order comparator() means.
Before(p, q) == p.prefix < q.prefix \/ (p.prefix = q.prefix /\ p.mask <= q.mask)
Near(p, q) == p.prefix - q.prefix < 2^(W - 1) /\ p.mask - q.mask < 2^(W - 1)

LEMMA SmallDifferences ==
    ASSUME NEW n \in Int, -(2^(W - 1)) < n, n < 2^(W - 1)
    PROVE  AsInt(n) = n
<1> DEFINE h == 2^(W - 1)
<1>1. h \in Nat \ {0} /\ W - 1 \in Nat
  BY PowerPositive, RouteAssumption
<1>2. 2^W = 2 * h
  BY <1>1, PowerDoubles, RouteAssumption
<1> DEFINE u == n % 2^W
<1>3. u = IF n < 0 THEN n + 2 * h ELSE n
  <2> HIDE DEF h
  <2>1. -h < n /\ n < h
    BY DEF h
  <2>2. \A x \in Nat \ {0} : \A k \in 0..x - 1 : k % x = k
    OBVIOUS
  <2>3. \A x \in Nat \ {0} : \A k \in -x..-1 : k % x = k + x
    OBVIOUS
  <2> QED
    BY <1>1, <1>2, <2>1, <2>2, <2>3
<1>4. AsInt(n) = IF u < h THEN u ELSE u - 2 * h
  BY <1>2 DEF AsInt
<1>5. -h < n /\ n < h
  OBVIOUS
<1> HIDE DEF h, u
<1> QED
  BY <1>1, <1>3, <1>4, <1>5

LEMMA ComparatorOrders ==
    ASSUME NEW p \in Entries, NEW q \in Entries, Near(p, q), Near(q, p)
    PROVE  Comparator(p, q) <= 0 <=> Before(p, q)
<1>1. p.prefix \in Nat /\ q.prefix \in Nat /\ p.mask \in Nat /\ q.mask \in Nat
  BY DEF Entries, Addresses
<1>2. 2^(W - 1) \in Nat
  BY PowerPositive, RouteAssumption
<1>3. AsInt(p.mask - q.mask) = p.mask - q.mask
  BY <1>1, <1>2, SmallDifferences DEF Near
<1>4. AsInt(p.prefix - q.prefix) = p.prefix - q.prefix
  BY <1>1, <1>2, SmallDifferences DEF Near
<1> QED
  BY <1>1, <1>3, <1>4 DEF Comparator, Before
-----------------------------------------------------------------------------
(* Routes near enough for the comparator can be sorted, and are *)

LEMMA LastRoute ==
    ASSUME NEW S \in SUBSET Entries, S # {}
    PROVE  \E m \in S : \A q \in S : Before(q, m)
<1> DEFINE top == 2^W - 1
           P == {top - q.prefix : q \in S}
<1>1. \A q \in S : q.prefix \in 0..top /\ q.mask \in 0..top
  BY DEF Entries, Addresses
<1>2. top \in Nat
  BY PowerPositive, RouteAssumption
<1> HIDE DEF top
<1>3. P \in SUBSET Nat /\ P # {}
  BY <1>1, <1>2
<1>4. PICK x \in P : \A y \in P : x <= y
  BY <1>3, LeastOf
<1>5. PICK p \in S : x = top - p.prefix
  BY <1>4
<1>6. ASSUME NEW q \in S
      PROVE  q.prefix <= p.prefix
  <2>1. top - p.prefix <= top - q.prefix
    BY <1>4, <1>5
  <2> QED
    BY <1>1, <1>2, <2>1
<1> HIDE DEF P
<1> DEFINE T == {q \in S : q.prefix = p.prefix}
           M == {top - q.mask : q \in T}
<1>7. M \in SUBSET Nat /\ M # {}
  BY <1>1, <1>2
<1>8. PICK z \in M : \A y \in M : z <= y
  BY <1>7, LeastOf
<1>9. PICK m \in T : z = top - m.mask
  BY <1>8
<1>10. ASSUME NEW q \in S
       PROVE  Before(q, m)
  <2>1. CASE q.prefix = p.prefix
    <3>1. top - m.mask <= top - q.mask
      BY <1>8, <1>9, <2>1
    <3> QED
      BY <1>1, <1>2, <2>1, <3>1 DEF Before
  <2>2. CASE q.prefix # p.prefix
    BY <1>1, <1>6, <2>2 DEF Before
  <2> QED
    BY <2>1, <2>2
<1> QED
  BY <1>10

\* The last route is put after an arrangement of the others.
LEMMA ArrangeLast ==
    ASSUME NEW S \in SUBSET Entries, IsFiniteSet(S), NEW m \in S,
           \A q \in S : Comparator(q, m) <= 0,
           NEW t \in Arrangements(S \ {m}), Ordered(t)
    PROVE  \E u \in Arrangements(S) : Ordered(u)
<1> DEFINE n == Cardinality(S)
           u == [i \in 1..n |-> IF i = n THEN m ELSE t[i]]
<1>1. n \in Nat \ {0} /\ Cardinality(S \ {m}) = n - 1
  BY FS_CardinalityType, FS_RemoveElement, FS_EmptySet
<1> HIDE DEF n
<1>2. /\ t \in [1..n - 1 -> S \ {m}] /\ DOMAIN t = 1..n - 1
      /\ \A i, j \in 1..n - 1 : i < j => t[i] # t[j]
  BY <1>1 DEF Arrangements
<1>3. u \in [1..n -> S] /\ DOMAIN u = 1..n
  BY <1>1, <1>2
<1>4. ASSUME NEW i \in 1..n, NEW j \in 1..n, i < j
      PROVE  u[i] # u[j] /\ Comparator(u[i], u[j]) <= 0
  <2>1. i \in 1..n - 1 /\ u[i] = t[i] /\ t[i] \in S \ {m}
    BY <1>1, <1>2, <1>4
  <2>2. CASE j = n
    BY <2>1, <2>2
  <2>3. CASE j # n
    <3>1. j \in 1..n - 1 /\ u[j] = t[j]
      BY <1>1, <2>3
    <3> QED
      BY <1>2, <1>4, <2>1, <3>1 DEF Ordered
  <2> QED
    BY <2>2, <2>3
<1>5. u \in Arrangements(S) /\ Ordered(u)
  <2> HIDE DEF u
  <2> QED
    BY <1>3, <1>4 DEF Arrangements, Ordered, n
<1> QED
  BY <1>5

LEMMA CanBeSorted ==
    ASSUME NEW S \in SUBSET Entries, IsFiniteSet(S),
           \A p, q \in S : Near(p, q)
    PROVE  \E t \in Arrangements(S) : Ordered(t)
<1> DEFINE Sorts(T) == \E t \in Arrangements(T) : Ordered(t)
           Sizes == {n \in Nat : \A T \in SUBSET S : Cardinality(T) = n => Sorts(T)}
<1>1. 0 \in Sizes
  <2>1. ASSUME NEW T \in SUBSET S, Cardinality(T) = 0
        PROVE  Sorts(T)
    <3>1. T = {}
      BY <2>1, FS_Subset, FS_EmptySet
    <3> DEFINE t == [i \in 1..0 |-> i]
    <3>2. t \in [1..0 -> T] /\ DOMAIN t = {}
      OBVIOUS
    <3>3. t \in Arrangements(T) /\ Ordered(t)
      BY <2>1, <3>2 DEF Arrangements, Ordered
    <3> QED
      BY <3>3
  <2> QED
    BY <2>1
<1>2. Cardinality(S) \in Nat
  BY FS_CardinalityType
<1>3. ASSUME NEW n \in 0..Cardinality(S), n \in Sizes
      PROVE  n + 1 \in Sizes
  <2>1. ASSUME NEW T \in SUBSET S, Cardinality(T) = n + 1
        PROVE  Sorts(T)
    <3>1. IsFiniteSet(T) /\ T # {} /\ T \in SUBSET Entries
      BY <1>2, <2>1, FS_Subset, FS_EmptySet
    <3>2. PICK m \in T : \A q \in T : Before(q, m)
      BY <3>1, LastRoute
    <3>3. \A q \in T : Comparator(q, m) <= 0
      BY <3>1, <3>2, ComparatorOrders
    <3>4. T \ {m} \in SUBSET S /\ Cardinality(T \ {m}) = n
      <4>1. Cardinality(T \ {m}) = Cardinality(T) - 1
        BY <3>1, FS_RemoveElement
      <4>2. n \in Int
        BY <1>2
      <4> QED
        BY <2>1, <4>1, <4>2
    <3>5. PICK t \in Arrangements(T \ {m}) : Ordered(t)
      BY <1>3, <3>4
    <3> QED
      BY <3>1, <3>3, <3>5, ArrangeLast
  <2>2. n + 1 \in Nat
    BY <1>2
  <2> QED
    BY <2>1, <2>2
<1> HIDE DEF Sizes, Sorts
<1>4. \A n \in 0..Cardinality(S) : n \in Sizes
  BY <1>1, <1>2, <1>3, Climbs
<1>5. Cardinality(S) \in Sizes /\ S \in SUBSET S
  BY <1>2, <1>4
<1>6. Sorts(S)
  BY <1>5 DEF Sizes
<1> QED
  BY <1>6 DEF Sorts
-----------------------------------------------------------------------------
(* The last route at or below the destination is met *)

\* A table holds routes whose masks have their ones on the left, in the order
\* of the comparator if it can tell them apart.
RowsRight ==
    \A i \in 1..Len(table) :
        table[i].mask \in Masks /\ table[i].prefix % (2^W - table[i].mask) = 0
InOrder ==
    Comparable =>
        \A i, j \in 1..Len(table) : i < j => Before(table[i], table[j])

\* The last route at or below the destination, when it contains it.
Nearest(k) ==
    /\ k \in 1..Len(table)
    /\ table[k].prefix <= dest
    /\ \A i \in 1..Len(table) : i > k => table[i].prefix > dest
    /\ Matches(table[k], dest)
    /\ table[k].mask > 0

\* It is between the bounds until it has been met.
Met(k) == \E j \in 1..Len(aux) : aux[j] = table[k]
NearestMet ==
    Comparable =>
        \A k : Nearest(k) => \/ pc = "search" /\ left <= k - 1 /\ k - 1 <= right
                             \/ Met(k)

OrderInv == Inv /\ RowsRight /\ InOrder /\ NearestMet /\ FindsNearest

\* The rows of an arrangement are all the routes of its set.
LEMMA ArrangementIsOnto ==
    ASSUME NEW S, IsFiniteSet(S), NEW t \in Arrangements(S)
    PROVE  /\ DOMAIN t = 1..Cardinality(S)
           /\ \A q \in S : \E i \in 1..Cardinality(S) : t[i] = q
<1> DEFINE n == Cardinality(S)
<1>1. n \in Nat
  BY FS_CardinalityType
<1>2. IsFiniteSet(1..n) /\ Cardinality(1..n) = n
  BY <1>1, FS_Interval
<1> HIDE DEF n
<1>3. t \in [1..n -> S] /\ \A i, j \in 1..n : i < j => t[i] # t[j]
  BY DEF Arrangements, n
<1>4. t \in Injection(1..n, S)
  <2>1. ASSUME NEW i \in 1..n, NEW j \in 1..n, t[i] = t[j]
        PROVE  i = j
    BY <1>1, <1>3, <2>1
  <2> QED
    BY <1>3, <2>1 DEF Injection, IsInjective
<1>5. t \in Surjection(1..n, S)
  BY <1>2, <1>4, FS_Injection DEF n
<1> QED
  BY <1>3, <1>5 DEF Surjection, n

LEMMA OrderInit == Init => OrderInv
<1> SUFFICES ASSUME Init
             PROVE  OrderInv
  OBVIOUS
<1>1. Inv
  BY InitInv
<1>2. PICK S \in RouteSets : table \in Sorted(S)
  BY DEF Init
<1>3. S \in SUBSET Entries /\ IsFiniteSet(S) /\ table \in Arrangements(S)
  BY <1>2, RouteAssumption DEF Sorted
<1>4. Len(table) \in Nat /\ DOMAIN table = 1..Len(table)
  BY <1>1 DEF Inv, TypeOK
<1>5. /\ \A i \in 1..Len(table) : table[i] \in S
      /\ \A q \in S : \E i \in 1..Len(table) : table[i] = q
  <2>1. 1..Len(table) = 1..Cardinality(S)
    BY <1>3, <1>4, ArrangementIsOnto
  <2>2. \A i \in 1..Cardinality(S) : table[i] \in S
    BY <1>3 DEF Arrangements
  <2>3. \A q \in S : \E i \in 1..Cardinality(S) : table[i] = q
    BY <1>3, ArrangementIsOnto
  <2> QED
    BY <2>1, <2>2, <2>3
<1>6. RowsRight
  BY <1>5, MaskAssumption DEF RowsRight
<1>7. InOrder
  <2> SUFFICES ASSUME Comparable, NEW i \in 1..Len(table), NEW j \in 1..Len(table), i < j
               PROVE  Before(table[i], table[j])
    BY DEF InOrder
  <2>1. \A p, q \in S : Near(p, q)
    BY <1>5 DEF Comparable, Near
  <2>2. \E t \in Arrangements(S) : Ordered(t)
    BY <1>3, <2>1, CanBeSorted
  <2>3. Ordered(table)
    BY <1>2, <2>2 DEF Sorted
  <2>4. Comparator(table[i], table[j]) <= 0
    BY <1>4, <2>3 DEF Ordered
  <2>5. table[i] \in Entries /\ table[j] \in Entries
    BY <1>3, <1>5
  <2> QED
    BY <1>5, <2>1, <2>4, <2>5, ComparatorOrders
<1>8. NearestMet
  BY <1>4 DEF Init, NearestMet, Nearest
<1>9. FindsNearest
  BY DEF Init, FindsNearest
<1> QED
  BY <1>1, <1>6, <1>7, <1>8, <1>9 DEF OrderInv

\* Before the nearest route the search goes right, after it left.
LEMMA GoesTowards ==
    ASSUME OrderInv, Comparable, NEW k, Nearest(k), NEW i \in 1..Len(table)
    PROVE  /\ i <= k => Masked(dest, table[i].mask) >= table[i].prefix
           /\ i > k => ~(Masked(dest, table[i].mask) >= table[i].prefix)
<1>1. /\ table[i] \in Entries /\ table[i].mask \in Masks
      /\ table[i].prefix % (2^W - table[i].mask) = 0
      /\ dest \in Addresses /\ table[k] \in Entries /\ k \in 1..Len(table)
      /\ Len(table) \in Nat
  BY ElementOfSeq DEF OrderInv, Inv, TypeOK, RowsRight, Nearest
<1>2. /\ dest \in Nat /\ Masked(dest, table[i].mask) \in 0..dest
      /\ table[i].prefix \in Nat /\ table[k].prefix \in Nat
  BY <1>1, MaskedBelow DEF Addresses, Entries
<1>3. ASSUME i <= k
      PROVE  Masked(dest, table[i].mask) >= table[i].prefix
  <2>1. table[i].prefix <= table[k].prefix
    <3>1. CASE i = k
      BY <1>2, <3>1
    <3>2. CASE i < k
      BY <1>1, <1>2, <3>2 DEF OrderInv, InOrder, Before
    <3> QED
      BY <1>1, <1>3, <3>1, <3>2
  <2>2. table[i].prefix <= dest
    BY <1>2, <2>1 DEF Nearest
  <2> QED
    BY <1>1, <1>2, <2>2, AtOrBelowMasked
<1>4. ASSUME i > k
      PROVE  ~(Masked(dest, table[i].mask) >= table[i].prefix)
  BY <1>2, <1>4 DEF Nearest
<1> QED
  BY <1>3, <1>4

LEMMA OrderSearch ==
    ASSUME OrderInv, Search
    PROVE  NearestMet'
<1>1. /\ mid \in left..right /\ mid + 1 \in 1..Len(table)
      /\ left \in Int /\ right \in Int
      /\ UNCHANGED <<table, dest, route, pc>>
      /\ pc = "search" /\ left <= right
  BY MidOnTable DEF Search, OrderInv, Inv, TypeOK
<1>2. Comparable' = Comparable /\ \A k : Nearest(k)' = Nearest(k)
  BY <1>1 DEF Comparable, Nearest, Matches, Masked
<1> SUFFICES ASSUME Comparable, NEW k, Nearest(k)
             PROVE  \/ pc' = "search" /\ left' <= k - 1 /\ k - 1 <= right'
                    \/ Met(k)'
  BY <1>2 DEF NearestMet
<1>3. aux \in Seq(Entries) /\ k \in 1..Len(table) /\ Len(table) \in Nat
  BY DEF OrderInv, Inv, TypeOK, Nearest
<1>4. CASE Met(k)
  <2>1. PICK j \in 1..Len(aux) : aux[j] = table[k]
    BY <1>4 DEF Met
  <2>2. j \in 1..Len(aux') /\ aux'[j] = aux[j]
    BY <1>3, <2>1 DEF Search, Collect
  <2> QED
    BY <1>1, <2>1, <2>2 DEF Met
<1>5. CASE left <= k - 1 /\ k - 1 <= right
  <2>1. CASE mid + 1 = k
    <3>1. aux' = Append(aux, table[k])
      BY <2>1 DEF Search, Collect, Nearest
    <3>2. Len(aux') \in 1..Len(aux') /\ aux'[Len(aux')] = table[k]
      BY <1>3, <3>1
    <3> QED
      BY <1>1, <3>2 DEF Met
  <2>2. CASE mid + 1 < k
    <3>1. Masked(dest, table[mid + 1].mask) >= table[mid + 1].prefix
      BY <1>1, <1>3, <2>2, GoesTowards
    <3>2. left' = mid + 1 /\ right' = right
      BY <3>1 DEF Search, GoOn
    <3> QED
      BY <1>1, <1>3, <1>5, <2>2, <3>2
  <2>3. CASE mid + 1 > k
    <3>1. ~(Masked(dest, table[mid + 1].mask) >= table[mid + 1].prefix)
      BY <1>1, <1>3, <2>3, GoesTowards
    <3>2. left' = left /\ right' = mid - 1
      BY <3>1 DEF Search, GoOn
    <3> QED
      BY <1>1, <1>3, <1>5, <2>3, <3>2
  <2> QED
    BY <1>1, <1>3, <2>1, <2>2, <2>3
<1> QED
  BY <1>4, <1>5 DEF OrderInv, NearestMet

\* Of the matches, the nearest route has the longest mask, and alone.
LEMMA NearestIsLongest ==
    ASSUME OrderInv, Comparable, NEW k, Nearest(k), NEW i \in 1..Len(table),
           Matches(table[i], dest)
    PROVE  table[i].mask < table[k].mask \/ table[i] = table[k]
<1>1. /\ table[i] \in Entries /\ table[i].mask \in Masks
      /\ dest \in Addresses /\ table[k] \in Entries /\ k \in 1..Len(table)
      /\ table[k].mask \in Masks /\ Len(table) \in Nat
  BY ElementOfSeq DEF OrderInv, Inv, TypeOK, RowsRight, Nearest
<1>2. /\ table[i].prefix \in Nat /\ table[k].prefix \in Nat
      /\ table[i].mask \in Nat /\ table[k].mask \in Nat /\ dest \in Nat
  BY <1>1 DEF Entries, Addresses
<1>3. /\ Masked(dest, table[i].mask) = table[i].prefix
      /\ Masked(dest, table[k].mask) = table[k].prefix
  BY DEF Matches, Nearest
<1>4. CASE i = k
  BY <1>4
<1>5. CASE i > k
  BY <1>1, <1>2, <1>3, <1>5, MaskedBelow DEF Nearest
<1>6. CASE i < k /\ table[i].mask >= table[k].mask
  <2>1. table[k].prefix <= table[i].prefix
    BY <1>1, <1>2, <1>3, <1>6, LongerKeepsMore
  <2>2. Before(table[i], table[k])
    BY <1>1, <1>6 DEF OrderInv, InOrder
  <2>3. table[i].prefix = table[k].prefix /\ table[i].mask = table[k].mask
    BY <1>2, <1>6, <2>1, <2>2 DEF Before
  <2> QED
    BY <1>1, <2>3 DEF Entries
<1> QED
  BY <1>1, <1>2, <1>4, <1>5, <1>6

LEMMA OrderChoose ==
    ASSUME OrderInv, ChooseRoute \/ NoRouteFound
    PROVE  FindsNearest'
<1>1. UNCHANGED <<table, dest, left, right, aux>> /\ pc = "choose"
  BY DEF ChooseRoute, NoRouteFound
<1>2. Comparable' = Comparable /\ \A k : Nearest(k)' = Nearest(k)
  BY <1>1 DEF Comparable, Nearest, Matches, Masked
<1> SUFFICES ASSUME Comparable, NEW k \in 1..Len(table), Nearest(k)
             PROVE  route' = table[k]
  BY <1>1, <1>2 DEF FindsNearest, Nearest, Matches, Masked
<1>3. Met(k)
  BY <1>1 DEF OrderInv, NearestMet
<1>4. PICK j \in 1..Len(aux) : aux[j] = table[k]
  BY <1>3 DEF Met
<1>5. /\ Len(aux) \in Nat
      /\ \A n \in 1..Len(aux) : aux[n] \in Found
      /\ \A n \in 1..Len(aux) : aux[n] \in Entries
      /\ table[k] \in Entries
  <2>1. aux \in Seq(Found) /\ aux \in Seq(Entries) /\ table \in Seq(Entries)
    BY DEF OrderInv, Inv, TypeOK, FoundRight
  <2> QED
    BY <2>1, ElementOfSeq
<1>6. ASSUME NEW n \in 1..Len(aux)
      PROVE  aux[n].mask < table[k].mask \/ aux[n] = table[k]
  BY <1>5, NearestIsLongest DEF Found, Rows
<1>7. /\ table[k].mask \in Nat
      /\ \A n \in 1..Len(aux) : aux[n].mask \in Nat
  BY <1>5 DEF Entries, Addresses
\* The first place where it is in aux.
<1>8. PICK f \in {n \in 1..Len(aux) : aux[n] = table[k]} :
        \A n \in {n \in 1..Len(aux) : aux[n] = table[k]} : f <= n
  <2> DEFINE Places == {n \in 1..Len(aux) : aux[n] = table[k]}
  <2>1. Places \in SUBSET Nat /\ Places # {}
    BY <1>4
  <2> HIDE DEF Places
  <2>2. \E x \in Places : \A y \in Places : x <= y
    BY <2>1, LeastOf
  <2> QED
    BY <2>2 DEF Places
<1>9. Best(f)
  <2>1. f \in 1..Len(aux) /\ aux[f].mask > 0
    BY <1>8 DEF Nearest
  <2>2. \A n \in 1..Len(aux) : aux[n].mask <= aux[f].mask
    BY <1>5, <1>6, <1>7, <1>8
  <2>3. ASSUME NEW n \in 1..f - 1
        PROVE  aux[n].mask < aux[f].mask
    <3>1. n \in 1..Len(aux) /\ n < f
      BY <1>5, <1>8
    <3> QED
      BY <1>6, <1>8, <3>1
  <2> QED
    BY <2>1, <2>2, <2>3 DEF Best
<1>10. ASSUME NEW b \in 1..Len(aux), Best(b)
       PROVE  aux[b] = table[k]
  <2>1. aux[j].mask <= aux[b].mask
    BY <1>4, <1>10 DEF Best
  <2> QED
    BY <1>4, <1>5, <1>6, <1>7, <1>10, <2>1
<1> QED
  BY <1>8, <1>9, <1>10 DEF ChooseRoute, NoRouteFound

LEMMA OrderNext == OrderInv /\ [Next]_vars => OrderInv'
<1> SUFFICES ASSUME OrderInv, [Next]_vars
             PROVE  OrderInv'
  OBVIOUS
<1>1. Inv'
  BY NextInv DEF OrderInv
<1>2. UNCHANGED <<table, dest>>
  BY DEF Next, Search, EndSearch, ChooseRoute, NoRouteFound, vars
<1>3. RowsRight' /\ InOrder'
  BY <1>2 DEF OrderInv, RowsRight, InOrder, Comparable
<1>4. Comparable' = Comparable /\ \A k : Nearest(k)' = Nearest(k)
  BY <1>2 DEF Comparable, Nearest, Matches, Masked
<1>5. NearestMet'
  <2>1. CASE Search
    BY <2>1, OrderSearch
  <2>2. CASE EndSearch
    <3>1. ASSUME Comparable, NEW k, Nearest(k)
          PROVE  Met(k)
      <4>1. left \in Int /\ right \in Int /\ k \in Int /\ left > right
        BY <2>2, <3>1 DEF EndSearch, OrderInv, Inv, TypeOK, Nearest
      <4> QED
        BY <3>1, <4>1 DEF OrderInv, NearestMet
    <3>2. UNCHANGED <<aux, table>>
      BY <2>2 DEF EndSearch
    <3> QED
      BY <1>4, <3>1, <3>2 DEF NearestMet, Met
  <2>3. CASE ChooseRoute \/ NoRouteFound
    BY <1>4, <2>3 DEF ChooseRoute, NoRouteFound, OrderInv, NearestMet, Met
  <2>4. CASE UNCHANGED vars
    BY <1>4, <2>4 DEF vars, OrderInv, NearestMet, Met
  <2> QED
    BY <2>1, <2>2, <2>3, <2>4 DEF Next
<1>6. FindsNearest'
  <2>1. CASE ChooseRoute \/ NoRouteFound
    BY <2>1, OrderChoose
  <2>2. CASE Search \/ EndSearch
    BY <2>2 DEF Search, EndSearch, FindsNearest
  <2>3. CASE UNCHANGED vars
    BY <2>3 DEF vars, OrderInv, FindsNearest, Comparable, Matches, Masked
  <2> QED
    BY <2>1, <2>2, <2>3 DEF Next
<1> QED
  BY <1>1, <1>3, <1>5, <1>6 DEF OrderInv

\* For a table of any size, as qsort() returns it, and addresses of any width:
\* when no difference of two prefixes or masks overflows the comparator's int,
\* the last route at or below the destination is the result if it contains it
\* (router.c:286-311), whatever routes are nested before it.
THEOREM NearestIsFound == Spec => []FindsNearest
<1>1. OrderInv => FindsNearest
  BY DEF OrderInv
<1> QED
  BY <1>1, OrderInit, OrderNext, PTL DEF Spec
=============================================================================
