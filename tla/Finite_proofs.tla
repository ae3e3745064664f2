----------------------------- MODULE Finite_proofs -----------------------------
(***************************************************************************)
(* Lemmas about numbers, finite sets and sequences that the proofs of      *)
(* several components cite.  Induction takes the form of a set of numbers  *)
(* that holds 0 and, with each number, the next.                           *)
(***************************************************************************)
EXTENDS Listing, Functions, FiniteSetTheorems, FunctionTheorems, WellFoundedInduction, TLAPS

LEMMA LeastExists ==
  ASSUME NEW S \in SUBSET Nat, S # {}
  PROVE  \E m \in S : \A n \in S : m <= n
<1>1. PICK m \in S : \A n \in S : ~ (<< n, m >> \in OpToRel(<, Nat))
  BY WFMin, NatLessThanWellFounded
<1>2. \A n \in S : ~ (n < m)
  BY <1>1 DEF OpToRel
<1> QED BY <1>2

LEMMA LargestExists ==
  ASSUME NEW S \in SUBSET Nat, S # {}, NEW bound \in Nat, \A x \in S : x <= bound
  PROVE  \E m \in S : \A x \in S : m >= x
<1> DEFINE T == {n \in Nat : \E x \in S : n = bound - x}
<1>1. T \in SUBSET Nat /\ T # {}
  <2>1. PICK x \in S : TRUE
    OBVIOUS
  <2>2. bound - x \in T
    BY <2>1
  <2> QED BY <2>2
<1> HIDE DEF T
<1>2. PICK n \in T : \A y \in T : n <= y
  BY <1>1, LeastExists
<1>3. PICK m \in S : n = bound - m
  BY <1>2 DEF T
<1>4. ASSUME NEW x \in S PROVE m >= x
  <2>1. bound - x \in T /\ m \in Nat /\ x \in Nat
    BY DEF T
  <2> QED BY <1>2, <1>3, <2>1
<1> QED BY <1>4

LEMMA EveryNumber ==
  ASSUME NEW S \in SUBSET Nat, 0 \in S, \A n \in S : n + 1 \in S
  PROVE  \A n \in Nat : n \in S
<1> SUFFICES ASSUME Nat \ S # {} PROVE FALSE
  OBVIOUS
<1>1. PICK m \in Nat \ S : \A n \in Nat \ S : m <= n
  BY LeastExists
<1>2. m # 0 /\ m - 1 \in Nat
  BY <1>1
<1>3. m - 1 \in S
  BY <1>1, <1>2
<1> QED BY <1>1, <1>2, <1>3

-----------------------------------------------------------------------------
(* Sorting                                                                 *)

Orders(R, S) ==
    /\ \A x \in S : << x, x >> \notin R
    /\ \A x, y, z \in S : << x, y >> \in R /\ << y, z >> \in R => << x, z >> \in R
    /\ \A x, y \in S : x = y \/ << x, y >> \in R \/ << y, x >> \in R

\* s lists the set in the order R.
Sorts(s, set, R) ==
    /\ s \in [1..Cardinality(set) -> set]
    /\ \A i, j \in DOMAIN s : i < j => << s[i], s[j] >> \in R

\* s lists the set of numbers in increasing order.
Lists(s, set) ==
    /\ s \in [1..Cardinality(set) -> set]
    /\ \A i, j \in DOMAIN s : i < j => s[i] < s[j]

LEMMA FirstExists ==
  ASSUME NEW R, NEW T, Orders(R, T), IsFiniteSet(T), T # {}
  PROVE  \E m \in T : \A x \in T : x = m \/ << m, x >> \in R
<1> DEFINE Below(x) == {y \in T : << y, x >> \in R}
           Sizes == {n \in Nat : \E x \in T : n = Cardinality(Below(x))}
<1>1. ASSUME NEW x \in T PROVE IsFiniteSet(Below(x)) /\ Cardinality(Below(x)) \in Nat
  <2>1. Below(x) \in SUBSET T
    OBVIOUS
  <2> HIDE DEF Below
  <2> QED BY <2>1, FS_Subset, FS_CardinalityType
<1>2. Sizes \in SUBSET Nat /\ Sizes # {}
  <2>1. PICK x \in T : TRUE
    OBVIOUS
  <2> HIDE DEF Below
  <2> QED BY <1>1, <2>1
<1>3. PICK n \in Sizes : \A k \in Sizes : n <= k
  <2> HIDE DEF Sizes
  <2> QED BY <1>2, LeastExists
<1>4. PICK m \in T : n = Cardinality(Below(m))
  OBVIOUS
<1>5. ASSUME NEW x \in T, << x, m >> \in R PROVE FALSE
  <2>1. Below(x) \in SUBSET Below(m) /\ x \in Below(m) /\ x \notin Below(x)
    BY <1>5 DEF Orders
  <2>2. Cardinality(Below(x)) \in Sizes
    <3> HIDE DEF Below
    <3> QED BY <1>1
  <2> HIDE DEF Below, Sizes
  <2>3. Below(x) # Below(m)
    BY <2>1
  <2>4. Cardinality(Below(x)) < Cardinality(Below(m))
    BY <1>1, <2>1, <2>3, FS_Subset
  <2> QED BY <1>1, <1>3, <1>4, <2>2, <2>4
<1> QED BY <1>5 DEF Orders

\* A finite set can be sorted.
LEMMA SortedExists ==
  ASSUME NEW R, NEW set, Orders(R, set), IsFiniteSet(set)
  PROVE  \E s : Sorts(s, set, R)
<1> DEFINE Sortable(n) == \A T \in SUBSET set : Cardinality(T) = n => \E s : Sorts(s, T, R)
           Good == {n \in Nat : Sortable(n)}
<1>1. 0 \in Good
  <2> SUFFICES ASSUME NEW T \in SUBSET set, Cardinality(T) = 0 PROVE \E s : Sorts(s, T, R)
    OBVIOUS
  <2>1. IsFiniteSet(T)
    BY FS_Subset
  <2>2. T = {}
    BY <2>1, FS_EmptySet
  <2>3. 1..Cardinality(T) = {}
    OBVIOUS
  <2>4. Sorts([i \in {} |-> 0], T, R)
    BY <2>3 DEF Sorts
  <2> QED BY <2>4
<1>2. ASSUME NEW n \in Good PROVE n + 1 \in Good
  <2> SUFFICES ASSUME NEW T \in SUBSET set, Cardinality(T) = n + 1 PROVE \E s : Sorts(s, T, R)
    BY <1>2
  <2>0. n \in Nat
    BY <1>2
  <2>1. IsFiniteSet(T)
    BY FS_Subset
  <2>2. T # {}
    BY <2>0, <2>1, FS_EmptySet
  <2>3. PICK m \in T : \A x \in T : x = m \/ << m, x >> \in R
    <3>1. Orders(R, T)
      BY DEF Orders
    <3> QED BY <2>1, <2>2, <3>1, FirstExists
  <2>4. Cardinality(T \ {m}) = n
    <3>1. Cardinality(T \ {m}) = Cardinality(T) - 1
      BY <2>1, FS_RemoveElement
    <3> QED BY <2>0, <3>1
  <2>5. PICK r : Sorts(r, T \ {m}, R)
    BY <1>2, <2>4
  <2>6. /\ r \in [1..n -> T \ {m}]
        /\ \A i, j \in 1..n : i < j => << r[i], r[j] >> \in R
    BY <2>4, <2>5 DEF Sorts
  <2> DEFINE s == [i \in 1..(n + 1) |-> IF i = 1 THEN m ELSE r[i - 1]]
  <2>7. \A i \in 1..(n + 1) : i # 1 => i - 1 \in 1..n
    OBVIOUS
  <2>8. \A i \in 1..(n + 1) : s[i] \in T
    BY <2>6, <2>7
  <2>9. ASSUME NEW i \in 1..(n + 1), NEW j \in 1..(n + 1), i < j PROVE << s[i], s[j] >> \in R
    <3>1. j # 1 /\ j - 1 \in 1..n /\ s[j] = r[j - 1] /\ r[j - 1] \in T \ {m}
      BY <2>6, <2>7, <2>9
    <3>2. CASE i = 1
      BY <2>3, <3>1, <3>2
    <3>3. CASE i # 1
      <4>1. s[i] = r[i - 1] /\ i - 1 \in 1..n /\ i - 1 < j - 1
        BY <3>3, <2>9
      <4> QED BY <2>6, <3>1, <4>1
    <3> QED BY <3>2, <3>3
  <2>10. s \in [1..(n + 1) -> T]
    BY <2>8
  <2> HIDE DEF s
  <2>11. DOMAIN s = 1..(n + 1)
    BY <2>10
  <2>12. Sorts(s, T, R)
    BY <2>9, <2>10, <2>11 DEF Sorts
  <2> QED BY <2>12
<1> HIDE DEF Sortable
<1>3. Good \in SUBSET Nat
  OBVIOUS
<1> HIDE DEF Good
<1>4. Cardinality(set) \in Nat /\ \A n \in Nat : n \in Good
  BY <1>1, <1>2, <1>3, EveryNumber, FS_CardinalityType
<1>5. Sortable(Cardinality(set))
  BY <1>4 DEF Good
<1> QED BY <1>5 DEF Sortable

\* A sorted list of a set has every element of it.
LEMMA SortedIsAll ==
  ASSUME NEW R, NEW set, Orders(R, set), IsFiniteSet(set), NEW s, Sorts(s, set, R)
  PROVE  /\ Cardinality(set) \in Nat
         /\ \A x \in set : \E i \in 1..Cardinality(set) : s[i] = x
<1>1. Cardinality(set) \in Nat
  BY FS_CardinalityType
<1>2. ASSUME NEW i \in 1..Cardinality(set), NEW j \in 1..Cardinality(set), s[i] = s[j]
      PROVE  i = j
  <2>1. DOMAIN s = 1..Cardinality(set) /\ s[i] \in set
    BY DEF Sorts
  <2>2. i < j \/ j < i \/ i = j
    OBVIOUS
  <2>3. << s[i], s[j] >> \notin R /\ << s[j], s[i] >> \notin R
    BY <1>2, <2>1 DEF Orders
  <2> QED BY <2>1, <2>2, <2>3 DEF Sorts
<1>3. s \in Injection(1..Cardinality(set), set)
  <2>1. s \in [1..Cardinality(set) -> set]
    BY DEF Sorts
  <2> QED BY <1>2, <2>1, Fun_IsInj
<1>4. Cardinality(1..Cardinality(set)) = Cardinality(set)
  BY <1>1, FS_Interval
<1>5. s \in Surjection(1..Cardinality(set), set)
  BY <1>3, <1>4, FS_Injection
<1> QED BY <1>1, <1>5 DEF Surjection

\* A finite set of numbers can be listed upwards, and the list is complete.
LEMMA ListExists ==
  ASSUME NEW set \in SUBSET Int, IsFiniteSet(set)
  PROVE  /\ Cardinality(set) \in Nat
         /\ \E s : Lists(s, set)
         /\ \A s : Lists(s, set) => \A x \in set : \E i \in 1..Cardinality(set) : s[i] = x
<1> DEFINE R == {p \in Int \X Int : p[1] < p[2]}
<1>1. Orders(R, set)
  <2>1. \A x, y \in set : << x, y >> \in R <=> x < y
    OBVIOUS
  <2> HIDE DEF R
  <2> QED BY <2>1 DEF Orders
<1>2. ASSUME NEW s PROVE Lists(s, set) <=> Sorts(s, set, R)
  <2>1. CASE s \in [1..Cardinality(set) -> set]
    <3>1. \A i, j \in DOMAIN s : << s[i], s[j] >> \in R <=> s[i] < s[j]
      <4>1. \A i \in DOMAIN s : s[i] \in Int
        BY <2>1
      <4> QED BY <4>1
    <3> HIDE DEF R
    <3> QED BY <3>1 DEF Lists, Sorts
  <2>2. CASE s \notin [1..Cardinality(set) -> set]
    BY <2>2 DEF Lists, Sorts
  <2> QED BY <2>1, <2>2
<1> HIDE DEF R
<1> QED BY <1>1, <1>2, SortedExists, SortedIsAll, FS_CardinalityType

\* InOrder lists a set, all of it, nothing twice.
LEMMA InOrderLists ==
  ASSUME NEW set \in SUBSET Int, IsFiniteSet(set)
  PROVE  /\ Cardinality(set) \in Nat /\ InOrder(set) \in Seq(set) /\ Len(InOrder(set)) = Cardinality(set)
         /\ DOMAIN InOrder(set) = 1..Cardinality(set)
         /\ \A i, j \in 1..Cardinality(set) : i < j => InOrder(set)[i] < InOrder(set)[j]
         /\ \A i, j \in 1..Cardinality(set) : InOrder(set)[i] = InOrder(set)[j] => i = j
         /\ \A x \in set : \E i \in 1..Cardinality(set) : InOrder(set)[i] = x
<1> DEFINE s == InOrder(set)
           n == Cardinality(set)
<1>1. n \in Nat /\ Lists(s, set) /\ \A x \in set : \E i \in 1..n : s[i] = x
  <2>1. n \in Nat /\ \E r : Lists(r, set)
    BY ListExists
  <2>2. Lists(s, set)
    BY <2>1 DEF InOrder, Lists
  <2> HIDE DEF s
  <2> QED BY <2>1, <2>2, ListExists
<1>2. s \in [1..n -> set] /\ DOMAIN s = 1..n /\ \A i, j \in 1..n : i < j => s[i] < s[j]
  BY <1>1 DEF Lists
<1> HIDE DEF s, n
<1>3. ASSUME NEW i \in 1..n, NEW j \in 1..n, s[i] = s[j] PROVE i = j
  <2>1. i < j \/ j < i \/ i = j
    BY <1>1
  <2>2. s[i] \in Int
    BY <1>2
  <2> QED BY <1>2, <1>3, <2>1, <2>2
<1>4. s \in Seq(set) /\ Len(s) = n
  BY <1>1, <1>2
<1> QED BY <1>1, <1>2, <1>3, <1>4 DEF s, n

\* What is picked from a list keeps its order, and nothing is picked twice.
LEMMA PickedAre ==
  ASSUME NEW S, NEW list \in Seq(S), NEW places \in SUBSET DOMAIN list
  PROVE  /\ Cardinality(places) \in Nat
         /\ Picked(list, places) \in Seq(S) /\ Len(Picked(list, places)) = Cardinality(places)
         /\ DOMAIN Picked(list, places) = 1..Cardinality(places)
         /\ InOrder(places) \in Bijection(1..Cardinality(places), places)
         /\ \A i \in 1..Cardinality(places) : Picked(list, places)[i] = list[InOrder(places)[i]]
         /\ \A i, j \in 1..Cardinality(places) : i < j => InOrder(places)[i] < InOrder(places)[j]
<1> DEFINE n == Cardinality(places)
           place == InOrder(places)
<1>1. IsFiniteSet(places) /\ places \in SUBSET Int
  <2>1. IsFiniteSet(DOMAIN list) /\ DOMAIN list \in SUBSET Int
    BY FS_Interval
  <2> QED BY <2>1, FS_Subset
<1> DEFINE picked == [i \in 1..n |-> list[place[i]]]
<1>2. Picked(list, places) = SubSeq(picked, 1, n)
  BY DEF Picked
<1>3. /\ n \in Nat /\ place \in Seq(places) /\ DOMAIN place = 1..n
      /\ \A i, j \in 1..n : i < j => place[i] < place[j]
      /\ \A i, j \in 1..n : place[i] = place[j] => i = j
      /\ \A x \in places : \E i \in 1..n : place[i] = x
  BY <1>1, InOrderLists
<1> HIDE DEF place, n, picked
<1>4. place \in [1..n -> places]
  BY <1>3
<1>5. place \in Bijection(1..n, places)
  BY <1>3, <1>4 DEF Bijection, Injection, Surjection, IsInjective
<1>6. \A i \in 1..n : list[place[i]] \in S
  BY <1>4
<1>7. picked \in Seq(S) /\ Len(picked) = n /\ DOMAIN picked = 1..n /\ \A i \in 1..n : picked[i] = list[place[i]]
  BY <1>3, <1>6 DEF picked
<1>8. SubSeq(picked, 1, n) = picked
  BY <1>3, <1>7
<1> QED BY <1>2, <1>3, <1>5, <1>7, <1>8 DEF n, place

-----------------------------------------------------------------------------
(* Elements of sequences                                                   *)

LEMMA ElementOf ==
  ASSUME NEW S, NEW s \in Seq(S)
  PROVE  \A j \in DOMAIN s : s[j] \in S
OBVIOUS

LEMMA WiderSeq ==
  ASSUME NEW S, NEW T, S \subseteq T, NEW s \in Seq(S)
  PROVE  s \in Seq(T)
OBVIOUS

LEMMA TailOf ==
  ASSUME NEW S, NEW s \in Seq(S), s # << >>
  PROVE  /\ Head(s) \in S /\ Tail(s) \in Seq(S) /\ Head(s) = s[1] /\ 1 \in DOMAIN s
         /\ \A i \in DOMAIN Tail(s) : i \in Nat \ {0} /\ i + 1 \in DOMAIN s /\ Tail(s)[i] = s[i + 1]
OBVIOUS

LEMMA AppendOf ==
  ASSUME NEW S, NEW s \in Seq(S), NEW e \in S
  PROVE  /\ Append(s, e) \in Seq(S) /\ Len(s) + 1 \notin DOMAIN s
         /\ \A i \in DOMAIN Append(s, e) : \/ i \in DOMAIN s /\ Append(s, e)[i] = s[i]
                                           \/ i = Len(s) + 1 /\ Append(s, e)[i] = e
OBVIOUS

\* The k-th of positive numbers in increasing order is k or more.
LEMMA PlacesAreAhead ==
  ASSUME NEW n \in Nat, NEW s \in [1..n -> Nat \ {0}], \A i, j \in 1..n : i < j => s[i] < s[j]
  PROVE  \A k \in 1..n : s[k] >= k
<1> DEFINE Good == {k \in Nat : k \in 1..n => s[k] >= k}
<1>1. 0 \in Good
  OBVIOUS
<1>2. ASSUME NEW k \in Good PROVE k + 1 \in Good
  <2> SUFFICES ASSUME k + 1 \in 1..n PROVE s[k + 1] >= k + 1
    OBVIOUS
  <2>1. k \in Nat /\ s[k + 1] \in Nat \ {0}
    OBVIOUS
  <2>2. CASE k = 0
    BY <2>1, <2>2
  <2>3. CASE k # 0
    <3>1. k \in 1..n /\ k < k + 1
      BY <2>1, <2>3
    <3>2. s[k] >= k /\ s[k] < s[k + 1] /\ s[k] \in Nat
      BY <3>1
    <3> QED BY <2>1, <3>2
  <2> QED BY <2>2, <2>3
<1> HIDE DEF Good
<1>3. \A k \in Nat : k \in Good
  <2>1. Good \in SUBSET Nat
    BY DEF Good
  <2> QED BY <1>1, <1>2, <2>1, EveryNumber
<1> QED BY <1>3 DEF Good

Upwards(f, n) == \A i, j \in 1..n : i < j => f[i] < f[j]
Reaches(f, n, set) == \A x \in set : \E i \in 1..n : f[i] = x
FollowedByGreater(f, n, set) == \A i \in 1..n : f[i] \in set \/ \A x \in set : x < f[i]

\* Two lists in increasing order, one of a set and one of its elements followed
\* by greater ones, begin alike.
LEMMA FirstOnesAgree ==
  ASSUME NEW S \in SUBSET Int, NEW m \in Nat, NEW n \in Nat,
         NEW r \in [1..n -> S], Upwards(r, n), Reaches(r, n, S),
         NEW s \in [1..m -> Int], Upwards(s, m), Reaches(s, m, S), FollowedByGreater(s, m, S)
  PROVE  n <= m /\ \A q \in 1..n : q \in 1..m /\ r[q] = s[q]
<1> USE DEF Upwards, Reaches, FollowedByGreater
<1> DEFINE Agree(q) == \A p \in 1..n : p <= q => p \in 1..m /\ r[p] = s[p]
           Good == {q \in Nat : Agree(q)}
<1>1. 0 \in Good
  OBVIOUS
<1>2. ASSUME NEW q \in Nat, Agree(q) PROVE Agree(q + 1)
  <2> SUFFICES ASSUME q + 1 \in 1..n PROVE q + 1 \in 1..m /\ r[q + 1] = s[q + 1]
    <3>1. ASSUME NEW p \in 1..n, p <= q + 1 PROVE p <= q \/ (p = q + 1)
      BY <3>1
    <3> QED BY <1>2, <3>1
  <2>1. r[q + 1] \in S /\ r[q + 1] \in Int
    OBVIOUS
  <2>2. PICK k \in 1..m : s[k] = r[q + 1]
    BY <2>1
  <2>3. k >= q + 1
    <3> SUFFICES ASSUME k <= q PROVE FALSE
      BY <1>2
    <3>1. k \in 1..n /\ k < q + 1
      OBVIOUS
    <3>2. r[k] = s[k] /\ r[k] < r[q + 1] /\ r[k] \in Int
      BY <1>2, <3>1
    <3> QED BY <2>1, <2>2, <3>2
  <2>4. q + 1 \in 1..m /\ s[q + 1] \in Int
    BY <2>3
  <2>5. s[q + 1] <= s[k]
    <3>1. CASE k = q + 1
      BY <2>4, <3>1
    <3>2. CASE k # q + 1
      <4>1. q + 1 < k
        BY <2>3, <3>2
      <4>2. s[q + 1] < s[k] /\ s[k] \in Int
        BY <2>4, <4>1
      <4> QED BY <2>4, <4>2
    <3> QED BY <3>1, <3>2
  <2>6. s[q + 1] \in S
    <3> SUFFICES ASSUME \A x \in S : x < s[q + 1] PROVE FALSE
      BY <2>4
    <3>1. r[q + 1] < s[q + 1]
      BY <2>1
    <3> QED BY <2>1, <2>2, <2>4, <2>5, <3>1
  <2>7. PICK l \in 1..n : r[l] = s[q + 1]
    BY <2>6
  <2>8. l >= q + 1
    <3> SUFFICES ASSUME l <= q PROVE FALSE
      BY <1>2
    <3>1. l \in 1..m /\ r[l] = s[l] /\ l < q + 1
      BY <1>2
    <3>2. s[l] < s[q + 1] /\ s[l] \in Int
      BY <2>4, <3>1
    <3> QED BY <2>4, <2>7, <3>1, <3>2
  <2>9. r[q + 1] <= r[l]
    <3>1. CASE l = q + 1
      BY <2>1, <3>1
    <3>2. CASE l # q + 1
      <4>1. q + 1 < l
        BY <2>8, <3>2
      <4>2. r[q + 1] < r[l] /\ r[l] \in Int
        BY <4>1
      <4> QED BY <2>1, <4>2
    <3> QED BY <3>1, <3>2
  <2> QED BY <2>1, <2>2, <2>4, <2>5, <2>7, <2>9
<1> HIDE DEF Agree
<1>3. \A q \in Nat : q \in Good
  <2>1. Good \in SUBSET Nat /\ \A q \in Good : q + 1 \in Good
    BY <1>2
  <2> HIDE DEF Good
  <2> QED BY <1>1, <2>1, EveryNumber
<1>4. Agree(n)
  BY <1>3
<1>5. \A q \in 1..n : q \in 1..m /\ r[q] = s[q]
  BY <1>4 DEF Agree
<1>6. n <= m
  <2>1. CASE n = 0
    BY <2>1
  <2>2. CASE n # 0
    <3>1. n \in 1..n
      BY <2>2
    <3> QED BY <1>5, <3>1
  <2> QED BY <2>1, <2>2
<1> QED BY <1>5, <1>6

=============================================================================
