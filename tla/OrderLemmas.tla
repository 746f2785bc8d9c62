----------------------------- MODULE OrderLemmas -----------------------------
(***************************************************************************)
(* Least, greatest and foremost members: what the proofs need where the    *)
(* code sorts a list, or keeps the first or the best of several records.   *)
(***************************************************************************)
EXTENDS Records, TLAPS, WellFoundedInduction, FiniteSetTheorems

(* What a sequence is.                                                     *)
LEMMA SequenceFacts ==
  ASSUME NEW S, NEW s \in Seq(S)
  PROVE  Len(s) \in Nat /\ DOMAIN s = 1..Len(s) /\ \A i \in DOMAIN s : s[i] \in S
OBVIOUS

(* A set of naturals has a least member.                                   *)
LEMMA LeastOf ==
  ASSUME NEW T, T \subseteq Nat, T # {}
  PROVE  \E x \in T : \A y \in T : x <= y
<1>. DEFINE Less == {ss \in Nat \X Nat : ss[1] < ss[2]}
<1>1. IsWellFoundedOn(Less, Nat)
  BY NatLessThanWellFounded, Zenon DEF OpToRel
<1>2. PICK x \in T : \A y \in T : ~(<<y, x>> \in Less)
  BY <1>1, WFMin
<1>3. ASSUME NEW y \in T PROVE x <= y
  <2>1. x \in Nat /\ y \in Nat /\ <<y, x>> \notin Less
    BY <1>2
  <2>2. y < x => <<y, x>> \in Less
    BY <2>1
  <2>. QED
    BY <2>1, <2>2
<1>. QED
  BY <1>3

(* A bounded set of naturals has a greatest member.                        *)
LEMMA GreatestOf ==
  ASSUME NEW n \in Nat, NEW T, T \subseteq 0..n, T # {}
  PROVE  \E x \in T : \A y \in T : y <= x
<1>. DEFINE Below == {k \in Nat : \A y \in T : y <= k}
<1>1. Below # {}
  BY n \in Below
<1>2. PICK k \in Below : \A l \in Below : k <= l
  BY <1>1, LeastOf
<1>3. k \in T
  <2>. SUFFICES ASSUME k \notin T PROVE FALSE
    OBVIOUS
  <2>1. PICK x \in T : TRUE
    OBVIOUS
  <2>2. k \in Nat /\ \A y \in T : y \in Nat /\ y < k
    OBVIOUS
  <2>3. k - 1 \in Nat /\ \A y \in T : y <= k - 1
    BY <2>1, <2>2
  <2>4. k - 1 \in Below
    BY <2>3
  <2>. QED
    BY <2>2, <2>3, <2>4, <1>2
<1>. QED
  BY <1>3

(* Lowering a bound nobody reaches.                                        *)
LEMMA LowerBound ==
  ASSUME NEW k \in Nat, NEW S, S \subseteq Nat, S # {}, \A x \in S : x <= k /\ x # k
  PROVE  k - 1 \in Nat /\ ~(k <= k - 1) /\ \A x \in S : x <= k - 1
<1>1. PICK x \in S : x \in Nat /\ x <= k /\ x # k
  OBVIOUS
<1>2. k - 1 \in Nat
  BY <1>1
<1>3. ASSUME NEW y \in S PROVE y <= k - 1
  <2>1. y \in Nat /\ y <= k /\ y # k
    OBVIOUS
  <2>. QED
    BY <2>1
<1>. QED
  BY <1>2, <1>3

(* A bounded set of positions has one that comes before all the others, in *)
(* any transitive order in which no two positions are level.               *)
Ranks(Before, G) ==
  /\ \A i, j \in G : i # j => <<i, j>> \in Before \/ <<j, i>> \in Before
  /\ \A i, j, k \in G : <<i, j>> \in Before /\ <<j, k>> \in Before => <<i, k>> \in Before

LEMMA TopOf ==
  ASSUME NEW n \in Nat, NEW G, G \subseteq 0..n, G # {}, NEW Before, Ranks(Before, G)
  PROVE  \E i \in G : \A j \in G \ {i} : <<i, j>> \in Before
<1>. USE DEF Ranks
<1>. DEFINE HasTop(S) == \E i \in S : \A j \in S \ {i} : <<i, j>> \in Before
            Bad == {k \in Nat : \E S \in SUBSET G : S # {} /\ (\A x \in S : x <= k) /\ ~HasTop(S)}
<1>1. Bad = {}
  <2>. SUFFICES ASSUME Bad # {} PROVE FALSE
    OBVIOUS
  <2>1. PICK k \in Bad : \A l \in Bad : k <= l
    BY LeastOf
  <2>2. PICK S \in SUBSET G : S # {} /\ (\A x \in S : x <= k) /\ ~HasTop(S)
    BY <2>1
  <2>3. k \in Nat /\ S \subseteq Nat
    BY <2>1, <2>2
  <2>. HIDE DEF HasTop
  <2>4. CASE k \notin S
    <3>1. k - 1 \in Nat /\ ~(k <= k - 1) /\ \A x \in S : x <= k - 1
      BY <2>2, <2>3, <2>4, LowerBound
    <3>2. k - 1 \in Bad
      BY <3>1, <2>2
    <3>. QED
      BY <3>1, <3>2, <2>1
  <2>5. CASE k \in S
    <3>. DEFINE Rest == S \ {k}
    <3>1. Rest # {}
      BY <2>2, <2>5 DEF HasTop
    <3>a. Rest \subseteq Nat /\ \A x \in Rest : x <= k /\ x # k
      BY <2>2, <2>3
    <3>2. k - 1 \in Nat /\ ~(k <= k - 1) /\ \A x \in Rest : x <= k - 1
      BY <3>1, <3>a, <2>3, LowerBound
    <3>3. k - 1 \notin Bad
      BY <3>2, <2>1
    <3>4. HasTop(Rest)
      BY <3>1, <3>2, <3>3, <2>2
    <3>. USE DEF HasTop
    <3>5. PICK i \in Rest : \A j \in Rest \ {i} : <<i, j>> \in Before
      BY <3>4
    <3>b. S \subseteq G /\ k \in G /\ i \in G
      BY <2>2, <2>5
    <3>6. CASE <<i, k>> \in Before
      <4>1. \A j \in S \ {i} : <<i, j>> \in Before
        BY <3>5, <3>6
      <4>. QED
        BY <4>1, <2>2
    <3>7. CASE <<k, i>> \in Before
      <4>1. ASSUME NEW j \in S \ {k} PROVE <<k, j>> \in Before
        <5>1. CASE j = i
          BY <5>1, <3>7
        <5>2. CASE j # i
          <6>1. <<i, j>> \in Before
            BY <5>2, <3>5
          <6>. QED
            BY <6>1, <3>7, <3>b
        <5>. QED
          BY <5>1, <5>2
      <4>. QED
        BY <4>1, <2>2, <2>5
    <3>. QED
      BY <3>6, <3>7, <2>2, <2>5
  <2>. QED
    BY <2>4, <2>5
<1>2. n \notin Bad
  BY <1>1
<1>3. HasTop(G)
  BY <1>2
<1>. QED
  BY <1>3

-----------------------------------------------------------------------------
(* The positions a sort gives (Records).                                   *)
LEMMA FirstOf ==
  ASSUME NEW S, S \subseteq Nat, S # {}
  PROVE  First(S) \in S
BY LeastOf DEF First

(* Positions compared by a number, and by where they stand when it is the  *)
(* same, are in one line.                                                  *)
LEMMA RanksByNumber ==
  ASSUME NEW G, G \subseteq Nat, NEW v, \A i \in G : v[i] \in Int,
         NEW before, before = {ij \in G \X G : v[ij[1]] < v[ij[2]] \/ (v[ij[1]] = v[ij[2]] /\ ij[1] < ij[2])}
  PROVE  Ranks(before, G) /\ \A i \in G : <<i, i>> \notin before
<1>1. \A i, j \in G : <<i, j>> \in before <=> (v[i] < v[j] \/ (v[i] = v[j] /\ i < j))
  OBVIOUS
<1>2. ASSUME NEW i \in G, NEW j \in G, i # j PROVE <<i, j>> \in before \/ <<j, i>> \in before
  <2>. i \in Nat /\ j \in Nat /\ v[i] \in Int /\ v[j] \in Int
    OBVIOUS
  <2>. QED
    BY <1>1, <1>2
<1>3. ASSUME NEW i \in G, NEW j \in G, NEW k \in G, <<i, j>> \in before, <<j, k>> \in before PROVE <<i, k>> \in before
  <2>. i \in Nat /\ j \in Nat /\ k \in Nat /\ v[i] \in Int /\ v[j] \in Int /\ v[k] \in Int
    OBVIOUS
  <2>. QED
    BY <1>1, <1>3
<1>4. ASSUME NEW i \in G PROVE <<i, i>> \notin before
  <2>. i \in Nat /\ v[i] \in Int
    OBVIOUS
  <2>. QED
    BY <1>1
<1>. QED
  BY <1>2, <1>3, <1>4 DEF Ranks

LEMMA ForemostOf ==
  ASSUME NEW n \in Nat, NEW G, G \subseteq 0..n, G # {}, NEW before, Ranks(before, G)
  PROVE  Foremost(G, before) \in G /\ \A j \in G \ {Foremost(G, before)} : <<Foremost(G, before), j>> \in before
BY TopOf DEF Foremost

(* A list in an order holds each of its members, and once.                 *)
Lists(o, G) ==
  /\ \E m \in Nat : o \in [1..m -> G]
  /\ \A k, l \in DOMAIN o : o[k] = o[l] => k = l
  /\ \A i \in G : \E k \in DOMAIN o : o[k] = i

LEMMA OrderedOf ==
  ASSUME NEW n \in Nat, NEW G, G \subseteq 1..n, NEW before,
         Ranks(before, G), \A i \in G : <<i, i>> \notin before
  PROVE  Lists(Ordered(G, before), G)
<1>. DEFINE N == Cardinality(G)
            ahead(i) == {j \in G : <<j, i>> \in before}
            c == [i \in G |-> Cardinality(ahead(i))]
            T == {c[i] : i \in G}
<1>1. IsFiniteSet(G) /\ N \in Nat
  <2>1. IsFiniteSet(1..n)
    BY FS_Interval
  <2>2. IsFiniteSet(G)
    BY <2>1, FS_Subset
  <2>. QED
    BY <2>2, FS_CardinalityType
<1>2. ASSUME NEW i \in G PROVE IsFiniteSet(ahead(i)) /\ c[i] \in Nat /\ i \notin ahead(i)
  <2>1. ahead(i) \in SUBSET G
    OBVIOUS
  <2>2. IsFiniteSet(ahead(i))
    BY <2>1, <1>1, FS_Subset
  <2>. QED
    BY <2>2, FS_CardinalityType
<1>3. ASSUME NEW i \in G, NEW j \in G, <<i, j>> \in before PROVE c[i] < c[j]
  <2>1. ahead(i) \subseteq ahead(j)
    BY <1>3 DEF Ranks
  <2>2. i \in ahead(j) /\ i \notin ahead(i)
    BY <1>3
  <2>. HIDE DEF ahead
  <2>3. IsFiniteSet(ahead(j)) /\ ahead(i) \in SUBSET ahead(j) /\ ahead(i) # ahead(j)
    BY <1>2, <2>1, <2>2
  <2>4. Cardinality(ahead(i)) <= Cardinality(ahead(j)) /\ Cardinality(ahead(i)) # Cardinality(ahead(j))
    BY <2>3, FS_Subset
  <2>5. c[i] \in Nat /\ c[j] \in Nat /\ c[i] = Cardinality(ahead(i)) /\ c[j] = Cardinality(ahead(j))
    BY <1>2
  <2>. QED
    BY <2>4, <2>5
<1>4. ASSUME NEW i \in G, NEW j \in G, c[i] = c[j] PROVE i = j
  <2>. SUFFICES ASSUME i # j PROVE FALSE
    OBVIOUS
  <2>. HIDE DEF c, ahead
  <2>1. c[i] < c[j] \/ c[j] < c[i]
    BY <1>3 DEF Ranks
  <2>2. c[i] \in Nat /\ c[j] \in Nat
    BY <1>2
  <2>. QED
    BY <2>1, <2>2, <1>4
<1>5. ASSUME NEW i \in G PROVE c[i] < N
  <2>. ahead(i) \in SUBSET G /\ i \in G /\ i \notin ahead(i)
    BY <1>2
  <2>1. c[i] = Cardinality(ahead(i))
    OBVIOUS
  <2>. HIDE DEF ahead, c
  <2>2. Cardinality(ahead(i)) <= N /\ Cardinality(ahead(i)) # N
    BY <1>1, FS_Subset
  <2>. QED
    BY <2>1, <2>2, <1>1, <1>2
<1>6. T \subseteq 0..(N - 1)
  <2>. HIDE DEF c, ahead
  <2>1. ASSUME NEW i \in G PROVE c[i] \in 0..(N - 1)
    <3>. HIDE DEF N
    <3>1. N \in Nat /\ c[i] \in Nat /\ c[i] < N
      BY <1>1, <1>2, <1>5
    <3>. QED
      BY <3>1
  <2>. QED
    BY <2>1
<1>7. T = 0..(N - 1)
  <2>1. ExistsBijection(G, T)
    <3>. c \in [G -> T] /\ (\A t \in T : \E i \in G : c[i] = t)
      OBVIOUS
    <3>. HIDE DEF c, T
    <3>1. c \in Bijection(G, T)
      BY <1>4 DEF Bijection, Injection, Surjection, IsInjective
    <3>. QED
      BY <3>1 DEF ExistsBijection
  <2>2. Cardinality(T) = N
    BY <2>1, <1>1, FS_Bijection
  <2>3. IsFiniteSet(0..(N - 1)) /\ Cardinality(0..(N - 1)) = N
    BY <1>1, FS_Interval
  <2>. HIDE DEF T
  <2>. QED
    BY <2>2, <2>3, <1>6, FS_Subset
<1>8. \A k \in 1..N : \E i \in G : c[i] = k - 1
  <2>. HIDE DEF c
  <2>1. \A k \in 1..N : k - 1 \in T
    BY <1>7, <1>1
  <2>. QED
    BY <2>1
<1>. DEFINE O == Ordered(G, before)
<1>9. DOMAIN O = 1..N /\ O = [k \in 1..N |-> O[k]] /\ \A k \in 1..N : O[k] \in G /\ c[O[k]] = k - 1
  <2>1. O = [k \in 1..N |-> CHOOSE i \in G : Cardinality(ahead(i)) = k - 1]
    BY DEF Ordered
  <2>2. \A i \in G : c[i] = Cardinality(ahead(i))
    OBVIOUS
  <2>. HIDE DEF c, O, ahead
  <2>3. \A k \in 1..N : \E i \in G : Cardinality(ahead(i)) = k - 1
    BY <2>2, <1>8
  <2>4. ASSUME NEW k \in 1..N PROVE O[k] \in G /\ Cardinality(ahead(O[k])) = k - 1
    BY <2>1, <2>3
  <2>5. O = [k \in 1..N |-> O[k]] /\ DOMAIN O = 1..N
    BY <2>1
  <2>. QED
    BY <2>2, <2>4, <2>5
<1>10. ASSUME NEW i \in G PROVE \E k \in 1..N : O[k] = i
  <2>. HIDE DEF O, c
  <2>1. c[i] \in Nat /\ c[i] < N
    BY <1>2, <1>5
  <2>2. c[i] + 1 \in 1..N /\ (c[i] + 1) - 1 = c[i]
    BY <2>1, <1>1
  <2>3. O[c[i] + 1] \in G /\ c[O[c[i] + 1]] = c[i]
    BY <2>2, <1>9
  <2>. QED
    BY <2>2, <2>3, <1>4
<1>. HIDE DEF O, c
<1>11. \A k, l \in 1..N : O[k] = O[l] => k = l
  BY <1>9, <1>1
<1>. QED
  BY <1>1, <1>9, <1>10, <1>11 DEF O, Lists

(* Positions as they are listed.                                           *)
LEMMA AsListedOf ==
  ASSUME NEW n \in Nat, NEW G, G \subseteq 1..n
  PROVE  Lists(AsListed(G), G)
<1>. DEFINE before == {ij \in G \X G : ij[1] < ij[2]}
<1>1. Ranks(before, G) /\ \A i \in G : <<i, i>> \notin before
  BY DEF Ranks
<1>. HIDE DEF before
<1>2. Lists(Ordered(G, before), G)
  BY <1>1, OrderedOf
<1>. QED
  BY <1>2 DEF AsListed, before

(* What is left of a list: the records not dropped, each once.             *)
Left(s, drop) == AsListed(DOMAIN s \ drop)

LEMMA WithoutKeeps ==
  ASSUME NEW n \in Nat, NEW s, DOMAIN s = 1..n, NEW drop
  PROVE  Lists(Left(s, drop), DOMAIN s \ drop)
<1>. DEFINE G == DOMAIN s \ drop
<1>1. G \subseteq 1..n
  OBVIOUS
<1>. HIDE DEF G
<1>2. Lists(AsListed(G), G)
  BY <1>1, AsListedOf
<1>. QED
  BY <1>2 DEF Left, G

LEMMA StaysWithout ==
  ASSUME NEW n \in Nat, NEW s, DOMAIN s = 1..n, NEW drop, NEW i \in DOMAIN s \ drop
  PROVE  \E k \in DOMAIN Without(s, drop) : Without(s, drop)[k] = s[i]
<1>1. Lists(Left(s, drop), DOMAIN s \ drop)
  BY WithoutKeeps
<1>2. PICK k \in DOMAIN Left(s, drop) : Left(s, drop)[k] = i
  BY <1>1 DEF Lists
<1>. QED
  BY <1>2 DEF Without, Left
=============================================================================
