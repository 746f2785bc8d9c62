------------------------------- MODULE Records -------------------------------
(* Helpers the record passes of app/services share: what is missing, the   *)
(* order Python's stable sort gives, and removal from a list.              *)
EXTENDS Integers, Sequences, FiniteSets

CONSTANT None   \* an amount, a name or a document that is not there

(* The first value that is there: a record's own, else the next one's.     *)
Or(a, b) == IF a = None THEN b ELSE a

Zero(x) == IF x = None THEN 0 ELSE x

Distance(a, b) == IF a > b THEN a - b ELSE b - a

First(S) == CHOOSE i \in S : \A j \in S : i <= j

(* Positions in the order a sort gives them: the pairs of G of which the   *)
(* first comes before, the least rank first (Python's sort is stable); the *)
(* one before all others; and the list of all.                             *)
Ranked(s, G, rank(_)) ==
  {ij \in G \X G : \/ rank(s[ij[1]]) < rank(s[ij[2]])
                  \/ (rank(s[ij[1]]) = rank(s[ij[2]]) /\ ij[1] < ij[2])}

Foremost(G, before) == CHOOSE i \in G : \A j \in G \ {i} : <<i, j>> \in before

Ordered(G, before) ==
  [k \in 1..Cardinality(G) |-> CHOOSE i \in G : Cardinality({j \in G : <<j, i>> \in before}) = k - 1]

AsListed(G) == Ordered(G, {ij \in G \X G : ij[1] < ij[2]})

(* What the records G say of a field: the first that says anything.        *)
FirstSaid(s, G, before, f) ==
  LET says == {i \in G : s[i][f] # None} IN IF says = {} THEN None ELSE s[Foremost(says, before)][f]

Without(s, drop) ==
  LET order == AsListed(DOMAIN s \ drop) IN [k \in DOMAIN order |-> s[order[k]]]
==============================================================================
