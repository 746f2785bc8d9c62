---------------------------- MODULE RecordProofs ----------------------------
(***************************************************************************)
(* What becomes of the records, part by part, as the record run checks it: *)
(* the members of the household (Household), the link to the rows          *)
(* Cartograph holds (Manifest), the verdicts that come back (Feedback),    *)
(* the accounts (Assets) and the incomes (IncomeRecords).                  *)
(* Each part is proved on its own specification; they share no variable.   *)
(***************************************************************************)
EXTENDS Household, Manifest, Feedback, Assets, IncomeRecords, OrderLemmas

-----------------------------------------------------------------------------
(***************************************************************************)
(* The household, for any packet and any likeness of names. The roster's   *)
(* names are mentioned before all others, so a cluster begun by another    *)
(* name holds none of them; a member's copies are folded richest first, so *)
(* two that differ on a date or a number are met behind one another; and   *)
(* the best document is one of the certification's where it prints a value.*)
(***************************************************************************)
Mention == [name : DOMAIN NameLength, trust : Nat, listed : BOOLEAN]

ListedFirst(s) == \A i, j \in DOMAIN s : i < j /\ s[j].listed => s[i].listed

Reported ==
  \A i, j \in DOMAIN household.roster, f \in {"dob", "ssn"} :
    (j \in Copies(household.roster, i) /\ Disagree(household.roster[i], household.roster[j], f)) =>
       \E c \in conflicts, k \in Copies(household.roster, i) : c.field = f /\ c.name = household.roster[k].name

HasFields(m) == m = [name |-> m.name, dob |-> m.dob, ssn |-> m.ssn, gender |-> m.gender]

HouseholdInv ==
  /\ household \in Packets
  /\ \A i \in DOMAIN roster : HasFields(roster[i])
  /\ familyStep \in {"collect", "cluster", "merge", "snap", "identity", "done"}
  /\ familyStep \in {"collect", "cluster", "merge"} => roster = household.roster
  /\ familyStep = "collect" => named = household.named
  /\ DOMAIN mentions \subseteq Nat /\ ListedFirst(mentions)
  /\ clusters \in Seq(SUBSET DOMAIN mentions) /\ (familyStep = "collect" => clusters = <<>>)
  /\ MembersAreNeverJoined
  /\ ConflictingIdentitiesAreReported
  /\ TheCertificationsValueStands

-----------------------------------------------------------------------------
(* The names are collected member by member, then record by record, then   *)
(* group by group: a sequence that lists the members first.                *)
LEMMA Joined ==
  ASSUME NEW S, NEW s \in Seq(S), NEW t \in Seq(S), ListedFirst(s), \A i \in DOMAIN t : ~t[i].listed
  PROVE  s \o t \in Seq(S) /\ ListedFirst(s \o t)
<1>1. /\ s \o t \in Seq(S) /\ Len(s) \in Nat /\ Len(t) \in Nat /\ Len(s \o t) = Len(s) + Len(t)
      /\ DOMAIN s = 1..Len(s) /\ DOMAIN t = 1..Len(t) /\ DOMAIN (s \o t) = 1..Len(s \o t)
  OBVIOUS
<1>2. \A i \in 1..Len(s \o t) : (s \o t)[i] = IF i <= Len(s) THEN s[i] ELSE t[i - Len(s)]
  OBVIOUS
<1>3. ASSUME NEW i \in DOMAIN (s \o t), NEW j \in DOMAIN (s \o t), i < j, (s \o t)[j].listed PROVE (s \o t)[i].listed
  <2>1. i \in Nat /\ j \in Nat /\ i \in 1..Len(s \o t) /\ j \in 1..Len(s \o t)
    BY <1>1
  <2>2. CASE j <= Len(s)
    <3>1. i \in DOMAIN s /\ j \in DOMAIN s
      BY <2>1, <2>2, <1>1, <1>3
    <3>2. (s \o t)[i] = s[i] /\ (s \o t)[j] = s[j]
      BY <3>1, <2>1, <1>1, <1>2
    <3>. QED
      BY <3>1, <3>2, <1>3 DEF ListedFirst
  <2>3. CASE ~(j <= Len(s))
    <3>1. j - Len(s) \in DOMAIN t
      BY <2>1, <2>3, <1>1
    <3>2. (s \o t)[j] = t[j - Len(s)]
      BY <2>1, <2>3, <1>2
    <3>. QED
      BY <3>1, <3>2, <1>3
  <2>. QED
    BY <2>2, <2>3
<1>. QED
  BY <1>1, <1>3 DEF ListedFirst

LEMMA MentionsListMembersFirst ==
  ASSUME household \in Packets, roster = household.roster, named = household.named
  PROVE  Mentions \in Seq(Mention) /\ ListedFirst(Mentions)
<1>. DEFINE r == [i \in DOMAIN roster |-> [name |-> roster[i].name, trust |-> ListTrust, listed |-> TRUE]]
            n == [i \in DOMAIN named |-> [name |-> named[i].name, trust |-> named[i].trust, listed |-> FALSE]]
            g == [i \in DOMAIN household.titles |->
                    [name |-> household.titles[i].name, trust |-> household.titles[i].trust, listed |-> FALSE]]
<1>1. r \in Seq(Mention) /\ DOMAIN r = DOMAIN roster
  <2>1. Len(roster) \in Nat /\ DOMAIN roster = 1..Len(roster)
    BY PacketAssumption
  <2>2. \A i \in 1..Len(roster) : [name |-> roster[i].name, trust |-> ListTrust, listed |-> TRUE] \in Mention
    BY <2>1, PacketAssumption DEF IsMember, Mention, ListTrust
  <2>. QED
    BY <2>1, <2>2
<1>2. n \in Seq(Mention) /\ DOMAIN n = DOMAIN named
  <2>1. Len(named) \in Nat /\ DOMAIN named = 1..Len(named) /\ \A i \in 1..Len(named) : named[i] \in [name : DOMAIN NameLength, trust : Nat]
    <3>1. named \in Seq([name : DOMAIN NameLength, trust : Nat])
      BY PacketAssumption
    <3>. QED
      BY <3>1, SequenceFacts
  <2>2. \A i \in 1..Len(named) : [name |-> named[i].name, trust |-> named[i].trust, listed |-> FALSE] \in Mention
    BY <2>1 DEF Mention
  <2>. QED
    BY <2>1, <2>2
<1>3. g \in Seq(Mention) /\ DOMAIN g = DOMAIN household.titles
  <2>. DEFINE t == household.titles
  <2>1. Len(t) \in Nat /\ DOMAIN t = 1..Len(t) /\ \A i \in 1..Len(t) : t[i] \in [name : DOMAIN NameLength, trust : Nat]
    <3>1. t \in Seq([name : DOMAIN NameLength, trust : Nat])
      BY PacketAssumption
    <3>. HIDE DEF t
    <3>. QED
      BY <3>1, SequenceFacts
  <2>2. \A i \in 1..Len(t) : [name |-> t[i].name, trust |-> t[i].trust, listed |-> FALSE] \in Mention
    BY <2>1 DEF Mention
  <2>. QED
    BY <2>1, <2>2
<1>4. ListedFirst(r) /\ (\A i \in DOMAIN n : ~n[i].listed) /\ (\A i \in DOMAIN g : ~g[i].listed)
  BY DEF ListedFirst
<1>. HIDE DEF r, n, g
<1>5. r \o n \in Seq(Mention) /\ ListedFirst(r \o n)
  BY <1>1, <1>2, <1>4, Joined
<1>6. (r \o n) \o g \in Seq(Mention) /\ ListedFirst((r \o n) \o g)
  BY <1>3, <1>4, <1>5, Joined
<1>7. Mentions = (r \o n) \o g
  BY DEF Mentions, r, n, g
<1>. QED
  BY <1>6, <1>7

(* The first name that is still free.                                      *)
LEMMA FirstIsLeast ==
  ASSUME NEW S, S \subseteq Nat, S # {}
  PROVE  First(S) \in S /\ \A j \in S : First(S) <= j
BY LeastOf DEF First

(* What a new cluster holds: the first free name and others after it.      *)
LEMMA NewClusterJoinsNobody ==
  ASSUME HouseholdInv, ClusterNames
  PROVE  clusters' \in Seq(SUBSET DOMAIN mentions) /\ MembersAreNeverJoined'
<1>. DEFINE seed == First(Free)
            joins(j) == /\ ~(mentions[seed].listed /\ mentions[j].listed)
                        /\ NameSimilarity(mentions[seed].name, mentions[j].name) >= ClusterAt
            new == {seed} \cup {j \in Free : joins(j)}
<1>1. Free # {} /\ clusters' = Append(clusters, new) /\ mentions' = mentions
  BY DEF ClusterNames
<1>2. Free \subseteq DOMAIN mentions /\ DOMAIN mentions \subseteq Nat /\ ListedFirst(mentions) /\ clusters \in Seq(SUBSET DOMAIN mentions)
  BY DEF Free, HouseholdInv
<1>3. seed \in Free /\ \A j \in Free : seed <= j
  BY <1>1, <1>2, FirstIsLeast
<1>4. new \subseteq DOMAIN mentions
  BY <1>2, <1>3
<1>5. ASSUME NEW i \in new, NEW j \in new, i # j, mentions[i].listed, mentions[j].listed PROVE FALSE
  <2>1. ~mentions[seed].listed
    BY <1>5
  <2>2. i # seed /\ i \in Free /\ seed <= i /\ i \in Nat /\ seed \in Nat
    BY <2>1, <1>2, <1>3, <1>5
  <2>3. seed < i
    BY <2>2
  <2>. QED
    BY <2>1, <2>2, <2>3, <1>2, <1>3, <1>5 DEF ListedFirst
<1>. HIDE DEF new
<1>6. clusters' \in Seq(SUBSET DOMAIN mentions) /\ \A k \in DOMAIN clusters' : clusters'[k] = new \/ clusters'[k] \in Range(clusters)
  BY <1>1, <1>2, <1>4 DEF Range
<1>7. \A c \in Range(clusters)' : c = new \/ c \in Range(clusters)
  BY <1>6 DEF Range
<1>8. MembersAreNeverJoined
  BY DEF HouseholdInv
<1>. QED
  BY <1>1, <1>5, <1>6, <1>7, <1>8 DEF MembersAreNeverJoined

-----------------------------------------------------------------------------
(* The copies of a member: the richest is one of them.                     *)
LEMMA PopulatedIsNumber == \A m : Populated(m) \in Nat
<1>1. IsFiniteSet(Fields)
  <2>1. IsFiniteSet({"dob"})
    BY FS_Singleton
  <2>2. IsFiniteSet({"dob"} \cup {"ssn"})
    BY <2>1, FS_AddElement
  <2>3. IsFiniteSet(({"dob"} \cup {"ssn"}) \cup {"gender"})
    BY <2>2, FS_AddElement
  <2>4. Fields = ({"dob"} \cup {"ssn"}) \cup {"gender"}
    BY DEF Fields
  <2>. QED
    BY <2>3, <2>4
<1>2. \A m : {f \in Fields : m[f] # None} \subseteq Fields
  OBVIOUS
<1>3. \A m : IsFiniteSet({f \in Fields : m[f] # None})
  BY <1>1, <1>2, FS_Subset
<1>. QED
  BY <1>3, FS_CardinalityType DEF Populated

LEMMA RicherIsAnOrder ==
  ASSUME NEW i \in Nat, NEW j \in Nat, NEW k \in Nat, IsMember(roster[i]), IsMember(roster[j]), IsMember(roster[k])
  PROVE  /\ ~(Richer(i, j) /\ Richer(j, i))
         /\ i # j => Richer(i, j) \/ Richer(j, i)
         /\ Richer(i, j) /\ Richer(j, k) => Richer(i, k)
<1>1. Populated(roster[i]) \in Nat /\ Populated(roster[j]) \in Nat /\ Populated(roster[k]) \in Nat
  BY PopulatedIsNumber
<1>2. NameLength[roster[i].name] \in Nat /\ NameLength[roster[j].name] \in Nat /\ NameLength[roster[k].name] \in Nat
  BY NameAssumption DEF IsMember
<1>. QED
  BY <1>1, <1>2 DEF Richer

LEMMA OneIsRichest ==
  ASSUME NEW n \in Nat, NEW G, G \subseteq 0..n, G # {}, \A i \in G : IsMember(roster[i])
  PROVE  Richest(G) \in G /\ (\A j \in G \ {Richest(G)} : Richer(Richest(G), j))
         /\ \A i \in G : (\A j \in G \ {i} : Richer(i, j)) => i = Richest(G)
<1>. DEFINE Before == {p \in G \X G : Richer(p[1], p[2])}
<1>1. \A i, j \in G : <<i, j>> \in Before <=> Richer(i, j)
  OBVIOUS
<1>2. \A i, j \in G : i # j => <<i, j>> \in Before \/ <<j, i>> \in Before
  BY <1>1, RicherIsAnOrder
<1>3. \A i, j, k \in G : <<i, j>> \in Before /\ <<j, k>> \in Before => <<i, k>> \in Before
  BY <1>1, RicherIsAnOrder
<1>. HIDE DEF Before
<1>4. \E i \in G : \A j \in G \ {i} : <<i, j>> \in Before
  <2>1. Ranks(Before, G)
    BY <1>2, <1>3 DEF Ranks
  <2>. QED
    BY <2>1, TopOf
<1>5. \E i \in G : \A j \in G \ {i} : Richer(i, j)
  BY <1>1, <1>4
<1>6. Richest(G) \in G /\ \A j \in G \ {Richest(G)} : Richer(Richest(G), j)
  BY <1>5 DEF Richest
<1>7. ASSUME NEW i \in G, \A j \in G \ {i} : Richer(i, j), i # Richest(G) PROVE FALSE
  <2>1. PICK r \in G : r = Richest(G)
    BY <1>6
  <2>2. Richer(i, r) /\ Richer(r, i) /\ i \in Nat /\ r \in Nat /\ IsMember(roster[i]) /\ IsMember(roster[r])
    BY <2>1, <1>6, <1>7
  <2>. QED
    BY <2>2, RicherIsAnOrder
<1>. QED
  BY <1>6, <1>7

(* Two copies that disagree are reported: one of them differs from what    *)
(* the richest that states anything says, and is folded behind it.         *)
LEMMA DisagreeingCopiesAreReported ==
  ASSUME NEW n \in Nat, NEW G, G \subseteq 0..n, \A i \in G : IsMember(roster[i]),
         NEW i \in G, NEW j \in G, NEW f \in {"dob", "ssn"}, Disagree(roster[i], roster[j], f)
  PROVE  Richest(G) \in G /\ [name |-> roster[Richest(G)].name, field |-> f] \in Reports(G)
<1>. DEFINE stating(H) == {k \in H : roster[k][f] # None}
            t == Richest(stating(G))
<1>1. i \in stating(G) /\ j \in stating(G)
  BY DEF Disagree
<1>2. t \in stating(G) /\ \A k \in stating(G) \ {t} : Richer(t, k)
  BY <1>1, OneIsRichest
<1>3. Richest(G) \in G /\ \A k \in G \ {Richest(G)} : Richer(Richest(G), k)
  BY OneIsRichest
<1>. HIDE DEF t
<1>4. PICK x \in {i, j} : Disagree(roster[t], roster[x], f)
  BY <1>1, <1>2 DEF Disagree
<1>5. x \in stating(G) /\ x # t
  BY <1>1, <1>4 DEF Disagree
<1>6. Richer(t, x) /\ t \in G /\ x \in G
  BY <1>2, <1>5
<1>7. x # Richest(G)
  BY <1>3, <1>6, RicherIsAnOrder
<1>. DEFINE before == {k \in G : Richer(k, x)}
<1>8. t \in stating(before) /\ \A k \in stating(before) \ {t} : Richer(t, k)
  BY <1>2, <1>6
<1>9. Richest(stating(before)) = t
  <2>1. stating(before) \subseteq 0..n /\ stating(before) # {} /\ \A k \in stating(before) : IsMember(roster[k])
    BY <1>8
  <2>2. \A k \in stating(before) : (\A l \in stating(before) \ {k} : Richer(k, l)) => k = Richest(stating(before))
    BY <2>1, OneIsRichest
  <2>. QED
    BY <1>8, <2>2
<1>10. Folded(before)[f] = roster[t][f]
  <2>1. stating(before) = {k \in before : roster[k][f] # None} /\ stating(before) # {}
    BY <1>8
  <2>. HIDE DEF stating, before
  <2>2. CASE f = "dob"
    BY <2>1, <2>2, <1>9 DEF Folded
  <2>3. CASE f = "ssn"
    BY <2>1, <2>3, <1>9 DEF Folded
  <2>. QED
    BY <2>2, <2>3
<1>11. Disagree(Folded(before), roster[x], f)
  BY <1>4, <1>10 DEF Disagree
<1>. QED
  BY <1>3, <1>6, <1>7, <1>11 DEF Reports

-----------------------------------------------------------------------------
(* The best document on a member: one is found, and none outranks it.      *)
LEMMA OutranksIsAnOrder ==
  ASSUME household \in Packets, NEW i \in DOMAIN household.claims, NEW j \in DOMAIN household.claims, NEW k \in DOMAIN household.claims
  PROVE  /\ i # j => Outranks(i, j) \/ Outranks(j, i)
         /\ Outranks(i, j) /\ Outranks(j, k) => Outranks(i, k)
         /\ Outranks(i, j) => household.claims[i].rank <= household.claims[j].rank
<1>1. i \in Nat /\ j \in Nat /\ k \in Nat
  BY PacketAssumption
<1>2. \A n \in DOMAIN household.claims : household.claims[n].rank \in Nat /\ household.claims[n].page \in Nat
  BY PacketAssumption
<1>. QED
  BY <1>1, <1>2 DEF Outranks

LEMMA OneIsBest ==
  ASSUME household \in Packets, NEW S, S \subseteq DOMAIN household.claims, S # {}
  PROVE  \E n \in S : Best(S) = Value(n) /\ \A k \in S : household.claims[n].rank <= household.claims[k].rank
<1>. DEFINE Before == {p \in S \X S : Outranks(p[1], p[2])}
<1>1. \A i, j \in S : <<i, j>> \in Before <=> Outranks(i, j)
  OBVIOUS
<1>2. \A i, j \in S : i # j => <<i, j>> \in Before \/ <<j, i>> \in Before
  BY <1>1, OutranksIsAnOrder
<1>3. \A i, j, k \in S : <<i, j>> \in Before /\ <<j, k>> \in Before => <<i, k>> \in Before
  BY <1>1, OutranksIsAnOrder
<1>. HIDE DEF Before
<1>4. Len(household.claims) \in Nat /\ S \subseteq 0..Len(household.claims)
  BY PacketAssumption
<1>5. \E i \in S : \A j \in S \ {i} : <<i, j>> \in Before
  <2>1. Ranks(Before, S)
    BY <1>2, <1>3 DEF Ranks
  <2>. QED
    BY <2>1, <1>4, TopOf
<1>6. \E i \in S : \A j \in S \ {i} : Outranks(i, j)
  BY <1>1, <1>5
<1>. DEFINE n == CHOOSE i \in S : \A j \in S \ {i} : Outranks(i, j)
<1>7. n \in S /\ \A j \in S \ {n} : Outranks(n, j)
  BY <1>6
<1>8. ASSUME NEW k \in S PROVE household.claims[n].rank <= household.claims[k].rank
  <2>. HIDE DEF n
  <2>1. household.claims[n].rank \in Nat
    BY <1>7, PacketAssumption
  <2>2. CASE k = n
    BY <2>1, <2>2
  <2>3. CASE k # n
    BY <2>3, <1>7, OutranksIsAnOrder
  <2>. QED
    BY <2>2, <2>3
<1>. QED
  BY <1>7, <1>8 DEF Best

(* What a member's number and birth date become where the certification    *)
(* prints one and nobody else has the member's key.                        *)
Certified(claims, k) ==
  /\ k \in DOMAIN claims /\ claims[k].rank = Certification
  /\ \A n \in DOMAIN claims : claims[n].of # claims[k].of => ShortName[claims[n].of] # ShortName[claims[k].of]

Prints(claims, k, value) ==
  \E n \in DOMAIN claims : /\ claims[n].of = claims[k].of /\ claims[n].kind = claims[k].kind
                           /\ claims[n].rank = Certification /\ claims[n].value = value

LEMMA CertificationIsBest ==
  ASSUME household \in Packets, NEW k, Certified(household.claims, k)
  PROVE  /\ Stated(ShortName[household.claims[k].of], household.claims[k].kind) # {}
         /\ Prints(household.claims, k, Best(Stated(ShortName[household.claims[k].of], household.claims[k].kind)))
<1>. USE DEF Certified, Prints
<1>. DEFINE kind == household.claims[k].kind
            stated == Stated(ShortName[household.claims[k].of], kind)
<1>1. k \in stated /\ stated \subseteq DOMAIN household.claims
  BY DEF Stated
<1>2. PICK n \in stated : Best(stated) = Value(n) /\ household.claims[n].rank <= household.claims[k].rank
  BY <1>1, OneIsBest
<1>3. household.claims[n].rank = Certification
  BY <1>1, <1>2, PacketAssumption DEF Certification
<1>4. household.claims[n].of = household.claims[k].of /\ household.claims[n].kind = kind
  BY <1>2 DEF Stated
<1>. QED
  BY <1>1, <1>2, <1>3, <1>4 DEF Value

LEMMA NumberEndsAsTheBest ==
  ASSUME household \in Packets, NEW m, Stated(ShortName[m.name], "ssn") # {}
  PROVE  EndsIn[NumberOf(m)] = EndsIn[Best(Stated(ShortName[m.name], "ssn"))]
<1>. DEFINE stated == Stated(ShortName[m.name], "ssn")
            full == {n \in stated : EndsIn[Value(n)] = EndsIn[Best(stated)] /\ Value(n) \in FullNumbers}
<1>1. stated \subseteq DOMAIN household.claims /\ full \subseteq stated
  BY DEF Stated
<1>2. ASSUME full # {} PROVE EndsIn[Best(full)] = EndsIn[Best(stated)]
  <2>1. PICK n \in full : Best(full) = Value(n)
    BY <1>1, <1>2, OneIsBest
  <2>. QED
    BY <2>1
<1>. QED
  BY <1>2 DEF NumberOf

-----------------------------------------------------------------------------
LEMMA HouseholdStart == HouseholdInit => HouseholdInv
<1>. SUFFICES ASSUME HouseholdInit PROVE HouseholdInv
  OBVIOUS
<1>1. /\ household \in Packets /\ roster = household.roster /\ named = household.named
      /\ mentions = <<>> /\ clusters = <<>> /\ conflicts = {} /\ familyStep = "collect"
  BY DEF HouseholdInit
<1>2. \A i \in DOMAIN roster : HasFields(roster[i])
  BY <1>1, PacketAssumption DEF IsMember, HasFields
<1>3. MembersAreNeverJoined /\ ListedFirst(mentions) /\ DOMAIN mentions \subseteq Nat /\ clusters \in Seq(SUBSET DOMAIN mentions)
  BY <1>1 DEF MembersAreNeverJoined, Range, ListedFirst
<1>4. ConflictingIdentitiesAreReported /\ TheCertificationsValueStands
  BY <1>1 DEF ConflictingIdentitiesAreReported, TheCertificationsValueStands
<1>. QED
  BY <1>1, <1>2, <1>3, <1>4 DEF HouseholdInv

(* Two copies that disagree leave a finding under the name of one of them. *)
LEMMA MergingReports ==
  ASSUME HouseholdInv, MergeCopies
  PROVE  ConflictingIdentitiesAreReported'
<1>1. /\ roster = household.roster /\ household' = household
      /\ conflicts' = conflicts \cup UNION {Reports(Copies(roster, i)) : i \in DOMAIN roster}
  BY DEF HouseholdInv, MergeCopies
<1>2. /\ Len(roster) \in Nat /\ DOMAIN roster \subseteq 0..Len(roster)
      /\ \A i \in DOMAIN roster : IsMember(roster[i])
  BY <1>1, PacketAssumption DEF HouseholdInv
<1>3. ASSUME NEW i \in DOMAIN roster, NEW j \in Copies(roster, i), NEW f \in {"dob", "ssn"}, Disagree(roster[i], roster[j], f)
      PROVE  \E c \in conflicts', k \in Copies(roster, i) : c.field = f /\ c.name = roster[k].name
  <2>. DEFINE G == Copies(roster, i)
  <2>1. G \subseteq DOMAIN roster /\ i \in G /\ j \in G
    BY <1>3 DEF Copies
  <2>2. G \subseteq 0..Len(roster) /\ \A k \in G : IsMember(roster[k])
    BY <2>1, <1>2
  <2>3. Richest(G) \in G /\ [name |-> roster[Richest(G)].name, field |-> f] \in Reports(G)
    BY <2>1, <2>2, <1>2, <1>3, DisagreeingCopiesAreReported
  <2>4. [name |-> roster[Richest(G)].name, field |-> f] \in conflicts'
    BY <2>3, <1>1
  <2>. QED
    BY <2>3, <2>4
<1>. QED
  BY <1>1, <1>3 DEF ConflictingIdentitiesAreReported

(* A member whose certification prints a value ends with a printed one.    *)
LEMMA ResolvingKeepsTheCertification ==
  ASSUME HouseholdInv, ResolveIdentities
  PROVE  TheCertificationsValueStands'
<1>1. /\ household' = household /\ household \in Packets
      /\ roster' = [i \in DOMAIN roster |-> [roster[i] EXCEPT !.ssn = NumberOf(roster[i]), !.dob = BirthOf(roster[i])]]
  BY DEF HouseholdInv, ResolveIdentities
<1>2. ASSUME NEW i \in DOMAIN roster
      PROVE  roster'[i].name = roster[i].name /\ roster'[i].ssn = NumberOf(roster[i]) /\ roster'[i].dob = BirthOf(roster[i])
  <2>1. PICK m : m = roster[i] /\ m = [name |-> m.name, dob |-> m.dob, ssn |-> m.ssn, gender |-> m.gender]
    BY DEF HouseholdInv, HasFields
  <2>2. PICK x, y : x = NumberOf(roster[i]) /\ y = BirthOf(roster[i])
    OBVIOUS
  <2>3. roster'[i] = [m EXCEPT !.ssn = x, !.dob = y]
    BY <1>1, <2>1, <2>2
  <2>. QED
    BY <2>1, <2>2, <2>3
<1>3. ASSUME NEW i \in DOMAIN roster, NEW k, Certified(household.claims, k), household.claims[k].of = roster[i].name
      PROVE  \E v : /\ Prints(household.claims, k, v)
                    /\ IF household.claims[k].kind = "dob" THEN roster'[i].dob = v ELSE EndsIn[roster'[i].ssn] = EndsIn[v]
  <2>. DEFINE stated == Stated(ShortName[household.claims[k].of], household.claims[k].kind)
  <2>1. stated # {} /\ Prints(household.claims, k, Best(stated))
    BY <1>1, <1>3, CertificationIsBest
  <2>2. PICK kind : kind = household.claims[k].kind
    OBVIOUS
  <2>3. stated = Stated(ShortName[roster[i].name], kind)
    BY <1>3, <2>2
  <2>. HIDE DEF stated
  <2>4. CASE kind = "dob"
    <3>1. BirthOf(roster[i]) = Best(stated)
      BY <2>1, <2>3, <2>4 DEF BirthOf
    <3>. QED
      BY <3>1, <2>1, <2>2, <2>4, <1>2
  <2>5. CASE kind # "dob"
    <3>1. kind = "ssn"
      BY <2>2, <2>5, <1>1, <1>3, PacketAssumption DEF Certified
    <3>2. EndsIn[NumberOf(roster[i])] = EndsIn[Best(stated)]
      BY <3>1, <2>1, <2>3, <1>1, NumberEndsAsTheBest
    <3>. QED
      BY <3>1, <3>2, <2>1, <2>2, <2>5, <1>2
  <2>. QED
    BY <2>4, <2>5
<1>4. DOMAIN roster' = DOMAIN roster
  BY <1>1
<1>5. SUFFICES ASSUME NEW i \in DOMAIN roster', NEW k \in DOMAIN household'.claims,
                      household'.claims[k].of = roster'[i].name, household'.claims[k].rank = Certification,
                      \A n \in DOMAIN household'.claims :
                        household'.claims[n].of # household'.claims[k].of => ShortName[household'.claims[n].of] # ShortName[household'.claims[k].of]
               PROVE  LET c == household'.claims[k]
                          printed(kind) == {household'.claims[n].value : n \in {p \in DOMAIN household'.claims :
                            household'.claims[p].of = c.of /\ household'.claims[p].kind = kind /\ household'.claims[p].rank = Certification}}
                      IN IF c.kind = "dob" THEN roster'[i].dob \in printed("dob")
                         ELSE EndsIn[roster'[i].ssn] \in {EndsIn[v] : v \in printed("ssn")}
  BY DEF TheCertificationsValueStands
<1>6. PICK claims : claims = household.claims /\ claims = household'.claims
  BY <1>1
<1>7. i \in DOMAIN roster /\ claims[k].of = roster[i].name /\ Certified(claims, k)
  BY <1>2, <1>4, <1>5, <1>6 DEF Certified
<1>8. PICK v : /\ Prints(claims, k, v)
               /\ IF claims[k].kind = "dob" THEN roster'[i].dob = v ELSE EndsIn[roster'[i].ssn] = EndsIn[v]
  BY <1>3, <1>6, <1>7
<1>9. claims[k].kind \in {"dob", "ssn"}
  BY <1>1, <1>6, <1>7, PacketAssumption DEF Certified
<1>. DEFINE printed(kind) == {claims[n].value : n \in {p \in DOMAIN claims :
                                claims[p].of = claims[k].of /\ claims[p].kind = kind /\ claims[p].rank = Certification}}
<1>10. v \in printed(claims[k].kind)
  BY <1>8 DEF Prints
<1>11. IF claims[k].kind = "dob" THEN roster'[i].dob \in printed("dob") ELSE EndsIn[roster'[i].ssn] \in {EndsIn[w] : w \in printed("ssn")}
  BY <1>8, <1>9, <1>10
<1>. QED
  BY <1>6, <1>11

LEMMA HouseholdStepHolds == HouseholdInv /\ [HouseholdNext]_familyVars => HouseholdInv'
<1>. SUFFICES ASSUME HouseholdInv, [HouseholdNext]_familyVars PROVE HouseholdInv'
  OBVIOUS
<1>m. ASSUME clusters' = clusters, mentions' = mentions PROVE MembersAreNeverJoined'
  BY <1>m DEF HouseholdInv, MembersAreNeverJoined, Range
<1>c. ASSUME household' = household, conflicts \subseteq conflicts', familyStep \notin {"collect", "cluster", "merge"}
      PROVE  ConflictingIdentitiesAreReported'
  BY <1>c DEF HouseholdInv, ConflictingIdentitiesAreReported
<1>1. CASE CollectNames
  <2>1. /\ familyStep = "collect" /\ mentions' = Mentions /\ familyStep' = "cluster" /\ household' = household
        /\ roster' = roster /\ named' = named /\ clusters' = clusters /\ conflicts' = conflicts
    BY <1>1 DEF CollectNames
  <2>2. household \in Packets /\ roster = household.roster /\ named = household.named /\ clusters = <<>>
    BY <2>1 DEF HouseholdInv
  <2>3. PICK s : s = Mentions
    OBVIOUS
  <2>4. s \in Seq(Mention) /\ ListedFirst(s)
    BY <2>2, <2>3, MentionsListMembersFirst
  <2>5. DOMAIN s \subseteq Nat
    BY <2>4
  <2>6. mentions' = s
    BY <2>1, <2>3
  <2>7. ListedFirst(mentions)' /\ (DOMAIN mentions \subseteq Nat)' /\ clusters' \in Seq(SUBSET DOMAIN mentions')
    BY <2>1, <2>2, <2>4, <2>5, <2>6 DEF ListedFirst
  <2>8. MembersAreNeverJoined'
    BY <2>1, <2>2 DEF MembersAreNeverJoined, Range
  <2>9. ConflictingIdentitiesAreReported' /\ TheCertificationsValueStands'
    BY <2>1 DEF ConflictingIdentitiesAreReported, TheCertificationsValueStands
  <2>. QED
    BY <2>1, <2>2, <2>7, <2>8, <2>9 DEF HouseholdInv
<1>2. CASE ClusterNames
  <2>1. /\ familyStep = "cluster" /\ mentions' = mentions /\ familyStep' = "cluster" /\ household' = household
        /\ roster' = roster /\ named' = named /\ conflicts' = conflicts
    BY <1>2 DEF ClusterNames
  <2>2. clusters' \in Seq(SUBSET DOMAIN mentions) /\ MembersAreNeverJoined'
    BY <1>2, NewClusterJoinsNobody
  <2>3. ConflictingIdentitiesAreReported' /\ TheCertificationsValueStands'
    BY <2>1 DEF ConflictingIdentitiesAreReported, TheCertificationsValueStands
  <2>. QED
    BY <2>1, <2>2, <2>3 DEF HouseholdInv, ListedFirst
<1>3. CASE RenameRecords
  <2>1. /\ familyStep = "cluster" /\ mentions' = mentions /\ familyStep' = "merge" /\ household' = household
        /\ roster' = roster /\ clusters' = clusters /\ conflicts' = conflicts
    BY <1>3 DEF RenameRecords
  <2>2. ConflictingIdentitiesAreReported' /\ TheCertificationsValueStands'
    BY <2>1 DEF ConflictingIdentitiesAreReported, TheCertificationsValueStands
  <2>. QED
    BY <1>m, <2>1, <2>2 DEF HouseholdInv, ListedFirst
<1>4. CASE MergeCopies
  <2>1. /\ familyStep = "merge" /\ mentions' = mentions /\ familyStep' = "snap" /\ household' = household
        /\ named' = named /\ clusters' = clusters
    BY <1>4 DEF MergeCopies
  <2>2. \A i \in DOMAIN roster' : HasFields(roster'[i])
    <3>1. \A G : HasFields(Folded(G))
      BY DEF Folded, HasFields
    <3>2. \A i \in DOMAIN roster' : \E G : roster'[i] = Folded(G)
      BY <1>4 DEF MergeCopies
    <3>. QED
      BY <3>1, <3>2
  <2>3. ConflictingIdentitiesAreReported'
    BY <1>4, MergingReports
  <2>4. TheCertificationsValueStands'
    BY <2>1 DEF TheCertificationsValueStands
  <2>. QED
    BY <1>m, <2>1, <2>2, <2>3, <2>4 DEF HouseholdInv, ListedFirst, HasFields
<1>5. CASE SnapNames
  <2>1. /\ familyStep = "snap" /\ mentions' = mentions /\ familyStep' = "identity" /\ household' = household
        /\ named' = named /\ clusters' = clusters /\ conflicts' = conflicts
    BY <1>5 DEF SnapNames
  <2>2. \A i \in DOMAIN roster' : HasFields(roster'[i])
    <3>2. DOMAIN roster' = DOMAIN roster /\ \A i \in DOMAIN roster : roster'[i] = roster[i] \/ \E n : roster'[i] = [roster[i] EXCEPT !.name = n]
      BY <1>5 DEF SnapNames
    <3>3. ASSUME NEW i \in DOMAIN roster PROVE HasFields(roster'[i])
      <4>1. PICK n, d, s, g : roster[i] = [name |-> n, dob |-> d, ssn |-> s, gender |-> g]
        BY DEF HouseholdInv, HasFields
      <4>2. PICK r : r = roster'[i]
        OBVIOUS
      <4>3. r = roster[i] \/ \E a : r = [roster[i] EXCEPT !.name = a]
        BY <3>2, <4>2
      <4>4. \E a : r = [name |-> a, dob |-> d, ssn |-> s, gender |-> g]
        BY <4>1, <4>3
      <4>5. HasFields(r)
        BY <4>4 DEF HasFields
      <4>. QED
        BY <4>2, <4>5 DEF HasFields
    <3>. QED
      BY <3>2, <3>3
  <2>3. TheCertificationsValueStands'
    BY <2>1 DEF TheCertificationsValueStands
  <2>. QED
    BY <1>m, <1>c, <2>1, <2>2, <2>3 DEF HouseholdInv, ListedFirst, HasFields
<1>6. CASE ResolveIdentities
  <2>1. /\ familyStep = "identity" /\ mentions' = mentions /\ familyStep' = "done" /\ household' = household
        /\ named' = named /\ clusters' = clusters /\ conflicts \subseteq conflicts'
    BY <1>6 DEF ResolveIdentities
  <2>2. \A i \in DOMAIN roster' : HasFields(roster'[i])
    <3>2. DOMAIN roster' = DOMAIN roster /\ \A i \in DOMAIN roster : \E x, y : roster'[i] = [roster[i] EXCEPT !.ssn = x, !.dob = y]
      BY <1>6 DEF ResolveIdentities
    <3>3. ASSUME NEW i \in DOMAIN roster PROVE HasFields(roster'[i])
      <4>1. PICK n, d, s, g : roster[i] = [name |-> n, dob |-> d, ssn |-> s, gender |-> g]
        BY DEF HouseholdInv, HasFields
      <4>2. PICK r : r = roster'[i]
        OBVIOUS
      <4>3. PICK x, y : r = [roster[i] EXCEPT !.ssn = x, !.dob = y]
        BY <3>2, <4>2
      <4>4. r.name = n /\ r.dob = y /\ r.ssn = x /\ r.gender = g
        BY <4>1, <4>3
      <4>5. r = [name |-> r.name, dob |-> r.dob, ssn |-> r.ssn, gender |-> r.gender]
        BY <4>1, <4>3
      <4>. QED
        BY <4>2, <4>5 DEF HasFields
    <3>. QED
      BY <3>2, <3>3
  <2>3. TheCertificationsValueStands'
    BY <1>6, ResolvingKeepsTheCertification
  <2>. QED
    BY <1>m, <1>c, <2>1, <2>2, <2>3 DEF HouseholdInv, ListedFirst, HasFields
<1>7. CASE UNCHANGED familyVars
  BY <1>7 DEF familyVars, HouseholdInv, ListedFirst, HasFields, MembersAreNeverJoined, Range, ConflictingIdentitiesAreReported, TheCertificationsValueStands
<1>. QED
  BY <1>1, <1>2, <1>3, <1>4, <1>5, <1>6, <1>7 DEF HouseholdNext

(* Two entries of the household list are never one cluster's               *)
(* (name_reconciler.py, _cluster_names), for any names and any likeness,   *)
(* through every spelling that began a cluster before theirs.              *)
THEOREM MembersStayApart == HouseholdSpec => []MembersAreNeverJoined
<1>1. HouseholdInv => MembersAreNeverJoined
  BY DEF HouseholdInv
<1>. QED
  BY HouseholdStart, HouseholdStepHolds, <1>1, PTL DEF HouseholdSpec

(* Copies of a member that disagree leave a finding (pipeline.py,          *)
(* _deduplicate_household_members), however many copies there are and      *)
(* whichever of them stays.                                                *)
THEOREM ConflictsReported == HouseholdSpec => []ConflictingIdentitiesAreReported
<1>1. HouseholdInv => ConflictingIdentitiesAreReported
  BY DEF HouseholdInv
<1>. QED
  BY HouseholdStart, HouseholdStepHolds, <1>1, PTL DEF HouseholdSpec

(* The certification's printed value stands (identity.py), whatever the    *)
(* other documents claim of the member and in whatever order they are.     *)
THEOREM CertificationStands == HouseholdSpec => []TheCertificationsValueStands
<1>1. HouseholdInv => TheCertificationsValueStands
  BY DEF HouseholdInv
<1>. QED
  BY HouseholdStart, HouseholdStepHolds, <1>1, PTL DEF HouseholdSpec

-----------------------------------------------------------------------------
(***************************************************************************)
(* The link, for any payload, any held rows and any likeness of names. The *)
(* claims are awarded best first, so those already decided come before all *)
(* that are left. A link is always a decided claim's, and a decided claim  *)
(* that was not awarded lost a side to a decided claim at least as good.   *)
(***************************************************************************)
IsClaim(c) ==
  /\ c = [ours |-> c.ours, theirs |-> c.theirs, tier |-> c.tier, score |-> c.score]
  /\ c.ours \in Nat /\ c.theirs \in Nat /\ c.tier \in Nat /\ c.score \in Nat

(* No two claims are of one pair of records.                               *)
ProperClaims(claims, own) ==
  /\ \A c \in claims : IsClaim(c) /\ c.ours \in own
  /\ \A c, d \in claims : c.ours = d.ours /\ c.theirs = d.theirs => c = d

Awarded(link, c) == link[c.ours] = c.theirs
LostTo(link, c, d) == Awarded(link, d) /\ (d.ours = c.ours \/ d.theirs = c.theirs) /\ AtLeast(d, c)

(* The claims left are still to be decided; those of `owed` are awarded    *)
(* when both sides are free.                                               *)
Deciding(claims, owed, left, link) ==
  /\ \A d \in claims \ left, c \in left : Precedes(d, c)
  /\ \A i \in DOMAIN link : link[i] # None => \E d \in claims \ left : d.ours = i /\ d.theirs = link[i]
  /\ \A i, k \in DOMAIN link : i # k /\ link[i] # None => link[i] # link[k]
  /\ \A c \in owed \ left : Awarded(link, c) \/ \E d \in owed : LostTo(link, c, d)

LEMMA PrecedesIsAtLeast ==
  ASSUME NEW c, NEW d, IsClaim(c), IsClaim(d), Precedes(d, c)
  PROVE  AtLeast(d, c)
BY DEF IsClaim, Precedes, AtLeast

LEMMA NoneIsNoRow == \A i \in Nat : i # None
BY NoneAssumption

(* The best claim left is decided: awarded when it can be, and left alone  *)
(* when a side is taken or, for one that is not owed, when it is refused.  *)
(* Anything at least as good as an owed claim is owed.                     *)
IsDecided(claims, owed, left, link, own, c, now) ==
  /\ link \in [own -> Nat \cup {None}]
  /\ ProperClaims(claims, own) /\ left \subseteq claims /\ owed \subseteq claims
  /\ \A d \in claims, e \in owed : AtLeast(d, e) => d \in owed
  /\ Deciding(claims, owed, left, link)
  /\ c \in left /\ \A d \in left \ {c} : Precedes(c, d)
  /\ now = link \/ (now = WithLink(link, c) /\ IsFree(link, c))
  /\ c \in owed /\ IsFree(link, c) => now = WithLink(link, c)

LEMMA BestIsDecided ==
  ASSUME NEW claims, NEW owed, NEW left, NEW link, NEW own, NEW c, NEW now,
         IsDecided(claims, owed, left, link, own, c, now)
  PROVE  now \in [own -> Nat \cup {None}] /\ Deciding(claims, owed, left \ {c}, now)
<1>. USE DEF IsDecided
<1>. DEFINE rest == left \ {c}
<1>1. IsClaim(c) /\ c.ours \in own /\ c.theirs \in Nat /\ c.theirs # None /\ DOMAIN link = own
  BY NoneIsNoRow DEF ProperClaims, IsClaim
<1>2. \A d \in claims \ rest, e \in rest : Precedes(d, e)
  BY DEF Deciding
<1>3. CASE now = WithLink(link, c) /\ IsFree(link, c)
  <2>1. now = [link EXCEPT ![c.ours] = c.theirs]
    BY <1>3 DEF WithLink
  <2>2. now \in [own -> Nat \cup {None}] /\ now[c.ours] = c.theirs /\ \A i \in own \ {c.ours} : now[i] = link[i]
    BY <2>1, <1>1
  <2>3. link[c.ours] = None /\ \A i \in own : link[i] # c.theirs
    BY <1>3, <1>1 DEF IsFree
  <2>4. \A i \in own : now[i] # None => \E d \in claims \ rest : d.ours = i /\ d.theirs = now[i]
    BY <2>2, <1>1 DEF Deciding
  <2>5. \A i, k \in own : i # k /\ now[i] # None => now[i] # now[k]
    <3>. SUFFICES ASSUME NEW i \in own, NEW k \in own, i # k, now[i] # None, now[i] = now[k] PROVE FALSE
      OBVIOUS
    <3>1. CASE i = c.ours
      BY <3>1, <2>2, <2>3
    <3>2. CASE k = c.ours
      BY <3>2, <2>2, <2>3
    <3>3. CASE i # c.ours /\ k # c.ours
      BY <3>3, <2>2, <1>1 DEF Deciding
    <3>. QED
      BY <3>1, <3>2, <3>3
  <2>6. \A d \in claims : Awarded(link, d) => Awarded(now, d)
    <3>. SUFFICES ASSUME NEW d \in claims, Awarded(link, d) PROVE Awarded(now, d)
      OBVIOUS
    <3>1. d.ours \in own /\ d.theirs \in Nat /\ link[d.ours] = d.theirs /\ d.theirs # None
      BY NoneIsNoRow DEF ProperClaims, IsClaim, Awarded
    <3>2. d.ours # c.ours
      BY <3>1, <2>3
    <3>. QED
      BY <3>1, <3>2, <2>2 DEF Awarded
  <2>7. ASSUME NEW e \in owed \ rest PROVE Awarded(now, e) \/ \E d \in owed : LostTo(now, e, d)
    <3>1. CASE e = c
      BY <3>1, <2>2 DEF Awarded
    <3>2. CASE e \in owed \ left
      BY <3>2, <2>6 DEF Deciding, LostTo
    <3>. QED
      BY <3>1, <3>2
  <2>. QED
    BY <1>1, <1>2, <2>2, <2>4, <2>5, <2>7 DEF Deciding
<1>4. CASE now = link
  <2>2. \A i \in own : link[i] # None => \E d \in claims \ rest : d.ours = i /\ d.theirs = link[i]
    BY <1>1 DEF Deciding
  <2>3. ASSUME NEW e \in owed \ rest PROVE Awarded(link, e) \/ \E d \in owed : LostTo(link, e, d)
    <3>1. CASE e = c /\ ~Awarded(link, c)
      <4>0. ~IsFree(link, c)
        BY <3>1, <1>1, <1>4 DEF Awarded, WithLink
      <4>1. PICK i \in own : link[i] # None /\ (i = c.ours \/ link[i] = c.theirs)
        BY <4>0, <1>1 DEF IsFree
      <4>2. PICK d \in claims \ left : d.ours = i /\ d.theirs = link[i]
        BY <4>1, <1>1 DEF Deciding
      <4>3. Precedes(d, c) /\ IsClaim(d)
        BY <4>2 DEF Deciding, ProperClaims
      <4>4. AtLeast(d, c)
        BY <4>3, <1>1, PrecedesIsAtLeast
      <4>5. d \in owed
        BY <4>2, <4>4, <3>1
      <4>. QED
        BY <4>1, <4>2, <4>4, <4>5, <3>1 DEF LostTo, Awarded
    <3>2. CASE e \in owed \ left
      BY <3>2 DEF Deciding
    <3>3. CASE e = c /\ Awarded(link, c)
      BY <3>3
    <3>. QED
      BY <3>1, <3>2, <3>3
  <2>. QED
    BY <1>1, <1>2, <1>4, <2>2, <2>3 DEF Deciding
<1>. QED
  BY <1>3, <1>4

-----------------------------------------------------------------------------
(* The claims of a payload's members and of its records.                   *)
LEMMA ScoresAreNumbers ==
  ASSUME payload \in Payloads, NEW i \in DOMAIN payload.members, NEW j \in DOMAIN payload.held
  PROVE  NameScore(payload.members[i], payload.held[j]) \in Nat
<1>. DEFINE m == payload.members[i]
            h == payload.held[j]
            scores == {0} \cup {Likeness(m.name, n) : n \in h.names}
<1>1. \A n \in h.names : Likeness(m.name, n) \in 0..100
  BY PayloadAssumption
<1>2. scores \subseteq 0..100 /\ scores # {}
  BY <1>1
<1>3. \E x \in scores : \A y \in scores : x >= y
  <2>1. PICK x \in scores : \A y \in scores : y <= x
    BY <1>2, GreatestOf
  <2>. QED
    BY <2>1, <1>2
<1>4. Max(scores) \in scores
  BY <1>3 DEF Max
<1>5. Max(scores) \in Nat
  BY <1>2, <1>4
<1>. QED
  BY <1>5 DEF NameScore

LEMMA MemberClaimsAreProper ==
  ASSUME payload \in Payloads
  PROVE  ProperClaims(MemberClaims, DOMAIN payload.members)
<1>1. ASSUME NEW i \in DOMAIN payload.members, NEW j \in DOMAIN payload.held
      PROVE  IsClaim(MemberClaim(i, j)) /\ MemberClaim(i, j).ours = i /\ MemberClaim(i, j).theirs = j
  <2>1. i \in Nat /\ j \in Nat
    BY PayloadAssumption
  <2>2. NameScore(payload.members[i], payload.held[j]) \in Nat
    BY ScoresAreNumbers
  <2>3. Tier(payload.members[i], payload.held[j]) \in Nat
    BY DEF Tier
  <2>. QED
    BY <2>1, <2>2, <2>3 DEF MemberClaim, IsClaim
<1>2. \A c \in MemberClaims : \E i \in DOMAIN payload.members, j \in DOMAIN payload.held : c = MemberClaim(i, j)
  BY DEF MemberClaims
<1>. QED
  BY <1>1, <1>2 DEF ProperClaims

LEMMA RecordClaimsAreProper ==
  ASSUME payload \in Payloads
  PROVE  ProperClaims(RecordClaims, DOMAIN payload.records)
<1>1. ASSUME NEW i \in DOMAIN payload.records, NEW j \in DOMAIN payload.heldRecords
      PROVE  IsClaim(RecordClaim(i, j)) /\ RecordClaim(i, j).ours = i /\ RecordClaim(i, j).theirs = j
  <2>1. i \in Nat /\ j \in Nat
    BY PayloadAssumption
  <2>2. SourceScore(i, j) \in 0..100
    BY PayloadAssumption DEF SourceScore
  <2>3. SourceScore(i, j) \in Nat /\ 100 + SourceScore(i, j) \in Nat
    BY <2>2
  <2>. QED
    BY <2>1, <2>3 DEF RecordClaim, IsClaim
<1>2. \A c \in RecordClaims : \E i \in DOMAIN payload.records, j \in DOMAIN payload.heldRecords : c = RecordClaim(i, j)
  BY DEF RecordClaims
<1>. QED
  BY <1>1, <1>2 DEF ProperClaims

-----------------------------------------------------------------------------
(* Claims whose birth dates do not differ must be awarded or outdone; one  *)
(* over a differing date is awarded only when it has no rival.             *)
Owed == {c \in MemberClaims : c.tier > 0}
NoRivalOverADate == \A c \in MemberClaims : c.tier = 0 /\ Awarded(memberLink, c) => Rivals(c) = {}
MembersDeciding(left) == Deciding(MemberClaims, Owed, left, memberLink) /\ NoRivalOverADate

LinkInv ==
  /\ payload \in Payloads
  /\ linkStep \in {"refs", "members", "records"}
  /\ memberLink \in [DOMAIN payload.members -> Nat \cup {None}]
  /\ recordLink \in [DOMAIN payload.records -> Nat \cup {None}]
  /\ linkStep = "refs" => memberLink = [i \in DOMAIN payload.members |-> None]
  /\ linkStep \in {"refs", "members"} => recordLink = [i \in DOMAIN payload.records |-> None]
  /\ linkStep = "members" => claimed \subseteq MemberClaims /\ MembersDeciding(claimed)
  /\ linkStep = "records" =>
       MembersDeciding({}) /\ claimed \subseteq RecordClaims /\ Deciding(RecordClaims, RecordClaims, claimed, recordLink)

LEMMA NothingDecidedYet ==
  ASSUME NEW claims, NEW owed, owed \subseteq claims, NEW own, NEW link, link = [i \in own |-> None]
  PROVE  Deciding(claims, owed, claims, link)
BY DEF Deciding

LEMMA LinkStart == LinkInit => LinkInv
BY DEF LinkInit, LinkInv

LEMMA LinkStepHolds == LinkInv /\ [LinkNext]_linkVars => LinkInv'
<1>. SUFFICES ASSUME LinkInv, [LinkNext]_linkVars PROVE LinkInv'
  OBVIOUS
<1>1. CASE ResolveRefs
  <2>1. linkStep = "refs" /\ payload' = payload /\ memberLink' = memberLink /\ recordLink' = recordLink
        /\ linkStep' = "members" /\ claimed' = MemberClaims /\ MemberClaims' = MemberClaims
    BY <1>1 DEF ResolveRefs, MemberClaims, MemberClaim
  <2>2. Owed' = Owed /\ Owed \subseteq MemberClaims
    BY <2>1 DEF Owed
  <2>3. memberLink = [i \in DOMAIN payload.members |-> None]
    BY <2>1 DEF LinkInv
  <2>4. Deciding(MemberClaims, Owed, MemberClaims, memberLink)
    BY <2>2, <2>3, NothingDecidedYet
  <2>5. NoRivalOverADate'
    <3>1. ProperClaims(MemberClaims, DOMAIN payload.members)
      BY MemberClaimsAreProper DEF LinkInv
    <3>2. \A c \in MemberClaims : ~Awarded(memberLink, c)
      BY <2>3, <3>1, NoneIsNoRow DEF ProperClaims, IsClaim, Awarded
    <3>. QED
      BY <2>1, <3>2 DEF NoRivalOverADate, Awarded
  <2>6. MembersDeciding(claimed)'
    BY <2>1, <2>2, <2>4, <2>5 DEF MembersDeciding, Deciding, Awarded, LostTo
  <2>. QED
    BY <2>1, <2>6 DEF LinkInv
<1>2. CASE AwardMember
  <2>1. PICK c \in claimed :
          /\ IsBest(c)
          /\ memberLink' = IF IsFree(memberLink, c) /\ (c.tier = 0 => Rivals(c) = {}) THEN WithLink(memberLink, c) ELSE memberLink
          /\ claimed' = claimed \ {c}
    BY <1>2 DEF AwardMember
  <2>2. linkStep = "members" /\ payload' = payload /\ recordLink' = recordLink /\ linkStep' = linkStep
        /\ MemberClaims' = MemberClaims
    BY <1>2 DEF AwardMember, MemberClaims, MemberClaim
  <2>3. Owed' = Owed /\ Owed \subseteq MemberClaims /\ c \in MemberClaims /\ claimed \subseteq MemberClaims
    BY <2>2 DEF Owed, LinkInv
  <2>4. ProperClaims(MemberClaims, DOMAIN payload.members)
    BY MemberClaimsAreProper DEF LinkInv
  <2>5. /\ memberLink' = memberLink \/ (memberLink' = WithLink(memberLink, c) /\ IsFree(memberLink, c) /\ (c.tier = 0 => Rivals(c) = {}))
        /\ c \in Owed /\ IsFree(memberLink, c) => memberLink' = WithLink(memberLink, c)
    BY <2>1, <2>3, <2>4 DEF Owed, ProperClaims, IsClaim
  <2>6. \A d \in MemberClaims, e \in Owed : AtLeast(d, e) => d \in Owed
    BY <2>4 DEF Owed, ProperClaims, IsClaim, AtLeast
  <2>8. /\ memberLink \in [DOMAIN payload.members -> Nat \cup {None}] /\ Deciding(MemberClaims, Owed, claimed, memberLink)
        /\ NoRivalOverADate
    BY <2>2 DEF LinkInv, MembersDeciding
  <2>9. c \in claimed /\ \A d \in claimed \ {c} : Precedes(c, d)
    BY <2>1 DEF IsBest
  <2>10. memberLink' \in [DOMAIN payload.members -> Nat \cup {None}] /\ Deciding(MemberClaims, Owed, claimed \ {c}, memberLink')
    <3>1. claimed \subseteq MemberClaims /\ Owed \subseteq MemberClaims
      BY <2>3
    <3>2. /\ memberLink' = memberLink \/ (memberLink' = WithLink(memberLink, c) /\ IsFree(memberLink, c))
          /\ c \in Owed /\ IsFree(memberLink, c) => memberLink' = WithLink(memberLink, c)
      BY <2>5
    <3>3. memberLink \in [DOMAIN payload.members -> Nat \cup {None}] /\ Deciding(MemberClaims, Owed, claimed, memberLink)
      BY <2>8
    <3>4. IsDecided(MemberClaims, Owed, claimed, memberLink, DOMAIN payload.members, c, memberLink')
      BY <3>1, <3>2, <3>3, <2>4, <2>6, <2>9 DEF IsDecided
    <3>. QED
      BY <3>4, BestIsDecided
  <2>11. ASSUME NEW d \in MemberClaims, d.tier = 0, Awarded(memberLink', d) PROVE Rivals(d) = {}
    <3>1. CASE Awarded(memberLink, d)
      BY <3>1, <2>11, <2>8 DEF NoRivalOverADate
    <3>2. CASE ~Awarded(memberLink, d)
      <4>1. memberLink' = WithLink(memberLink, c) /\ (c.tier = 0 => Rivals(c) = {})
        BY <3>2, <2>11, <2>5
      <4>2. d.ours \in DOMAIN payload.members /\ c.ours \in DOMAIN payload.members
        BY <2>3, <2>4 DEF ProperClaims
      <4>3. d.ours = c.ours /\ d.theirs = c.theirs
        BY <4>1, <4>2, <3>2, <2>8, <2>11 DEF WithLink, Awarded
      <4>4. d = c
        BY <4>3, <2>3, <2>4 DEF ProperClaims
      <4>. QED
        BY <4>1, <4>4, <2>11
    <3>. QED
      BY <3>1, <3>2
  <2>12. NoRivalOverADate'
    BY <2>11, <2>2 DEF NoRivalOverADate, Rivals, Awarded
  <2>13. MembersDeciding(claimed)'
    BY <2>1, <2>2, <2>3, <2>10, <2>12 DEF MembersDeciding
  <2>. QED
    BY <2>1, <2>2, <2>3, <2>10, <2>13 DEF LinkInv
<1>3. CASE BeginRecords
  <2>1. linkStep = "members" /\ claimed = {} /\ payload' = payload /\ refs' = refs /\ memberLink' = memberLink
        /\ recordLink' = recordLink /\ linkStep' = "records" /\ claimed' = RecordClaims
    BY <1>3 DEF BeginRecords
  <2>2. MemberClaims' = MemberClaims /\ Owed' = Owed /\ RecordClaims' = RecordClaims
    BY <2>1 DEF MemberClaims, MemberClaim, Owed, RecordClaims, RecordClaim, HeldAlike, OnlyOneAlike, SourceScore
  <2>3. MembersDeciding({})'
    BY <2>1, <2>2 DEF LinkInv, MembersDeciding, NoRivalOverADate, Rivals
  <2>4. Deciding(RecordClaims, RecordClaims, RecordClaims, recordLink)
    BY <2>1, NothingDecidedYet DEF LinkInv
  <2>5. Deciding(RecordClaims, RecordClaims, claimed, recordLink)'
    BY <2>1, <2>2, <2>4
  <2>. QED
    BY <2>1, <2>2, <2>3, <2>5 DEF LinkInv
<1>4. CASE AwardRecord
  <2>1. PICK c \in claimed :
          /\ IsBest(c)
          /\ recordLink' = IF IsFree(recordLink, c) THEN WithLink(recordLink, c) ELSE recordLink
          /\ claimed' = claimed \ {c}
    BY <1>4 DEF AwardRecord
  <2>2. linkStep = "records" /\ payload' = payload /\ refs' = refs /\ memberLink' = memberLink /\ linkStep' = linkStep
    BY <1>4 DEF AwardRecord
  <2>3. MemberClaims' = MemberClaims /\ Owed' = Owed /\ RecordClaims' = RecordClaims
    BY <2>2 DEF MemberClaims, MemberClaim, Owed, RecordClaims, RecordClaim, HeldAlike, OnlyOneAlike, SourceScore
  <2>4. ProperClaims(RecordClaims, DOMAIN payload.records)
    BY RecordClaimsAreProper DEF LinkInv
  <2>5. /\ recordLink' = recordLink \/ (recordLink' = WithLink(recordLink, c) /\ IsFree(recordLink, c))
        /\ IsFree(recordLink, c) => recordLink' = WithLink(recordLink, c)
    BY <2>1
  <2>6. /\ recordLink \in [DOMAIN payload.records -> Nat \cup {None}] /\ Deciding(RecordClaims, RecordClaims, claimed, recordLink)
        /\ claimed \subseteq RecordClaims
    BY <2>2 DEF LinkInv
  <2>7. c \in claimed /\ \A d \in claimed \ {c} : Precedes(c, d)
    BY <2>1 DEF IsBest
  <2>8. recordLink' \in [DOMAIN payload.records -> Nat \cup {None}] /\ Deciding(RecordClaims, RecordClaims, claimed \ {c}, recordLink')
    <3>1. IsDecided(RecordClaims, RecordClaims, claimed, recordLink, DOMAIN payload.records, c, recordLink')
      BY <2>4, <2>5, <2>6, <2>7 DEF IsDecided
    <3>. QED
      BY <3>1, BestIsDecided
  <2>9. MembersDeciding({})'
    BY <2>2, <2>3 DEF LinkInv, MembersDeciding, NoRivalOverADate, Rivals
  <2>10. Deciding(RecordClaims, RecordClaims, claimed, recordLink)' /\ claimed' \subseteq RecordClaims'
    BY <2>1, <2>3, <2>6, <2>8
  <2>. QED
    BY <2>2, <2>3, <2>8, <2>9, <2>10 DEF LinkInv
<1>5. CASE UNCHANGED linkVars
  <2>1. /\ MemberClaims' = MemberClaims /\ Owed' = Owed /\ RecordClaims' = RecordClaims
        /\ MembersDeciding(claimed)' = MembersDeciding(claimed) /\ MembersDeciding({})' = MembersDeciding({})
    BY <1>5 DEF linkVars, MemberClaims, MemberClaim, Owed, RecordClaims, RecordClaim, HeldAlike, OnlyOneAlike, SourceScore,
                MembersDeciding, NoRivalOverADate, Rivals
  <2>. QED
    BY <1>5, <2>1 DEF linkVars, LinkInv
<1>. QED
  BY <1>1, <1>2, <1>3, <1>4, <1>5 DEF LinkNext

(* Every row goes to the better claim (cartograph/manifest.py): whatever   *)
(* the payload and the rows Cartograph holds.                              *)
THEOREM BetterClaimsWin == LinkSpec => []RowsGoToTheBetterClaim
<1>1. LinkInv => RowsGoToTheBetterClaim
  <2>. SUFFICES ASSUME LinkInv, AllLinked PROVE RowsGoToTheBetterClaim
    BY DEF RowsGoToTheBetterClaim
  <2>1. /\ claimed = {} /\ Deciding(MemberClaims, Owed, {}, memberLink) /\ NoRivalOverADate
        /\ Deciding(RecordClaims, RecordClaims, {}, recordLink)
    BY DEF AllLinked, LinkInv, MembersDeciding
  <2>2. Settled(Owed, memberLink)
    BY <2>1 DEF Deciding, Settled, Awarded, LostTo
  <2>3. Settled(RecordClaims, recordLink)
    BY <2>1 DEF Deciding, Settled, Awarded, LostTo
  <2>. QED
    BY <2>1, <2>2, <2>3 DEF RowsGoToTheBetterClaim, NoRivalOverADate, Owed, Awarded
<1>. QED
  BY LinkStart, LinkStepHolds, <1>1, PTL DEF LinkSpec

-----------------------------------------------------------------------------
(***************************************************************************)
(* The verdicts, for any bodies and any number of sends. The verdict rows  *)
(* of the table are exactly the last verdicts received on each finding of  *)
(* each case, and every case of an answered body has been received.        *)
(***************************************************************************)
Events == {e \in (DOMAIN Body) \X Nat : e[2] \in DOMAIN Body[e[1]].cases}
VerdictOf(n, k) == CaseOf(received[n]).verdicts[k]

(* The k-th verdict of the n-th case received stands: none follows it.     *)
Stands(n, k) ==
  /\ n \in DOMAIN received /\ k \in DOMAIN CaseOf(received[n]).verdicts /\ VerdictOf(n, k).key # NoKey
  /\ LastJudges(n, k, KeyOf(received[n]), VerdictOf(n, k).key)

WasReceived(b, i) == Body[b].cases[i].ref # NoRef => \E n \in DOMAIN received : received[n] = <<b, i>>

VerdictsOnFile ==
  /\ \A r \in table : r.source = "runpod" =>
       \E n \in DOMAIN received : \E k \in DOMAIN CaseOf(received[n]).verdicts : Stands(n, k) /\ r = RowOf(n, k)
  /\ \A n \in DOMAIN received : \A k \in DOMAIN CaseOf(received[n]).verdicts : Stands(n, k) => RowOf(n, k) \in table

FeedbackInv ==
  /\ received \in Seq(Events)
  /\ accepted \subseteq DOMAIN Body
  /\ receiving = [body |-> receiving.body, at |-> receiving.at, stored |-> receiving.stored]
  /\ Receiving => /\ receiving.body \in DOMAIN Body /\ receiving.at \in Nat \ {0}
                  /\ \A i \in DOMAIN BodyNow.cases : i < receiving.at => WasReceived(receiving.body, i)
  /\ \A b \in accepted : \A i \in DOMAIN Body[b].cases : WasReceived(b, i)
  /\ VerdictsOnFile

-----------------------------------------------------------------------------
LEMMA VerdictsAreNumbered ==
  ASSUME NEW b \in DOMAIN Body, NEW i \in DOMAIN Body[b].cases
  PROVE  /\ Len(Body[b].cases) \in Nat /\ DOMAIN Body[b].cases = 1..Len(Body[b].cases)
         /\ Len(Body[b].cases[i].verdicts) \in Nat
         /\ DOMAIN Body[b].cases[i].verdicts = 1..Len(Body[b].cases[i].verdicts)
BY BodyAssumption

LEMMA EventsAreCases ==
  ASSUME NEW e \in Events
  PROVE  /\ e = <<e[1], e[2]>> /\ e[1] \in DOMAIN Body /\ e[2] \in DOMAIN Body[e[1]].cases
         /\ Len(CaseOf(e).verdicts) \in Nat /\ DOMAIN CaseOf(e).verdicts = 1..Len(CaseOf(e).verdicts)
<1>1. e = <<e[1], e[2]>> /\ e[1] \in DOMAIN Body /\ e[2] \in DOMAIN Body[e[1]].cases
  BY DEF Events
<1>. QED
  BY <1>1, VerdictsAreNumbered DEF CaseOf

(* Of the verdicts of a case on one finding, one is the last.              *)
LEMMA OneIsLastOn ==
  ASSUME NEW case, Len(case.verdicts) \in Nat, DOMAIN case.verdicts = 1..Len(case.verdicts), NEW k \in DOMAIN case.verdicts
  PROVE  \E l \in DOMAIN case.verdicts : case.verdicts[l].key = case.verdicts[k].key /\ IsLastOn(case, l)
<1>. DEFINE alike == {l \in DOMAIN case.verdicts : case.verdicts[l].key = case.verdicts[k].key}
<1>1. alike \subseteq 0..Len(case.verdicts) /\ alike # {}
  OBVIOUS
<1>2. PICK l \in alike : \A m \in alike : m <= l
  BY <1>1, GreatestOf
<1>3. IsLastOn(case, l)
  BY <1>2 DEF IsLastOn
<1>. QED
  BY <1>2, <1>3

(* Of the verdicts received on one finding of one case, one is the last.   *)
LEMMA OneJudgesLast ==
  ASSUME received \in Seq(Events), NEW c, NEW f, NEW m, NEW l, Judges(m, l, c, f)
  PROVE  \E n \in DOMAIN received : \E k \in DOMAIN CaseOf(received[n]).verdicts : LastJudges(n, k, c, f)
<1>. DEFINE judging == {n \in DOMAIN received : \E k \in DOMAIN CaseOf(received[n]).verdicts : Judges(n, k, c, f)}
<1>1. Len(received) \in Nat /\ DOMAIN received = 1..Len(received)
  OBVIOUS
<1>2. judging \subseteq 0..Len(received) /\ judging # {}
  <2>1. m \in DOMAIN received /\ l \in DOMAIN CaseOf(received[m]).verdicts
    BY DEF Judges
  <2>2. m \in judging
    BY <2>1
  <2>. QED
    BY <2>2, <1>1
<1>3. PICK n \in judging : \A q \in judging : q <= n
  BY <1>1, <1>2, GreatestOf
<1>. DEFINE verdicts == {k \in DOMAIN CaseOf(received[n]).verdicts : Judges(n, k, c, f)}
<1>4. received[n] \in Events
  BY <1>3
<1>5. Len(CaseOf(received[n]).verdicts) \in Nat /\ verdicts \subseteq 0..Len(CaseOf(received[n]).verdicts) /\ verdicts # {}
  BY <1>3, <1>4, EventsAreCases
<1>6. PICK k \in verdicts : \A q \in verdicts : q <= k
  BY <1>5, GreatestOf
<1>7. LastJudges(n, k, c, f)
  <2>. SUFFICES ASSUME NEW q \in DOMAIN received, NEW p \in DOMAIN CaseOf(received[q]).verdicts, Judges(q, p, c, f)
                PROVE  q < n \/ (q = n /\ p <= k)
    BY <1>6 DEF LastJudges
  <2>1. q \in judging /\ q <= n /\ q \in Nat /\ n \in Nat
    BY <1>1, <1>3
  <2>2. CASE q = n
    BY <2>2, <1>6
  <2>. QED
    BY <2>1, <2>2
<1>. QED
  BY <1>6, <1>7

-----------------------------------------------------------------------------
LEMMA FeedbackStart == FeedbackInit => FeedbackInv
<1>. SUFFICES ASSUME FeedbackInit PROVE FeedbackInv
  OBVIOUS
<1>1. received = <<>> /\ table = {} /\ accepted = {} /\ receiving = [body |-> 0, at |-> 0, stored |-> {}]
  BY DEF FeedbackInit, Nobody
<1>2. DOMAIN received = {} /\ received \in Seq(Events)
  BY <1>1
<1>. QED
  BY <1>1, <1>2 DEF FeedbackInv, Receiving, Nobody, VerdictsOnFile

LEMMA NewReceiver ==
  ASSUME NEW b, NEW i \in Nat \ {0}, NEW S
  PROVE  [body |-> b, at |-> i, stored |-> S] # Nobody
BY DEF Nobody

(* A case is stored: its last verdicts replace what stood on the same      *)
(* findings of the same case, and nothing else.                            *)
LEMMA StoredVerdicts ==
  ASSUME FeedbackInv, StoreCase
  PROVE  VerdictsOnFile' /\ received' \in Seq(Events) /\ received'[Len(received) + 1] = <<receiving.body, receiving.at>>
         /\ DOMAIN received' = 1..(Len(received) + 1) /\ \A n \in DOMAIN received : n \in DOMAIN received' /\ received'[n] = received[n]
<1>0. PICK event, len, last, body, case :
        event = <<receiving.body, receiving.at>> /\ len = Len(received) /\ last = len + 1 /\ body = BodyNow /\ case = CaseNow
  OBVIOUS
<1>1. /\ Receiving /\ MoreCases /\ CaseNow.ref # NoRef /\ table' = StoredIn(table, body, case)
      /\ received' = Append(received, event) /\ receiving.body \in DOMAIN Body /\ receiving.at \in Nat \ {0}
      /\ received \in Seq(Events)
  BY <1>0 DEF StoreCase, FeedbackInv
<1>2. event \in Events /\ event[1] = receiving.body /\ event[2] = receiving.at
  BY <1>0, <1>1, BodyAssumption DEF Events, MoreCases, BodyNow
<1>3. /\ len \in Nat /\ DOMAIN received = 1..len /\ DOMAIN received' = 1..last /\ last \notin DOMAIN received
      /\ received'[last] = event /\ \A n \in 1..len : received'[n] = received[n]
  BY <1>0, <1>1, <1>2
<1>4. received' \in Seq(Events)
  BY <1>1, <1>2
<1>5. CaseOf(event) = case /\ KeyOf(event) = CaseKey(body, case) /\ Body[event[1]] = body
  BY <1>0, <1>2 DEF CaseOf, KeyOf, CaseNow, BodyNow
<1>6. Len(case.verdicts) \in Nat /\ DOMAIN case.verdicts = 1..Len(case.verdicts)
  BY <1>2, <1>5, EventsAreCases
(* What judges a finding, before and after.                                *)
<1>7. \A n \in DOMAIN received : \A k, c, f : Judges(n, k, c, f)' <=> Judges(n, k, c, f)
  <2>. SUFFICES ASSUME NEW n \in DOMAIN received, NEW k, NEW c, NEW f PROVE Judges(n, k, c, f)' <=> Judges(n, k, c, f)
    OBVIOUS
  <2>1. n \in DOMAIN received' /\ received'[n] = received[n]
    BY <1>0, <1>3
  <2>. QED
    BY <2>1 DEF Judges
<1>8. \A k, c, f : Judges(last, k, c, f)' <=> (k \in DOMAIN case.verdicts /\ c = KeyOf(event) /\ case.verdicts[k].key = f)
  BY <1>3, <1>5, <1>0 DEF Judges
<1>. DEFINE Outdone(n, k) == \E l \in DOMAIN case.verdicts :
              KeyOf(received[n]) = KeyOf(event) /\ VerdictOf(n, k).key = case.verdicts[l].key
<1>9. ASSUME NEW n \in DOMAIN received, NEW k \in DOMAIN CaseOf(received[n]).verdicts
      PROVE  Stands(n, k)' <=> Stands(n, k) /\ ~Outdone(n, k)
  <2>0. PICK c, f : c = KeyOf(received[n]) /\ f = VerdictOf(n, k).key
    OBVIOUS
  <2>1. n \in Nat /\ n <= len /\ received'[n] = received[n] /\ n \in DOMAIN received' /\ n # last /\ ~(last < n)
    BY <1>3, <1>0
  <2>2. VerdictOf(n, k)' = VerdictOf(n, k)
    BY <2>1 DEF VerdictOf
  <2>3. ASSUME Stands(n, k)' PROVE Stands(n, k) /\ ~Outdone(n, k)
    <3>1. LastJudges(n, k, c, f)' /\ f # NoKey
      BY <2>0, <2>3, <2>1, <2>2 DEF Stands
    <3>2. Judges(n, k, c, f)
      BY <3>1, <1>7 DEF LastJudges
    <3>3. ASSUME NEW m \in DOMAIN received, NEW l \in DOMAIN CaseOf(received[m]).verdicts, Judges(m, l, c, f)
          PROVE  m < n \/ (m = n /\ l <= k)
      <4>1. m \in DOMAIN received' /\ received'[m] = received[m] /\ Judges(m, l, c, f)'
        BY <1>3, <1>7, <3>3, <1>0
      <4>. QED
        BY <4>1, <3>1 DEF LastJudges
    <3>4. ~Outdone(n, k)
      <4>. SUFFICES ASSUME Outdone(n, k) PROVE FALSE
        OBVIOUS
      <4>1. PICK l \in DOMAIN case.verdicts : c = KeyOf(event) /\ f = case.verdicts[l].key
        BY <2>0
      <4>2. Judges(last, l, c, f)'
        BY <4>1, <1>8
      <4>3. last \in DOMAIN received' /\ l \in DOMAIN CaseOf(received'[last]).verdicts
        BY <1>3, <1>5, <1>0
      <4>. QED
        BY <4>2, <4>3, <3>1, <2>1 DEF LastJudges
    <3>. QED
      BY <2>0, <3>1, <3>2, <3>3, <3>4 DEF Stands, LastJudges
  <2>4. ASSUME Stands(n, k), ~Outdone(n, k) PROVE Stands(n, k)'
    <3>1. LastJudges(n, k, c, f) /\ f # NoKey
      BY <2>0, <2>4 DEF Stands
    <3>2. Judges(n, k, c, f)'
      BY <3>1, <1>7 DEF LastJudges
    <3>3. ASSUME NEW m \in DOMAIN received', NEW l \in DOMAIN CaseOf(received'[m]).verdicts, Judges(m, l, c, f)'
          PROVE  m < n \/ (m = n /\ l <= k)
      <4>1. m # last
        BY <2>0, <1>8, <3>3, <2>4
      <4>2. m \in DOMAIN received /\ received'[m] = received[m]
        BY <4>1, <1>3, <1>0
      <4>3. Judges(m, l, c, f) /\ l \in DOMAIN CaseOf(received[m]).verdicts
        BY <4>2, <3>3, <1>7
      <4>. QED
        BY <4>2, <4>3, <3>1 DEF LastJudges
    <3>4. LastJudges(n, k, c, f)'
      BY <3>2, <3>3 DEF LastJudges
    <3>. QED
      BY <2>0, <3>1, <3>4, <2>1, <2>2 DEF Stands
  <2>. QED
    BY <2>3, <2>4
<1>10. ASSUME NEW k \in DOMAIN case.verdicts, case.verdicts[k].key # NoKey
       PROVE  Stands(last, k)' <=> IsLastOn(case, k)
  <2>0. PICK c, f : c = KeyOf(event) /\ f = case.verdicts[k].key
    OBVIOUS
  <2>1. last \in DOMAIN received' /\ received'[last] = event /\ VerdictOf(last, k)' = case.verdicts[k] /\ last \in Nat
    BY <1>3, <1>5, <1>0 DEF VerdictOf
  <2>2. Stands(last, k)' <=> LastJudges(last, k, c, f)'
    BY <2>0, <2>1, <1>5, <1>10 DEF Stands
  <2>3. ASSUME LastJudges(last, k, c, f)' PROVE IsLastOn(case, k)
    <3>. SUFFICES ASSUME NEW l \in DOMAIN case.verdicts, l > k, case.verdicts[l].key = f PROVE FALSE
      BY <2>0 DEF IsLastOn
    <3>1. Judges(last, l, c, f)' /\ l \in DOMAIN CaseOf(received'[last]).verdicts
      BY <2>0, <1>8, <1>5, <2>1
    <3>2. last < last \/ (last = last /\ l <= k)
      BY <3>1, <2>1, <2>3 DEF LastJudges
    <3>. QED
      BY <3>2, <2>1, <1>6
  <2>4. ASSUME IsLastOn(case, k) PROVE LastJudges(last, k, c, f)'
    <3>1. Judges(last, k, c, f)'
      BY <2>0, <1>8
    <3>2. ASSUME NEW m \in DOMAIN received', NEW l \in DOMAIN CaseOf(received'[m]).verdicts, Judges(m, l, c, f)'
          PROVE  m < last \/ (m = last /\ l <= k)
      <4>1. CASE m = last
        <5>1. l \in DOMAIN case.verdicts /\ case.verdicts[l].key = f
          BY <2>0, <4>1, <3>2, <1>8
        <5>. QED
          BY <2>0, <5>1, <4>1, <2>4, <1>6 DEF IsLastOn
      <4>2. CASE m # last
        BY <4>2, <1>3, <1>0
      <4>. QED
        BY <4>1, <4>2
    <3>. QED
      BY <3>1, <3>2 DEF LastJudges
  <2>. QED
    BY <2>2, <2>3, <2>4
(* The rows.                                                               *)
<1>11. \A k \in DOMAIN case.verdicts : RowOf(last, k)' = VerdictRow(body, case, case.verdicts[k])
  BY <1>3, <1>5 DEF RowOf
<1>12. \A n \in DOMAIN received : \A k : RowOf(n, k)' = RowOf(n, k)
  BY <1>3 DEF RowOf
<1>13. \A n \in DOMAIN received : \A k :
         /\ RowOf(n, k).case = KeyOf(received[n]) /\ RowOf(n, k).finding = VerdictOf(n, k).key
         /\ RowOf(n, k).source = "runpod" /\ RowOf(n, k).description = NoKey
  BY DEF RowOf, VerdictRow, VerdictOf, KeyOf
<1>14. \A k \in DOMAIN case.verdicts :
         /\ VerdictRow(body, case, case.verdicts[k]).case = KeyOf(event)
         /\ VerdictRow(body, case, case.verdicts[k]).finding = case.verdicts[k].key
         /\ VerdictRow(body, case, case.verdicts[k]).source = "runpod"
         /\ VerdictRow(body, case, case.verdicts[k]).description = NoKey
  BY <1>5 DEF VerdictRow
<1>15. ASSUME NEW r \in RowsOf(body, case), r.source = "runpod"
       PROVE  \E k \in DOMAIN case.verdicts : /\ case.verdicts[k].key # NoKey /\ IsLastOn(case, k)
                                              /\ r = VerdictRow(body, case, case.verdicts[k])
  BY <1>15 DEF RowsOf, ManualRow
<1>16. \A k \in DOMAIN case.verdicts : case.verdicts[k].key # NoKey /\ IsLastOn(case, k) =>
         VerdictRow(body, case, case.verdicts[k]) \in RowsOf(body, case)
  BY DEF RowsOf
<1>17. ASSUME NEW r \in table', r.source = "runpod"
       PROVE  \E n \in DOMAIN received' : \E k \in DOMAIN CaseOf(received'[n]).verdicts : Stands(n, k)' /\ r = RowOf(n, k)'
  <2>1. CASE r \in RowsOf(body, case)
    <3>1. PICK k \in DOMAIN case.verdicts : case.verdicts[k].key # NoKey /\ IsLastOn(case, k) /\ r = VerdictRow(body, case, case.verdicts[k])
      BY <2>1, <1>15, <1>17
    <3>. QED
      BY <3>1, <1>3, <1>5, <1>10, <1>11, <1>0
  <2>2. CASE r \in table /\ \A q \in RowsOf(body, case) : ~SamePrimaryKey(r, q)
    <3>0. PICK n \in DOMAIN received : \E k \in DOMAIN CaseOf(received[n]).verdicts : Stands(n, k) /\ r = RowOf(n, k)
      BY <2>2, <1>17 DEF FeedbackInv, VerdictsOnFile
    <3>1. PICK k \in DOMAIN CaseOf(received[n]).verdicts : Stands(n, k) /\ r = RowOf(n, k)
      BY <3>0
    <3>2. ~Outdone(n, k)
      <4>. SUFFICES ASSUME Outdone(n, k) PROVE FALSE
        OBVIOUS
      <4>1. PICK l \in DOMAIN case.verdicts : KeyOf(received[n]) = KeyOf(event) /\ VerdictOf(n, k).key = case.verdicts[l].key
        OBVIOUS
      <4>2. PICK p \in DOMAIN case.verdicts : case.verdicts[p].key = case.verdicts[l].key /\ IsLastOn(case, p)
        BY <1>6, OneIsLastOn
      <4>3. VerdictRow(body, case, case.verdicts[p]) \in RowsOf(body, case)
        BY <4>1, <4>2, <3>1, <1>16 DEF Stands
      <4>. QED
        BY <4>1, <4>2, <4>3, <3>1, <2>2, <1>13, <1>14 DEF SamePrimaryKey
    <3>3. Stands(n, k)' /\ r = RowOf(n, k)'
      BY <3>1, <3>2, <1>9, <1>12
    <3>4. n \in DOMAIN received' /\ k \in DOMAIN CaseOf(received'[n]).verdicts
      BY <1>3, <1>0
    <3>. QED
      BY <3>3, <3>4
  <2>. QED
    BY <2>1, <2>2, <1>1, <1>17 DEF StoredIn
<1>18. ASSUME NEW n \in DOMAIN received', NEW k \in DOMAIN CaseOf(received'[n]).verdicts, Stands(n, k)' PROVE RowOf(n, k)' \in table'
  <2>1. CASE n = last
    <3>1. k \in DOMAIN case.verdicts /\ case.verdicts[k].key # NoKey
      BY <2>1, <1>3, <1>5, <1>18 DEF Stands, VerdictOf
    <3>2. VerdictRow(body, case, case.verdicts[k]) \in RowsOf(body, case)
      BY <3>1, <2>1, <1>10, <1>16, <1>18
    <3>. QED
      BY <3>1, <3>2, <2>1, <1>1, <1>11 DEF StoredIn
  <2>2. CASE n # last
    <3>1. n \in DOMAIN received /\ k \in DOMAIN CaseOf(received[n]).verdicts
      BY <2>2, <1>3, <1>0
    <3>2. Stands(n, k) /\ ~Outdone(n, k)
      BY <3>1, <1>9, <1>18
    <3>3. RowOf(n, k) \in table
      BY <3>1, <3>2 DEF FeedbackInv, VerdictsOnFile
    <3>4. ASSUME NEW q \in RowsOf(body, case) PROVE ~SamePrimaryKey(RowOf(n, k), q)
      <4>. SUFFICES ASSUME SamePrimaryKey(RowOf(n, k), q) PROVE FALSE
        OBVIOUS
      <4>1. q.source = "runpod" /\ q.case = KeyOf(received[n]) /\ q.finding = VerdictOf(n, k).key
        BY <3>1, <1>13 DEF SamePrimaryKey
      <4>2. PICK l \in DOMAIN case.verdicts : q = VerdictRow(body, case, case.verdicts[l])
        BY <4>1, <1>15
      <4>. QED
        BY <4>1, <4>2, <3>2, <1>14
    <3>. QED
      BY <3>1, <3>3, <3>4, <1>1, <1>12 DEF StoredIn
  <2>. QED
    BY <2>1, <2>2
<1>19. VerdictsOnFile'
  BY <1>17, <1>18 DEF VerdictsOnFile
<1>. QED
  BY <1>3, <1>4, <1>19, <1>0

-----------------------------------------------------------------------------
LEMMA FeedbackStepHolds == FeedbackInv /\ [FeedbackNext]_feedbackVars => FeedbackInv'
<1>. SUFFICES ASSUME FeedbackInv, [FeedbackNext]_feedbackVars PROVE FeedbackInv'
  OBVIOUS
<1>u. ASSUME received' = received, table' = table PROVE VerdictsOnFile'
  BY <1>u DEF FeedbackInv, VerdictsOnFile, Stands, LastJudges, Judges, VerdictOf, RowOf
<1>r. ASSUME received' = received PROVE \A b, i : WasReceived(b, i) => WasReceived(b, i)'
  BY <1>r DEF WasReceived
<1>1. ASSUME NEW b \in DOMAIN Body, Receive(b) PROVE FeedbackInv'
  <2>1. receiving' = [body |-> b, at |-> 1, stored |-> {}] /\ received' = received /\ table' = table /\ accepted' = accepted
    BY <1>1 DEF Receive
  <2>2. \A i \in DOMAIN Body[b].cases : ~(i < 1)
    BY BodyAssumption
  <2>. QED
    BY <1>u, <1>r, <2>1, <2>2 DEF FeedbackInv, BodyNow
<1>2. CASE StoreCase
  <2>. DEFINE stored == receiving.stored \cup {CaseNow.ref}
  <2>1. /\ Receiving /\ accepted' = accepted
        /\ receiving' = [body |-> receiving.body, at |-> receiving.at + 1, stored |-> stored]
    BY <1>2 DEF StoreCase, FeedbackInv
  <2>2. receiving.body \in DOMAIN Body /\ receiving.at \in Nat \ {0} /\ receiving.at + 1 \in Nat \ {0}
        /\ \A i \in DOMAIN BodyNow.cases : i < receiving.at => WasReceived(receiving.body, i)
    BY <2>1 DEF FeedbackInv
  <2>3. /\ VerdictsOnFile' /\ received' \in Seq(Events) /\ received'[Len(received) + 1] = <<receiving.body, receiving.at>>
        /\ DOMAIN received' = 1..(Len(received) + 1) /\ \A n \in DOMAIN received : n \in DOMAIN received' /\ received'[n] = received[n]
    BY <1>2, StoredVerdicts
  <2>4. \A b, i : WasReceived(b, i) => WasReceived(b, i)'
    BY <2>3 DEF WasReceived
  <2>5. PICK b, i : b = receiving.body /\ i = receiving.at
    OBVIOUS
  <2>6. WasReceived(b, i)'
    <3>1. Len(received) + 1 \in DOMAIN received'
      BY <2>3 DEF FeedbackInv
    <3>. QED
      BY <3>1, <2>3, <2>5 DEF WasReceived
  <2>7. ASSUME NEW j \in DOMAIN Body[b].cases, j < i + 1 PROVE WasReceived(b, j)'
    <3>1. j \in Nat /\ i \in Nat /\ b \in DOMAIN Body
      BY <2>2, <2>5, BodyAssumption
    <3>2. CASE j = i
      BY <3>2, <2>6
    <3>3. CASE j # i
      <4>1. j < i
        BY <3>1, <3>3, <2>7
      <4>2. WasReceived(b, j)
        BY <4>1, <2>2, <2>5 DEF BodyNow
      <4>. QED
        BY <4>2, <2>4
    <3>. QED
      BY <3>2, <3>3
  <2>8. Receiving' => /\ receiving'.body \in DOMAIN Body /\ receiving'.at \in Nat \ {0}
                      /\ \A j \in DOMAIN BodyNow'.cases : j < receiving'.at => WasReceived(receiving.body, j)'
    BY <2>1, <2>2, <2>5, <2>7 DEF BodyNow
  <2>9. \A d \in accepted' : \A j \in DOMAIN Body[d].cases : WasReceived(d, j)'
    BY <2>1, <2>4 DEF FeedbackInv
  <2>. QED
    BY <2>1, <2>3, <2>8, <2>9 DEF FeedbackInv
<1>3. CASE SkipCase
  <2>1. /\ Receiving /\ accepted' = accepted /\ received' = received /\ table' = table /\ CaseNow.ref = NoRef
        /\ receiving' = [body |-> receiving.body, at |-> receiving.at + 1, stored |-> receiving.stored]
    BY <1>3 DEF SkipCase, FeedbackInv
  <2>2. receiving.body \in DOMAIN Body /\ receiving.at \in Nat \ {0} /\ receiving.at + 1 \in Nat \ {0}
        /\ \A i \in DOMAIN BodyNow.cases : i < receiving.at => WasReceived(receiving.body, i)
    BY <2>1 DEF FeedbackInv
  <2>5. PICK b, i : b = receiving.body /\ i = receiving.at
    OBVIOUS
  <2>6. WasReceived(b, i)
    BY <2>1, <2>5 DEF WasReceived, CaseNow, BodyNow
  <2>7. ASSUME NEW j \in DOMAIN Body[b].cases, j < i + 1 PROVE WasReceived(b, j)'
    <3>1. j \in Nat /\ i \in Nat
      BY <2>2, <2>5, BodyAssumption
    <3>2. j = i \/ j < i
      BY <3>1, <2>7
    <3>3. WasReceived(b, j)
      BY <3>2, <2>2, <2>5, <2>6 DEF BodyNow
    <3>. QED
      BY <3>3, <2>1, <1>r
  <2>8. Receiving' => /\ receiving'.body \in DOMAIN Body /\ receiving'.at \in Nat \ {0}
                      /\ \A j \in DOMAIN BodyNow'.cases : j < receiving'.at => WasReceived(receiving.body, j)'
    BY <2>1, <2>2, <2>5, <2>7 DEF BodyNow
  <2>. QED
    BY <1>u, <1>r, <2>1, <2>8 DEF FeedbackInv
<1>4. CASE StoreFails \/ AnswerLost
  <2>1. receiving' = Nobody /\ accepted' = accepted /\ received' = received /\ table' = table
    BY <1>4 DEF StoreFails, AnswerLost, CannotStore
  <2>. QED
    BY <1>u, <1>r, <2>1 DEF FeedbackInv, Receiving, Nobody
<1>5. CASE Answer
  <2>1. /\ Receiving /\ ~MoreCases /\ receiving' = Nobody /\ received' = received /\ table' = table
        /\ accepted' \subseteq accepted \cup {receiving.body}
    BY <1>5 DEF Answer
  <2>2. \A i \in DOMAIN BodyNow.cases : WasReceived(receiving.body, i)
    <3>1. receiving.body \in DOMAIN Body /\ receiving.at \in Nat
      BY <2>1 DEF FeedbackInv
    <3>2. ASSUME NEW i \in DOMAIN BodyNow.cases PROVE i < receiving.at
      <4>1. i \in Nat /\ Len(BodyNow.cases) \in Nat /\ i <= Len(BodyNow.cases)
        BY <3>1, BodyAssumption DEF BodyNow
      <4>2. Len(BodyNow.cases) < receiving.at
        BY <4>1, <3>1, <2>1 DEF MoreCases
      <4>. QED
        BY <4>1, <4>2, <3>1
    <3>. QED
      BY <3>2, <2>1 DEF FeedbackInv
  <2>. QED
    BY <1>u, <1>r, <2>1, <2>2 DEF FeedbackInv, Receiving, Nobody, BodyNow
<1>6. CASE UNCHANGED feedbackVars
  <2>1. receiving' = receiving /\ accepted' = accepted /\ received' = received /\ table' = table
    BY <1>6 DEF feedbackVars
  <2>. QED
    BY <1>u, <1>r, <2>1 DEF FeedbackInv, Receiving, BodyNow
<1>. QED
  BY <1>1, <1>2, <1>3, <1>4, <1>5, <1>6 DEF FeedbackNext

(* The verdicts of every answered body stand                               *)
(* (routers/integration.py, audit/job_store.py): through cases that fail,  *)
(* stops, lost answers and bodies sent again behind later ones.            *)
THEOREM VerdictsStand == FeedbackSpec => []AcceptedVerdictsStand
<1>1. FeedbackInv => AcceptedVerdictsStand
  <2>. SUFFICES ASSUME FeedbackInv, NEW b \in accepted, NEW i \in DOMAIN Body[b].cases, Body[b].cases[i].ref # NoRef,
                       NEW p \in DOMAIN Body[b].cases[i].verdicts, Body[b].cases[i].verdicts[p].key # NoKey,
                       NEW c, c = CaseKey(Body[b], Body[b].cases[i]), NEW f, f = Body[b].cases[i].verdicts[p].key
                PROVE  \E n \in DOMAIN received : \E k \in DOMAIN CaseOf(received[n]).verdicts :
                         /\ LastJudges(n, k, c, f)
                         /\ {r \in table : r.source = "runpod" /\ r.finding = f /\ r.case = c} = {RowOf(n, k)}
                         /\ {r \in Judged(f) : r.case = c} = IF RowOf(n, k).verdict \in {"valid", "invalid"} THEN {RowOf(n, k)} ELSE {}
    BY DEF AcceptedVerdictsStand, Range
  <2>1. PICK m \in DOMAIN received : received[m] = <<b, i>>
    BY DEF FeedbackInv, WasReceived
  <2>2. Judges(m, p, c, f)
    BY <2>1 DEF Judges, KeyOf, CaseOf
  <2>3. PICK n \in DOMAIN received : \E k \in DOMAIN CaseOf(received[n]).verdicts : LastJudges(n, k, c, f)
    BY <2>2, OneJudgesLast DEF FeedbackInv
  <2>4. PICK k \in DOMAIN CaseOf(received[n]).verdicts : LastJudges(n, k, c, f)
    BY <2>3
  <2>5. KeyOf(received[n]) = c /\ VerdictOf(n, k).key = f /\ Stands(n, k)
    BY <2>4 DEF LastJudges, Judges, VerdictOf, Stands
  <2>6. RowOf(n, k) \in table /\ RowOf(n, k).source = "runpod" /\ RowOf(n, k).finding = f /\ RowOf(n, k).case = c
    BY <2>5 DEF FeedbackInv, VerdictsOnFile, RowOf, VerdictRow, VerdictOf, KeyOf
  <2>7. ASSUME NEW r \in table, r.source = "runpod", r.finding = f, r.case = c PROVE r = RowOf(n, k)
    <3>1. PICK q \in DOMAIN received : \E l \in DOMAIN CaseOf(received[q]).verdicts : Stands(q, l) /\ r = RowOf(q, l)
      BY <2>7 DEF FeedbackInv, VerdictsOnFile
    <3>2. PICK l \in DOMAIN CaseOf(received[q]).verdicts : Stands(q, l) /\ r = RowOf(q, l)
      BY <3>1
    <3>3. KeyOf(received[q]) = c /\ VerdictOf(q, l).key = f
      BY <3>2, <2>7 DEF RowOf, VerdictRow, VerdictOf, KeyOf
    <3>4. LastJudges(q, l, c, f)
      BY <3>2, <3>3 DEF Stands
    <3>5. Judges(q, l, c, f) /\ Judges(n, k, c, f)
      BY <3>4, <2>4 DEF LastJudges
    <3>6. (n < q \/ (n = q /\ k <= l)) /\ (q < n \/ (q = n /\ l <= k))
      BY <3>4, <3>5, <2>4 DEF LastJudges
    <3>7. n \in Nat /\ q \in Nat
      BY DEF FeedbackInv
    <3>8. received[n] \in Events /\ received[q] \in Events
      BY DEF FeedbackInv
    <3>9. k \in Nat /\ l \in Nat
      BY <3>8, EventsAreCases
    <3>. QED
      BY <3>2, <3>6, <3>7, <3>9
  <2>8. {r \in table : r.source = "runpod" /\ r.finding = f /\ r.case = c} = {RowOf(n, k)}
    BY <2>6, <2>7
  <2>9. {r \in Judged(f) : r.case = c} = IF RowOf(n, k).verdict \in {"valid", "invalid"} THEN {RowOf(n, k)} ELSE {}
    BY <2>6, <2>7 DEF Judged
  <2>. QED
    BY <2>4, <2>8, <2>9
<1>. QED
  BY FeedbackStart, FeedbackStepHolds, <1>1, PTL DEF FeedbackSpec

-----------------------------------------------------------------------------
(***************************************************************************)
(* The accounts, for any statements and declared lines. The merge by       *)
(* account leaves no two records of one account; in the pass over the      *)
(* misreads what is built, and what is still unread, stay apart, because a *)
(* twin keeps its owner, type and value and takes a number only from a     *)
(* record that is itself apart from all the others.                        *)
(***************************************************************************)
IsRecordList(s) == s \in Seq({s[i] : i \in DOMAIN s}) /\ \A i \in DOMAIN s : IsRecord(s[i])

Apart(s) == \A i, j \in DOMAIN s : i # j => ~SameAccount(s[i], s[j])

AssetInv ==
  /\ assetStep \in {"keys", "balances", "requests", "declared", "reconcile", "accounts", "misread", "done"}
  /\ IsRecordList(records) /\ IsRecordList(built)
  /\ unread \subseteq DOMAIN records
  /\ assetStep \in {"declared", "reconcile"} => built = <<>>
  /\ assetStep \in {"accounts", "misread"} =>
       Apart(built) /\ \A k \in DOMAIN built, i \in unread : ~SameAccount(built[k], records[i])
  /\ assetStep = "misread" => \A i, j \in unread : i # j => ~SameAccount(records[i], records[j])
  /\ assetStep = "done" => Apart(records)

(* Whether two records are of one account is an equivalence.               *)
LEMMA SameAccountAgrees ==
  ASSUME NEW a, NEW b, NEW c
  PROVE  /\ SameAccount(a, a) /\ (SameAccount(a, b) => SameAccount(b, a))
         /\ SameAccount(a, b) /\ SameAccount(b, c) => SameAccount(a, c)
BY DEF SameAccount, Numbered

(* Lists of records stay such when one is added or replaced.               *)
LEMMA RecordAdded ==
  ASSUME NEW s, IsRecordList(s), NEW r, IsRecord(r)
  PROVE  /\ IsRecordList(Append(s, r)) /\ Len(s) \in Nat /\ DOMAIN s = 1..Len(s)
         /\ DOMAIN Append(s, r) = 1..(Len(s) + 1)
         /\ Append(s, r)[Len(s) + 1] = r /\ \A i \in DOMAIN s : Append(s, r)[i] = s[i]
<1>. DEFINE S == {s[i] : i \in DOMAIN s} \cup {r}
            t == Append(s, r)
<1>1. s \in Seq({s[i] : i \in DOMAIN s})
  BY DEF IsRecordList
<1>2. Len(s) \in Nat /\ DOMAIN s = 1..Len(s)
  BY <1>1, SequenceFacts
<1>3. s \in Seq(S)
  BY <1>2, <1>1
<1>4. t \in Seq(S) /\ Len(t) = Len(s) + 1 /\ DOMAIN t = 1..(Len(s) + 1)
  BY <1>2, <1>3
<1>5. t[Len(s) + 1] = r /\ \A i \in DOMAIN s : t[i] = s[i]
  BY <1>2, <1>3
<1>6. t \in Seq({t[i] : i \in DOMAIN t})
  BY <1>4
<1>7. \A i \in DOMAIN t : IsRecord(t[i])
  <2>1. ASSUME NEW i \in DOMAIN t PROVE IsRecord(t[i])
    <3>1. CASE i = Len(s) + 1
      BY <3>1, <1>5
    <3>2. CASE i # Len(s) + 1
      <4>1. i \in DOMAIN s
        BY <3>2, <1>2, <1>4
      <4>. QED
        BY <4>1, <1>5 DEF IsRecordList
    <3>. QED
      BY <3>1, <3>2
  <2>. QED
    BY <2>1
<1>. QED
  BY <1>2, <1>4, <1>5, <1>6, <1>7 DEF IsRecordList

LEMMA RecordReplaced ==
  ASSUME NEW s, IsRecordList(s), NEW k \in DOMAIN s, NEW r, IsRecord(r)
  PROVE  /\ IsRecordList([s EXCEPT ![k] = r]) /\ DOMAIN [s EXCEPT ![k] = r] = DOMAIN s
         /\ [s EXCEPT ![k] = r][k] = r /\ \A i \in DOMAIN s \ {k} : [s EXCEPT ![k] = r][i] = s[i]
<1>. DEFINE t == [s EXCEPT ![k] = r]
<1>1. s \in Seq({s[i] : i \in DOMAIN s})
  BY DEF IsRecordList
<1>2. Len(s) \in Nat /\ DOMAIN s = 1..Len(s)
  BY <1>1, SequenceFacts
<1>3. DOMAIN t = DOMAIN s /\ t[k] = r /\ \A i \in DOMAIN s \ {k} : t[i] = s[i]
  BY <1>1, <1>2
<1>4. t = [i \in 1..Len(s) |-> IF i = k THEN r ELSE s[i]]
  BY <1>1, <1>2
<1>5. t \in Seq({t[i] : i \in DOMAIN t})
  <2>. DEFINE T == {t[i] : i \in DOMAIN t}
  <2>1. t \in [1..Len(s) -> T]
    BY <1>2, <1>3, <1>4
  <2>. HIDE DEF T, t
  <2>. QED
    BY <2>1, <1>2
<1>6. \A i \in DOMAIN t : IsRecord(t[i])
  BY <1>3 DEF IsRecordList
<1>. QED
  BY <1>3, <1>5, <1>6 DEF IsRecordList

(* The lists the read passes build are lists of records.                   *)
LEMMA FilledFromRecord ==
  ASSUME NEW r, NEW o
  PROVE  IsRecord(FilledFrom(r, o)) /\ IsRecord(Absorb(r, o))
BY DEF IsRecord, FilledFrom, Absorb

LEMMA PagesJoined ==
  ASSUME NEW r, IsRecord(r), NEW P
  PROVE  IsRecord([r EXCEPT !.pages = P])
BY DEF IsRecord

LEMMA AnnotatedRecord ==
  ASSUME NEW r, IsRecord(r), NEW d
  PROVE  IsRecord(Annotated(r, d))
<1>. DEFINE own == r.statedIn = Certificate /\ d.doc # Certificate
            taken == d.amount # None /\ (r.stated = None \/ own)
            x == IF taken THEN d.amount ELSE r.stated
            y == IF taken THEN d.doc ELSE r.statedIn
            z == Or(r.source, d.source)
<1>1. Annotated(r, d) = [r EXCEPT !.stated = x, !.statedIn = y, !.source = z]
  BY DEF Annotated
<1>. HIDE DEF x, y, z
<1>2. Annotated(r, d) = [owner |-> r.owner, source |-> z, type |-> r.type, number |-> r.number, balance |-> r.balance,
       stated |-> x, statedIn |-> y, status |-> r.status, pages |-> r.pages]
  BY <1>1 DEF IsRecord
<1>. QED
  BY <1>2 DEF IsRecord

LEMMA ReadPassBuilds ==
  ASSUME NEW out, IsRecordList(out), NEW r, IsRecord(r)
  PROVE  IsRecordList(AddByKey(out, r)) /\ IsRecordList(AddByBalance(out, r)) /\ IsRecordList(AddUnlessRequest(out, r))
<1>1. DOMAIN out \subseteq Nat
  BY RecordAdded
<1>2. IsRecordList(AddByKey(out, r))
  <2>. DEFINE same == {i \in DOMAIN out : SameKey(out[i], r)}
              k == IF same = {} THEN 0 ELSE First(same)
  <2>1. AddByKey(out, r) = IF k = 0 THEN Append(out, r)
                           ELSE IF Filled(r) > Filled(out[k]) THEN [out EXCEPT ![k] = r] ELSE out
    BY DEF AddByKey, Position
  <2>2. k # 0 => k \in DOMAIN out
    BY <1>1, FirstOf
  <2>. QED
    BY <2>1, <2>2, RecordAdded, RecordReplaced
<1>3. IsRecordList(AddByBalance(out, r))
  <2>. DEFINE same == {i \in DOMAIN out : HasFigures(r) /\ out[i].balance = r.balance /\ out[i].type = r.type /\ SameOwner(out[i], r)}
              k == IF same = {} THEN 0 ELSE First(same)
              new == IF Filled(r) > Filled(out[k]) THEN FilledFrom(r, out[k]) ELSE FilledFrom(out[k], r)
  <2>1. k # 0 => k \in DOMAIN out
    BY <1>1, FirstOf
  <2>2. AddByBalance(out, r) = IF k = 0 THEN Append(out, r) ELSE [out EXCEPT ![k] = new]
    BY <2>1 DEF AddByBalance, Position
  <2>3. IsRecord(new)
    BY FilledFromRecord
  <2>. HIDE DEF k, new
  <2>. QED
    BY <2>1, <2>2, <2>3, RecordAdded, RecordReplaced
<1>4. IsRecordList(AddUnlessRequest(out, r))
  <2>. DEFINE same == {i \in DOMAIN out : HasFigures(out[i]) /\ out[i].type = r.type /\ SameOwner(out[i], r)
                                            /\ r.source # None /\ out[i].source = r.source}
              k == IF same = {} THEN 0 ELSE First(same)
              new == [out[k] EXCEPT !.pages = out[k].pages \cup r.pages]
  <2>1. k # 0 => k \in DOMAIN out
    BY <1>1, FirstOf
  <2>2. AddUnlessRequest(out, r) = IF HasFigures(r) \/ k = 0 THEN Append(out, r) ELSE [out EXCEPT ![k] = new]
    BY <2>1 DEF AddUnlessRequest, Position
  <2>3. k # 0 => IsRecord(new)
    BY <2>1, PagesJoined DEF IsRecordList
  <2>. HIDE DEF k, new
  <2>. QED
    BY <2>1, <2>2, <2>3, RecordAdded, RecordReplaced
<1>. QED
  BY <1>2, <1>3, <1>4

LEMMA AssetInitially == AssetInit => AssetInv
<1>. SUFFICES ASSUME AssetInit PROVE AssetInv
  OBVIOUS
<1>1. IsRecordList(records)
  BY StatementAssumption DEF AssetInit, IsRecordList
<1>2. IsRecordList(<<>>)
  BY DEF IsRecordList
<1>. QED
  BY <1>1, <1>2 DEF AssetInit, AssetInv

(* A line is merged into a record of the list, or added to it.             *)
LEMMA DescribedIsListed ==
  ASSUME NEW d, DOMAIN records \subseteq Nat PROVE Described(d) \subseteq DOMAIN records
<1>1. ToTheDollar(d) \subseteq DOMAIN records
  BY DEF ToTheDollar
<1>2. OnlyOne(d) \subseteq DOMAIN records
  BY DEF OnlyOne
<1>. QED
  BY <1>1, <1>2, FirstOf DEF Described

LEMMA LineReconciled ==
  ASSUME AssetInv, ReconcileLine PROVE AssetInv'
<1>. DEFINE d == declared[lineAt]
<1>1. IsRecordList(records) /\ DOMAIN records \subseteq Nat
  BY RecordAdded DEF AssetInv
<1>2. IsRecordList(records') /\ DOMAIN records \subseteq DOMAIN records'
  <2>1. CASE records' = records
    BY <2>1, <1>1
  <2>2. CASE Described(d) # {} /\ records' = [records EXCEPT ![First(Described(d))] = Annotated(records[First(Described(d))], d)]
    <3>. DEFINE i == First(Described(d))
    <3>1. i \in DOMAIN records
      BY <2>2, <1>1, DescribedIsListed, FirstOf
    <3>2. IsRecord(Annotated(records[i], d))
      BY <3>1, <1>1, AnnotatedRecord DEF IsRecordList
    <3>. QED
      BY <3>1, <3>2, <2>2, <1>1, RecordReplaced
  <2>3. CASE records' = Append(records, ClaimOf(d))
    <3>1. IsRecord(ClaimOf(d))
      BY DEF IsRecord, ClaimOf
    <3>. QED
      BY <3>1, <2>3, <1>1, RecordAdded
  <2>. QED
    BY <2>1, <2>2, <2>3 DEF ReconcileLine
<1>3. assetStep = "reconcile" /\ assetStep' = "reconcile" /\ unread' = unread /\ built' = built
  BY DEF ReconcileLine
<1>. QED
  BY <1>1, <1>2, <1>3 DEF AssetInv

(* A pass over the list.                                                   *)
LEMMA NextIsListed ==
  ASSUME AssetInv, unread # {}
  PROVE  First(unread) \in unread /\ First(unread) \in DOMAIN records /\ IsRecord(NextRead)
<1>1. IsRecordList(records) /\ unread \subseteq DOMAIN records /\ DOMAIN records \subseteq Nat
  BY RecordAdded DEF AssetInv
<1>2. First(unread) \in unread
  BY <1>1, FirstOf
<1>. QED
  BY <1>1, <1>2 DEF NextRead, IsRecordList

LEMMA ReadPassGoesOn ==
  ASSUME AssetInv, DedupeByKey \/ DedupeByBalance \/ JoinRequest PROVE AssetInv'
<1>1. /\ assetStep \in {"keys", "balances", "requests"} /\ unread # {} /\ UNCHANGED <<records, assetStep>>
      /\ unread' = unread \ {First(unread)}
      /\ \/ built' = AddByKey(built, NextRead)
         \/ built' = AddByBalance(built, NextRead)
         \/ built' = AddUnlessRequest(built, NextRead)
  BY DEF DedupeByKey, DedupeByBalance, JoinRequest, LookAtNext, Look
<1>2. IsRecordList(built')
  BY <1>1, NextIsListed, ReadPassBuilds DEF AssetInv
<1>. QED
  BY <1>1, <1>2 DEF AssetInv

LEMMA PassEnds ==
  ASSUME AssetInv, NEW step, NEW next, EndPass(step, next),
         <<step, next>> \in {<<"keys", "balances">>, <<"balances", "requests">>, <<"requests", "declared">>,
                             <<"accounts", "misread">>, <<"misread", "done">>}
  PROVE  AssetInv'
<1>1. /\ assetStep = step /\ assetStep' = next /\ records' = built /\ unread' = DOMAIN built /\ built' = <<>>
  BY DEF EndPass
<1>2. IsRecordList(<<>>) /\ DOMAIN <<>> = {}
  BY DEF IsRecordList
<1>3. step \in {"accounts", "misread"} => Apart(records')
  BY <1>1 DEF AssetInv, Apart
<1>. QED
  BY <1>1, <1>2, <1>3 DEF AssetInv, Apart

LEMMA FormRead == ASSUME AssetInv, ReadDeclared PROVE AssetInv'
<1>1. assetStep = "declared" /\ assetStep' \in {"declared", "reconcile"} /\ UNCHANGED <<records, unread, built>>
  BY DEF ReadDeclared
<1>. QED
  BY <1>1 DEF AssetInv

LEMMA EmptyDropped == ASSUME AssetInv, DropBlank PROVE AssetInv'
<1>1. /\ assetStep = "reconcile" /\ assetStep' = "accounts" /\ UNCHANGED <<records, built>> /\ built = <<>>
      /\ unread' \subseteq DOMAIN records
  BY DEF DropBlank, AssetInv
<1>2. DOMAIN <<>> = {}
  OBVIOUS
<1>. QED
  BY <1>1, <1>2 DEF AssetInv, Apart

(* Of some records the sort puts one first.                                *)
LEMMA FullestOf ==
  ASSUME DOMAIN records \subseteq Nat, IsRecordList(records), NEW S, S \subseteq DOMAIN records, S # {}
  PROVE  Fullest(S) \in S
<1>. DEFINE Before == {ij \in Nat \X Nat : Fuller(ij[1], ij[2])}
<1>1. Len(records) \in Nat /\ DOMAIN records = 1..Len(records)
  BY SequenceFacts DEF IsRecordList
<1>2. \A i \in DOMAIN records : Figures(records[i]) \in Nat
  <2>1. ASSUME NEW r PROVE Figures(r) \in Nat
    <3>1. IsFiniteSet({"number", "balance", "stated"})
      <4>1. IsFiniteSet({"number"}) /\ IsFiniteSet({"balance"}) /\ IsFiniteSet({"stated"})
        BY FS_Singleton
      <4>2. IsFiniteSet(({"number"} \cup {"balance"}) \cup {"stated"})
        BY <4>1, FS_Union, Zenon
      <4>3. {"number", "balance", "stated"} = ({"number"} \cup {"balance"}) \cup {"stated"}
        OBVIOUS
      <4>. QED
        BY <4>2, <4>3
    <3>2. IsFiniteSet({f \in {"number", "balance", "stated"} : r[f] # None})
      BY <3>1, FS_Subset
    <3>. QED
      BY <3>2, FS_CardinalityType DEF Figures
  <2>. QED
    BY <2>1
<1>3. Ranks(Before, S)
  <2>1. \A i, j \in S : <<i, j>> \in Before <=> Fuller(i, j)
    OBVIOUS
  <2>2. \A i \in S : i \in Nat /\ Figures(records[i]) \in Nat
    BY <1>2
  <2>. HIDE DEF Before
  <2>3. \A i, j \in S : i # j => Fuller(i, j) \/ Fuller(j, i)
    BY <2>2 DEF Fuller
  <2>4. \A i, j, k \in S : Fuller(i, j) /\ Fuller(j, k) => Fuller(i, k)
    BY <2>2 DEF Fuller
  <2>. QED
    BY <2>1, <2>3, <2>4 DEF Ranks
<1>4. S \subseteq 0..Len(records)
  BY <1>1
<1>5. PICK i \in S : \A j \in S \ {i} : <<i, j>> \in Before
  BY <1>1, <1>3, <1>4, TopOf
<1>6. \E x \in S : \A j \in S \ {x} : Fuller(x, j)
  BY <1>5
<1>. QED
  BY <1>6 DEF Fullest

(* The merged record says what one of the group says, or nothing when none *)
(* says anything; so it is of the group's account.                         *)
LEMMA SaidByOne ==
  ASSUME DOMAIN records \subseteq Nat, IsRecordList(records), NEW G, G \subseteq DOMAIN records, NEW f
  PROVE  IF \A i \in G : records[i][f] = None THEN Said(G, f) = None
         ELSE \E i \in G : records[i][f] = Said(G, f) /\ Said(G, f) # None
<1>. DEFINE says == {i \in G : records[i][f] # None}
<1>1. Said(G, f) = IF says = {} THEN None ELSE records[Fullest(says)][f]
  BY DEF Said
<1>2. says # {} => Fullest(says) \in says
  BY FullestOf
<1>. QED
  BY <1>1, <1>2

LEMMA MergedIsSame ==
  ASSUME DOMAIN records \subseteq Nat, IsRecordList(records), NEW G, G \subseteq DOMAIN records, NEW n \in G,
         \A i \in G : SameAccount(records[n], records[i])
  PROVE  SameAccount(Merged(G), records[n]) /\ IsRecord(Merged(G))
<1>. DEFINE m == Merged(G)
<1>1. /\ m.owner = Said(G, "owner") /\ m.type = Said(G, "type") /\ m.number = Said(G, "number")
      /\ m.balance = Said(G, "balance") /\ m.stated = Said(G, "stated") /\ IsRecord(m)
  BY DEF Merged, IsRecord
<1>2. CASE records[n].number # None
  <2>1. \A i \in G : records[i].number # None /\ LastFour[records[i].number] = LastFour[records[n].number]
    BY <1>2 DEF SameAccount, Numbered
  <2>2. \E i \in G : records[i].number = m.number /\ m.number # None
    BY <1>1, <2>1, SaidByOne
  <2>. QED
    BY <1>1, <1>2, <2>1, <2>2 DEF SameAccount, Numbered
<1>3. CASE records[n].number = None
  <2>1. \A i \in G : /\ records[i].number = None /\ records[i].owner = records[n].owner /\ records[i].type = records[n].type
                     /\ Worth(records[i]) = Worth(records[n])
    BY <1>3 DEF SameAccount, Numbered
  <2>2. m.number = None
    BY <1>1, <2>1, SaidByOne
  <2>3. m.owner = records[n].owner
    BY <1>1, <2>1, SaidByOne
  <2>4. m.type = records[n].type
    BY <1>1, <2>1, SaidByOne
  <2>5. Worth(m) = Worth(records[n])
    <3>1. CASE m.balance # None
      <4>1. PICK i \in G : records[i].balance = m.balance
        BY <1>1, <3>1, SaidByOne
      <4>. QED
        BY <4>1, <3>1, <2>1 DEF Worth, Or
    <3>2. CASE m.balance = None
      <4>1. \A i \in G : records[i].balance = None
        BY <1>1, <3>2, SaidByOne
      <4>2. \A i \in G : Worth(records[i]) = records[i].stated
        BY <4>1 DEF Worth, Or
      <4>3. m.stated = records[n].stated
        BY <1>1, <2>1, <4>2, SaidByOne
      <4>. QED
        BY <4>2, <4>3, <3>2 DEF Worth, Or
    <3>. QED
      BY <3>1, <3>2
  <2>. QED
    BY <1>1, <1>3, <2>2, <2>3, <2>4, <2>5 DEF SameAccount
<1>. QED
  BY <1>1, <1>2, <1>3

LEMMA AccountMerged == ASSUME AssetInv, MergeAccount PROVE AssetInv'
<1>. DEFINE n == First(unread)
            G == {i \in unread : SameAccount(records[n], records[i])}
            m == Merged(G)
<1>1. /\ assetStep = "accounts" /\ unread # {} /\ UNCHANGED <<records, assetStep>>
      /\ built' = Append(built, m) /\ unread' = unread \ G
  BY DEF MergeAccount, Look, NextRead
<1>2. IsRecordList(records) /\ DOMAIN records \subseteq Nat /\ unread \subseteq DOMAIN records /\ IsRecordList(built)
  BY RecordAdded DEF AssetInv
<1>3. n \in G /\ G \subseteq DOMAIN records
  BY <1>1, <1>2, NextIsListed, SameAccountAgrees
<1>4. SameAccount(m, records[n]) /\ IsRecord(m)
  BY <1>2, <1>3, MergedIsSame
<1>. HIDE DEF m
<1>5. /\ IsRecordList(built') /\ Len(built) \in Nat /\ DOMAIN built = 1..Len(built)
      /\ DOMAIN built' = 1..(Len(built) + 1) /\ built'[Len(built) + 1] = m /\ \A k \in DOMAIN built : built'[k] = built[k]
  BY <1>1, <1>2, <1>4, RecordAdded
<1>6. \A k \in DOMAIN built : ~SameAccount(built[k], m)
  BY <1>1, <1>3, <1>4, SameAccountAgrees DEF AssetInv
<1>7. \A i \in unread' : ~SameAccount(m, records[i])
  BY <1>1, <1>4, SameAccountAgrees
<1>8. Apart(built')
  <2>1. ASSUME NEW i \in DOMAIN built', NEW j \in DOMAIN built', i # j PROVE ~SameAccount(built'[i], built'[j])
    <3>1. CASE i \in DOMAIN built /\ j \in DOMAIN built
      BY <3>1, <2>1, <1>1, <1>5 DEF AssetInv, Apart
    <3>2. CASE i = Len(built) + 1
      BY <3>2, <2>1, <1>5, <1>6, SameAccountAgrees
    <3>3. CASE j = Len(built) + 1
      BY <3>3, <2>1, <1>5, <1>6
    <3>. QED
      BY <3>1, <3>2, <3>3, <1>5
  <2>. QED
    BY <2>1 DEF Apart
<1>9. ASSUME NEW k \in DOMAIN built', NEW i \in unread' PROVE ~SameAccount(built'[k], records[i])
  <2>1. CASE k \in DOMAIN built
    BY <2>1, <1>1, <1>5 DEF AssetInv
  <2>2. CASE k = Len(built) + 1
    BY <2>2, <1>5, <1>7
  <2>. QED
    BY <2>1, <2>2, <1>5
<1>. QED
  BY <1>1, <1>2, <1>5, <1>8, <1>9 DEF AssetInv

(* A record taken for a twin leaves it what and whose it is, and what it   *)
(* is worth, and lends it a number if it has none.                         *)
LEMMA TwinStaysApart ==
  ASSUME NEW twin, NEW r, NEW o, ReadTwice(twin, r),
         ~SameAccount(twin, o), ~SameAccount(r, o)
  PROVE  ~SameAccount(Absorb(twin, r), o)
<1>. DEFINE a == Absorb(twin, r)
<1>1. /\ a.owner = twin.owner /\ a.type = twin.type /\ a.number = Or(twin.number, r.number) /\ a.balance = twin.balance
      /\ a.stated = Or(twin.stated, Or(r.stated, IF twin.balance = r.balance THEN None ELSE r.balance))
  BY DEF Absorb
<1>2. Worth(a) = Worth(twin)
  BY <1>1 DEF Worth, Or, ReadTwice
<1>. SUFFICES ~SameAccount(a, o)
  OBVIOUS
<1>. HIDE DEF a
<1>3. CASE twin.number # None
  BY <1>1, <1>2, <1>3 DEF SameAccount, Numbered, Or
<1>4. CASE twin.number = None /\ r.number # None
  BY <1>1, <1>4 DEF SameAccount, Numbered, Or
<1>5. CASE twin.number = None /\ r.number = None
  BY <1>1, <1>2, <1>5 DEF SameAccount, Numbered, Or
<1>. QED
  BY <1>3, <1>4, <1>5

LEMMA MisreadMerged == ASSUME AssetInv, MergeMisread PROVE AssetInv'
<1>1. PICK i \in unread :
         /\ assetStep = "misread" /\ UNCHANGED <<records, assetStep>> /\ unread' = unread \ {i}
         /\ LET k == TwinOf(records[i]) IN
            built' = IF k = 0 THEN Append(built, records[i]) ELSE [built EXCEPT ![k] = Absorb(built[k], records[i])]
  BY DEF MergeMisread, Look
<1>. DEFINE r == records[i]
            twins == {k \in DOMAIN built : ReadTwice(built[k], r)}
            k == TwinOf(r)
<1>2. /\ IsRecordList(records) /\ unread \subseteq DOMAIN records /\ IsRecordList(built) /\ IsRecord(r)
      /\ DOMAIN built \subseteq Nat
  BY RecordAdded DEF AssetInv, IsRecordList
<1>3. k = IF twins = {} THEN 0 ELSE First(twins)
  BY DEF TwinOf, Position
<1>4. Apart(built) /\ \A j \in DOMAIN built, l \in unread : ~SameAccount(built[j], records[l])
  BY <1>1 DEF AssetInv
<1>5. \A l \in unread \ {i} : ~SameAccount(r, records[l])
  BY <1>1 DEF AssetInv
<1>6. \A j \in DOMAIN built : ~SameAccount(built[j], r) /\ ~SameAccount(r, built[j])
  BY <1>4, SameAccountAgrees
<1>. SUFFICES /\ IsRecordList(built') /\ Apart(built')
              /\ \A j \in DOMAIN built', l \in unread' : ~SameAccount(built'[j], records[l])
  BY <1>1, <1>2 DEF AssetInv
<1>7. CASE k = 0
  <2>1. built' = Append(built, r)
    BY <1>1, <1>7
  <2>2. /\ IsRecordList(built') /\ Len(built) \in Nat /\ DOMAIN built = 1..Len(built)
        /\ DOMAIN built' = 1..(Len(built) + 1) /\ built'[Len(built) + 1] = r /\ \A j \in DOMAIN built : built'[j] = built[j]
    BY <2>1, <1>2, RecordAdded
  <2>3. ASSUME NEW j \in DOMAIN built', NEW l \in DOMAIN built', j # l PROVE ~SameAccount(built'[j], built'[l])
    <3>1. CASE j \in DOMAIN built /\ l \in DOMAIN built
      BY <3>1, <2>2, <2>3, <1>4 DEF Apart
    <3>2. CASE j = Len(built) + 1
      BY <3>2, <2>2, <2>3, <1>6
    <3>3. CASE l = Len(built) + 1
      BY <3>3, <2>2, <2>3, <1>6
    <3>. QED
      BY <3>1, <3>2, <3>3, <2>2
  <2>4. ASSUME NEW j \in DOMAIN built', NEW l \in unread' PROVE ~SameAccount(built'[j], records[l])
    <3>1. CASE j \in DOMAIN built
      BY <3>1, <2>2, <1>1, <1>4
    <3>2. CASE j = Len(built) + 1
      BY <3>2, <2>2, <1>1, <1>5
    <3>. QED
      BY <3>1, <3>2, <2>2
  <2>. QED
    BY <2>2, <2>3, <2>4 DEF Apart
<1>8. CASE k # 0
  <2>. DEFINE a == Absorb(built[k], r)
  <2>1. k \in DOMAIN built /\ ReadTwice(built[k], r)
    <3>1. twins # {} /\ twins \subseteq Nat /\ k = First(twins)
      BY <1>2, <1>3, <1>8
    <3>2. k \in twins
      BY <3>1, FirstOf
    <3>. QED
      BY <3>2
  <2>2. built' = [built EXCEPT ![k] = a] /\ IsRecord(a)
    BY <1>1, <1>8, FilledFromRecord
  <2>3. \A l \in unread' : ~SameAccount(a, records[l])
    BY <2>1, <1>1, <1>4, <1>5, TwinStaysApart
  <2>4. \A j \in DOMAIN built \ {k} : ~SameAccount(a, built[j]) /\ ~SameAccount(built[j], a)
    <3>1. \A j \in DOMAIN built \ {k} : ~SameAccount(built[k], built[j]) /\ ~SameAccount(r, built[j])
      BY <2>1, <1>4, <1>6 DEF Apart
    <3>2. \A j \in DOMAIN built \ {k} : ~SameAccount(a, built[j])
      BY <3>1, <2>1, TwinStaysApart
    <3>. QED
      BY <3>2, SameAccountAgrees
  <2>. HIDE DEF a, k
  <2>5. /\ IsRecordList(built') /\ DOMAIN built' = DOMAIN built /\ built'[k] = a
        /\ \A j \in DOMAIN built \ {k} : built'[j] = built[j]
    BY <2>1, <2>2, <1>2, RecordReplaced
  <2>6. Apart(built')
    BY <2>4, <2>5, <1>4 DEF Apart
  <2>7. ASSUME NEW j \in DOMAIN built', NEW l \in unread' PROVE ~SameAccount(built'[j], records[l])
    BY <2>3, <2>5, <1>1, <1>4
  <2>. QED
    BY <2>5, <2>6, <2>7
<1>. QED
  BY <1>7, <1>8

(* NoAccountIsCountedTwice: after extract_assets and _deduplicate_assets   *)
(* no two records are of one account, for any statements, any declared     *)
(* lines and any relation of misread numbers and amounts.                  *)
THEOREM AccountsCountedOnce == AssetSpec => []NoAccountIsCountedTwice
<1>1. AssetInit => AssetInv
  BY AssetInitially
<1>2. ASSUME AssetInv, [AssetNext]_assetVars PROVE AssetInv'
  <2>1. CASE DedupeByKey \/ DedupeByBalance \/ JoinRequest
    BY <2>1, <1>2, ReadPassGoesOn
  <2>2. CASE EndPass("keys", "balances") \/ EndPass("balances", "requests") \/ EndPass("requests", "declared")
               \/ EndPass("accounts", "misread") \/ EndPass("misread", "done")
    BY <2>2, <1>2, PassEnds
  <2>3. CASE ReadDeclared
    BY <2>3, <1>2, FormRead
  <2>4. CASE ReconcileLine
    BY <2>4, <1>2, LineReconciled
  <2>5. CASE DropBlank
    BY <2>5, <1>2, EmptyDropped
  <2>6. CASE MergeAccount
    BY <2>6, <1>2, AccountMerged
  <2>7. CASE MergeMisread
    BY <2>7, <1>2, MisreadMerged
  <2>8. CASE UNCHANGED assetVars
    BY <2>8, <1>2 DEF AssetInv, assetVars
  <2>. QED
    BY <1>2, <2>1, <2>2, <2>3, <2>4, <2>5, <2>6, <2>7, <2>8 DEF AssetNext
<1>3. AssetInv => NoAccountIsCountedTwice
  BY DEF AssetInv, Apart, NoAccountIsCountedTwice, SameAccount, Numbered
<1>. QED
  BY <1>1, <1>2, <1>3, PTL DEF AssetSpec

-----------------------------------------------------------------------------
(***************************************************************************)
(* The incomes, for any packet extraction may hand over. A pass keeps of   *)
(* every list it shortens the best of each group, so what must stay is     *)
(* said of the one it keeps: two records of one key are copies and one of  *)
(* them goes; a stub's own record has its key and its evidence; a merge    *)
(* adds to the record with the longest history and takes nothing from it.  *)
(***************************************************************************)
AreIncomes(s) == s \in Seq({s[i] : i \in DOMAIN s}) /\ \A i \in DOMAIN s : IsIncome(s[i])

LEMMA IncomesListed ==
  ASSUME NEW s, AreIncomes(s)
  PROVE  Len(s) \in Nat /\ DOMAIN s = 1..Len(s) /\ s = [i \in 1..Len(s) |-> s[i]]
BY DEF AreIncomes

LEMMA ListOfIncomes ==
  ASSUME NEW n \in Nat, NEW s, DOMAIN s = 1..n, s = [k \in 1..n |-> s[k]], \A k \in 1..n : IsIncome(s[k])
  PROVE  AreIncomes(s)
<1>. DEFINE S == {s[i] : i \in DOMAIN s}
<1>1. s \in [1..n -> S]
  OBVIOUS
<1>. HIDE DEF S
<1>2. s \in Seq(S)
  BY <1>1
<1>. QED
  BY <1>2 DEF AreIncomes, S

(* Evidence comes in three ranks; it outweighs all else in what is kept of *)
(* copies of one reading.                                                  *)
LEMMA EvidenceIsRanked == \A st \in Status : EvidenceRank(st) \in {0, 1, 2}
BY DEF Status, EvidenceRank

LEMMA CopiesAreRanked ==
  ASSUME NEW r, IsIncome(r)
  PROVE  /\ ReadTwiceRank(r) \in Int
         /\ 8 * EvidenceRank(r.status) <= ReadTwiceRank(r) /\ ReadTwiceRank(r) <= 8 * EvidenceRank(r.status) + 6
         /\ Amount(r) > 0 => ReadTwiceRank(r) <= 8 * EvidenceRank(r.status) + 2
         /\ ReadTwiceRank(r) <= 2 => Amount(r) > 0
<1>. DEFINE F == {f \in {"figure", "declared"} : r[f] = None}
            a == IF Amount(r) > 0 THEN 0 ELSE 4
<1>1. IsFiniteSet({"figure", "declared"}) /\ Cardinality({"figure", "declared"}) = 2
  <2>1. {"figure", "declared"} = {"figure"} \cup {"declared"}
    OBVIOUS
  <2>2. IsFiniteSet({"figure"}) /\ Cardinality({"figure"}) = 1 /\ "declared" \notin {"figure"}
    BY FS_Singleton
  <2>. QED
    BY <2>1, <2>2, FS_AddElement
<1>2. Cardinality(F) \in Nat /\ Cardinality(F) <= 2
  <2>1. F \in SUBSET {"figure", "declared"}
    OBVIOUS
  <2>. HIDE DEF F
  <2>2. IsFiniteSet(F) /\ Cardinality(F) <= 2
    BY <1>1, <2>1, FS_Subset
  <2>. QED
    BY <2>2, FS_CardinalityType
<1>3. EvidenceRank(r.status) \in {0, 1, 2}
  BY EvidenceIsRanked DEF IsIncome
<1>4. a \in {0, 4} /\ (Amount(r) > 0 => a = 0) /\ (a = 0 => Amount(r) > 0)
  OBVIOUS
<1>5. ReadTwiceRank(r) = 8 * EvidenceRank(r.status) + a + Cardinality(F)
  BY DEF ReadTwiceRank
<1>. HIDE DEF a, F
<1>. QED
  BY <1>2, <1>3, <1>4, <1>5

LEMMA CopiesInOrder ==
  ASSUME NEW rs, AreIncomes(rs), NEW G, G \subseteq DOMAIN rs
  PROVE  Ranks(Ranked(rs, G, ReadTwiceRank), G) /\ \A i \in G : <<i, i>> \notin Ranked(rs, G, ReadTwiceRank)
<1>. DEFINE v == [i \in G |-> ReadTwiceRank(rs[i])]
<1>1. \A i \in G : v[i] \in Int /\ v[i] = ReadTwiceRank(rs[i])
  BY CopiesAreRanked DEF AreIncomes
<1>2. G \subseteq Nat
  BY IncomesListed
<1>. DEFINE before == Ranked(rs, G, ReadTwiceRank)
<1>3. before = {ij \in G \X G : v[ij[1]] < v[ij[2]] \/ (v[ij[1]] = v[ij[2]] /\ ij[1] < ij[2])}
  BY <1>1 DEF Ranked
<1>. HIDE DEF v, before
<1>4. Ranks(before, G) /\ \A i \in G : <<i, i>> \notin before
  BY <1>1, <1>2, <1>3, RanksByNumber
<1>. QED
  BY <1>4 DEF before

LEMMA HistoriesInOrder ==
  ASSUME NEW rs, AreIncomes(rs), NEW G, G \subseteq DOMAIN rs
  PROVE  Ranks(ByHistory(rs, G), G) /\ \A i \in G : <<i, i>> \notin ByHistory(rs, G)
<1>. DEFINE v == [i \in G |-> HistoryRank(rs[i])]
<1>0. ASSUME NEW i \in G PROVE HistoryRank(rs[i]) \in Int
  <2>1. rs[i].dated \in Nat /\ EvidenceRank(rs[i].status) \in {0, 1, 2}
    BY EvidenceIsRanked DEF AreIncomes, IsIncome
  <2>. QED
    BY <2>1 DEF HistoryRank
<1>1. \A i \in G : v[i] \in Int /\ v[i] = HistoryRank(rs[i])
  BY <1>0
<1>2. G \subseteq Nat
  BY IncomesListed
<1>3. ByHistory(rs, G) = {ij \in G \X G : v[ij[1]] < v[ij[2]] \/ (v[ij[1]] = v[ij[2]] /\ ij[1] < ij[2])}
  BY <1>1 DEF Ranked, ByHistory
<1>. HIDE DEF v
<1>. QED
  BY <1>1, <1>2, <1>3, RanksByNumber

(* The foremost of some of a list's records.                               *)
LEMMA ForemostRecord ==
  ASSUME NEW rs, AreIncomes(rs), NEW G, G \subseteq DOMAIN rs, G # {}, NEW before, Ranks(before, G)
  PROVE  Foremost(G, before) \in G /\ \A j \in G \ {Foremost(G, before)} : <<Foremost(G, before), j>> \in before
<1>1. Len(rs) \in Nat /\ G \subseteq 0..Len(rs)
  BY IncomesListed
<1>. QED
  BY <1>1, ForemostOf

(* The foremost of all is the foremost of any of them it is among.         *)
LEMMA StillForemost ==
  ASSUME NEW rs, AreIncomes(rs), NEW G, G \subseteq DOMAIN rs, NEW before, Ranks(before, G),
         \A i \in G : <<i, i>> \notin before, NEW H, H \subseteq G, Foremost(G, before) \in H
  PROVE  Foremost(H, before) = Foremost(G, before)
<1>. DEFINE f == Foremost(G, before)
            h == Foremost(H, before)
<1>1. H \subseteq DOMAIN rs /\ H # {} /\ G # {} /\ Ranks(before, H)
  BY DEF Ranks
<1>2. h \in H /\ \A j \in H \ {h} : <<h, j>> \in before
  BY <1>1, ForemostRecord
<1>3. f \in G /\ \A j \in G \ {f} : <<f, j>> \in before
  BY <1>1, ForemostRecord
<1>4. f \in H /\ h \in G
  BY <1>2
<1>. HIDE DEF f, h
<1>5. f # h => <<h, h>> \in before
  BY <1>2, <1>3, <1>4 DEF Ranks
<1>. QED
  BY <1>4, <1>5 DEF f, h

LEMMA SaidOfDeclaration ==
  ASSUME NEW rs, AreIncomes(rs), NEW G, G \subseteq DOMAIN rs, NEW H, H \subseteq G, NEW before, Ranks(before, G)
  PROVE  FirstSaid(rs, H, before, "declared") \in Int \cup {None}
<1>. DEFINE says == {i \in H : rs[i]["declared"] # None}
<1>1. CASE says = {}
  BY <1>1 DEF FirstSaid
<1>2. CASE says # {}
  <2>1. says \subseteq DOMAIN rs /\ Ranks(before, says)
    BY DEF Ranks
  <2>2. FirstSaid(rs, H, before, "declared") = rs[Foremost(says, before)]["declared"]
    BY <1>2 DEF FirstSaid
  <2>. HIDE DEF says
  <2>3. Foremost(says, before) \in DOMAIN rs
    BY <1>2, <2>1, ForemostRecord
  <2>4. rs[Foremost(says, before)].declared \in Int \cup {None}
    BY <2>3 DEF AreIncomes, IsIncome
  <2>. QED
    BY <2>2, <2>4
<1>. QED
  BY <1>1, <1>2

(* The least of some positions.                                            *)
-----------------------------------------------------------------------------
SameEntry(r, o) == r.member = o.member /\ r.source = o.source /\ r.type = o.type

OneEach(rs) == \A i, j \in DOMAIN rs : i # j /\ rs[i].source # NoSource => ~SameEntry(rs[i], rs[j])

HasOwn(ps, rs) ==
  \E i \in DOMAIN rs : Verified(rs[i]) /\ rs[i].member = ps.member /\ rs[i].source = ps.source /\ rs[i].type = WageType

LEMMA CopiesAgree ==
  ASSUME NEW rs, NEW i \in DOMAIN rs, NEW j \in CopiesOf(rs, i)
  PROVE  j \in DOMAIN rs /\ SameEntry(rs[j], rs[i]) /\ CopiesOf(rs, j) = CopiesOf(rs, i)
BY DEF CopiesOf, SameIncome, SameEntry

(* What a merge with r leaves of o: its key, its history and its amount.   *)
HasAllOf(r, o) == SameEntry(r, o) /\ r.dated = o.dated /\ (HasAmount(o) => HasAmount(r))

LEMMA CopyKept ==
  ASSUME NEW rs, AreIncomes(rs), NEW i \in DOMAIN rs
  PROVE  /\ IsIncome(KeptCopy(rs, CopiesOf(rs, i))) /\ SameEntry(KeptCopy(rs, CopiesOf(rs, i)), rs[i])
         /\ Verified(rs[i]) => Verified(KeptCopy(rs, CopiesOf(rs, i)))
         /\ Verified(rs[i]) /\ Amount(rs[i]) > 0 => HasAmount(KeptCopy(rs, CopiesOf(rs, i)))
         /\ \E o \in DOMAIN rs : HasAllOf(KeptCopy(rs, CopiesOf(rs, i)), rs[o])
<1>. DEFINE G == CopiesOf(rs, i)
            order == Ranked(rs, G, ReadTwiceRank)
            best == Foremost(G, order)
<1>1. G \subseteq DOMAIN rs /\ i \in G
  BY DEF CopiesOf
<1>2. Ranks(order, G)
  BY <1>1, CopiesInOrder
<1>12. \A j \in G : <<j, j>> \notin order
  BY <1>1, CopiesInOrder
<1>3. KeptCopy(rs, G) =
        [rs[best] EXCEPT !.declared = FirstSaid(rs, G, order, "declared"), !.doc = FirstSaid(rs, G, order, "doc")]
  BY DEF KeptCopy
<1>4. FirstSaid(rs, G, order, "declared") \in Int \cup {None}
  <2>. HIDE DEF G, order
  <2>. QED
    BY <1>1, <1>2, SaidOfDeclaration
<1>5. best \in G /\ (best # i => <<best, i>> \in order)
  <2>. HIDE DEF G, order
  <2>. QED
    BY <1>1, <1>2, ForemostRecord
<1>6. SameEntry(rs[best], rs[i])
  BY <1>5, CopiesAgree
<1>7. ReadTwiceRank(rs[best]) <= ReadTwiceRank(rs[i])
  <2>1. IsIncome(rs[i]) /\ IsIncome(rs[best])
    BY <1>1, <1>5 DEF AreIncomes
  <2>2. ReadTwiceRank(rs[i]) \in Int /\ ReadTwiceRank(rs[best]) \in Int
    BY <2>1, CopiesAreRanked
  <2>3. <<best, i>> \in order => ReadTwiceRank(rs[best]) <= ReadTwiceRank(rs[i])
    BY <2>2 DEF Ranked
  <2>. HIDE DEF best, order
  <2>. QED
    BY <1>5, <2>2, <2>3
<1>8. Verified(rs[i]) => Verified(rs[best])
  <2>1. IsIncome(rs[i]) /\ IsIncome(rs[best])
    BY <1>1, <1>5 DEF AreIncomes
  <2>2. EvidenceRank(rs[best].status) \in {0, 1, 2}
    BY <2>1, EvidenceIsRanked DEF IsIncome
  <2>. HIDE DEF best
  <2>3. /\ ReadTwiceRank(rs[i]) \in Int /\ ReadTwiceRank(rs[best]) \in Int
        /\ ReadTwiceRank(rs[i]) <= 8 * EvidenceRank(rs[i].status) + 6
        /\ 8 * EvidenceRank(rs[best].status) <= ReadTwiceRank(rs[best])
    BY <2>1, CopiesAreRanked
  <2>. QED
    BY <2>2, <2>3, <1>7 DEF Verified
<1>9. IsIncome(rs[best])
  BY <1>1, <1>5 DEF AreIncomes
<1>. HIDE DEF G, order, best
<1>. DEFINE kept == KeptCopy(rs, G)
<1>10. /\ IsIncome(kept) /\ kept.member = rs[best].member /\ kept.source = rs[best].source
       /\ kept.type = rs[best].type /\ kept.status = rs[best].status
       /\ kept.dated = rs[best].dated /\ kept.figure = rs[best].figure /\ kept.paid = rs[best].paid
  BY <1>3, <1>4, <1>9 DEF IsIncome
<1>11. HasAmount(rs[best]) => HasAmount(kept)
  <2>1. rs[best].declared # None => kept.declared = rs[best].declared
    <3>1. kept.declared = FirstSaid(rs, G, order, "declared")
      BY <1>3, <1>9 DEF kept, IsIncome
    <3>2. rs[best].declared # None => FirstSaid(rs, G, order, "declared") = rs[best].declared
      <4>. DEFINE says == {j \in G : rs[j]["declared"] # None}
      <4>. SUFFICES ASSUME rs[best].declared # None PROVE FirstSaid(rs, G, order, "declared") = rs[best].declared
        OBVIOUS
      <4>1. best \in says /\ says \subseteq G
        BY <1>5
      <4>2. FirstSaid(rs, G, order, "declared") = rs[Foremost(says, order)]["declared"]
        BY <4>1 DEF FirstSaid
      <4>. HIDE DEF says
      <4>3. Foremost(says, order) = best
        BY <1>1, <1>2, <1>12, <4>1, StillForemost DEF best
      <4>. QED
        BY <4>2, <4>3
    <3>. QED
      BY <3>1, <3>2
  <2>2. HasAmount(rs[best]) => Zero(rs[best].figure) > 0 \/ rs[best].paid > 0 \/ (Zero(rs[best].declared) > 0 /\ rs[best].declared # None)
    BY DEF HasAmount, Zero
  <2>. QED
    BY <1>10, <2>1, <2>2 DEF HasAmount
<1>13. Verified(rs[i]) /\ Amount(rs[i]) > 0 => HasAmount(rs[best])
  <2>. SUFFICES ASSUME Verified(rs[i]), Amount(rs[i]) > 0 PROVE HasAmount(rs[best])
    OBVIOUS
  <2>1. IsIncome(rs[i]) /\ IsIncome(rs[best])
    BY <1>1, <1>5, <1>9 DEF AreIncomes
  <2>2. ReadTwiceRank(rs[i]) <= 2 /\ ReadTwiceRank(rs[i]) \in Int
    BY <2>1, CopiesAreRanked DEF Verified
  <2>3. ReadTwiceRank(rs[best]) <= 2
    BY <2>1, <2>2, <1>7, CopiesAreRanked
  <2>4. Amount(rs[best]) > 0
    BY <2>1, <2>3, CopiesAreRanked
  <2>. QED
    BY <2>4 DEF Amount, HasAmount, Zero
<1>. HIDE DEF kept
<1>. QED
  BY <1>1, <1>5, <1>6, <1>8, <1>10, <1>11, <1>13 DEF SameEntry, Verified, HasAllOf, kept, G

LEMMA ResolveKeeps ==
  ASSUME NEW rs, AreIncomes(rs)
  PROVE  /\ AreIncomes(Resolve(rs)) /\ OneEach(Resolve(rs))
         /\ \A i \in DOMAIN rs : \E k \in DOMAIN Resolve(rs) : Resolve(rs)[k] = KeptCopy(rs, CopiesOf(rs, i))
         /\ \A k \in DOMAIN Resolve(rs) : \E o \in DOMAIN rs : HasAllOf(Resolve(rs)[k], rs[o])
<1>. DEFINE firsts == {i \in DOMAIN rs : First(CopiesOf(rs, i)) = i}
            before == {ij \in firsts \X firsts :
                         \/ Place(rs, ij[1]) < Place(rs, ij[2])
                         \/ (Place(rs, ij[1]) = Place(rs, ij[2]) /\ ij[1] < ij[2])}
            order == Ordered(firsts, before)
            v == [i \in firsts |-> Place(rs, i)]
<1>1. Len(rs) \in Nat /\ DOMAIN rs = 1..Len(rs)
  BY IncomesListed
<1>2. firsts \subseteq 1..Len(rs) /\ firsts \subseteq DOMAIN rs /\ firsts \subseteq Nat
  BY <1>1
<1>3. ASSUME NEW i \in firsts PROVE Place(rs, i) \in Int
  <2>. DEFINE S == {j \in DOMAIN rs : <<rs[j].member, rs[j].source, rs[j].type>> = <<rs[i].member, rs[i].source, rs[i].type>>}
  <2>1. S \subseteq Nat /\ i \in S
    BY <1>1
  <2>2. Place(rs, i) = First(S)
    BY DEF Place
  <2>. HIDE DEF S
  <2>3. First(S) \in Nat
    BY <2>1, FirstOf
  <2>. QED
    BY <2>2, <2>3
<1>4. Ranks(before, firsts) /\ \A i \in firsts : <<i, i>> \notin before
  <2>1. \A i \in firsts : v[i] \in Int /\ v[i] = Place(rs, i)
    BY <1>3
  <2>2. before = {ij \in firsts \X firsts : v[ij[1]] < v[ij[2]] \/ (v[ij[1]] = v[ij[2]] /\ ij[1] < ij[2])}
    BY <2>1
  <2>. HIDE DEF v, before, firsts
  <2>. QED
    BY <1>2, <2>1, <2>2, RanksByNumber
<1>5. Lists(order, firsts)
  <2>. HIDE DEF before, firsts
  <2>. QED
    BY <1>1, <1>2, <1>4, OrderedOf
<1>. DEFINE kept == Resolve(rs)
<1>6. kept = [k \in DOMAIN order |-> KeptCopy(rs, CopiesOf(rs, order[k]))]
  BY DEF Resolve
<1>7. PICK m \in Nat : DOMAIN order = 1..m /\ order \in [1..m -> firsts]
  BY <1>5 DEF Lists
<1>. HIDE DEF order, before, v, kept
<1>8. ASSUME NEW k \in 1..m
      PROVE  /\ order[k] \in DOMAIN rs /\ First(CopiesOf(rs, order[k])) = order[k]
             /\ IsIncome(kept[k]) /\ SameEntry(kept[k], rs[order[k]])
             /\ Verified(rs[order[k]]) => Verified(kept[k])
  <2>1. order[k] \in firsts
    BY <1>7
  <2>2. order[k] \in DOMAIN rs /\ First(CopiesOf(rs, order[k])) = order[k]
    BY <2>1
  <2>3. kept[k] = KeptCopy(rs, CopiesOf(rs, order[k]))
    BY <1>6, <1>7
  <2>. QED
    BY <2>2, <2>3, CopyKept
<1>9. AreIncomes(kept)
  <2>1. DOMAIN kept = 1..m /\ kept = [k \in 1..m |-> kept[k]]
    BY <1>6, <1>7
  <2>. QED
    BY <2>1, <1>8, ListOfIncomes
<1>10. OneEach(kept)
  <2>1. ASSUME NEW k \in 1..m, NEW l \in 1..m, kept[k].source # NoSource, SameEntry(kept[k], kept[l]) PROVE k = l
    <3>1. SameEntry(rs[order[k]], rs[order[l]]) /\ rs[order[k]].source # NoSource
      BY <1>8, <2>1 DEF SameEntry
    <3>2. order[l] \in CopiesOf(rs, order[k])
      BY <3>1, <1>8 DEF CopiesOf, SameIncome, SameEntry
    <3>3. order[k] = order[l]
      BY <3>2, <1>8, CopiesAgree
    <3>. QED
      BY <3>3, <1>5, <1>7 DEF Lists
  <2>. QED
    BY <2>1, <1>6, <1>7 DEF OneEach
<1>11. ASSUME NEW i \in DOMAIN rs PROVE \E k \in DOMAIN kept : kept[k] = KeptCopy(rs, CopiesOf(rs, i))
  <2>. DEFINE f == First(CopiesOf(rs, i))
  <2>2. f \in CopiesOf(rs, i)
    <3>1. CopiesOf(rs, i) \subseteq Nat /\ i \in CopiesOf(rs, i)
      BY <1>1 DEF CopiesOf
    <3>. QED
      BY <3>1, FirstOf
  <2>3. f \in DOMAIN rs /\ CopiesOf(rs, f) = CopiesOf(rs, i)
    BY <2>2, CopiesAgree
  <2>4. f \in firsts
    BY <2>3
  <2>. HIDE DEF f
  <2>5. PICK k \in 1..m : order[k] = f
    BY <2>4, <1>5, <1>7 DEF Lists
  <2>6. kept[k] = KeptCopy(rs, CopiesOf(rs, i)) /\ k \in DOMAIN kept
    BY <2>3, <2>5, <1>6, <1>7
  <2>. QED
    BY <2>6
<1>12. ASSUME NEW k \in DOMAIN kept PROVE \E o \in DOMAIN rs : HasAllOf(kept[k], rs[o])
  BY <1>6, <1>7, <1>8, CopyKept
<1>. QED
  BY <1>9, <1>10, <1>11, <1>12 DEF kept

LEMMA ResolveKeepsOwn ==
  ASSUME NEW rs, AreIncomes(rs), NEW ps, HasOwn(ps, rs)
  PROVE  HasOwn(ps, Resolve(rs))
<1>1. PICK i \in DOMAIN rs : Verified(rs[i]) /\ rs[i].member = ps.member /\ rs[i].source = ps.source /\ rs[i].type = WageType
  BY DEF HasOwn
<1>2. PICK k \in DOMAIN Resolve(rs) : Resolve(rs)[k] = KeptCopy(rs, CopiesOf(rs, i))
  BY ResolveKeeps
<1>3. Verified(Resolve(rs)[k]) /\ SameEntry(Resolve(rs)[k], rs[i])
  BY <1>1, <1>2, CopyKept
<1>. QED
  BY <1>1, <1>3 DEF HasOwn, SameEntry

(* The groups of one member's records of one household-level type.         *)
LEMMA GroupsOf ==
  ASSUME NEW rs, NEW G \in HouseholdGroups(rs)
  PROVE  /\ G \subseteq DOMAIN rs /\ G # {} /\ \A i \in G : rs[i].type \in HouseholdType
         /\ \A a \in G, b \in DOMAIN rs : rs[a].member = rs[b].member /\ rs[a].type = rs[b].type => b \in G
         /\ \A a, b \in G : rs[a].type = rs[b].type /\ (rs[a].member = rs[b].member \/ NoMember \in {rs[a].member, rs[b].member})
         /\ \A H \in HouseholdGroups(rs) : G \cap H # {} => G = H
<1>1. PICK m \in {rs[i].member : i \in DOMAIN rs} \ {NoMember}, t \in HouseholdType : G = HouseholdGroup(rs, m, t) /\ G # {}
  BY DEF HouseholdGroups
<1>2. G = {i \in DOMAIN rs : rs[i].type = t /\ (rs[i].member = m \/ (rs[i].member = NoMember /\ Owners(rs, t) = {m}))}
  BY <1>1 DEF HouseholdGroup
<1>3. \A a \in G, b \in DOMAIN rs : rs[a].member = rs[b].member /\ rs[a].type = rs[b].type => b \in G
  BY <1>2
<1>4. ASSUME NEW H \in HouseholdGroups(rs), NEW a \in G \cap H PROVE G = H
  <2>1. PICK n \in {rs[i].member : i \in DOMAIN rs} \ {NoMember}, u \in HouseholdType : H = HouseholdGroup(rs, n, u)
    BY DEF HouseholdGroups
  <2>2. H = {i \in DOMAIN rs : rs[i].type = u /\ (rs[i].member = n \/ (rs[i].member = NoMember /\ Owners(rs, u) = {n}))}
    BY <2>1 DEF HouseholdGroup
  <2>3. u = t
    BY <1>2, <2>2, <1>4
  <2>4. m = n
    <3>1. CASE rs[a].member = NoMember
      BY <3>1, <1>1, <1>2, <2>1, <2>2, <2>3, <1>4
    <3>2. CASE rs[a].member # NoMember
      BY <3>2, <1>2, <2>2, <1>4
    <3>. QED
      BY <3>1, <3>2
  <2>. QED
    BY <1>1, <2>1, <2>3, <2>4
<1>. QED
  BY <1>1, <1>2, <1>3, <1>4

LEMMA LeadLeads ==
  ASSUME NEW rs, AreIncomes(rs), NEW G \in HouseholdGroups(rs)
  PROVE  Lead(rs, G) \in G /\ Lead(rs, G) \in DOMAIN rs
<1>1. G \subseteq DOMAIN rs /\ G # {}
  BY GroupsOf
<1>2. Ranks(ByHistory(rs, G), G)
  BY <1>1, HistoriesInOrder
<1>. QED
  BY <1>1, <1>2, ForemostRecord DEF Lead

(* The record a group is merged into: the lead, with its member and type.  *)
LEMMA MergedIsIncome ==
  ASSUME NEW rs, AreIncomes(rs), NEW G \in HouseholdGroups(rs)
  PROVE  /\ IsIncome(MergedRecord(rs, G)) /\ MergedRecord(rs, G).source = MergedSource(rs, G)
         /\ MergedRecord(rs, G).member = rs[Lead(rs, G)].member /\ MergedRecord(rs, G).type = rs[Lead(rs, G)].type
<1>. DEFINE one == G \ OtherPayers(rs, G)
            said == FirstSaid(rs, one, ByHistory(rs, G), "declared")
            lead == rs[Lead(rs, G)]
            doc == FirstSaid(rs, one, ByHistory(rs, G), "doc")
            figure == FirstSaid(rs, one, ByHistory(rs, G), "figure")
            status == IF FoldedAway(rs, G) = {} \/ ~(\E i \in one : rs[i].status \in {"verified", "verified_not_declared"})
                      THEN lead.status
                      ELSE IF said # None THEN "verified" ELSE "verified_not_declared"
<1>1. said \in Int \cup {None}
  <2>1. G \subseteq DOMAIN rs
    BY GroupsOf
  <2>2. Ranks(ByHistory(rs, G), G)
    BY <2>1, HistoriesInOrder
  <2>3. one \subseteq G
    OBVIOUS
  <2>. HIDE DEF one
  <2>. QED
    BY <2>1, <2>2, <2>3, SaidOfDeclaration
<1>2. IsIncome(lead)
  BY LeadLeads DEF AreIncomes
<1>3. status \in Status
  BY <1>2 DEF IsIncome, Status
<1>4. MergedRecord(rs, G) = [lead EXCEPT !.declared = said, !.doc = doc, !.figure = figure,
                                         !.source = MergedSource(rs, G), !.status = status]
  BY DEF MergedRecord
<1>. HIDE DEF said, lead, status, doc, figure
<1>. QED
  BY <1>1, <1>2, <1>3, <1>4 DEF IsIncome, lead

MergedList(rs) ==
  [i \in DOMAIN rs |->
     IF {G \in HouseholdGroups(rs) : Lead(rs, G) = i} = {} THEN rs[i]
     ELSE MergedRecord(rs, CHOOSE G \in {G \in HouseholdGroups(rs) : Lead(rs, G) = i} : TRUE)]

LEMMA MergedListOf ==
  ASSUME NEW rs, AreIncomes(rs), NEW i \in DOMAIN rs
  PROVE  /\ \/ (\A G \in HouseholdGroups(rs) : Lead(rs, G) # i) /\ MergedList(rs)[i] = rs[i]
            \/ \E G \in HouseholdGroups(rs) : Lead(rs, G) = i /\ MergedList(rs)[i] = MergedRecord(rs, G)
         /\ IsIncome(MergedList(rs)[i]) /\ MergedList(rs)[i].member = rs[i].member /\ MergedList(rs)[i].type = rs[i].type
<1>. DEFINE L == {G \in HouseholdGroups(rs) : Lead(rs, G) = i}
<1>1. MergedList(rs)[i] = IF L = {} THEN rs[i] ELSE MergedRecord(rs, CHOOSE G \in L : TRUE)
  BY DEF MergedList
<1>2. CASE L = {}
  BY <1>1, <1>2 DEF AreIncomes
<1>3. CASE L # {}
  <2>1. PICK G \in L : MergedList(rs)[i] = MergedRecord(rs, G)
    BY <1>1, <1>3
  <2>2. G \in HouseholdGroups(rs) /\ Lead(rs, G) = i
    BY <2>1
  <2>. QED
    BY <2>1, <2>2, MergedIsIncome
<1>. QED
  BY <1>2, <1>3

LEMMA MergeKeeps ==
  ASSUME NEW rs, AreIncomes(rs), OneEach(rs)
  PROVE  /\ AreIncomes(MergeHousehold(rs)) /\ OneEach(MergeHousehold(rs))
         /\ \A ps : HasOwn(ps, rs) => HasOwn(ps, MergeHousehold(rs))
<1>. DEFINE folded == UNION {FoldedAway(rs, G) : G \in HouseholdGroups(rs)}
            ms == MergedList(rs)
            out == MergeHousehold(rs)
<1>1. Len(rs) \in Nat /\ DOMAIN rs = 1..Len(rs)
  BY IncomesListed
<1>2. out = Without(ms, folded)
  BY DEF MergeHousehold, MergedList
<1>3. DOMAIN ms = DOMAIN rs
  BY DEF MergedList
<1>. HIDE DEF ms, folded, out
<1>. DEFINE e == Left(ms, folded)
<1>4. Lists(e, DOMAIN rs \ folded) /\ out = [k \in DOMAIN e |-> ms[e[k]]]
  <2>1. DOMAIN ms = 1..Len(rs)
    BY <1>1, <1>3
  <2>2. Lists(e, DOMAIN ms \ folded)
    BY <1>1, <2>1, WithoutKeeps
  <2>3. Without(ms, folded) = [k \in DOMAIN e |-> ms[e[k]]]
    BY Zenon DEF Without, Left
  <2>. QED
    BY <1>2, <1>3, <2>2, <2>3, Zenon
<1>. HIDE DEF e
<1>5. PICK m \in Nat : DOMAIN e = 1..m /\ e \in [1..m -> DOMAIN rs \ folded]
  BY <1>4 DEF Lists
<1>6. \A i \in DOMAIN rs : IsIncome(ms[i]) /\ ms[i].member = rs[i].member /\ ms[i].type = rs[i].type
  BY MergedListOf DEF ms
<1>7. AreIncomes(out)
  <2>1. DOMAIN out = 1..m /\ out = [k \in 1..m |-> out[k]]
    BY <1>4, <1>5
  <2>2. \A k \in 1..m : IsIncome(out[k])
    BY <1>4, <1>5, <1>6
  <2>. QED
    BY <2>1, <2>2, ListOfIncomes
<1>8. ASSUME NEW a \in DOMAIN rs \ folded, NEW b \in DOMAIN rs \ folded, ms[a].source # NoSource, SameEntry(ms[a], ms[b]),
             NEW G \in HouseholdGroups(rs), Lead(rs, G) = a, ms[a] = MergedRecord(rs, G)
      PROVE  a = b
  <2>1. a \in G /\ b \in G
    <3>1. a \in G
      BY <1>8, LeadLeads
    <3>2. rs[a].member = rs[b].member /\ rs[a].type = rs[b].type
      BY <1>6, <1>8 DEF SameEntry
    <3>. QED
      BY <3>1, <3>2, GroupsOf
  <2>. SUFFICES ASSUME a # b PROVE FALSE
    OBVIOUS
  <2>2. b \in OtherPayers(rs, G)
    <3>1. b \notin FoldedAway(rs, G)
      BY DEF folded
    <3>. QED
      BY <3>1, <2>1, <1>8 DEF FoldedAway
  <2>3. rs[b].source # MergedSource(rs, G) /\ ms[a].source = MergedSource(rs, G)
    BY <2>2, <1>8, MergedIsIncome DEF OtherPayers
  <2>4. PICK H \in HouseholdGroups(rs) : Lead(rs, H) = b
    BY <2>3, <1>8, MergedListOf DEF ms, SameEntry
  <2>5. b \in H
    BY <2>4, LeadLeads
  <2>6. G = H
    BY <2>1, <2>5, GroupsOf
  <2>. QED
    BY <2>4, <2>6, <1>8
<1>9. OneEach(out)
  <2>1. ASSUME NEW a \in DOMAIN rs \ folded, NEW b \in DOMAIN rs \ folded, ms[a].source # NoSource, SameEntry(ms[a], ms[b])
        PROVE  a = b
    <3>1. CASE \E G \in HouseholdGroups(rs) : Lead(rs, G) = a /\ ms[a] = MergedRecord(rs, G)
      BY <3>1, <2>1, <1>8
    <3>2. CASE \E G \in HouseholdGroups(rs) : Lead(rs, G) = b /\ ms[b] = MergedRecord(rs, G)
      <4>1. ms[b].source # NoSource /\ SameEntry(ms[b], ms[a])
        BY <2>1 DEF SameEntry
      <4>. QED
        BY <4>1, <3>2, <1>8
    <3>3. CASE ms[a] = rs[a] /\ ms[b] = rs[b]
      BY <3>3, <2>1 DEF OneEach
    <3>. QED
      BY <3>1, <3>2, <3>3, MergedListOf DEF ms
  <2>2. ASSUME NEW k \in 1..m, NEW l \in 1..m, out[k].source # NoSource, SameEntry(out[k], out[l]) PROVE k = l
    <3>1. out[k] = ms[e[k]] /\ out[l] = ms[e[l]] /\ e[k] \in DOMAIN rs \ folded /\ e[l] \in DOMAIN rs \ folded
      BY <1>4, <1>5
    <3>2. e[k] = e[l]
      BY <3>1, <2>1, <2>2
    <3>. QED
      BY <3>2, <1>4, <1>5 DEF Lists
  <2>. QED
    BY <2>2, <1>4, <1>5 DEF OneEach
<1>10. ASSUME NEW ps, HasOwn(ps, rs) PROVE HasOwn(ps, out)
  <2>1. PICK i \in DOMAIN rs : Verified(rs[i]) /\ rs[i].member = ps.member /\ rs[i].source = ps.source /\ rs[i].type = WageType
    BY <1>10 DEF HasOwn
  <2>2. \A G \in HouseholdGroups(rs) : i \notin G
    BY <2>1, WageAssumption, GroupsOf
  <2>3. i \notin folded
    BY <2>2 DEF folded, FoldedAway
  <2>4. ms[i] = rs[i]
    BY <2>2, MergedListOf, LeadLeads DEF ms
  <2>5. PICK k \in 1..m : e[k] = i
    BY <2>3, <1>4, <1>5 DEF Lists
  <2>6. k \in DOMAIN out /\ out[k] = rs[i]
    BY <2>4, <2>5, <1>4, <1>5
  <2>. QED
    BY <2>1, <2>6 DEF HasOwn
<1>. QED
  BY <1>7, <1>9, <1>10 DEF out

-----------------------------------------------------------------------------
(* The declarations of one member and heading, and the line kept of them.  *)
LEMMA FormsInOrder ==
  ASSUME NEW rs, AreIncomes(rs), NEW G, G \subseteq DOMAIN rs
  PROVE  Ranks(ByForm(rs, G), G)
<1>. DEFINE form(i) == IF rs[i].doc \in CertForm THEN 0 ELSE 1
            amount(i) == Zero(rs[i].declared)
<1>1. \A i, j \in G : <<i, j>> \in ByForm(rs, G) <=>
        \/ form(i) < form(j)
        \/ form(i) = form(j) /\ (amount(i) > amount(j) \/ (amount(i) = amount(j) /\ i < j))
  BY DEF ByForm
<1>2. \A i \in G : form(i) \in {0, 1} /\ amount(i) \in Int /\ i \in Nat
  BY IncomesListed DEF AreIncomes, IsIncome, Zero
<1>. HIDE DEF form, amount
<1>3. ASSUME NEW i \in G, NEW j \in G, i # j PROVE <<i, j>> \in ByForm(rs, G) \/ <<j, i>> \in ByForm(rs, G)
  BY <1>1, <1>2, <1>3
<1>4. ASSUME NEW i \in G, NEW j \in G, NEW k \in G, <<i, j>> \in ByForm(rs, G), <<j, k>> \in ByForm(rs, G)
      PROVE  <<i, k>> \in ByForm(rs, G)
  BY <1>1, <1>2, <1>4
<1>. QED
  BY <1>3, <1>4 DEF Ranks

LEMMA KeeperOf ==
  ASSUME NEW rs, AreIncomes(rs), NEW i \in DeclaredRecords(rs)
  PROVE  /\ Keeper(rs, i) \in DeclaredRecords(rs) /\ rs[Keeper(rs, i)].member = rs[i].member
         /\ Heading(rs[Keeper(rs, i)]) = Heading(rs[i]) /\ Keeper(rs, Keeper(rs, i)) = Keeper(rs, i)
<1>. DEFINE G == DeclaredGroup(rs, i)
            keep == Keeper(rs, i)
<1>1. G \subseteq DOMAIN rs /\ i \in G
  BY DEF DeclaredGroup, DeclaredRecords
<1>2. Ranks(ByForm(rs, G), G)
  BY <1>1, FormsInOrder
<1>3. keep = Foremost(G, ByForm(rs, G))
  BY DEF Keeper
<1>4. keep \in G
  <2>. HIDE DEF G, keep
  <2>. QED
    BY <1>1, <1>2, <1>3, ForemostRecord
<1>5. keep \in DeclaredRecords(rs) /\ rs[keep].member = rs[i].member /\ Heading(rs[keep]) = Heading(rs[i])
  BY <1>4 DEF DeclaredGroup
<1>6. DeclaredGroup(rs, keep) = G
  BY <1>5 DEF DeclaredGroup
<1>7. Keeper(rs, keep) = keep
  BY <1>3, <1>6 DEF Keeper
<1>. QED
  BY <1>5, <1>7

(* A line of the list after the collapse differs from the one it was in    *)
(* the figure alone.                                                       *)
SameLine(r, o) ==
  /\ SameEntry(r, o) /\ r.status = o.status /\ r.declared = o.declared

CollapsedList(rs) ==
  LET monthly(i) == {j \in Restated(rs) : Keeper(rs, j) = i /\ Compared(rs[i], rs[j]) = "monthly basis"} IN
  [i \in DOMAIN rs |->
     IF monthly(i) # {} /\ rs[i].figure = None
     THEN [rs[i] EXCEPT !.figure = rs[Foremost(monthly(i), ByForm(rs, monthly(i)))].declared] ELSE rs[i]]

LEMMA CollapsedListOf ==
  ASSUME NEW rs, AreIncomes(rs), NEW i \in DOMAIN rs
  PROVE  IsIncome(CollapsedList(rs)[i]) /\ SameLine(CollapsedList(rs)[i], rs[i])
<1>1. IsIncome(rs[i])
  BY DEF AreIncomes
<1>2. \E f : CollapsedList(rs)[i] = [rs[i] EXCEPT !.figure = f] \/ CollapsedList(rs)[i] = rs[i]
  BY DEF CollapsedList
<1>3. PICK f : CollapsedList(rs)[i] = [rs[i] EXCEPT !.figure = f] \/ CollapsedList(rs)[i] = rs[i]
  BY <1>2
<1>. QED
  BY <1>1, <1>3 DEF IsIncome, SameLine, SameEntry

LEMMA CollapseKeeps ==
  ASSUME NEW rs, AreIncomes(rs)
  PROVE  /\ AreIncomes(Collapse(rs)) /\ (OneEach(rs) => OneEach(Collapse(rs)))
         /\ \A i \in DOMAIN rs \ Restated(rs) : \E k \in DOMAIN Collapse(rs) : SameLine(Collapse(rs)[k], rs[i])
<1>. DEFINE cs == CollapsedList(rs)
            out == Collapse(rs)
            e == Left(cs, Restated(rs))
<1>1. Len(rs) \in Nat /\ DOMAIN rs = 1..Len(rs)
  BY IncomesListed
<1>2. out = Without(cs, Restated(rs))
  BY DEF Collapse, CollapsedList
<1>3. DOMAIN cs = DOMAIN rs
  BY DEF CollapsedList
<1>. HIDE DEF cs, out
<1>4. Lists(e, DOMAIN rs \ Restated(rs)) /\ out = [k \in DOMAIN e |-> cs[e[k]]]
  <2>1. DOMAIN cs = 1..Len(rs)
    BY <1>1, <1>3
  <2>2. Lists(e, DOMAIN cs \ Restated(rs))
    BY <1>1, <2>1, WithoutKeeps
  <2>3. Without(cs, Restated(rs)) = [k \in DOMAIN e |-> cs[e[k]]]
    BY Zenon DEF Without, Left
  <2>. QED
    BY <1>2, <1>3, <2>2, <2>3, Zenon
<1>. HIDE DEF e
<1>5. PICK m \in Nat : DOMAIN e = 1..m /\ e \in [1..m -> DOMAIN rs \ Restated(rs)]
  BY <1>4 DEF Lists
<1>6. \A k \in 1..m : e[k] \in DOMAIN rs /\ IsIncome(out[k]) /\ SameLine(out[k], rs[e[k]])
  BY <1>4, <1>5, CollapsedListOf DEF cs
<1>7. AreIncomes(out)
  <2>1. DOMAIN out = 1..m /\ out = [k \in 1..m |-> out[k]]
    BY <1>4, <1>5
  <2>. QED
    BY <2>1, <1>6, ListOfIncomes
<1>8. ASSUME OneEach(rs), NEW k \in 1..m, NEW l \in 1..m, out[k].source # NoSource, SameEntry(out[k], out[l]) PROVE k = l
  <2>1. rs[e[k]].source # NoSource /\ SameEntry(rs[e[k]], rs[e[l]])
    BY <1>6, <1>8 DEF SameLine, SameEntry
  <2>2. e[k] = e[l]
    BY <2>1, <1>6, <1>8 DEF OneEach
  <2>. QED
    BY <2>2, <1>4, <1>5 DEF Lists
<1>9. ASSUME NEW i \in DOMAIN rs \ Restated(rs) PROVE \E k \in DOMAIN out : SameLine(out[k], rs[i])
  <2>1. PICK k \in 1..m : e[k] = i
    BY <1>4, <1>5 DEF Lists
  <2>. QED
    BY <2>1, <1>4, <1>5, <1>6
<1>10. OneEach(rs) => OneEach(out)
  BY <1>8, <1>4, <1>5 DEF OneEach
<1>. QED
  BY <1>7, <1>9, <1>10 DEF out

LEMMA CollapseKeepsOwn ==
  ASSUME NEW rs, AreIncomes(rs), NEW ps, HasOwn(ps, rs)
  PROVE  HasOwn(ps, Collapse(rs))
<1>1. PICK i \in DOMAIN rs : Verified(rs[i]) /\ rs[i].member = ps.member /\ rs[i].source = ps.source /\ rs[i].type = WageType
  BY DEF HasOwn
<1>2. i \notin Restated(rs)
  BY <1>1 DEF Verified, Restated, DeclaredRecords, EvidenceRank
<1>3. PICK k \in DOMAIN Collapse(rs) : SameLine(Collapse(rs)[k], rs[i])
  BY <1>2, CollapseKeeps
<1>. QED
  BY <1>1, <1>3 DEF HasOwn, SameLine, SameEntry, Verified

LEMMA NoFigureDropped ==
  ASSUME NEW rs, AreIncomes(rs), NEW i \in DeclaredRecords(rs), Zero(rs[i].declared) > 0
  PROVE  \/ rs[i].member \in DeclarationDisputes(rs)
         \/ \E j \in DOMAIN Collapse(rs) :
              /\ Collapse(rs)[j].member = rs[i].member /\ Heading(Collapse(rs)[j]) = Heading(rs[i])
              /\ Zero(Collapse(rs)[j].declared) = 0
                   \/ Compared(Collapse(rs)[j], rs[i]) \in {"same figure", "monthly basis", "annual basis"}
<1>1. i \in DOMAIN rs /\ rs[i].declared \in Int \cup {None}
  BY DEF DeclaredRecords, AreIncomes, IsIncome
<1>2. rs[i].declared \in Int /\ rs[i].declared > 0
  BY <1>1 DEF Zero
<1>3. CASE i \notin Restated(rs)
  <2>1. PICK k \in DOMAIN Collapse(rs) : SameLine(Collapse(rs)[k], rs[i])
    BY <1>1, <1>3, CollapseKeeps
  <2>. DEFINE d == rs[i].declared
  <2>2. Collapse(rs)[k].declared = d
    BY <2>1 DEF SameLine
  <2>3. /\ 50 * Distance(d, d) <= d /\ Zero(d) # 0
        /\ ~(100 * Distance(12 * d, d) < 12 * d) /\ ~(100 * Distance(d, 12 * d) < 12 * d)
    BY <1>2 DEF Distance, Zero
  <2>4. Compared(Collapse(rs)[k], rs[i]) = "same figure"
    <3>1. rs[i].declared = d
      OBVIOUS
    <3>. HIDE DEF d
    <3>. QED
      BY <2>2, <2>3, <3>1 DEF Compared
  <2>. QED
    BY <2>1, <2>4 DEF SameLine, SameEntry, Heading
<1>4. CASE i \in Restated(rs)
  <2>. DEFINE keep == Keeper(rs, i)
  <2>1. /\ keep \in DeclaredRecords(rs) /\ rs[keep].member = rs[i].member
        /\ Heading(rs[keep]) = Heading(rs[i]) /\ Keeper(rs, keep) = keep
    BY KeeperOf
  <2>. HIDE DEF keep
  <2>2. keep \in DOMAIN rs \ Restated(rs)
    BY <2>1 DEF Restated, DeclaredRecords
  <2>3. PICK k \in DOMAIN Collapse(rs) : SameLine(Collapse(rs)[k], rs[keep])
    BY <2>2, CollapseKeeps
  <2>4. Collapse(rs)[k].member = rs[i].member /\ Heading(Collapse(rs)[k]) = Heading(rs[i])
    BY <2>1, <2>3 DEF SameLine, SameEntry, Heading
  <2>5. Compared(Collapse(rs)[k], rs[i]) = Compared(rs[keep], rs[i])
    BY <2>3 DEF SameLine, Compared
  <2>6. \/ Compared(rs[keep], rs[i]) \in {"same figure", "monthly basis", "annual basis"}
        \/ Compared(rs[keep], rs[i]) = "different figure"
        \/ Zero(rs[keep].declared) = 0 \/ Zero(rs[i].declared) = 0
    BY DEF Compared
  <2>7. Compared(rs[keep], rs[i]) = "different figure" => rs[i].member \in DeclarationDisputes(rs)
    BY <1>4 DEF DeclarationDisputes, keep
  <2>8. Zero(rs[i].declared) # 0
    BY <1>2 DEF Zero
  <2>9. Collapse(rs)[k].declared = rs[keep].declared
    BY <2>3 DEF SameLine
  <2>. QED
    BY <2>4, <2>5, <2>6, <2>7, <2>8, <2>9
<1>. QED
  BY <1>3, <1>4

-----------------------------------------------------------------------------
(* The passes that come first: each stub no record takes is given one of   *)
(* its own, which the questionnaire and the names leave it.                *)
IsStub(x) == x = [member |-> x.member, source |-> x.source]
AreStubs(s) == (\E n \in Nat : DOMAIN s = 1..n) /\ \A k \in DOMAIN s : IsStub(s[k])

LEMMA InheritedStubs ==
  ASSUME NEW ss, AreStubs(ss), NEW rs
  PROVE  AreStubs(InheritNames(ss, rs))
<1>. DEFINE W == {i \in DOMAIN rs : rs[i].workNumber /\ rs[i].source # NoSource}
<1>1. CASE W = {}
  BY <1>1 DEF InheritNames
<1>2. CASE W # {}
  <2>1. InheritNames(ss, rs) =
          [k \in DOMAIN ss |->
             [ss[k] EXCEPT !.source = IF @ = NoSource THEN rs[First(W)].source ELSE @,
                           !.member = IF @ = NoMember THEN rs[First(W)].member ELSE @]]
    BY <1>2 DEF InheritNames
  <2>. HIDE DEF W
  <2>2. ASSUME NEW k \in DOMAIN ss PROVE IsStub(InheritNames(ss, rs)[k])
    <3>1. ss[k] = [member |-> ss[k].member, source |-> ss[k].source]
      BY DEF AreStubs, IsStub
    <3>. DEFINE a == IF ss[k].source = NoSource THEN rs[First(W)].source ELSE ss[k].source
                b == IF ss[k].member = NoMember THEN rs[First(W)].member ELSE ss[k].member
    <3>2. InheritNames(ss, rs)[k] =
            [ss[k] EXCEPT !.source = IF @ = NoSource THEN rs[First(W)].source ELSE @,
                          !.member = IF @ = NoMember THEN rs[First(W)].member ELSE @]
      BY <2>1
    <3>3. InheritNames(ss, rs)[k] = [ss[k] EXCEPT !.source = a, !.member = b]
      BY <3>1, <3>2
    <3>. HIDE DEF a, b
    <3>4. InheritNames(ss, rs)[k] = [member |-> b, source |-> a]
      BY <3>1, <3>3
    <3>. QED
      BY <3>4 DEF IsStub
  <2>3. DOMAIN InheritNames(ss, rs) = DOMAIN ss
    BY <2>1
  <2>. QED
    BY <2>2, <2>3 DEF AreStubs
<1>. QED
  BY <1>1, <1>2

LEMMA BlankIsIncome ==
  ASSUME NEW m, NEW s, NEW t
  PROVE  /\ IsIncome(Blank(m, s, t)) /\ Verified(Blank(m, s, t))
         /\ Blank(m, s, t).member = m /\ Blank(m, s, t).source = s /\ Blank(m, s, t).type = t
BY DEF IsIncome, Blank, Status, Verified, EvidenceRank

LEMMA SeededIsIncome ==
  ASSUME NEW m, NEW t, NEW n \in Int
  PROVE  AreIncomes(<<Seeded(m, t, n)>>)
<1>1. IsIncome(Seeded(m, t, n))
  <2>. DEFINE doc == CHOOSE d \in CertForm : TRUE
              blank == Blank(m, SelfDeclaration, t)
  <2>1. IsIncome(blank)
    BY BlankIsIncome
  <2>2. Seeded(m, t, n) = [blank EXCEPT !.declared = n, !.doc = doc]
    BY DEF Seeded
  <2>. HIDE DEF doc, blank
  <2>. QED
    BY <2>1, <2>2 DEF IsIncome
<1>. DEFINE s == <<Seeded(m, t, n)>>
<1>2. DOMAIN s = 1..1 /\ s[1] = Seeded(m, t, n) /\ s = [i \in 1..1 |-> s[i]]
  OBVIOUS
<1>. HIDE DEF s
<1>3. \A i \in 1..1 : IsIncome(s[i])
  BY <1>1, <1>2
<1>4. AreIncomes(s)
  BY <1>2, <1>3, ListOfIncomes
<1>. QED
  BY <1>4 DEF s

LEMMA Concatenated ==
  ASSUME NEW s, AreIncomes(s), NEW t, AreIncomes(t)
  PROVE  /\ AreIncomes(s \o t)
         /\ \A i \in DOMAIN t : Len(s) + i \in DOMAIN (s \o t) /\ (s \o t)[Len(s) + i] = t[i]
         /\ \A i \in DOMAIN s : i \in DOMAIN (s \o t) /\ (s \o t)[i] = s[i]
         /\ \A i \in DOMAIN (s \o t) \ DOMAIN s : \E j \in DOMAIN t : (s \o t)[i] = t[j]
<1>. DEFINE S == {s[i] : i \in DOMAIN s} \cup {t[i] : i \in DOMAIN t}
            st == s \o t
<1>1. Len(s) \in Nat /\ DOMAIN s = 1..Len(s) /\ Len(t) \in Nat /\ DOMAIN t = 1..Len(t)
  BY IncomesListed
<1>2. s \in Seq(S) /\ t \in Seq(S)
  <2>1. s \in [1..Len(s) -> S] /\ t \in [1..Len(t) -> S]
    BY <1>1, IncomesListed
  <2>. HIDE DEF S
  <2>. QED
    BY <2>1, <1>1
<1>3. st \in Seq(S) /\ Len(st) = Len(s) + Len(t)
  <2>. HIDE DEF S
  <2>. QED
    BY <1>2
<1>4. DOMAIN st = 1..(Len(s) + Len(t)) /\ st = [i \in 1..(Len(s) + Len(t)) |-> st[i]]
  <2>. HIDE DEF S, st
  <2>. QED
    BY <1>1, <1>3
<1>5. \A i \in 1..(Len(s) + Len(t)) : st[i] = IF i <= Len(s) THEN s[i] ELSE t[i - Len(s)]
  <2>. HIDE DEF S
  <2>. QED
    BY <1>1, <1>2
<1>. HIDE DEF st
<1>6. ASSUME NEW i \in 1..(Len(s) + Len(t)) PROVE IsIncome(st[i])
  <2>1. CASE i <= Len(s)
    BY <2>1, <1>1, <1>5 DEF AreIncomes
  <2>2. CASE ~(i <= Len(s))
    <3>1. i - Len(s) \in DOMAIN t
      BY <2>2, <1>1
    <3>. QED
      BY <2>2, <3>1, <1>5 DEF AreIncomes
  <2>. QED
    BY <2>1, <2>2
<1>7. AreIncomes(st)
  <2>1. Len(s) + Len(t) \in Nat
    BY <1>1
  <2>. QED
    BY <2>1, <1>4, <1>6, ListOfIncomes
<1>8. ASSUME NEW i \in DOMAIN t PROVE Len(s) + i \in DOMAIN st /\ st[Len(s) + i] = t[i]
  <2>1. Len(s) + i \in 1..(Len(s) + Len(t)) /\ ~(Len(s) + i <= Len(s)) /\ (Len(s) + i) - Len(s) = i
    BY <1>1
  <2>. QED
    BY <2>1, <1>4, <1>5
<1>9. ASSUME NEW i \in DOMAIN s PROVE i \in DOMAIN st /\ st[i] = s[i]
  <2>1. i \in 1..(Len(s) + Len(t)) /\ i <= Len(s)
    BY <1>1
  <2>. QED
    BY <2>1, <1>4, <1>5
<1>10. ASSUME NEW i \in DOMAIN st \ DOMAIN s PROVE \E j \in DOMAIN t : st[i] = t[j]
  <2>1. i - Len(s) \in DOMAIN t /\ ~(i <= Len(s))
    BY <1>1, <1>4
  <2>. QED
    BY <2>1, <1>4, <1>5
<1>. QED
  BY <1>7, <1>8, <1>9, <1>10 DEF st

LEMMA ReconstructOwns ==
  ASSUME NEW rs, AreIncomes(rs), NEW ss, AreStubs(ss)
  PROVE  /\ AreIncomes(Reconstruct(ss, rs))
         /\ \A k \in DOMAIN ss : RecordsOf(ss[k], rs) # {} \/ HasOwn(ss[k], Reconstruct(ss, rs))
         /\ \A i \in DOMAIN rs : i \in DOMAIN Reconstruct(ss, rs) /\ Reconstruct(ss, rs)[i] = rs[i]
         /\ \A i \in DOMAIN Reconstruct(ss, rs) \ DOMAIN rs : Reconstruct(ss, rs)[i].type = WageType
<1>. DEFINE L == Loose(ss, rs)
            firsts == {k \in L : \A j \in L : Key(ss[j]) = Key(ss[k]) => k <= j}
            order == AsListed(firsts)
            new == [i \in DOMAIN order |-> Blank(ss[order[i]].member, ss[order[i]].source, WageType)]
            out == Reconstruct(ss, rs)
<1>1. PICK n \in Nat : DOMAIN ss = 1..n
  BY DEF AreStubs
<1>2. L \subseteq DOMAIN ss
  BY DEF Loose
<1>3. Lists(order, firsts)
  <2>1. firsts \subseteq 1..n
    BY <1>1, <1>2
  <2>. HIDE DEF firsts
  <2>. QED
    BY <2>1, AsListedOf
<1>4. PICK m \in Nat : DOMAIN order = 1..m /\ order \in [1..m -> firsts]
  BY <1>3 DEF Lists
<1>5. out = rs \o new
  BY DEF Reconstruct
<1>. HIDE DEF L, order, out
<1>6. DOMAIN new = 1..m /\ new = [i \in 1..m |-> new[i]]
      /\ \A i \in 1..m : new[i] = Blank(ss[order[i]].member, ss[order[i]].source, WageType)
  BY <1>4
<1>. HIDE DEF new
<1>7. AreIncomes(new)
  <2>1. \A i \in 1..m : IsIncome(new[i])
    BY <1>6, BlankIsIncome
  <2>. QED
    BY <2>1, <1>6, ListOfIncomes
<1>8. AreIncomes(out)
  BY <1>5, <1>7, Concatenated
<1>9. ASSUME NEW k \in DOMAIN ss, RecordsOf(ss[k], rs) = {} PROVE HasOwn(ss[k], out)
  <2>1. k \in L
    BY <1>9 DEF Loose, RecordOf, L
  <2>. DEFINE same == {j \in L : Key(ss[j]) = Key(ss[k])}
  <2>2. same \subseteq Nat /\ same # {}
    BY <2>1, <1>1, <1>2
  <2>3. PICK f \in same : \A j \in same : f <= j
    BY <2>2, LeastOf
  <2>4. f \in firsts /\ Key(ss[f]) = Key(ss[k])
    BY <2>3
  <2>5. ss[f].member = ss[k].member /\ ss[f].source = ss[k].source
    BY <2>4 DEF Key
  <2>. HIDE DEF firsts
  <2>6. PICK i \in 1..m : order[i] = f
    BY <2>4, <1>3, <1>4 DEF Lists
  <2>7. new[i] = Blank(ss[k].member, ss[k].source, WageType)
    BY <2>5, <2>6, <1>6
  <2>8. Len(rs) + i \in DOMAIN out /\ out[Len(rs) + i] = new[i]
    BY <1>5, <1>6, <1>7, Concatenated
  <2>. QED
    BY <2>7, <2>8, BlankIsIncome DEF HasOwn
<1>10. \A i \in DOMAIN rs : i \in DOMAIN out /\ out[i] = rs[i]
  BY <1>5, <1>7, Concatenated
<1>11. ASSUME NEW i \in DOMAIN out \ DOMAIN rs PROVE out[i].type = WageType
  <2>1. PICK j \in DOMAIN new : out[i] = new[j]
    BY <1>5, <1>7, Concatenated
  <2>. QED
    BY <2>1, <1>6, BlankIsIncome
<1>. QED
  BY <1>8, <1>9, <1>10, <1>11 DEF out

(* The same income, whoever it is now said to be and wherever declared.    *)
SameReadingOf(r, o) ==
  /\ r.source = o.source /\ r.type = o.type /\ r.status = o.status /\ r.dated = o.dated
  /\ r.figure = o.figure /\ r.declared = o.declared /\ r.paid = o.paid

LEMMA LinkedKeeps ==
  ASSUME NEW rs, AreIncomes(rs), NEW es
  PROVE  /\ AreIncomes(Linked(es, rs))
         /\ \A ps : HasOwn(ps, rs) => HasOwn(ps, Linked(es, rs))
         /\ DOMAIN Linked(es, rs) = DOMAIN rs
         /\ \A i \in DOMAIN rs : SameReadingOf(Linked(es, rs)[i], rs[i]) /\ Linked(es, rs)[i].member = rs[i].member
<1>. DEFINE linked == UNION {RecordOfEmployer(e, rs) : e \in es}
                        \cup (IF Cardinality(es) = 1 /\ SoleWage(rs) THEN WageSources(rs) ELSE {})
            out == Linked(es, rs)
<1>1. out = [i \in DOMAIN rs |-> IF i \in linked THEN [rs[i] EXCEPT !.doc = Or(@, Application)] ELSE rs[i]]
  BY DEF Linked
<1>. HIDE DEF linked, out
<1>2. Len(rs) \in Nat /\ DOMAIN rs = 1..Len(rs)
  BY IncomesListed
<1>3. DOMAIN out = 1..Len(rs) /\ out = [i \in 1..Len(rs) |-> out[i]]
  BY <1>1, <1>2
<1>4. ASSUME NEW i \in DOMAIN rs PROVE IsIncome(out[i]) /\ SameLine(out[i], rs[i]) /\ SameReadingOf(out[i], rs[i])
  <2>1. IsIncome(rs[i])
    BY DEF AreIncomes
  <2>2. \E d : out[i] = [rs[i] EXCEPT !.doc = d] \/ out[i] = rs[i]
    BY <1>1
  <2>3. PICK d : out[i] = [rs[i] EXCEPT !.doc = d] \/ out[i] = rs[i]
    BY <2>2
  <2>. QED
    BY <2>1, <2>3 DEF IsIncome, SameLine, SameEntry, SameReadingOf
<1>5. AreIncomes(out)
  BY <1>2, <1>3, <1>4, ListOfIncomes
<1>6. ASSUME NEW ps, HasOwn(ps, rs) PROVE HasOwn(ps, out)
  BY <1>2, <1>3, <1>4, <1>6 DEF HasOwn, SameLine, SameEntry, Verified
<1>7. DOMAIN out = DOMAIN rs /\ \A i \in DOMAIN rs : SameReadingOf(out[i], rs[i]) /\ out[i].member = rs[i].member
  BY <1>2, <1>3, <1>4 DEF SameLine, SameEntry
<1>. QED
  BY <1>5, <1>6, <1>7 DEF out

LEMMA RenamedKeeps ==
  ASSUME NEW rs, AreIncomes(rs), NEW out, out = [i \in DOMAIN rs |-> Renamed(rs[i])]
  PROVE  /\ AreIncomes(out)
         /\ \A ps : IsStub(ps) /\ HasOwn(ps, rs) => HasOwn(Renamed(ps), out)
         /\ DOMAIN out = DOMAIN rs
         /\ \A i \in DOMAIN rs : SameReadingOf(out[i], rs[i]) /\ out[i].member = Person(rs[i].member)
<1>1. Len(rs) \in Nat /\ DOMAIN rs = 1..Len(rs)
  BY IncomesListed
<1>2. DOMAIN out = 1..Len(rs) /\ out = [i \in 1..Len(rs) |-> out[i]]
  BY <1>1
<1>3. ASSUME NEW i \in DOMAIN rs
      PROVE  /\ IsIncome(out[i]) /\ out[i].source = rs[i].source /\ out[i].type = rs[i].type /\ out[i].status = rs[i].status
             /\ out[i].member = (IF rs[i].member = NoMember THEN NoMember ELSE Canonical[rs[i].member])
             /\ SameReadingOf(out[i], rs[i])
  <2>1. IsIncome(rs[i]) /\ out[i] = Renamed(rs[i])
    BY DEF AreIncomes
  <2>. QED
    BY <2>1 DEF IsIncome, Renamed, SameReadingOf
<1>4. AreIncomes(out)
  BY <1>1, <1>2, <1>3, ListOfIncomes
<1>5. ASSUME NEW ps, IsStub(ps), HasOwn(ps, rs) PROVE HasOwn(Renamed(ps), out)
  <2>1. /\ Renamed(ps).source = ps.source
        /\ Renamed(ps).member = IF ps.member = NoMember THEN NoMember ELSE Canonical[ps.member]
    BY <1>5 DEF IsStub, Renamed
  <2>2. PICK i \in DOMAIN rs : Verified(rs[i]) /\ rs[i].member = ps.member /\ rs[i].source = ps.source /\ rs[i].type = WageType
    BY <1>5 DEF HasOwn
  <2>3. i \in DOMAIN out
    BY <1>1, <1>2
  <2>. QED
    BY <2>1, <2>2, <2>3, <1>3 DEF HasOwn, Verified
<1>6. DOMAIN out = DOMAIN rs /\ \A i \in DOMAIN rs : SameReadingOf(out[i], rs[i]) /\ out[i].member = Person(rs[i].member)
  BY <1>1, <1>2, <1>3 DEF Person
<1>. QED
  BY <1>4, <1>5, <1>6

-----------------------------------------------------------------------------
(* The passes over the incomes: a stub either had a record to begin with,  *)
(* or, from the third pass on, has one of its own; once copies are         *)
(* resolved every payer's income is there once.                            *)
Named == InheritNames(packet.stubs, packet.recs)

HadRecord(k) == RecordsOf(Named[k], packet.recs) # {}

StubsSettled(ss, rs) == \A k \in DOMAIN ss : HadRecord(k) \/ HasOwn(ss[k], rs)

IncomeInv ==
  /\ packet \in Packet /\ pass \in 1..10
  /\ AreIncomes(recs) /\ AreStubs(stubs)
  /\ pass = 1 => stubs = packet.stubs /\ recs = packet.recs
  /\ pass = 2 => stubs = Named /\ recs = packet.recs
  /\ pass = 3 => stubs = Named /\ (DOMAIN stubs = {} \/ recs = packet.recs)
  /\ pass >= 4 => StubsSettled(stubs, recs)
  /\ pass >= 7 => OneEach(recs)
  /\ rows = {} \/ (pass = 10 /\ rows = ShareOut(stubs, recs))

LEMMA PassNumbers ==
  /\ Passes[1] = "inherit" /\ Passes[2] = "seed" /\ Passes[3] = "reconstruct" /\ Passes[4] = "link"
  /\ Passes[5] = "names" /\ Passes[6] = "resolve" /\ Passes[7] = "merge" /\ Passes[8] = "collapse"
  /\ Passes[9] = "calculate" /\ Passes[10] = "done"
BY DEF Passes

LEMMA PassOf ==
  ASSUME NEW p \in 1..10
  PROVE  /\ Passes[p] = "inherit" => p = 1
         /\ Passes[p] = "seed" => p = 2
         /\ Passes[p] = "reconstruct" => p = 3
         /\ Passes[p] = "link" => p = 4
         /\ Passes[p] = "names" => p = 5
         /\ Passes[p] = "resolve" => p = 6
         /\ Passes[p] = "merge" => p = 7
         /\ Passes[p] = "collapse" => p = 8
         /\ Passes[p] = "calculate" => p = 9
         /\ Passes[p] = "done" => p = 10
<1>1. p \in {1, 2, 3, 4, 5, 6, 7, 8, 9, 10}
  OBVIOUS
<1>. QED
  BY <1>1, PassNumbers

LEMMA IncomeStart == Init => IncomeInv
<1>. SUFFICES ASSUME Init PROVE IncomeInv
  OBVIOUS
<1>1. packet \in Packet /\ recs = packet.recs /\ stubs = packet.stubs /\ rows = {} /\ pass = 1
  BY DEF Init
<1>2. AreIncomes(recs)
  BY <1>1, ExtractionAssumption DEF AreIncomes
<1>3. AreStubs(stubs)
  <2>1. stubs \in Seq({stubs[k] : k \in DOMAIN stubs})
    BY <1>1, ExtractionAssumption
  <2>2. Len(stubs) \in Nat /\ DOMAIN stubs = 1..Len(stubs)
    BY <2>1, SequenceFacts
  <2>3. \A k \in DOMAIN stubs : IsStub(stubs[k])
    BY <1>1, ExtractionAssumption DEF IsStub
  <2>. QED
    BY <2>2, <2>3 DEF AreStubs
<1>. QED
  BY <1>1, <1>2, <1>3 DEF IncomeInv

LEMMA NamesInherited == ASSUME IncomeInv, InheritStubNames PROVE IncomeInv'
<1>1. pass = 1 /\ pass' = 2 /\ packet' = packet /\ stubs' = InheritNames(stubs, recs) /\ recs' = recs /\ rows' = rows
  BY PassOf DEF IncomeInv, InheritStubNames, At
<1>2. AreStubs(stubs')
  BY <1>1, InheritedStubs DEF IncomeInv
<1>3. stubs' = Named' /\ recs' = packet'.recs /\ rows' = {}
  BY <1>1 DEF IncomeInv, Named
<1>. QED
  BY <1>1, <1>2, <1>3 DEF IncomeInv

LEMMA CaseSeeded == ASSUME IncomeInv, SeedFromCertification PROVE IncomeInv'
<1>1. pass = 2 /\ pass' = 3 /\ packet' = packet /\ stubs' = stubs /\ rows' = rows
  BY PassOf DEF IncomeInv, SeedFromCertification, At
<1>2. stubs' = Named' /\ rows' = {}
  BY <1>1 DEF IncomeInv, Named
<1>3. AreIncomes(recs') /\ (DOMAIN stubs = {} \/ recs' = packet.recs)
  <2>1. CASE packet.total > 0 /\ ~HasRealIncome(stubs, recs)
    <3>1. recs' = <<Seeded(packet.head, packet.kind, packet.total)>>
      BY <2>1 DEF SeedFromCertification
    <3>2. packet.total \in Int
      BY ExtractionAssumption DEF IncomeInv
    <3>3. stubs = <<>>
      BY <2>1 DEF HasRealIncome
    <3>. QED
      BY <3>1, <3>2, <3>3, SeededIsIncome
  <2>2. CASE ~(packet.total > 0 /\ ~HasRealIncome(stubs, recs))
    BY <1>1, <2>2 DEF SeedFromCertification, IncomeInv
  <2>. QED
    BY <2>1, <2>2
<1>4. AreStubs(stubs')
  BY <1>1 DEF IncomeInv
<1>. QED
  BY <1>1, <1>2, <1>3, <1>4 DEF IncomeInv

LEMMA OrphansGivenRecords == ASSUME IncomeInv, ReconstructOrphanSources PROVE IncomeInv'
<1>1. /\ pass = 3 /\ pass' = 4 /\ packet' = packet /\ stubs' = stubs /\ rows' = rows
      /\ recs' = Reconstruct(stubs, recs)
  BY PassOf DEF IncomeInv, ReconstructOrphanSources, At
<1>2. /\ AreIncomes(recs') /\ AreStubs(stubs') /\ rows' = {}
      /\ \A k \in DOMAIN stubs : RecordsOf(stubs[k], recs) # {} \/ HasOwn(stubs[k], recs')
  BY <1>1, ReconstructOwns DEF IncomeInv
<1>3. StubsSettled(stubs, recs)'
  <2>1. ASSUME NEW k \in DOMAIN stubs PROVE HadRecord(k)' \/ HasOwn(stubs'[k], recs')
    <3>1. stubs = Named /\ recs = packet.recs
      BY <1>1, <2>1 DEF IncomeInv
    <3>2. RecordsOf(stubs[k], recs) # {} => HadRecord(k)'
      BY <1>1, <3>1 DEF HadRecord, Named
    <3>. QED
      BY <1>1, <1>2, <3>2
  <2>. QED
    BY <1>1, <2>1 DEF StubsSettled
<1>. QED
  BY <1>1, <1>2, <1>3 DEF IncomeInv

LEMMA QuestionnaireLinked == ASSUME IncomeInv, LinkQuestionnaire PROVE IncomeInv'
<1>1. /\ pass = 4 /\ pass' = 5 /\ packet' = packet /\ stubs' = stubs /\ rows' = rows
      /\ recs' = Linked(packet.employers, recs)
  BY PassOf DEF IncomeInv, LinkQuestionnaire, At
<1>2. /\ AreIncomes(recs') /\ AreStubs(stubs') /\ rows' = {}
      /\ \A ps : HasOwn(ps, recs) => HasOwn(ps, recs')
  BY <1>1, LinkedKeeps DEF IncomeInv
<1>3. StubsSettled(stubs, recs)'
  BY <1>1, <1>2 DEF IncomeInv, StubsSettled, HadRecord, Named
<1>. QED
  BY <1>1, <1>2, <1>3 DEF IncomeInv

LEMMA NamesReconciled == ASSUME IncomeInv, ReconcileNames PROVE IncomeInv'
<1>1. /\ pass = 5 /\ pass' = 6 /\ packet' = packet /\ rows' = rows
      /\ recs' = [i \in DOMAIN recs |-> Renamed(recs[i])]
      /\ stubs' = [k \in DOMAIN stubs |-> Renamed(stubs[k])]
  BY PassOf DEF IncomeInv, ReconcileNames, At
<1>2. /\ AreIncomes(recs') /\ rows' = {}
      /\ \A ps : IsStub(ps) /\ HasOwn(ps, recs) => HasOwn(Renamed(ps), recs')
  BY <1>1, RenamedKeeps DEF IncomeInv
<1>3. \A k \in DOMAIN stubs : IsStub(stubs[k]) /\ IsStub(stubs'[k]) /\ stubs'[k] = Renamed(stubs[k])
  BY <1>1 DEF IncomeInv, AreStubs, IsStub, Renamed
<1>4. DOMAIN stubs' = DOMAIN stubs
  BY <1>1
<1>5. AreStubs(stubs')
  BY <1>3, <1>4 DEF IncomeInv, AreStubs
<1>6. StubsSettled(stubs, recs)'
  BY <1>1, <1>2, <1>3, <1>4 DEF IncomeInv, StubsSettled, HadRecord, Named
<1>. QED
  BY <1>1, <1>2, <1>5, <1>6 DEF IncomeInv

LEMMA CopiesResolved == ASSUME IncomeInv, ResolveDuplicates PROVE IncomeInv'
<1>1. /\ pass = 6 /\ pass' = 7 /\ packet' = packet /\ stubs' = stubs /\ rows' = rows /\ recs' = Resolve(recs)
  BY PassOf DEF IncomeInv, ResolveDuplicates, At
<1>2. /\ AreIncomes(recs') /\ OneEach(recs') /\ AreStubs(stubs') /\ rows' = {}
      /\ \A ps : HasOwn(ps, recs) => HasOwn(ps, recs')
  BY <1>1, ResolveKeeps, ResolveKeepsOwn DEF IncomeInv
<1>3. StubsSettled(stubs, recs)'
  BY <1>1, <1>2 DEF IncomeInv, StubsSettled, HadRecord, Named
<1>. QED
  BY <1>1, <1>2, <1>3 DEF IncomeInv

LEMMA SourcesMerged == ASSUME IncomeInv, MergeHouseholdSources PROVE IncomeInv'
<1>1. /\ pass = 7 /\ pass' = 8 /\ packet' = packet /\ stubs' = stubs /\ rows' = rows /\ recs' = MergeHousehold(recs)
  BY PassOf DEF IncomeInv, MergeHouseholdSources, At
<1>2. /\ AreIncomes(recs') /\ OneEach(recs') /\ AreStubs(stubs') /\ rows' = {}
      /\ \A ps : HasOwn(ps, recs) => HasOwn(ps, recs')
  BY <1>1, MergeKeeps DEF IncomeInv
<1>3. StubsSettled(stubs, recs)'
  BY <1>1, <1>2 DEF IncomeInv, StubsSettled, HadRecord, Named
<1>. QED
  BY <1>1, <1>2, <1>3 DEF IncomeInv

LEMMA DeclarationsCollapsed == ASSUME IncomeInv, CollapseDeclared PROVE IncomeInv'
<1>1. /\ pass = 8 /\ pass' = 9 /\ packet' = packet /\ stubs' = stubs /\ rows' = rows /\ recs' = Collapse(recs)
  BY PassOf DEF IncomeInv, CollapseDeclared, At
<1>2. /\ AreIncomes(recs') /\ OneEach(recs') /\ AreStubs(stubs') /\ rows' = {}
      /\ \A ps : HasOwn(ps, recs) => HasOwn(ps, recs')
  BY <1>1, CollapseKeeps, CollapseKeepsOwn DEF IncomeInv
<1>3. StubsSettled(stubs, recs)'
  BY <1>1, <1>2 DEF IncomeInv, StubsSettled, HadRecord, Named
<1>. QED
  BY <1>1, <1>2, <1>3 DEF IncomeInv

LEMMA IncomesCalculated == ASSUME IncomeInv, Calculate PROVE IncomeInv'
<1>1. /\ pass = 9 /\ pass' = 10 /\ packet' = packet /\ stubs' = stubs /\ recs' = recs
      /\ rows' = ShareOut(stubs, recs)
  BY PassOf DEF IncomeInv, Calculate, At
<1>2. AreIncomes(recs') /\ OneEach(recs') /\ AreStubs(stubs')
  BY <1>1 DEF IncomeInv
<1>3. StubsSettled(stubs, recs)'
  BY <1>1 DEF IncomeInv, StubsSettled, HadRecord, Named
<1>. QED
  BY <1>1, <1>2, <1>3 DEF IncomeInv

LEMMA IncomeStepHolds == IncomeInv /\ [IncomeNext \/ Finished]_vars => IncomeInv'
<1>. SUFFICES ASSUME IncomeInv, [IncomeNext \/ Finished]_vars PROVE IncomeInv'
  OBVIOUS
<1>1. CASE UNCHANGED vars
  BY <1>1 DEF vars, IncomeInv, StubsSettled, HadRecord, Named
<1>2. CASE IncomeNext
  BY <1>2, NamesInherited, CaseSeeded, OrphansGivenRecords, QuestionnaireLinked, NamesReconciled,
     CopiesResolved, SourcesMerged, DeclarationsCollapsed, IncomesCalculated DEF IncomeNext
<1>. QED
  BY <1>1, <1>2 DEF Finished

(* No income is listed twice when the passes are done.                     *)
THEOREM EachSourceOnce == Spec => []OneRecordPerSource
<1>1. IncomeInv => OneRecordPerSource
  <2>. SUFFICES ASSUME IncomeInv, Done PROVE OneEach(recs)
    BY DEF OneRecordPerSource, OneEach, SameEntry
  <2>1. pass = 10
    BY PassOf DEF IncomeInv, Done
  <2>. QED
    BY <2>1 DEF IncomeInv
<1>. QED
  BY IncomeStart, IncomeStepHolds, <1>1, PTL DEF Spec

(* A record a stub has of its own takes the stub.                          *)
LEMMA OwnTakesItsStub ==
  ASSUME AreIncomes(recs), NEW ps, HasOwn(ps, recs), ~(ps.source = NoSource /\ ps.member = NoMember)
  PROVE  RecordOf(ps, recs) # 0
<1>1. PICK i \in DOMAIN recs : recs[i].member = ps.member /\ recs[i].source = ps.source
  BY DEF HasOwn
<1>2. StubMatches(ps, recs[i])
  BY <1>1 DEF StubMatches, SameSource, Conflict, Overlap
<1>3. RecordsOf(ps, recs) \subseteq 1..Len(recs) /\ RecordsOf(ps, recs) # {}
  BY <1>1, <1>2, IncomesListed DEF RecordsOf
<1>4. First(RecordsOf(ps, recs)) \in RecordsOf(ps, recs)
  <2>1. RecordsOf(ps, recs) \subseteq Nat
    BY <1>3, IncomesListed
  <2>. QED
    BY <2>1, <1>3, FirstOf
<1>. QED
  BY <1>3, <1>4, IncomesListed DEF RecordOf

(* A stub that is left to a row of its own had a record to begin with, or  *)
(* nobody's name: the record made for an orphan is still there and takes   *)
(* it.                                                                     *)
THEOREM OrphansKeepTheirRecord == Spec => []OrphanStubsHaveARecord
<1>1. IncomeInv => OrphanStubsHaveARecord
  <2>. SUFFICES ASSUME IncomeInv, NEW row \in rows, row.record = 0, NEW k \in row.stubs,
                       ~(stubs[k].source = NoSource /\ stubs[k].member = NoMember)
                PROVE  RecordsOf(InheritNames(packet.stubs, packet.recs)[k], packet.recs) # {}
    BY DEF OrphanStubsHaveARecord
  <2>1. pass = 10 /\ rows = ShareOut(stubs, recs) /\ AreIncomes(recs) /\ StubsSettled(stubs, recs)
    BY DEF IncomeInv
  <2>2. k \in Loose(stubs, recs)
    <3>1. \A i \in DOMAIN recs : i # 0
      BY <2>1, IncomesListed
    <3>. QED
      BY <2>1, <3>1 DEF ShareOut
  <2>3. k \in DOMAIN stubs /\ RecordOf(stubs[k], recs) = 0
    BY <2>2 DEF Loose
  <2>4. ~HasOwn(stubs[k], recs)
    BY <2>1, <2>3, OwnTakesItsStub
  <2>5. HadRecord(k)
    BY <2>1, <2>3, <2>4 DEF StubsSettled
  <2>. QED
    BY <2>5 DEF HadRecord, Named
<1>. QED
  BY IncomeStart, IncomeStepHolds, <1>1, PTL DEF Spec

(* Collapsing the declarations drops no amount silently.                   *)
THEOREM NoFigureSilentlyDropped == Spec => CollapseDropsNoFigureSilently
<1>. DEFINE Told == \A i \in DeclaredRecords(recs) :
       Zero(recs[i].declared) > 0 =>
         \/ recs[i].member \in disputed'
         \/ \E j \in DOMAIN recs' :
              /\ recs'[j].member = recs[i].member /\ Heading(recs'[j]) = Heading(recs[i])
              /\ Zero(recs'[j].declared) = 0
                   \/ Compared(recs'[j], recs[i]) \in {"same figure", "monthly basis", "annual basis"}
<1>1. IncomeInv /\ [IncomeNext \/ Finished]_vars => [CollapseDeclared => Told]_vars
  <2>. SUFFICES ASSUME IncomeInv, CollapseDeclared PROVE Told
    OBVIOUS
  <2>1. recs' = Collapse(recs) /\ disputed' = disputed \cup DeclarationDisputes(recs) /\ AreIncomes(recs)
    BY DEF CollapseDeclared, IncomeInv
  <2>. QED
    BY <2>1, NoFigureDropped
<1>. QED
  BY IncomeStart, IncomeStepHolds, <1>1, PTL DEF Spec, CollapseDropsNoFigureSilently

-----------------------------------------------------------------------------
(* What a verified income loses in a merge, it loses to a record of its    *)
(* household-level type that lacks it.                                     *)
Spared(r, i, rs) ==
  LET beside == {o \in DOMAIN rs : rs[i].type \in HouseholdType /\ rs[o].type = rs[i].type} IN
  /\ r.type = rs[i].type /\ Verified(r)
  /\ HasAmount(r) \/ \E o \in beside : ~HasAmount(rs[o])
  /\ r.member = rs[i].member \/ \E o \in beside : rs[o].member = NoMember
  /\ r.source = rs[i].source \/ \E o \in beside : rs[o].dated = 0 \/ Generic(rs[o])

LEMMA AnyValueSaid ==
  ASSUME NEW rs, AreIncomes(rs), NEW G \in HouseholdGroups(rs), NEW H, H \subseteq G, Lead(rs, G) \in H,
         NEW f, rs[Lead(rs, G)][f] # None
  PROVE  FirstSaid(rs, H, ByHistory(rs, G), f) = rs[Lead(rs, G)][f]
<1>. DEFINE says == {i \in H : rs[i][f] # None}
            before == ByHistory(rs, G)
<1>1. says \subseteq G /\ Lead(rs, G) \in says
  OBVIOUS
<1>2. FirstSaid(rs, H, before, f) = rs[Foremost(says, before)][f]
  BY <1>1 DEF FirstSaid
<1>3. G \subseteq DOMAIN rs
  BY GroupsOf
<1>4. Ranks(before, G) /\ \A i \in G : <<i, i>> \notin before
  BY <1>3, HistoriesInOrder
<1>. HIDE DEF says
<1>5. Foremost(says, before) = Foremost(G, before)
  <2>. Foremost(G, before) \in says
    BY <1>1 DEF Lead
  <2>. HIDE DEF before
  <2>. QED
    BY <1>1, <1>3, <1>4, StillForemost
<1>. QED
  BY <1>2, <1>5 DEF Lead

LEMMA MergedHasAmount ==
  ASSUME NEW rs, AreIncomes(rs), NEW G \in HouseholdGroups(rs), HasAmount(rs[Lead(rs, G)])
  PROVE  HasAmount(MergedRecord(rs, G))
<1>. DEFINE one == G \ OtherPayers(rs, G)
            before == ByHistory(rs, G)
            lead == rs[Lead(rs, G)]
            r == MergedRecord(rs, G)
<1>1. one \subseteq G /\ Lead(rs, G) \in one
  BY LeadLeads DEF OtherPayers
<1>2. IsIncome(lead)
  BY LeadLeads DEF AreIncomes
<1>3. /\ r.declared = FirstSaid(rs, one, before, "declared") /\ r.figure = FirstSaid(rs, one, before, "figure")
      /\ r.paid = lead.paid
  BY <1>2 DEF MergedRecord, IsIncome
<1>. HIDE DEF one, r
<1>4. lead.declared # None => r.declared = lead.declared
  <2>1. lead["declared"] # None => FirstSaid(rs, one, before, "declared") = lead["declared"]
    BY <1>1, AnyValueSaid
  <2>. QED
    BY <1>3, <2>1
<1>5. lead.figure # None => r.figure = lead.figure
  <2>1. lead["figure"] # None => FirstSaid(rs, one, before, "figure") = lead["figure"]
    BY <1>1, AnyValueSaid
  <2>. QED
    BY <1>3, <2>1
<1>6. \/ Zero(lead.figure) > 0 /\ lead.figure # None
      \/ Zero(lead.declared) > 0 /\ lead.declared # None
      \/ lead.paid > 0
  BY DEF HasAmount, Zero
<1>7. r.paid = lead.paid
  BY <1>3
<1>. HIDE DEF lead
<1>. QED
  BY <1>4, <1>5, <1>6, <1>7 DEF HasAmount, r

LEMMA MergedIsSpared ==
  ASSUME NEW rs, AreIncomes(rs), NEW G \in HouseholdGroups(rs), NEW i \in G \ OtherPayers(rs, G),
         Verified(rs[i]), HasAmount(rs[i])
  PROVE  Spared(MergedRecord(rs, G), i, rs)
<1>. DEFINE l == Lead(rs, G)
            r == MergedRecord(rs, G)
            beside == {o \in DOMAIN rs : rs[i].type \in HouseholdType /\ rs[o].type = rs[i].type}
<1>1. /\ G \subseteq DOMAIN rs /\ rs[i].type \in HouseholdType
      /\ \A a, b \in G : rs[a].type = rs[b].type /\ (rs[a].member = rs[b].member \/ NoMember \in {rs[a].member, rs[b].member})
  BY GroupsOf
<1>2. l \in G /\ l \in beside
  BY <1>1, LeadLeads
<1>3. r.member = rs[l].member /\ r.type = rs[l].type /\ r.source = MergedSource(rs, G)
  BY MergedIsIncome
<1>4. Verified(r)
  <2>1. rs[i].status \in {"verified", "verified_not_declared"}
    <3>1. rs[i].status \in Status
      BY <1>1 DEF AreIncomes, IsIncome
    <3>. QED
      BY <3>1 DEF Verified, EvidenceRank, Status
  <2>2. IsIncome(rs[l])
    BY <1>1, <1>2 DEF AreIncomes
  <2>3. CASE FoldedAway(rs, G) = {}
    <3>1. i = l
      BY <2>3 DEF FoldedAway
    <3>2. r.status = rs[l].status
      BY <2>2, <2>3 DEF MergedRecord, IsIncome
    <3>. QED
      BY <2>1, <3>1, <3>2 DEF Verified, EvidenceRank
  <2>4. CASE FoldedAway(rs, G) # {}
    <3>1. \E j \in G \ OtherPayers(rs, G) : rs[j].status \in {"verified", "verified_not_declared"}
      BY <2>1
    <3>2. r.status \in {"verified", "verified_not_declared"}
      BY <2>2, <2>4, <3>1 DEF MergedRecord, IsIncome
    <3>. QED
      BY <3>2 DEF Verified, EvidenceRank
  <2>. QED
    BY <2>3, <2>4
<1>5. HasAmount(r) \/ ~HasAmount(rs[l])
  BY MergedHasAmount
<1>6. r.member = rs[i].member \/ NoMember \in {rs[l].member, rs[i].member}
  BY <1>1, <1>2, <1>3
<1>7. ASSUME rs[l].dated # 0, ~Generic(rs[l]), rs[i].dated # 0, ~Generic(rs[i]) PROVE r.source = rs[i].source
  <2>. DEFINE payers == {j \in G : ~Generic(rs[j])}
  <2>1. l \in payers /\ payers \subseteq G
    BY <1>2, <1>7
  <2>2. MergedSource(rs, G) = rs[Foremost(payers, ByHistory(rs, G))].source
    BY <2>1 DEF MergedSource
  <2>3. Ranks(ByHistory(rs, G), G) /\ \A j \in G : <<j, j>> \notin ByHistory(rs, G)
    BY <1>1, HistoriesInOrder
  <2>. HIDE DEF payers
  <2>4. Foremost(payers, ByHistory(rs, G)) = l
    BY <1>1, <2>1, <2>3, StillForemost DEF Lead
  <2>5. MergedSource(rs, G) = rs[l].source
    BY <2>2, <2>4
  <2>6. CASE i = l
    BY <1>3, <2>5, <2>6
  <2>7. CASE i # l
    <3>1. rs[l].dated > 0 /\ rs[i].dated > 0
      <4>1. IsIncome(rs[l]) /\ IsIncome(rs[i])
        BY <1>1, <1>2 DEF AreIncomes
      <4>. QED
        BY <4>1, <1>7 DEF IsIncome
    <3>2. rs[i].source = MergedSource(rs, G)
      BY <2>7, <3>1, <1>7 DEF OtherPayers
    <3>. QED
      BY <3>2, <1>3
  <2>. QED
    BY <2>6, <2>7
<1>8. i \in beside
  BY <1>1
<1>9. r.type = rs[i].type
  BY <1>1, <1>2, <1>3
<1>. HIDE DEF r, l
<1>. QED
  BY <1>2, <1>4, <1>5, <1>6, <1>7, <1>8, <1>9 DEF Spared, r

LEMMA MergeSpares ==
  ASSUME NEW rs, AreIncomes(rs), NEW i \in DOMAIN rs, Verified(rs[i]), HasAmount(rs[i])
  PROVE  \E k \in DOMAIN MergeHousehold(rs) : Spared(MergeHousehold(rs)[k], i, rs)
<1>. DEFINE folded == UNION {FoldedAway(rs, G) : G \in HouseholdGroups(rs)}
            ms == MergedList(rs)
<1>1. MergeHousehold(rs) = Without(ms, folded) /\ DOMAIN ms = DOMAIN rs
  BY DEF MergeHousehold, MergedList
<1>2. Len(rs) \in Nat /\ DOMAIN rs = 1..Len(rs)
  BY IncomesListed
<1>. HIDE DEF ms, folded
<1>3. ASSUME NEW j \in DOMAIN rs \ folded PROVE \E k \in DOMAIN MergeHousehold(rs) : MergeHousehold(rs)[k] = ms[j]
  <2>1. DOMAIN ms = 1..Len(rs) /\ j \in DOMAIN ms \ folded
    BY <1>1, <1>2
  <2>2. \E k \in DOMAIN Without(ms, folded) : Without(ms, folded)[k] = ms[j]
    BY <2>1, <1>2, StaysWithout
  <2>. QED
    BY <1>1, <2>2
<1>4. CASE \A G \in HouseholdGroups(rs) : i \notin G \/ i \in OtherPayers(rs, G)
  <2>1. i \notin folded
    BY <1>4 DEF folded, FoldedAway
  <2>2. \A G \in HouseholdGroups(rs) : Lead(rs, G) # i
    BY <1>4, LeadLeads DEF OtherPayers
  <2>3. ms[i] = rs[i]
    BY <2>2, MergedListOf DEF ms
  <2>4. Spared(rs[i], i, rs)
    BY DEF Spared
  <2>. QED
    BY <2>1, <2>3, <2>4, <1>3
<1>5. CASE \E G \in HouseholdGroups(rs) : i \in G /\ i \notin OtherPayers(rs, G)
  <2>1. PICK G \in HouseholdGroups(rs) : i \in G \ OtherPayers(rs, G)
    BY <1>5
  <2>. DEFINE l == Lead(rs, G)
  <2>2. l \in G /\ l \in DOMAIN rs
    BY LeadLeads
  <2>3. \A H \in HouseholdGroups(rs) : l \in H => H = G
    BY <2>2, GroupsOf
  <2>4. l \notin folded
    BY <2>3 DEF folded, FoldedAway
  <2>5. ms[l] = MergedRecord(rs, G)
    <3>1. PICK H \in HouseholdGroups(rs) : Lead(rs, H) = l /\ ms[l] = MergedRecord(rs, H)
      BY <2>2, MergedListOf DEF ms
    <3>2. H = G
      BY <3>1, <2>3, LeadLeads
    <3>. QED
      BY <3>1, <3>2
  <2>6. Spared(ms[l], i, rs)
    BY <2>1, <2>5, MergedIsSpared
  <2>. QED
    BY <2>2, <2>4, <2>6, <1>3
<1>. QED
  BY <1>4, <1>5

LEMMA CollapseSpares ==
  ASSUME NEW rs, AreIncomes(rs), NEW i \in DOMAIN rs, Verified(rs[i])
  PROVE  \E k \in DOMAIN Collapse(rs) : Collapse(rs)[k] = rs[i]
<1>. DEFINE cs == CollapsedList(rs)
<1>1. Collapse(rs) = Without(cs, Restated(rs)) /\ DOMAIN cs = DOMAIN rs
  BY DEF Collapse, CollapsedList
<1>2. i \notin DeclaredRecords(rs)
  BY DEF Verified, DeclaredRecords, EvidenceRank
<1>3. {j \in Restated(rs) : Keeper(rs, j) = i /\ Compared(rs[i], rs[j]) = "monthly basis"} = {}
  BY <1>2, KeeperOf DEF Restated
<1>4. cs[i] = rs[i]
  BY <1>3 DEF CollapsedList
<1>. HIDE DEF cs
<1>5. Len(rs) \in Nat /\ DOMAIN cs = 1..Len(rs) /\ i \in DOMAIN cs \ Restated(rs)
  BY <1>1, <1>2, IncomesListed DEF Restated
<1>6. \E k \in DOMAIN Without(cs, Restated(rs)) : Without(cs, Restated(rs))[k] = cs[i]
  BY <1>5, StaysWithout
<1>. QED
  BY <1>1, <1>4, <1>6

(* Until the names are reconciled the list is the one extraction gave with *)
(* wages for orphan stubs behind it; after the copies are resolved, every  *)
(* household-level record has what some record extraction gave has.        *)
SureIncome(r) == Verified(r) /\ Amount(r) > 0 /\ r.source # NoSource

AsExtracted(rs, spelt(_)) ==
  /\ DOMAIN packet.recs \subseteq DOMAIN rs
  /\ \A i \in DOMAIN packet.recs :
       SameReadingOf(rs[i], packet.recs[i]) /\ rs[i].member = spelt(packet.recs[i].member)
  /\ \A i \in DOMAIN rs \ DOMAIN packet.recs : rs[i].type = WageType

ComesFrom(r, o) ==
  /\ r.type = o.type /\ r.source = o.source /\ r.dated = o.dated /\ r.member = Person(o.member)
  /\ HasAmount(o) => HasAmount(r)

Derived(rs) ==
  /\ \A k \in DOMAIN rs : rs[k].type \in HouseholdType => \E i \in DOMAIN packet.recs : ComesFrom(rs[k], packet.recs[i])
  /\ \A i \in DOMAIN packet.recs : SureIncome(packet.recs[i]) =>
       \E k \in DOMAIN rs : /\ rs[k].type = packet.recs[i].type /\ rs[k].source = packet.recs[i].source
                            /\ rs[k].member = Person(packet.recs[i].member) /\ Verified(rs[k]) /\ HasAmount(rs[k])

Outlasts(x, r) ==
  /\ x.type = r.type /\ Verified(x)
  /\ HasAmount(x) \/ \E o \in Beside(r) : ~HasAmount(o)
  /\ x.member = Person(r.member) \/ \E o \in Beside(r) : o.member = NoMember
  /\ x.source = r.source \/ \E o \in Beside(r) : o.dated = 0 \/ Generic(o)

AllOutlast(rs) ==
  \A i \in DOMAIN packet.recs : SureIncome(packet.recs[i]) => \E j \in DOMAIN rs : Outlasts(rs[j], packet.recs[i])

AsSpelt(m) == m

SurvivalInv ==
  ~SeededOver =>
    /\ pass <= 3 => recs = packet.recs
    /\ pass \in {4, 5} => AsExtracted(recs, AsSpelt)
    /\ pass = 6 => AsExtracted(recs, Person)
    /\ pass = 7 => Derived(recs)
    /\ pass >= 8 => AllOutlast(recs)

LEMMA DerivedFrom ==
  ASSUME NEW rs, AreIncomes(rs), AsExtracted(rs, Person)
  PROVE  Derived(Resolve(rs))
<1>1. ASSUME NEW k \in DOMAIN Resolve(rs), Resolve(rs)[k].type \in HouseholdType
      PROVE  \E i \in DOMAIN packet.recs : ComesFrom(Resolve(rs)[k], packet.recs[i])
  <2>1. PICK o \in DOMAIN rs : HasAllOf(Resolve(rs)[k], rs[o])
    BY ResolveKeeps
  <2>2. Resolve(rs)[k].type = rs[o].type
    BY <2>1 DEF HasAllOf, SameEntry
  <2>3. o \in DOMAIN packet.recs
    BY <1>1, <2>2, WageAssumption DEF AsExtracted
  <2>4. SameReadingOf(rs[o], packet.recs[o]) /\ rs[o].member = Person(packet.recs[o].member)
    BY <2>3 DEF AsExtracted
  <2>5. HasAmount(packet.recs[o]) => HasAmount(rs[o])
    BY <2>4 DEF SameReadingOf, HasAmount
  <2>6. ComesFrom(Resolve(rs)[k], packet.recs[o])
    BY <2>1, <2>4, <2>5 DEF ComesFrom, HasAllOf, SameEntry, SameReadingOf
  <2>. QED
    BY <2>3, <2>6
<1>2. ASSUME NEW i \in DOMAIN packet.recs, SureIncome(packet.recs[i])
      PROVE  \E k \in DOMAIN Resolve(rs) :
               /\ Resolve(rs)[k].type = packet.recs[i].type /\ Resolve(rs)[k].source = packet.recs[i].source
               /\ Resolve(rs)[k].member = Person(packet.recs[i].member) /\ Verified(Resolve(rs)[k]) /\ HasAmount(Resolve(rs)[k])
  <2>1. i \in DOMAIN rs /\ SameReadingOf(rs[i], packet.recs[i]) /\ rs[i].member = Person(packet.recs[i].member)
    BY DEF AsExtracted
  <2>2. Verified(rs[i]) /\ Amount(rs[i]) > 0
    BY <1>2, <2>1 DEF SureIncome, SameReadingOf, Verified, Amount
  <2>3. PICK k \in DOMAIN Resolve(rs) : Resolve(rs)[k] = KeptCopy(rs, CopiesOf(rs, i))
    BY <2>1, ResolveKeeps
  <2>4. SameEntry(Resolve(rs)[k], rs[i]) /\ Verified(Resolve(rs)[k]) /\ HasAmount(Resolve(rs)[k])
    BY <2>1, <2>2, <2>3, CopyKept
  <2>. QED
    BY <2>1, <2>4 DEF SameEntry, SameReadingOf
<1>. QED
  BY <1>1, <1>2 DEF Derived

LEMMA MergedOutlast ==
  ASSUME packet \in Packet, NEW rs, AreIncomes(rs), Derived(rs)
  PROVE  AllOutlast(MergeHousehold(rs))
<1>. SUFFICES ASSUME NEW i \in DOMAIN packet.recs, SureIncome(packet.recs[i])
              PROVE  \E j \in DOMAIN MergeHousehold(rs) : Outlasts(MergeHousehold(rs)[j], packet.recs[i])
  BY DEF AllOutlast
<1>. DEFINE r == packet.recs[i]
<1>1. PICK k \in DOMAIN rs : /\ rs[k].type = r.type /\ rs[k].source = r.source /\ rs[k].member = Person(r.member)
                             /\ Verified(rs[k]) /\ HasAmount(rs[k])
  BY DEF Derived
<1>2. PICK j \in DOMAIN MergeHousehold(rs) : Spared(MergeHousehold(rs)[j], k, rs)
  BY <1>1, MergeSpares
<1>3. ASSUME NEW o \in DOMAIN rs, rs[k].type \in HouseholdType, rs[o].type = rs[k].type
      PROVE  \E p \in Beside(r) : ComesFrom(rs[o], p) /\ p.member \in Member \cup {NoMember}
  <2>1. PICK q \in DOMAIN packet.recs : ComesFrom(rs[o], packet.recs[q])
    BY <1>3 DEF Derived
  <2>2. packet.recs[q].type = r.type /\ r.type \in HouseholdType
    BY <1>1, <1>3, <2>1 DEF ComesFrom
  <2>3. packet.recs[q] \in Beside(r)
    BY <2>2 DEF Beside
  <2>4. packet.recs[q].member \in Member \cup {NoMember}
    BY ExtractionAssumption
  <2>. QED
    BY <2>1, <2>3, <2>4
<1>4. \A m \in Member \cup {NoMember} : Person(m) = NoMember => m = NoMember
  BY SpellingAssumption DEF Person
<1>. DEFINE x == MergeHousehold(rs)[j]
<1>. HIDE DEF r, x
<1>5. x.type = r.type /\ Verified(x)
  BY <1>1, <1>2 DEF Spared, x
<1>6. HasAmount(x) \/ \E o \in Beside(r) : ~HasAmount(o)
  <2>. SUFFICES ASSUME ~HasAmount(x) PROVE \E o \in Beside(r) : ~HasAmount(o)
    OBVIOUS
  <2>1. PICK o \in DOMAIN rs : rs[k].type \in HouseholdType /\ rs[o].type = rs[k].type /\ ~HasAmount(rs[o])
    BY <1>2 DEF Spared, x
  <2>. QED
    BY <2>1, <1>3 DEF ComesFrom
<1>7. x.member = Person(r.member) \/ \E o \in Beside(r) : o.member = NoMember
  <2>. SUFFICES ASSUME x.member # Person(r.member) PROVE \E o \in Beside(r) : o.member = NoMember
    OBVIOUS
  <2>1. PICK o \in DOMAIN rs : rs[k].type \in HouseholdType /\ rs[o].type = rs[k].type /\ rs[o].member = NoMember
    BY <1>1, <1>2 DEF Spared, x
  <2>2. PICK p \in Beside(r) : ComesFrom(rs[o], p) /\ p.member \in Member \cup {NoMember}
    BY <2>1, <1>3
  <2>3. Person(p.member) = NoMember
    BY <2>1, <2>2 DEF ComesFrom
  <2>. QED
    BY <2>2, <2>3, <1>4
<1>8. x.source = r.source \/ \E o \in Beside(r) : o.dated = 0 \/ Generic(o)
  <2>. SUFFICES ASSUME x.source # r.source PROVE \E o \in Beside(r) : o.dated = 0 \/ Generic(o)
    OBVIOUS
  <2>1. PICK o \in DOMAIN rs : /\ rs[k].type \in HouseholdType /\ rs[o].type = rs[k].type
                               /\ rs[o].dated = 0 \/ Generic(rs[o])
    BY <1>1, <1>2 DEF Spared, x
  <2>2. PICK p \in Beside(r) : ComesFrom(rs[o], p)
    BY <2>1, <1>3
  <2>. QED
    BY <2>1, <2>2 DEF ComesFrom, Generic
<1>9. Outlasts(x, r)
  BY <1>5, <1>6, <1>7, <1>8 DEF Outlasts
<1>. QED
  BY <1>9 DEF x, r

LEMMA CollapsedOutlast ==
  ASSUME NEW rs, AreIncomes(rs), AllOutlast(rs)
  PROVE  AllOutlast(Collapse(rs))
<1>. SUFFICES ASSUME NEW i \in DOMAIN packet.recs, SureIncome(packet.recs[i])
              PROVE  \E j \in DOMAIN Collapse(rs) : Outlasts(Collapse(rs)[j], packet.recs[i])
  BY DEF AllOutlast
<1>1. PICK k \in DOMAIN rs : Outlasts(rs[k], packet.recs[i])
  BY DEF AllOutlast
<1>2. Verified(rs[k])
  BY <1>1 DEF Outlasts
<1>3. PICK j \in DOMAIN Collapse(rs) : Collapse(rs)[j] = rs[k]
  BY <1>2, CollapseSpares
<1>. QED
  BY <1>1, <1>3

LEMMA SurvivalStepHolds == IncomeInv /\ SurvivalInv /\ [IncomeNext \/ Finished]_vars => SurvivalInv'
<1>. SUFFICES ASSUME IncomeInv, SurvivalInv, [IncomeNext \/ Finished]_vars, (~SeededOver)' PROVE SurvivalInv'
  BY DEF SurvivalInv
<1>1. CASE UNCHANGED vars
  BY <1>1 DEF vars, SurvivalInv, SeededOver, AsExtracted, Derived, AllOutlast, Outlasts, Beside
<1>2. CASE InheritStubNames
  <2>1. pass' = 2 /\ pass = 1 /\ recs' = recs /\ packet' = packet
    BY <1>2, PassOf DEF IncomeInv, InheritStubNames, At
  <2>. QED
    BY <2>1 DEF IncomeInv, SurvivalInv
<1>3. CASE SeedFromCertification
  <2>1. pass = 2 /\ pass' = 3 /\ packet' = packet
    BY <1>3, PassOf DEF IncomeInv, SeedFromCertification, At
  <2>2. stubs = InheritNames(packet.stubs, packet.recs) /\ recs = packet.recs
    BY <2>1 DEF IncomeInv, Named
  <2>3. ~(packet.total > 0 /\ ~HasRealIncome(stubs, recs))
    BY <2>1, <2>2 DEF SeededOver
  <2>4. recs' = packet'.recs
    BY <1>3, <2>1, <2>2, <2>3 DEF SeedFromCertification
  <2>. QED
    BY <2>1, <2>4 DEF SurvivalInv
<1>4. CASE ReconstructOrphanSources
  <2>1. pass = 3 /\ pass' = 4 /\ packet' = packet /\ recs' = Reconstruct(stubs, recs)
    BY <1>4, PassOf DEF IncomeInv, ReconstructOrphanSources, At
  <2>2. recs = packet.recs /\ AreIncomes(recs) /\ AreStubs(stubs)
    BY <2>1 DEF IncomeInv, SurvivalInv, SeededOver
  <2>3. AsExtracted(recs, AsSpelt)'
    BY <2>1, <2>2, ReconstructOwns DEF AsExtracted, AsSpelt, SameReadingOf
  <2>. QED
    BY <2>1, <2>3 DEF SurvivalInv
<1>5. CASE LinkQuestionnaire
  <2>1. pass = 4 /\ pass' = 5 /\ packet' = packet /\ recs' = Linked(packet.employers, recs)
    BY <1>5, PassOf DEF IncomeInv, LinkQuestionnaire, At
  <2>2. AsExtracted(recs, AsSpelt) /\ AreIncomes(recs)
    BY <2>1 DEF IncomeInv, SurvivalInv, SeededOver
  <2>3. AsExtracted(recs, AsSpelt)'
    BY <2>1, <2>2, LinkedKeeps DEF AsExtracted, AsSpelt, SameReadingOf
  <2>. QED
    BY <2>1, <2>3 DEF SurvivalInv
<1>6. CASE ReconcileNames
  <2>1. pass = 5 /\ pass' = 6 /\ packet' = packet /\ recs' = [i \in DOMAIN recs |-> Renamed(recs[i])]
    BY <1>6, PassOf DEF IncomeInv, ReconcileNames, At
  <2>2. AsExtracted(recs, AsSpelt) /\ AreIncomes(recs)
    BY <2>1 DEF IncomeInv, SurvivalInv, SeededOver
  <2>3. /\ DOMAIN recs' = DOMAIN recs
        /\ \A i \in DOMAIN recs : SameReadingOf(recs'[i], recs[i]) /\ recs'[i].member = Person(recs[i].member)
    BY <2>1, <2>2, RenamedKeeps
  <2>4. AsExtracted(recs, Person)'
    BY <2>1, <2>2, <2>3 DEF AsExtracted, AsSpelt, SameReadingOf, Person
  <2>. QED
    BY <2>1, <2>4 DEF SurvivalInv
<1>7. CASE ResolveDuplicates
  <2>1. pass = 6 /\ pass' = 7 /\ packet' = packet /\ recs' = Resolve(recs)
    BY <1>7, PassOf DEF IncomeInv, ResolveDuplicates, At
  <2>2. AsExtracted(recs, Person) /\ AreIncomes(recs)
    BY <2>1 DEF IncomeInv, SurvivalInv, SeededOver
  <2>3. Derived(Resolve(recs))
    BY <2>2, DerivedFrom
  <2>4. Derived(recs)'
    BY <2>1, <2>3 DEF Derived
  <2>. QED
    BY <2>1, <2>4 DEF SurvivalInv
<1>8. CASE MergeHouseholdSources
  <2>1. pass = 7 /\ pass' = 8 /\ packet' = packet /\ recs' = MergeHousehold(recs)
    BY <1>8, PassOf DEF IncomeInv, MergeHouseholdSources, At
  <2>2. Derived(recs) /\ AreIncomes(recs) /\ packet \in Packet
    BY <2>1 DEF IncomeInv, SurvivalInv, SeededOver
  <2>3. AllOutlast(MergeHousehold(recs))
    BY <2>2, MergedOutlast
  <2>4. AllOutlast(recs)'
    BY <2>1, <2>3 DEF AllOutlast, Outlasts, Beside
  <2>. QED
    BY <2>1, <2>4 DEF SurvivalInv
<1>9. CASE CollapseDeclared
  <2>1. pass = 8 /\ pass' = 9 /\ packet' = packet /\ recs' = Collapse(recs)
    BY <1>9, PassOf DEF IncomeInv, CollapseDeclared, At
  <2>2. AllOutlast(recs) /\ AreIncomes(recs)
    BY <2>1 DEF IncomeInv, SurvivalInv, SeededOver
  <2>3. AllOutlast(Collapse(recs))
    BY <2>2, CollapsedOutlast
  <2>4. AllOutlast(recs)'
    BY <2>1, <2>3 DEF AllOutlast, Outlasts, Beside
  <2>. QED
    BY <2>1, <2>4 DEF SurvivalInv
<1>10. CASE Calculate
  <2>1. pass = 9 /\ pass' = 10 /\ packet' = packet /\ recs' = recs
    BY <1>10, PassOf DEF IncomeInv, Calculate, At
  <2>2. AllOutlast(recs)
    BY <2>1 DEF SurvivalInv, SeededOver
  <2>3. AllOutlast(recs)'
    BY <2>1, <2>2 DEF AllOutlast, Outlasts, Beside
  <2>. QED
    BY <2>1, <2>3 DEF SurvivalInv
<1>. QED
  BY <1>1, <1>2, <1>3, <1>4, <1>5, <1>6, <1>7, <1>8, <1>9, <1>10 DEF IncomeNext, Finished

(* An income that a document verified with an amount outlasts every pass,  *)
(* but for what a record of its household-level type takes from it.        *)
THEOREM VerifiedIncomeOutlasts == Spec => []VerifiedIncomeSurvives
<1>1. Init => SurvivalInv
  BY DEF Init, SurvivalInv
<1>2. IncomeInv /\ SurvivalInv => VerifiedIncomeSurvives
  <2>. SUFFICES ASSUME IncomeInv, SurvivalInv, Done, ~SeededOver, NEW i \in DOMAIN packet.recs, SureIncome(packet.recs[i])
                PROVE  \E j \in DOMAIN recs : Outlasts(recs[j], packet.recs[i])
    BY DEF VerifiedIncomeSurvives, SureIncome, Outlasts
  <2>1. pass = 10
    BY PassOf DEF IncomeInv, Done
  <2>. QED
    BY <2>1 DEF SurvivalInv, AllOutlast
<1>. QED
  BY IncomeStart, IncomeStepHolds, SurvivalStepHolds, <1>1, <1>2, PTL DEF Spec
=============================================================================
