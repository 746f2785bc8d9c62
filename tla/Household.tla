------------------------------ MODULE Household ------------------------------
(***************************************************************************)
(* Who lives in the household (app/services/name_reconciler.py,            *)
(* pipeline.py, identity.py): the spellings of names across the packet are *)
(* clustered and the records renamed, the copies of a member extracted     *)
(* twice are merged, surnames are corrected from the certification, and    *)
(* each member takes the number and the birth date of the document with    *)
(* most authority.                                                         *)
(*                                                                         *)
(* A name is a model value with its similarity to the others, in percent,  *)
(* as _name_similarity computes it, and the key identity.py files it under *)
(* (first word of the first name, last name). An SSN has its last four     *)
(* digits, a date its month and day. Which member a printed value stands   *)
(* nearest to is part of the input.                                        *)
(***************************************************************************)
EXTENDS Records, SequencesExt

CONSTANTS
  Packets,     \* the packets read: [roster, named, titles, claims, cert]
  Similarity,  \* of two different names, in percent: [set of two -> Nat]
  NameLength,  \* the length of a name
  ShortName,   \* the key a member's claims are filed under
  OneEdit,     \* pairs of names whose surnames are one edit apart
  EndsIn,      \* the last four digits of a number, full or masked
  FullNumbers, \* the numbers that are not masked
  DayOf        \* the month and day of a date

IsMember(m) ==
  m = [name |-> m.name, dob |-> m.dob, ssn |-> m.ssn, gender |-> m.gender] /\ m.name \in DOMAIN NameLength

ASSUME PacketAssumption ==
  \A p \in Packets :
    /\ p.roster \in Seq(Range(p.roster)) /\ \A i \in DOMAIN p.roster : IsMember(p.roster[i])
    /\ p.named \in Seq([name : DOMAIN NameLength, trust : Nat])
    /\ p.titles \in Seq([name : DOMAIN NameLength, trust : Nat])
    /\ p.claims \in Seq(Range(p.claims))
    /\ \A k \in DOMAIN p.claims :
         p.claims[k].kind \in {"dob", "ssn"} /\ p.claims[k].rank \in Nat /\ p.claims[k].page \in Nat
ASSUME NameAssumption == \A n \in DOMAIN NameLength : NameLength[n] \in Nat

VARIABLES
  household,   \* the packet as it was read
  roster,      \* the members: [name, dob, ssn, gender]
  named,       \* the records that name a person: [name, trust]
  mentions,    \* every name the packet mentions: [name, trust, listed]
  clusters,    \* the spellings found to be one name
  conflicts,   \* the disagreements reported: [name, field]
  familyStep

familyVars == <<household, roster, named, mentions, clusters, conflicts, familyStep>>

ClusterAt == 55      \* _CLUSTER_THRESHOLD
ListTrust == 2       \* a household member's own entry, as "HUD 50059"
Certification == 0   \* AUTHORITY_CERT: lower outranks higher

HouseholdInit ==
  /\ household \in Packets
  /\ roster = household.roster /\ named = household.named
  /\ mentions = <<>> /\ clusters = <<>> /\ conflicts = {}
  /\ familyStep = "collect"

-----------------------------------------------------------------------------
(* Every name the packet mentions: the roster's, the records', and those   *)
(* of the document groups.                                                 *)
\* Mutant: the records' names are collected before the roster's.
MentionsOfRecordsFirst ==
  [i \in DOMAIN named |-> [name |-> named[i].name, trust |-> named[i].trust, listed |-> FALSE]]
    \o [i \in DOMAIN roster |-> [name |-> roster[i].name, trust |-> ListTrust, listed |-> TRUE]]
    \o [i \in DOMAIN household.titles |->
          [name |-> household.titles[i].name, trust |-> household.titles[i].trust, listed |-> FALSE]]
Mentions ==
  [i \in DOMAIN roster |-> [name |-> roster[i].name, trust |-> ListTrust, listed |-> TRUE]]
    \o [i \in DOMAIN named |-> [name |-> named[i].name, trust |-> named[i].trust, listed |-> FALSE]]
    \o [i \in DOMAIN household.titles |->
          [name |-> household.titles[i].name, trust |-> household.titles[i].trust, listed |-> FALSE]]

CollectNames ==
  /\ familyStep = "collect"
  /\ mentions' = Mentions
  /\ familyStep' = "cluster"
  /\ UNCHANGED <<household, roster, named, clusters, conflicts>>

NameSimilarity(a, b) == IF a = b THEN 100 ELSE Similarity[{a, b}]

(* The first name in no cluster takes every free name like it; two entries *)
(* of the roster are two people. (The code's second check, for a cluster   *)
(* begun by a record, asks whether the SAME entry is in it, which it never *)
(* is.)                                                                    *)
Free == DOMAIN mentions \ UNION Range(clusters)

ClusterNames ==
  /\ familyStep = "cluster" /\ Free # {}
  /\ LET seed == First(Free)
         joins(j) == /\ ~(mentions[seed].listed /\ mentions[j].listed)
                     /\ NameSimilarity(mentions[seed].name, mentions[j].name) >= ClusterAt
     IN clusters' = Append(clusters, {seed} \cup {j \in Free : joins(j)})
  /\ UNCHANGED <<household, roster, named, mentions, conflicts, familyStep>>

(* A cluster's spelling is its most trusted one; a spelling of several     *)
(* clusters takes the last's. The roster is not renamed.                   *)
Spelling(c) ==
  mentions[CHOOSE i \in c : \A j \in c \ {i} :
             mentions[i].trust < mentions[j].trust \/ (mentions[i].trust = mentions[j].trust /\ i < j)].name

Respelled(name) ==
  LET holding == {k \in DOMAIN clusters : /\ Cardinality(clusters[k]) > 1
                                          /\ \E i \in clusters[k] : mentions[i].name = name}
  IN IF holding = {} THEN name ELSE Spelling(clusters[Max(holding)])

RenameRecords ==
  /\ familyStep = "cluster" /\ Free = {}
  /\ named' = [i \in DOMAIN named |-> [named[i] EXCEPT !.name = Respelled(@)]]
  /\ familyStep' = "merge"
  /\ UNCHANGED <<household, roster, mentions, clusters, conflicts>>

-----------------------------------------------------------------------------
(* Members of one name, or of one birth date and last four digits, are     *)
(* copies of one person, and so are the copies of copies. The richest copy *)
(* stays and takes what it lacks from the others, the richer first; a date *)
(* or a number that differs from what it says by then is reported.         *)
Fields == {"dob", "ssn", "gender"}
Populated(m) == Cardinality({f \in Fields : m[f] # None})

SamePerson(a, b) ==
  \/ a.name = b.name
  \/ None \notin {a.dob, a.ssn, b.dob, b.ssn} /\ a.dob = b.dob /\ EndsIn[a.ssn] = EndsIn[b.ssn]

Copies(s, i) ==
  {j \in DOMAIN s : \A S \in SUBSET DOMAIN s :
     (i \in S /\ \A a \in S, b \in DOMAIN s : SamePerson(s[a], s[b]) => b \in S) => j \in S}

Richer(i, j) ==
  LET fields(k) == Populated(roster[k]) length(k) == NameLength[roster[k].name] IN
  \/ fields(i) > fields(j)
  \/ fields(i) = fields(j) /\ (length(i) > length(j) \/ (length(i) = length(j) /\ i < j))

Richest(G) == CHOOSE i \in G : \A j \in G \ {i} : Richer(i, j)

Disagree(a, b, field) ==
  /\ None \notin {a[field], b[field]} /\ a[field] # b[field]
  /\ field = "ssn" => EndsIn[a.ssn] # EndsIn[b.ssn]

(* The copy that stays of those in G.                                      *)
\* Mutant: each copy is compared with what the first one said.
FoldedAsRead(G) == roster[Richest(G)]
Folded(G) ==
  LET value(f) == LET stating == {i \in G : roster[i][f] # None} IN
                  IF stating = {} THEN None ELSE roster[Richest(stating)][f]
  IN [name |-> roster[Richest(G)].name, dob |-> value("dob"), ssn |-> value("ssn"), gender |-> value("gender")]

Reports(G) ==
  {[name |-> roster[Richest(G)].name, field |-> f] :
     f \in {g \in {"dob", "ssn"} : \E j \in G \ {Richest(G)} : Disagree(Folded({i \in G : Richer(i, j)}), roster[j], g)}}

MergeCopies ==
  /\ familyStep = "merge"
  /\ LET kept == SetToSortSeq({i \in DOMAIN roster : Richest(Copies(roster, i)) = i}, <)
     IN roster' = [k \in DOMAIN kept |-> Folded(Copies(roster, kept[k]))]
  /\ conflicts' = conflicts \cup UNION {Reports(Copies(roster, i)) : i \in DOMAIN roster}
  /\ familyStep' = "snap"
  /\ UNCHANGED <<household, named, mentions, clusters>>

-----------------------------------------------------------------------------
(* A name the certification does not print takes the form's spelling when  *)
(* the form prints exactly one a letter away.                              *)
Near(name) == {c \in household.cert : <<name, c>> \in OneEdit}

SnapNames ==
  /\ familyStep = "snap"
  /\ roster' = [i \in DOMAIN roster |->
       LET n == roster[i].name IN
       IF n \in household.cert \/ Cardinality(Near(n)) # 1 THEN roster[i]
       ELSE [roster[i] EXCEPT !.name = CHOOSE c \in Near(n) : TRUE]]
  /\ familyStep' = "identity"
  /\ UNCHANGED <<household, named, mentions, clusters, conflicts>>

(* What the packet prints of a member, the document with most authority    *)
(* first, then the earliest page.                                          *)
\* Mutant: the earliest page first, whatever the document.
OutranksByPage(n, k) ==
  LET c == household.claims[n] d == household.claims[k] IN
  c.page < d.page \/ (c.page = d.page /\ (c.rank < d.rank \/ (c.rank = d.rank /\ n < k)))
Outranks(n, k) ==
  LET c == household.claims[n] d == household.claims[k] IN
  c.rank < d.rank \/ (c.rank = d.rank /\ (c.page < d.page \/ (c.page = d.page /\ n < k)))

Stated(key, kind) ==
  {n \in DOMAIN household.claims : household.claims[n].kind = kind /\ ShortName[household.claims[n].of] = key}
Value(n) == household.claims[n].value
Best(S) == Value(CHOOSE n \in S : \A k \in S \ {n} : Outranks(n, k))

OthersSay(key, kind) ==
  {Best(Stated(k, kind)) : k \in {n \in {ShortName[roster[i].name] : i \in DOMAIN roster} :
                                     n # key /\ Stated(n, kind) # {}}}

(* The full number that ends as the best document says, else what that     *)
(* document prints, unless the member's own agrees with it.                *)
NumberOf(m) ==
  LET stated == Stated(ShortName[m.name], "ssn")
      full == {n \in stated : EndsIn[Value(n)] = EndsIn[Best(stated)] /\ Value(n) \in FullNumbers}
  IN IF stated = {} THEN m.ssn
     ELSE IF /\ m.ssn # None /\ EndsIn[m.ssn] = EndsIn[Best(stated)]
             /\ full = {} \/ m.ssn \in FullNumbers THEN m.ssn
     ELSE IF full # {} THEN Best(full) ELSE Best(stated)

BirthOf(m) == LET stated == Stated(ShortName[m.name], "dob") IN IF stated = {} THEN m.dob ELSE Best(stated)

(* A value that differs from the best and is not another member's.         *)
Contradicted(m, kind, ends) ==
  LET stated == Stated(ShortName[m.name], kind)
      others == OthersSay(ShortName[m.name], kind)
  IN \E n \in stated : /\ ends[Value(n)] # ends[Best(stated)]
                       /\ IF kind = "ssn" THEN ends[Value(n)] \notin {ends[v] : v \in others}
                          ELSE Value(n) \notin others

ResolveIdentities ==
  /\ familyStep = "identity"
  /\ roster' = [i \in DOMAIN roster |-> [roster[i] EXCEPT !.ssn = NumberOf(roster[i]), !.dob = BirthOf(roster[i])]]
  /\ conflicts' = conflicts \cup
       {[name |-> roster[i].name, field |-> "ssn"] : i \in {j \in DOMAIN roster : Contradicted(roster[j], "ssn", EndsIn)}} \cup
       {[name |-> roster[i].name, field |-> "dob"] : i \in {j \in DOMAIN roster : Contradicted(roster[j], "dob", DayOf)}}
  /\ familyStep' = "done"
  /\ UNCHANGED <<household, named, mentions, clusters>>

HouseholdNext ==
  \/ CollectNames \/ ClusterNames \/ RenameRecords \/ MergeCopies \/ SnapNames \/ ResolveIdentities
  \/ (familyStep = "done" /\ UNCHANGED familyVars)

HouseholdSpec == HouseholdInit /\ [][HouseholdNext]_familyVars

-----------------------------------------------------------------------------
(* _cluster_names: two entries of the household list are never one         *)
(* person's spellings, whichever spelling began the cluster: a record read *)
(* with a name between two members' does not join them.                    *)
MembersAreNeverJoined ==
  \A c \in Range(clusters) : \A i, j \in c : i # j => ~(mentions[i].listed /\ mentions[j].listed)

(* _deduplicate_household_members: a conflicting identity value on a copy  *)
(* is evidence, not noise. Any two merged copies that state different      *)
(* birth dates, or numbers that end differently, leave a finding, also     *)
(* when the copy that stays stated neither.                                *)
ConflictingIdentitiesAreReported ==
  familyStep \notin {"collect", "cluster", "merge"} =>
    \A i, j \in DOMAIN household.roster, f \in {"dob", "ssn"} :
      (j \in Copies(household.roster, i) /\ Disagree(household.roster[i], household.roster[j], f)) =>
         \E c \in conflicts, k \in Copies(household.roster, i) :
            c.field = f /\ c.name = household.roster[k].name

(* identity.py: handwriting never overrides a printed certification value. *)
(* A member who shares the key with nobody ends with a birth date and a    *)
(* number the certification prints for them, if it prints one, whatever    *)
(* was read first and whatever the other documents say.                    *)
TheCertificationsValueStands ==
  familyStep = "done" =>
    \A i \in DOMAIN roster, k \in DOMAIN household.claims :
      LET c == household.claims[k]
          printed(kind) == {household.claims[n].value : n \in {p \in DOMAIN household.claims :
             household.claims[p].of = c.of /\ household.claims[p].kind = kind
               /\ household.claims[p].rank = Certification}}
      IN (c.of = roster[i].name /\ c.rank = Certification
            /\ \A n \in DOMAIN household.claims : household.claims[n].of # c.of => ShortName[household.claims[n].of] # ShortName[c.of]) =>
         IF c.kind = "dob" THEN roster[i].dob \in printed("dob")
         ELSE EndsIn[roster[i].ssn] \in {EndsIn[v] : v \in printed("ssn")}
=============================================================================
