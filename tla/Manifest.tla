------------------------------ MODULE Manifest ------------------------------
(***************************************************************************)
(* Linking a payload to what Cartograph already holds                      *)
(* (app/services/cartograph/manifest.py, adapter.py): each income or asset *)
(* record is given the member its name is closest to, each member the held *)
(* member with the best claim, and each record the held record of that     *)
(* person, type and source. A wrong link writes one person's figures onto  *)
(* another's record.                                                       *)
(*                                                                         *)
(* Names and sources are model values with their similarity in percent;    *)
(* types are canonical, as the alias table leaves them.                    *)
(***************************************************************************)
EXTENDS Records, SequencesExt

CONSTANTS
  Payloads,  \* [members, records, held, heldRecords]
  Closeness  \* of two different names or sources, in percent: [set of two -> 0..100]

ASSUME NoneAssumption == None \notin Nat

VARIABLES
  payload,     \* what is linked to what
  refs,        \* the member of each record, None for nobody
  claimed,     \* the claims still to be awarded
  memberLink,  \* the held member each member is, None for none
  recordLink,  \* the held record each record is, None for none
  linkStep

linkVars == <<payload, refs, claimed, memberLink, recordLink, linkStep>>

RefAt == 72        \* _NAME_MATCH_THRESHOLD, _NAME_ALONE_THRESHOLD
WithBirthDate == 45
OverBirthDate == 90
SourceAt == 60

Likeness(a, b) == IF a = b THEN 100 ELSE Closeness[{a, b}]

ASSUME PayloadAssumption ==
  \A p \in Payloads :
    /\ DOMAIN p.members \subseteq Nat /\ DOMAIN p.held \subseteq Nat
    /\ DOMAIN p.records \subseteq Nat /\ DOMAIN p.heldRecords \subseteq Nat
    /\ \A i \in DOMAIN p.members, j \in DOMAIN p.held : \A n \in p.held[j].names : Likeness(p.members[i].name, n) \in 0..100
    /\ \A i \in DOMAIN p.records, j \in DOMAIN p.heldRecords :
         None \notin {p.records[i].source, p.heldRecords[j].source} =>
           Likeness(p.records[i].source, p.heldRecords[j].source) \in 0..100

LinkInit ==
  /\ payload \in Payloads
  /\ refs = <<>> /\ claimed = {}
  /\ memberLink = [i \in DOMAIN payload.members |-> None]
  /\ recordLink = [i \in DOMAIN payload.records |-> None]
  /\ linkStep = "refs"

(* The member whose name is closest to the record's, the first of equals.  *)
RefOf(r) ==
  LET score(i) == Likeness(r.name, payload.members[i].name)
      best == {i \in DOMAIN payload.members : /\ score(i) >= RefAt
                                              /\ \A k \in DOMAIN payload.members : score(k) <= score(i)}
  IN IF r.name = None \/ best = {} THEN None ELSE First(best)

(* Every pair of a member and a held member that could be one person: the  *)
(* birth dates agree and the name is recognisable (2), one is missing and  *)
(* the name is close (1), they differ and the name is near-identical (0).  *)
NameScore(m, h) == Max({0} \cup {Likeness(m.name, n) : n \in h.names})
SameBirth(m, h) == m.dob # None /\ m.dob = h.dob
OtherBirth(m, h) == None \notin {m.dob, h.dob} /\ m.dob # h.dob

MayBe(m, h) ==
  LET score == NameScore(m, h) IN
  \/ SameBirth(m, h) /\ score >= WithBirthDate
  \/ ~SameBirth(m, h) /\ ~OtherBirth(m, h) /\ score >= RefAt
  \/ OtherBirth(m, h) /\ score >= OverBirthDate

Tier(m, h) == IF SameBirth(m, h) THEN 2 ELSE IF OtherBirth(m, h) THEN 0 ELSE 1

MemberClaim(i, j) ==
  [ours |-> i, theirs |-> j, tier |-> Tier(payload.members[i], payload.held[j]),
   score |-> NameScore(payload.members[i], payload.held[j])]
MemberClaims ==
  {MemberClaim(p[1], p[2]) :
     p \in {p \in (DOMAIN payload.members) \X (DOMAIN payload.held) : MayBe(payload.members[p[1]], payload.held[p[2]])}}

(* A record's claims on the held records of its person and type: the only  *)
(* one whatever its source, of several those with a close source.          *)
HeldAlike(i) ==
  {j \in DOMAIN payload.heldRecords :
     /\ refs[i] # None /\ memberLink[refs[i]] # None
     /\ payload.heldRecords[j].of = memberLink[refs[i]]
     /\ payload.heldRecords[j].type = payload.records[i].type}

SourceScore(i, j) ==
  IF None \in {payload.records[i].source, payload.heldRecords[j].source} THEN 0
  ELSE Likeness(payload.records[i].source, payload.heldRecords[j].source)

OnlyOneAlike(i) == Cardinality(HeldAlike(i)) = 1
RecordClaim(i, j) ==
  [ours |-> i, theirs |-> j, tier |-> 1, score |-> IF OnlyOneAlike(i) THEN 100 + SourceScore(i, j) ELSE SourceScore(i, j)]
RecordClaims ==
  {RecordClaim(p[1], p[2]) :
     p \in {p \in (DOMAIN payload.records) \X (DOMAIN payload.heldRecords) :
        p[2] \in HeldAlike(p[1]) /\ (OnlyOneAlike(p[1]) \/ SourceScore(p[1], p[2]) >= SourceAt)}}

(* The claims are awarded one by one, the best of those left first: by     *)
(* tier, then likeness, then the later of the payload's and of the held    *)
(* rows. Each is awarded when both its sides are free.                     *)
\* Mutant: the closest name first, whatever the birth dates say.
PrecedesByName(c, d) ==
  \/ c.score > d.score
  \/ c.score = d.score /\ (c.tier > d.tier \/ (c.tier = d.tier /\ (c.ours > d.ours \/ (c.ours = d.ours /\ c.theirs > d.theirs))))
Precedes(c, d) ==
  \/ c.tier > d.tier
  \/ c.tier = d.tier /\ (c.score > d.score \/ (c.score = d.score /\ (c.ours > d.ours \/ (c.ours = d.ours /\ c.theirs > d.theirs))))

IsBest(c) == c \in claimed /\ \A d \in claimed \ {c} : Precedes(c, d)
IsFree(link, c) == link[c.ours] = None /\ \A i \in DOMAIN link : link[i] # c.theirs
WithLink(link, c) == [link EXCEPT ![c.ours] = c.theirs]

ResolveRefs ==
  /\ linkStep = "refs"
  /\ refs' = [i \in DOMAIN payload.records |-> RefOf(payload.records[i])]
  /\ claimed' = MemberClaims
  /\ linkStep' = "members"
  /\ UNCHANGED <<payload, memberLink, recordLink>>

(* A link over a differing birth date is refused beside any other claim of *)
(* either side.                                                            *)
Rivals(c) == {d \in MemberClaims : d # c /\ (d.ours = c.ours \/ d.theirs = c.theirs)}

AwardMember ==
  /\ linkStep = "members"
  /\ \E c \in claimed :
     /\ IsBest(c)
     /\ memberLink' = IF IsFree(memberLink, c) /\ (c.tier = 0 => Rivals(c) = {}) THEN WithLink(memberLink, c) ELSE memberLink
     /\ claimed' = claimed \ {c}
  /\ UNCHANGED <<payload, refs, recordLink, linkStep>>

BeginRecords ==
  /\ linkStep = "members" /\ claimed = {}
  /\ claimed' = RecordClaims
  /\ linkStep' = "records"
  /\ UNCHANGED <<payload, refs, memberLink, recordLink>>

AwardRecord ==
  /\ linkStep = "records"
  /\ \E c \in claimed :
     /\ IsBest(c)
     /\ recordLink' = IF IsFree(recordLink, c) THEN WithLink(recordLink, c) ELSE recordLink
     /\ claimed' = claimed \ {c}
  /\ UNCHANGED <<payload, refs, memberLink, linkStep>>

AllLinked == linkStep = "records" /\ claimed = {}

LinkNext ==
  \/ ResolveRefs \/ AwardMember \/ BeginRecords \/ AwardRecord
  \/ (AllLinked /\ UNCHANGED linkVars)

LinkSpec == LinkInit /\ [][LinkNext]_linkVars

-----------------------------------------------------------------------------
(* manifest.py: a candidate that two payload rows both claim goes to the   *)
(* better claim only. Once everything is linked, a claim that was not      *)
(* awarded lost one of its sides to a claim at least as good (a birth date *)
(* that agrees before a name), each held row has one payload row, and a    *)
(* link over a differing birth date has no rival.                          *)
AtLeast(a, b) == a.tier > b.tier \/ (a.tier = b.tier /\ a.score >= b.score)

Settled(claims, link) ==
  /\ \A i, k \in DOMAIN link : i # k /\ link[i] # None => link[i] # link[k]
  /\ \A c \in claims : link[c.ours] # c.theirs =>
       \E d \in claims : link[d.ours] = d.theirs /\ (d.ours = c.ours \/ d.theirs = c.theirs) /\ AtLeast(d, c)

RowsGoToTheBetterClaim ==
  AllLinked =>
    /\ Settled({c \in MemberClaims : c.tier > 0}, memberLink)
    /\ \A c \in MemberClaims : c.tier = 0 /\ memberLink[c.ours] = c.theirs => Rivals(c) = {}
    /\ Settled(RecordClaims, recordLink)
=============================================================================
