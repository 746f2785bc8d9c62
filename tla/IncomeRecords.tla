---------------------------- MODULE IncomeRecords ----------------------------
(***************************************************************************)
(* The passes the extracted income records go through, one action each, in *)
(* their order in run_extraction_pipeline (app/services/pipeline.py):      *)
(* orphan pay stubs inherit names, an AR-SC case is seeded from the        *)
(* certification, sources that exist only as stubs get a record, the       *)
(* questionnaire's employers are linked, member names are reconciled,      *)
(* records read twice are collapsed, household-level sources are merged,   *)
(* declared duplicates are collapsed, and the stubs are shared out for the *)
(* calculations.                                                           *)
(*                                                                         *)
(* A record keeps whom it names (member, source), what kind of income it   *)
(* is, the evidence behind it, the figure a document verifies, the figure  *)
(* the household declared and where, the length of its dated payment       *)
(* history and what the history adds up to; `sheet` marks a manager's      *)
(* worksheet, whose rows are undated.                                      *)
(***************************************************************************)
EXTENDS Records

CONSTANTS
  Member, NoMember,  \* [given, last]: the spelling of a person's name
  Canonical,         \* the spelling the name reconciler settles on
  Source, NoSource,
  SelfDeclaration,   \* the name of a record seeded from the certification
  GenericSource,     \* names taken from the income type or the statement, not a payer
  Alike,             \* pairs of names the overlap tests take for the same payer
  HouseholdType,     \* types that reach a household from one order or agency
  BenefitType,       \* types of the Social Security family
  WageType,
  CertForm,          \* declaring documents that are the certification form
  Application,       \* the declaring document a questionnaire counts as
  Packet             \* what extraction may hand over: [recs, stubs, head, kind, total, employers, listed]

ASSUME SourceAssumption == GenericSource \subseteq Source /\ SelfDeclaration \in Source /\ Alike \subseteq Source \X Source
ASSUME SpellingAssumption == Canonical \in [Member -> Member] /\ NoMember \notin Member

Status == {"verified", "verified_not_declared", "self_certified", "declared_only"}

(* A record, as the extractor reads it.                                    *)
IsIncome(r) ==
  /\ r = [member |-> r.member, source |-> r.source, type |-> r.type, status |-> r.status,
          figure |-> r.figure, declared |-> r.declared, doc |-> r.doc, dated |-> r.dated,
          sheet |-> r.sheet, paid |-> r.paid, workNumber |-> r.workNumber]
  /\ r.status \in Status /\ r.dated \in Nat /\ r.declared \in Int \cup {None}

ASSUME ExtractionAssumption ==
  \A p \in Packet :
    /\ p.recs \in Seq({p.recs[i] : i \in DOMAIN p.recs})
    /\ \A i \in DOMAIN p.recs : IsIncome(p.recs[i]) /\ p.recs[i].member \in Member \cup {NoMember}
    /\ \A k \in DOMAIN p.stubs : p.stubs[k] = [member |-> p.stubs[k].member, source |-> p.stubs[k].source]
    /\ p.stubs \in Seq({p.stubs[k] : k \in DOMAIN p.stubs}) /\ p.total \in Int

\* A household-level type is support or assistance (extractor.py), never a wage.
ASSUME WageAssumption == WageType \notin HouseholdType

VARIABLES packet, recs, stubs, unverified, disputed, rows, pass

vars == <<packet, recs, stubs, unverified, disputed, rows, pass>>

EvidenceRank(status) ==
  CASE status \in {"verified", "verified_not_declared"} -> 0
    [] status = "self_certified" -> 1
    [] status = "declared_only" -> 2

SameSource(a, b) == a = b \/ <<a, b>> \in Alike \/ <<b, a>> \in Alike

(* Whole names share a token; given names do not agree.                    *)
Overlap(m, n) == m.given = n.given \/ m.last = n.last
Conflict(m, n) == m.given # n.given

-----------------------------------------------------------------------------
(* A stub with a name missing takes it from the first Work Number record.  *)
InheritNames(ss, rs) ==
  LET W == {i \in DOMAIN rs : rs[i].workNumber /\ rs[i].source # NoSource} IN
  IF W = {} THEN ss
  ELSE [k \in DOMAIN ss |->
          [ss[k] EXCEPT !.source = IF @ = NoSource THEN rs[First(W)].source ELSE @,
                        !.member = IF @ = NoMember THEN rs[First(W)].member ELSE @]]

(* An AR-SC case none of whose records carries a figure, and without       *)
(* stubs, is given one from the certification's household income.          *)
HasRealIncome(ss, rs) ==
  ss # <<>> \/ \E i \in DOMAIN rs : Zero(rs[i].figure) > 0 \/ Zero(rs[i].declared) > 0

Blank(member, source, type) ==
  [member |-> member, source |-> source, type |-> type, status |-> "verified",
   figure |-> None, declared |-> None, doc |-> None, dated |-> 0, sheet |-> FALSE,
   paid |-> 0, workNumber |-> FALSE]

Seeded(head, kind, total) ==
  [Blank(head, SelfDeclaration, kind) EXCEPT !.declared = total, !.doc = CHOOSE d \in CertForm : TRUE]

(* The stubs a record gets: those no earlier record took whose source it   *)
(* matches, the members' given names not conflicting, and, for a record    *)
(* without a source, those whose member's name overlaps its own.           *)
StubMatches(ps, r) ==
  \/ /\ r.source # NoSource /\ ps.source # NoSource /\ SameSource(r.source, ps.source)
     /\ r.member = NoMember \/ ps.member = NoMember \/ ~Conflict(r.member, ps.member)
  \/ r.source = NoSource /\ r.member # NoMember /\ ps.member # NoMember /\ Overlap(r.member, ps.member)

RecordsOf(ps, rs) == {i \in DOMAIN rs : StubMatches(ps, rs[i])}
RecordOf(ps, rs) == IF RecordsOf(ps, rs) = {} THEN 0 ELSE First(RecordsOf(ps, rs))

(* The stubs no record takes, one group per source and member.             *)
Loose(ss, rs) == {k \in DOMAIN ss : RecordOf(ss[k], rs) = 0}

\* Mutant: by source alone.
KeyBySource(ps) == <<ps.source>>

Key(ps) == <<ps.source, ps.member>>

Reconstruct(ss, rs) ==
  LET L == Loose(ss, rs)
      firsts == {k \in L : \A j \in L : Key(ss[j]) = Key(ss[k]) => k <= j}
      order == AsListed(firsts) IN
  rs \o [i \in DOMAIN order |-> Blank(ss[order[i]].member, ss[order[i]].source, WageType)]

(* The questionnaire's employers. Each is declared on the record of the    *)
(* first payer its name matches (the last record of that payer), and the   *)
(* one employer it names on the only wage source of the file; those that   *)
(* no record, stub or wage source accounts for are reported.               *)
WageSources(rs) == {i \in DOMAIN rs : rs[i].type = WageType /\ rs[i].status # "declared_only"}
SoleWage(rs) == Cardinality(WageSources(rs)) = 1

RecordOfEmployer(e, rs) ==
  LET M == {i \in DOMAIN rs : rs[i].source # NoSource /\ SameSource(e, rs[i].source)} IN
  {i \in M : rs[i].source = rs[First(M)].source /\ \A j \in M : rs[j].source = rs[i].source => j <= i}

Linked(employers, rs) ==
  LET declared == UNION {RecordOfEmployer(e, rs) : e \in employers}
                    \cup (IF Cardinality(employers) = 1 /\ SoleWage(rs) THEN WageSources(rs) ELSE {}) IN
  [i \in DOMAIN rs |-> IF i \in declared THEN [rs[i] EXCEPT !.doc = Or(@, Application)] ELSE rs[i]]

(* An employer no record, stub or declared line (`listed`) names.          *)
Unaccounted(employers, listed, ss, rs) ==
  {e \in employers :
     /\ \A i \in DOMAIN rs : rs[i].source = NoSource \/ ~SameSource(e, rs[i].source)
     /\ \A k \in DOMAIN ss : ss[k].source = NoSource \/ ~SameSource(e, ss[k].source)
     /\ \A s \in listed : ~SameSource(e, s)
     /\ ~(Cardinality(employers) = 1 /\ SoleWage(rs))}

Renamed(x) == [x EXCEPT !.member = IF @ = NoMember THEN @ ELSE Canonical[@]]

-----------------------------------------------------------------------------
(* A second record of one member, source and type is the same income read  *)
(* twice. The best-evidenced one with an amount is kept and takes the      *)
(* others' declaration.                                                    *)
Amount(r) == IF r.figure # None THEN r.figure ELSE IF r.declared # None THEN r.declared ELSE r.paid

\* Mutant: the record with most fields filled in is kept, whatever its evidence.
ReadTwiceRankByFields(r) ==
  EvidenceRank(r.status) + (IF Amount(r) > 0 THEN 0 ELSE 4)
    + 8 * Cardinality({f \in {"figure", "declared"} : r[f] = None})

ReadTwiceRank(r) ==
  8 * EvidenceRank(r.status) + (IF Amount(r) > 0 THEN 0 ELSE 4)
    + Cardinality({f \in {"figure", "declared"} : r[f] = None})

\* Mutant: the same evidence too.
SameReading(r, o) == <<r.member, r.source, r.type, r.status>> = <<o.member, o.source, o.type, o.status>> /\ r.source # NoSource

SameIncome(r, o) == r.member = o.member /\ r.source = o.source /\ r.type = o.type /\ r.source # NoSource

CopiesOf(rs, i) == {j \in DOMAIN rs : j = i \/ SameIncome(rs[j], rs[i])}

KeptCopy(rs, G) ==
  LET order == Ranked(rs, G, ReadTwiceRank) IN
  [rs[Foremost(G, order)] EXCEPT !.declared = FirstSaid(rs, G, order, "declared"), !.doc = FirstSaid(rs, G, order, "doc")]

\* The groups come in the order in which their keys were met.
Place(rs, i) ==
  First({j \in DOMAIN rs : <<rs[j].member, rs[j].source, rs[j].type>> = <<rs[i].member, rs[i].source, rs[i].type>>})

Resolve(rs) ==
  LET firsts == {i \in DOMAIN rs : First(CopiesOf(rs, i)) = i}
      order == Ordered(firsts, {ij \in firsts \X firsts :
                 \/ Place(rs, ij[1]) < Place(rs, ij[2])
                 \/ (Place(rs, ij[1]) = Place(rs, ij[2]) /\ ij[1] < ij[2])}) IN
  [k \in DOMAIN order |-> KeptCopy(rs, CopiesOf(rs, order[k]))]

-----------------------------------------------------------------------------
(* One member's records of one household-level type are documents about    *)
(* one source, unless two payers each have a dated history of their own; a *)
(* record that names no member belongs to the one member with that type.   *)
Generic(r) == r.source = NoSource \/ r.source \in GenericSource

Owners(rs, type) == {rs[i].member : i \in {i \in DOMAIN rs : rs[i].type = type /\ rs[i].member # NoMember}}

HouseholdGroup(rs, m, type) ==
  {i \in DOMAIN rs : rs[i].type = type /\ (rs[i].member = m \/ (rs[i].member = NoMember /\ Owners(rs, type) = {m}))}

\* A record that names no member comes after those of its rank that do.
HistoryRank(r) == 2 * EvidenceRank(r.status) - 8 * r.dated + (IF r.member = NoMember THEN 1 ELSE 0)

ByHistory(rs, G) == Ranked(rs, G, HistoryRank)
Lead(rs, G) == Foremost(G, ByHistory(rs, G))

\* The keeper takes the name of the first payer met, if it has none.
MergedSource(rs, G) ==
  LET named == {i \in G : ~Generic(rs[i])} IN
  IF named = {} THEN rs[Lead(rs, G)].source ELSE rs[Foremost(named, ByHistory(rs, G))].source

OtherPayers(rs, G) ==
  {i \in G \ {Lead(rs, G)} : /\ rs[Lead(rs, G)].dated > 0 /\ rs[i].dated > 0
                             /\ ~Generic(rs[i]) /\ rs[i].source # MergedSource(rs, G)}

FoldedAway(rs, G) == (G \ {Lead(rs, G)}) \ OtherPayers(rs, G)

MergedRecord(rs, G) ==
  LET one == G \ OtherPayers(rs, G)
      declared == FirstSaid(rs, one, ByHistory(rs, G), "declared")
      verified == \E i \in one : rs[i].status \in {"verified", "verified_not_declared"} IN
  [rs[Lead(rs, G)] EXCEPT
     !.declared = declared, !.doc = FirstSaid(rs, one, ByHistory(rs, G), "doc"),
     !.figure = FirstSaid(rs, one, ByHistory(rs, G), "figure"),
     !.source = MergedSource(rs, G),
     !.status = IF FoldedAway(rs, G) = {} \/ ~verified THEN @
                ELSE IF declared # None THEN "verified" ELSE "verified_not_declared"]

(* The worksheet's total and the dated history's differ by more than 10 %. *)
Differ(keep, other) ==
  /\ other.sheet /\ other.dated = 0 /\ other.paid > 0 /\ keep.dated >= 2 /\ keep.paid > 0
  /\ LET gap == keep.paid - other.paid
         most == IF gap > 0 THEN keep.paid ELSE other.paid IN
     10 * (IF gap > 0 THEN gap ELSE -gap) > most

HouseholdGroups(rs) ==
  {HouseholdGroup(rs, m, t) : m \in {rs[i].member : i \in DOMAIN rs} \ {NoMember}, t \in HouseholdType} \ {{}}

MergeHousehold(rs) ==
  LET led(i) == {G \in HouseholdGroups(rs) : Lead(rs, G) = i} IN
  Without([i \in DOMAIN rs |-> IF led(i) = {} THEN rs[i] ELSE MergedRecord(rs, CHOOSE G \in led(i) : TRUE)],
          UNION {FoldedAway(rs, G) : G \in HouseholdGroups(rs)})

WorksheetDisputes(rs) ==
  {rs[Lead(rs, G)].member : G \in {G \in HouseholdGroups(rs) : \E k \in FoldedAway(rs, G) : Differ(rs[Lead(rs, G)], rs[k])}}

-----------------------------------------------------------------------------
(* Two declared records of one member and heading are one income declared  *)
(* on two documents: the certification form's line is kept, another        *)
(* document's is dropped, and a figure that is neither the same nor its    *)
(* monthly basis is disputed.                                              *)
Heading(r) == IF r.type \in BenefitType THEN BenefitType ELSE {r.type}

DeclaredRecords(rs) == {i \in DOMAIN rs : rs[i].status \in {"declared_only", "self_certified"} /\ rs[i].member # NoMember}

DeclaredGroup(rs, i) ==
  {j \in DeclaredRecords(rs) : rs[j].member = rs[i].member /\ Heading(rs[j]) = Heading(rs[i])}

\* Certification lines first, then the larger amount.
ByForm(rs, G) ==
  LET form(i) == IF rs[i].doc \in CertForm THEN 0 ELSE 1
      amount(i) == Zero(rs[i].declared) IN
  {ij \in G \X G : \/ form(ij[1]) < form(ij[2])
                  \/ /\ form(ij[1]) = form(ij[2])
                     /\ amount(ij[1]) > amount(ij[2]) \/ (amount(ij[1]) = amount(ij[2]) /\ ij[1] < ij[2])}

Keeper(rs, i) == Foremost(DeclaredGroup(rs, i), ByForm(rs, DeclaredGroup(rs, i)))

Compared(keep, other) ==
  IF Zero(keep.declared) = 0 \/ Zero(other.declared) = 0 THEN "no comparable amount"
  ELSE CASE 50 * Distance(other.declared, keep.declared) <= keep.declared          -> "same figure"
         [] 100 * Distance(12 * other.declared, keep.declared) < 12 * keep.declared -> "monthly basis"
         [] 100 * Distance(other.declared, 12 * keep.declared) < 12 * keep.declared -> "annual basis"
         [] OTHER                                                                  -> "different figure"

Restates(keep, other) == keep.doc # other.doc \/ keep.doc = None

Restated(rs) == {j \in DeclaredRecords(rs) : Keeper(rs, j) # j /\ Restates(rs[Keeper(rs, j)], rs[j])}

Collapse(rs) ==
  LET monthly(i) == {j \in Restated(rs) : Keeper(rs, j) = i /\ Compared(rs[i], rs[j]) = "monthly basis"} IN
  Without([i \in DOMAIN rs |->
             IF monthly(i) # {} /\ rs[i].figure = None
             THEN [rs[i] EXCEPT !.figure = rs[Foremost(monthly(i), ByForm(rs, monthly(i)))].declared] ELSE rs[i]],
          Restated(rs))

\* Mutant: only another certification form's figure is compared.
DeclarationDisputesOfForms(rs) ==
  {rs[j].member : j \in {j \in Restated(rs) : rs[j].doc \in CertForm /\ Compared(rs[Keeper(rs, j)], rs[j]) = "different figure"}}

DeclarationDisputes(rs) ==
  {rs[j].member : j \in {j \in Restated(rs) : Compared(rs[Keeper(rs, j)], rs[j]) = "different figure"}}

-----------------------------------------------------------------------------
(* The calculations: a row per record with the stubs it gets, and one per  *)
(* group of stubs no record takes. A row is [record, stubs].               *)
ShareOut(ss, rs) ==
  {[record |-> i, stubs |-> {k \in DOMAIN ss : RecordOf(ss[k], rs) = i}] : i \in DOMAIN rs}
    \cup {[record |-> 0, stubs |-> {j \in Loose(ss, rs) : Key(ss[j]) = Key(ss[k])}] : k \in Loose(ss, rs)}

-----------------------------------------------------------------------------
Passes == <<"inherit", "seed", "reconstruct", "link", "names", "resolve", "merge", "collapse", "calculate", "done">>

Init ==
  /\ packet \in Packet
  /\ recs = packet.recs /\ stubs = packet.stubs
  /\ unverified = {} /\ disputed = {} /\ rows = {}
  /\ pass = 1

At(name) == Passes[pass] = name /\ pass' = pass + 1 /\ UNCHANGED packet

InheritStubNames ==
  /\ At("inherit")
  /\ stubs' = InheritNames(stubs, recs)
  /\ UNCHANGED <<recs, unverified, disputed, rows>>

SeedFromCertification ==
  /\ At("seed")
  /\ recs' = IF packet.total > 0 /\ ~HasRealIncome(stubs, recs) THEN <<Seeded(packet.head, packet.kind, packet.total)>> ELSE recs
  /\ UNCHANGED <<stubs, unverified, disputed, rows>>

ReconstructOrphanSources ==
  /\ At("reconstruct")
  /\ recs' = Reconstruct(stubs, recs)
  /\ UNCHANGED <<stubs, unverified, disputed, rows>>

LinkQuestionnaire ==
  /\ At("link")
  /\ recs' = Linked(packet.employers, recs)
  /\ unverified' = Unaccounted(packet.employers, packet.listed, stubs, recs)
  /\ UNCHANGED <<stubs, disputed, rows>>

ReconcileNames ==
  /\ At("names")
  /\ recs' = [i \in DOMAIN recs |-> Renamed(recs[i])]
  /\ stubs' = [k \in DOMAIN stubs |-> Renamed(stubs[k])]
  /\ UNCHANGED <<unverified, disputed, rows>>

ResolveDuplicates ==
  /\ At("resolve")
  /\ recs' = Resolve(recs)
  /\ UNCHANGED <<stubs, unverified, disputed, rows>>

MergeHouseholdSources ==
  /\ At("merge")
  /\ recs' = MergeHousehold(recs)
  /\ disputed' = disputed \cup WorksheetDisputes(recs)
  /\ UNCHANGED <<stubs, unverified, rows>>

CollapseDeclared ==
  /\ At("collapse")
  /\ recs' = Collapse(recs)
  /\ disputed' = disputed \cup DeclarationDisputes(recs)
  /\ UNCHANGED <<stubs, unverified, rows>>

Calculate ==
  /\ At("calculate")
  /\ rows' = ShareOut(stubs, recs)
  /\ UNCHANGED <<recs, stubs, unverified, disputed>>

IncomeNext ==
  \/ InheritStubNames \/ SeedFromCertification \/ ReconstructOrphanSources \/ LinkQuestionnaire
  \/ ReconcileNames \/ ResolveDuplicates \/ MergeHouseholdSources \/ CollapseDeclared \/ Calculate

Finished == Passes[pass] = "done" /\ UNCHANGED vars
Spec == Init /\ [][IncomeNext \/ Finished]_vars

-----------------------------------------------------------------------------
Done == Passes[pass] = "done"
Verified(r) == EvidenceRank(r.status) = 0
Person(m) == IF m = NoMember THEN NoMember ELSE Canonical[m]

\* The certification's total took the place of the whole list.
SeededOver == packet.total > 0 /\ ~HasRealIncome(InheritNames(packet.stubs, packet.recs), packet.recs)

HasAmount(r) == Zero(r.figure) > 0 \/ Zero(r.declared) > 0 \/ r.paid > 0

(* The records a household-level one may be merged with.                   *)
Beside(r) == {packet.recs[k] : k \in {k \in DOMAIN packet.recs : r.type \in HouseholdType /\ packet.recs[k].type = r.type}}

(* An income that a document verified with an amount is still there,       *)
(* verified, with an amount, and under its member and payer, after every   *)
(* merge: a declaration, a $0.00 row or a copy read beside it never        *)
(* replaces it. Of a household-level income only what every document of    *)
(* the type has is sure to stay: its amount, if none of them lacks one,    *)
(* its member, if all name one, and its payer, if each has a dated history *)
(* under a payer's name.                                                   *)
VerifiedIncomeSurvives ==
  Done /\ ~SeededOver => \A i \in DOMAIN packet.recs : LET r == packet.recs[i] IN
    Verified(r) /\ Amount(r) > 0 /\ r.source # NoSource =>
      \E j \in DOMAIN recs :
        /\ recs[j].type = r.type /\ Verified(recs[j])
        /\ HasAmount(recs[j]) \/ \E o \in Beside(r) : ~HasAmount(o)
        /\ recs[j].member = Person(r.member) \/ \E o \in Beside(r) : o.member = NoMember
        /\ recs[j].source = r.source \/ \E o \in Beside(r) : o.dated = 0 \/ Generic(o)

(* No income is listed twice: two records of the final list never name the *)
(* same member, payer and type, however the copies were read and whatever  *)
(* name a merge gave the record it kept.                                   *)
OneRecordPerSource ==
  Done => \A i, j \in DOMAIN recs :
    i # j /\ recs[i].source # NoSource =>
      <<recs[i].member, recs[i].source, recs[i].type>> # <<recs[j].member, recs[j].source, recs[j].type>>

(* A stub shared out to no record at the end names neither a payer nor a   *)
(* person, or had a record when extraction ended and lost it to a rename   *)
(* or a merge. So a source that existed only as stubs has one: the record  *)
(* made for it at 3c is still there and takes the stub.                    *)
OrphanStubsHaveARecord ==
  \A row \in rows : row.record = 0 =>
    \A k \in row.stubs :
      \/ stubs[k].source = NoSource /\ stubs[k].member = NoMember
      \/ RecordsOf(InheritNames(packet.stubs, packet.recs)[k], packet.recs) # {}

(* Collapsing the declarations drops no amount silently: the kept line     *)
(* states the dropped one's figure or its monthly or annual basis, or the  *)
(* member's figures are reported as disputed.                              *)
CollapseDropsNoFigureSilently ==
  [][CollapseDeclared => \A i \in DeclaredRecords(recs) :
       Zero(recs[i].declared) > 0 =>
         \/ recs[i].member \in disputed'
         \/ \E j \in DOMAIN recs' :
              /\ recs'[j].member = recs[i].member /\ Heading(recs'[j]) = Heading(recs[i])
              /\ Zero(recs'[j].declared) = 0
                   \/ Compared(recs'[j], recs[i]) \in {"same figure", "monthly basis", "annual basis"}]_vars
==============================================================================
