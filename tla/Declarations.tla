---------------------------- MODULE Declarations ----------------------------
(***************************************************************************)
(* What the household declared meets what documents verify                 *)
(* (extract_income after its reads, app/services/extractor.py): records of *)
(* one payer are merged, misread magnitudes repaired, total rows dropped,  *)
(* each declared line attached to the record it is about or kept as a      *)
(* record of its own, verified records no line was attached to are marked  *)
(* undeclared, and the statements of one benefit become one record.        *)
(*                                                                         *)
(* Amounts are whole dollars. `about` names the income of the household a  *)
(* record or a line is really about; the code does not see it.             *)
(***************************************************************************)
EXTENDS Records, SequencesExt

CONSTANTS
  NoMember, SpelledAlike,   \* pairs of spellings _same_member takes for one person
  NoSource, SharedWord,     \* pairs of payers whose names share a word
  SsaPayer, NoType,
  CertForm,                 \* the documents that are the certification form
  DeclaredCase              \* what the reads may hand over: [vis, stubs, lines, total, selfCertified]

VARIABLES declCase, vis, lines, table, stubSources, declPhase

declVars == <<declCase, vis, lines, table, stubSources, declPhase>>

SamePerson(a, b) == a # NoMember /\ b # NoMember /\ (a = b \/ {a, b} \in SpelledAlike)
SharesWord(a, b) == a # NoSource /\ b # NoSource /\ (a = b \/ {a, b} \in SharedWord)

-----------------------------------------------------------------------------
(* Two labels are one type when they share a word; a word of two types     *)
(* matches only where it is the label itself.                              *)
TypeWords ==
  ("social security" :> {"social security", "ssa", "ss", "retirement"})
    @@ ("ssi" :> {"ssi", "supplemental security income"})
    @@ ("ssdi" :> {"ssdi", "disability"})
    @@ ("child support" :> {"child support"})
    @@ ("pension" :> {"pension", "retirement"})
    @@ ("wage" :> {"wage", "employment", "salary"})
    @@ ("federal wage" :> {"wage", "federal wage"})
    @@ ("self-employment" :> {"self-employment", "business"})

AmbiguousWord == {w \in UNION Range(TypeWords) : Cardinality({t \in DOMAIN TypeWords : w \in TypeWords[t]}) > 1}

Meanings(t) == IF t = NoType THEN {} ELSE IF t \in DOMAIN TypeWords THEN TypeWords[t] ELSE {t}

SameType(a, b) ==
  \/ a # NoType /\ a = b
  \/ LET shared == Meanings(a) \cap Meanings(b) IN
     IF {a, b} \cap AmbiguousWord # {} THEN shared # {} ELSE shared \ AmbiguousWord # {}

SourceOverlap(a, b) == SharesWord(a, b) \/ (a # NoSource /\ b # NoSource /\ SameType(a, b))

Earned(t) == t \in {"wage", "federal wage", "self-employment", "employment"}
BenefitFamily(t) == t \in {"social security", "ssi", "ssdi", "ss", "ssa"}
HouseholdLevel(t) == t \in {"child support", "alimony", "tanf", "public assistance"}
Untyped(t) == t \in {NoType, "other"}

-----------------------------------------------------------------------------
PerYear(period) ==
  CASE period = "annually" -> 1 [] period = "monthly" -> 12 [] period = "weekly" -> 52
    [] period = "bi-weekly" -> 26 [] period = "semi-monthly" -> 24 [] OTHER -> None

(* The annual figure of a line, of a record, of a payer's stubs.           *)
Annualised(amount, period) == IF amount = None \/ PerYear(period) = None THEN None ELSE amount * PerYear(period)
AnnualOf(d) == Annualised(d.amount, d.period)
RecordAnnual(r) == Or(r.history, Or(Annualised(r.rate, r.period), Annualised(r.self, r.period)))

(* A figure of zero is a figure.                                          *)
HasAmount(r) == r.history # None \/ r.rate # None \/ r.self # None

Close(a, b) == a # None /\ b # None /\ (Distance(a, b) <= 1 \/ 50 * Distance(a, b) <= b)

Above(x, total) == 100 * x > 102 * total

OwnStatement(r) == r.status \in {"declared_only", "self_certified"}

-----------------------------------------------------------------------------
(* One payer, one member, one type is one source: the record that carries  *)
(* an amount is kept and filled from the other.                            *)
Filled(keep, other) ==
  [keep EXCEPT !.rate = Or(@, other.rate), !.period = Or(@, other.period), !.history = Or(@, other.history),
               !.self = Or(@, other.self), !.selfDoc = Or(@, other.selfDoc),
               !.declared = Or(@, other.declared), !.cert = Or(@, other.cert)]

Twins(rs, r) ==
  {i \in DOMAIN rs : /\ ~OwnStatement(rs[i]) /\ ~OwnStatement(r)
                     /\ SamePerson(rs[i].member, r.member) /\ SameType(rs[i].type, r.type)
                     /\ SharesWord(rs[i].source, r.source)}

WithTwin(rs, r) ==
  IF Twins(rs, r) = {} THEN Append(rs, r)
  ELSE LET i == First(Twins(rs, r)) IN
       [rs EXCEPT ![i] = IF HasAmount(@) \/ ~HasAmount(r) THEN Filled(@, r) ELSE Filled(r, @)]

MergeSameSource(rs) == FoldLeft(WithTwin, <<>>, rs)

-----------------------------------------------------------------------------
(* A declared figure no household can have, above the certification's      *)
(* total, is a dollar sign read as a digit or a decimal point read as a    *)
(* separator; the reading that fits under the total and that a verified    *)
(* figure corroborates replaces it, and without one the line is dropped.   *)
TensIn(x) == {p \in {10, 100, 1000, 10000, 100000} : p <= x}
WithoutLeadingDigit(x) == x % Max(TensIn(x))

Readings(x) ==
  (IF x < 10 THEN <<>> ELSE <<WithoutLeadingDigit(x)>>) \o (IF x >= 1000 /\ x % 1000 = 0 THEN <<x \div 1000>> ELSE <<>>)

Impossible(d, total) ==
  LET x == Or(AnnualOf(d), IF d.period = None THEN d.amount ELSE None) IN
  x # None /\ Above(x, total) /\ x > 300000

Corroborated(x, verified) ==
  \E v \in verified : v > 0 /\ 5 * Distance(x, v) <= IF x > v THEN x ELSE v

RepairedLine(d, total, verified) ==
  LET periods == IF d.period = None THEN <<"monthly", "annually">> ELSE <<d.period>>
      n == Len(periods)
      tries == [k \in 1..(n * Len(Readings(d.amount))) |->
                  [amount |-> Readings(d.amount)[((k - 1) \div n) + 1], period |-> periods[((k - 1) % n) + 1]]]
      fits == {k \in DOMAIN tries : LET x == Annualised(tries[k].amount, tries[k].period) IN
                 x # None /\ ~Above(x, total) /\ Corroborated(x, verified)} IN
  IF d.amount = None \/ total = 0 \/ ~Impossible(d, total) THEN d
  ELSE IF fits = {} THEN [d EXCEPT !.amount = None]
  ELSE [d EXCEPT !.amount = tries[First(fits)].amount, !.period = tries[First(fits)].period]

VerifiedFigures(rs, ss) == ({RecordAnnual(r) : r \in Range(rs)} \cup {s.annual : s \in Range(ss)}) \ {None}

(* A verified figure above the household's total by a leading digit is the *)
(* figure the certification declares for that member, and of its type      *)
(* where no other record carries that type.                                *)
RepairedRecord(rs, i, ds, total) ==
  LET r == rs[i]
      fixed == WithoutLeadingDigit(r.rate)
      x == (RecordAnnual(r) * fixed) \div r.rate
      same == {k \in DOMAIN ds : SamePerson(r.member, ds[k].member) /\ Close(AnnualOf(ds[k]), x)}
      type == ds[First(same)].type
      carried == \E j \in DOMAIN rs \ {i} : ~OwnStatement(rs[j]) /\ SamePerson(rs[j].member, r.member) /\ SameType(rs[j].type, type) IN
  IF OwnStatement(r) \/ total = 0 \/ Zero(r.rate) < 10 \/ RecordAnnual(r) = None \/ ~Above(Zero(RecordAnnual(r)), total) THEN r
  ELSE IF Above(x, total) \/ same = {} THEN r
  ELSE [r EXCEPT !.rate = fixed, !.type = IF type = NoType \/ SameType(@, type) \/ carried THEN @ ELSE type]

RepairRecords(rs, ds, total) ==
  FoldLeftDomain(LAMBDA acc, i : [acc EXCEPT ![i] = RepairedRecord(acc, i, ds, total)], rs, rs)

-----------------------------------------------------------------------------
(* A line that sums two or more other lines of its page is a total; an     *)
(* untyped one also where it sums lines of any page, or is within 3 % of   *)
(* the certification's total.                                              *)
OneDigitApart(a, b) ==
  \E p \in {1, 10, 100, 1000, 10000} : a # b /\ a % p = b % p /\ a \div (10 * p) = b \div (10 * p) /\ a >= 10 * p /\ b >= 10 * p

SumsTo(x, ds, others) ==
  \E K \in SUBSET {k \in others : Zero(ds[k].amount) # 0} :
    /\ Cardinality(K) \in 2..6
    /\ LET sum == MapThenSumSet(LAMBDA k : ds[k].amount, K) IN sum = x \/ OneDigitApart(sum, x)

Restating(t) == t \in {NoType, "other", "total", "household income", "all sources"}

TotalRow(ds, i, total) ==
  LET x == ds[i].amount IN
  /\ Zero(x) # 0
  /\ \/ SumsTo(x, ds, {k \in DOMAIN ds \ {i} : ds[k].page = ds[i].page})
     \/ Restating(ds[i].type) /\ (SumsTo(x, ds, DOMAIN ds \ {i}) \/ (total > 0 /\ 100 * Distance(x, total) <= 3 * total))

DropTotals(ds, total) ==
  Without(ds, {i \in DOMAIN ds : TotalRow(ds, i, total)})

-----------------------------------------------------------------------------
(* A salary times a pay-frequency checkbox is no annual figure: the line's *)
(* period becomes unknown, in the table too.                               *)
Plausible(d) == IF Zero(AnnualOf(d)) > 400000 THEN [d EXCEPT !.period = None] ELSE d

(* The records a line may be about.                                        *)
Candidates(rs, d) ==
  {i \in DOMAIN rs :
     /\ rs[i].status # "declared_only" /\ SamePerson(rs[i].member, d.member)
     /\ \/ SameType(rs[i].type, d.type)
        \/ SourceOverlap(rs[i].source, d.source)
        \/ Close(RecordAnnual(rs[i]), AnnualOf(d))
        \/ d.source = NoSource /\ Earned(d.type) /\ Earned(rs[i].type)}

Claimed(r) == r.declared # None \/ r.selfDoc # None

Unclaimed(rs, d) ==
  {i \in DOMAIN rs : ~OwnStatement(rs[i]) /\ SamePerson(rs[i].member, d.member) /\ ~Claimed(rs[i])}

(* The member's one record of a household-level type or of the Social      *)
(* Security family, under another member, is what the line is about.       *)
OfType(rs, d) ==
  {i \in DOMAIN rs : rs[i].status # "declared_only"
     /\ (SameType(rs[i].type, d.type) \/ (BenefitFamily(d.type) /\ BenefitFamily(rs[i].type)))}

\* Mutant: only under the member the line names.
UnderAnotherNever(rs, d) == {}

UnderAnother(rs, d) ==
  IF /\ HouseholdLevel(d.type) \/ BenefitFamily(d.type)
     /\ Cardinality(OfType(rs, d)) = 1
     /\ \A i \in OfType(rs, d) : ~SamePerson(rs[i].member, d.member)
  THEN OfType(rs, d) ELSE {}

About(rs, d) ==
  IF Candidates(rs, d) # {} THEN Candidates(rs, d)
  ELSE IF Untyped(d.type) /\ Cardinality(Unclaimed(rs, d)) = 1 THEN Unclaimed(rs, d)
  ELSE UnderAnother(rs, d)

(* An untyped line of a member whose records are all declared is a second  *)
(* declaration of the one whose figure is nearest, noted there if it is    *)
(* within half of it.                                                      *)
Mine(rs, d) ==
  {i \in DOMAIN rs : ~OwnStatement(rs[i]) /\ (SamePerson(rs[i].member, d.member) \/ HouseholdLevel(rs[i].type))}

\* The distance in percent of the larger figure.
Gap(r, x) ==
  LET ref == Zero(Or(r.declared, RecordAnnual(r))) IN (100 * Distance(ref, x)) \div Max({ref, x, 1})

Nearest(rs, d) ==
  LET gap(i) == Gap(rs[i], AnnualOf(d)) IN
  First({i \in Mine(rs, d) : \A j \in Mine(rs, d) : gap(i) <= gap(j)})

SecondDeclaration(rs, d) ==
  /\ Candidates(rs, d) = {} /\ Untyped(d.type) /\ Unclaimed(rs, d) = {} /\ Zero(AnnualOf(d)) # 0
  /\ Mine(rs, d) # {} /\ Gap(rs[Nearest(rs, d)], AnnualOf(d)) <= 50

(* The line is attached: the first declared annual figure stays, the       *)
(* form's own line is kept apart, and the household's own statement takes  *)
(* the place the form's line had.                                          *)
Attached(r, d) ==
  LET own == r.selfDoc \in CertForm /\ d.doc \notin CertForm
      said == (r.self = None \/ own) /\ d.amount # None /\ (r.period = None \/ d.period \in {None, r.period}) IN
  [r EXCEPT !.declared = Or(@, AnnualOf(d)),
            !.cert = IF d.doc \in CertForm THEN Or(@, Or(AnnualOf(d), d.amount)) ELSE @,
            !.self = IF said THEN d.amount ELSE @,
            !.selfDoc = IF said THEN d.doc ELSE @,
            !.period = IF said THEN Or(@, d.period) ELSE @]

BestOf(rs, d) ==
  LET agreeing == {i \in About(rs, d) : Close(RecordAnnual(rs[i]), AnnualOf(d))} IN
  IF agreeing # {} THEN First(agreeing) ELSE First(About(rs, d))

(* Wages only stubs verify: the stubs' payer is the verification, once.    *)
StubSourceOf(ss, d) ==
  LET wage == SameType(d.type, "wage") \/ d.type = NoType IN
  {k \in DOMAIN ss : SamePerson(ss[k].member, d.member)
     /\ (wage \/ (d.source # NoSource /\ SourceOverlap(ss[k].source, d.source)))}

OwnRecord(d, member, source, status) ==
  [member |-> member, type |-> d.type, source |-> source, status |-> status, rate |-> None, period |-> d.period,
   history |-> None, self |-> d.amount, selfDoc |-> d.doc, declared |-> AnnualOf(d),
   cert |-> IF d.doc \in CertForm THEN Or(AnnualOf(d), d.amount) ELSE None, about |-> d.about]

(* The lines are the whole table: they add up to the form's own total.     *)
Complete(ds, total) ==
  LET real == SelectSeq(ds, LAMBDA d : d.type # "zero income")
      sum == FoldLeft(LAMBDA a, d : a + Zero(AnnualOf(d)), 0, real) IN
  /\ total > 0 /\ real # <<>>
  /\ \A k \in DOMAIN real : AnnualOf(real[k]) # None
  /\ Distance(sum, total) <= 50 \/ 10 * Distance(sum, total) <= total

-----------------------------------------------------------------------------
(* One member's one benefit is one record: two verified statements of the  *)
(* same figure are folded, and the form's one line joins the one verified  *)
(* record that has none.                                                   *)
SsaRecords(rs) == {i \in DOMAIN rs : (BenefitFamily(rs[i].type) \/ rs[i].source \in SsaPayer) /\ rs[i].member # NoMember}
BenefitGroup(rs, i) == {j \in SsaRecords(rs) : SamePerson(rs[i].member, rs[j].member)}

SameBenefit(rs) ==
  {p \in SsaRecords(rs) \X SsaRecords(rs) :
     /\ p[1] < p[2] /\ p[2] \in BenefitGroup(rs, p[1])
     /\ ~OwnStatement(rs[p[1]]) /\ ~OwnStatement(rs[p[2]])
     /\ Close(RecordAnnual(rs[p[1]]), RecordAnnual(rs[p[2]]))}

FirstPair(P) == CHOOSE p \in P : \A q \in P : p[1] < q[1] \/ (p[1] = q[1] /\ p[2] <= q[2])

KeeperRank(r) ==
  (IF r.declared # None \/ r.self # None THEN 0 ELSE 2) + (IF r.status = "verified" THEN 0 ELSE 1)

FoldStatement(rs, i, j) ==
  LET keep == IF KeeperRank(rs[i]) <= KeeperRank(rs[j]) THEN i ELSE j
      other == IF keep = i THEN j ELSE i IN
  Without([rs EXCEPT ![keep] = [Filled(@, rs[other]) EXCEPT !.status =
             IF rs[other].status = "verified" THEN "verified" ELSE @]], {other})

LoneLines(rs) ==
  {p \in SsaRecords(rs) \X SsaRecords(rs) :
     LET G == BenefitGroup(rs, p[1]) IN
     /\ p[2] \in G
     /\ {i \in G : ~OwnStatement(rs[i])} = {p[1]} /\ {i \in G : rs[i].status = "declared_only"} = {p[2]}
     /\ rs[p[1]].declared = None}

FoldLine(rs, keep, line) ==
  LET d == rs[line] r == rs[keep]
      said == r.self = None /\ d.self # None /\ (r.period = None \/ d.period \in {None, r.period}) IN
  Without([rs EXCEPT ![keep] = [r EXCEPT
             !.declared = Or(@, Or(d.declared, RecordAnnual(d))), !.cert = Or(@, d.cert),
             !.self = IF said THEN d.self ELSE @, !.selfDoc = IF said THEN d.selfDoc ELSE @,
             !.status = IF @ = "verified_not_declared" THEN "verified" ELSE @]], {line})

-----------------------------------------------------------------------------
DeclInit ==
  /\ declCase \in DeclaredCase
  /\ vis = declCase.vis /\ lines = declCase.lines /\ stubSources = declCase.stubs
  /\ table = <<>> /\ declPhase = "merge"

Stage(from, to) == declPhase = from /\ declPhase' = to /\ UNCHANGED declCase

MergeRecords ==
  /\ Stage("merge", "repair")
  /\ vis' = MergeSameSource(vis)
  /\ UNCHANGED <<lines, table, stubSources>>

(* Every record with an amount or a payer is verified, until the end.      *)
RepairMagnitudes ==
  /\ Stage("repair", "totals")
  /\ LET stamped == [i \in DOMAIN vis |->
           IF vis[i].status = "unset" /\ (HasAmount(vis[i]) \/ vis[i].source # NoSource)
           THEN [vis[i] EXCEPT !.status = "verified"] ELSE vis[i]]
         repaired == [k \in DOMAIN lines |-> RepairedLine(lines[k], declCase.total, VerifiedFigures(stamped, stubSources))] IN
     lines' = repaired /\ vis' = RepairRecords(stamped, repaired, declCase.total)
  /\ UNCHANGED <<table, stubSources>>

DropTotalRows ==
  /\ Stage("totals", "lines")
  /\ lines' = DropTotals(lines, declCase.total)
  /\ table' = lines
  /\ UNCHANGED <<vis, stubSources>>

Informative(d) == d.type # "zero income" \/ Zero(d.amount) # 0

ReconcileLine ==
  /\ declPhase = "lines" /\ lines # <<>>
  /\ LET d == Plausible(Head(lines)) K == StubSourceOf(stubSources, d) IN
     /\ \/ /\ ~Informative(d) \/ SecondDeclaration(vis, d)
           /\ UNCHANGED <<vis, stubSources>>
        \/ /\ Informative(d) /\ ~SecondDeclaration(vis, d) /\ About(vis, d) # {}
           /\ vis' = [vis EXCEPT ![BestOf(vis, d)] = Attached(@, d)]
           /\ UNCHANGED stubSources
        \/ /\ Informative(d) /\ ~SecondDeclaration(vis, d) /\ About(vis, d) = {} /\ K # {}
           /\ vis' = Append(vis, [OwnRecord(d, stubSources[First(K)].member, stubSources[First(K)].source, "verified")
                                    EXCEPT !.type = IF @ = NoType THEN "wage" ELSE @])
           /\ stubSources' = Without(stubSources, {First(K)})
        \/ /\ Informative(d) /\ ~SecondDeclaration(vis, d) /\ About(vis, d) = {} /\ K = {}
           /\ vis' = Append(vis, OwnRecord(d, d.member, d.source, IF declCase.selfCertified THEN "self_certified" ELSE "declared_only"))
           /\ UNCHANGED stubSources
     /\ table' = [k \in DOMAIN table |-> IF table[k] = Head(lines) THEN d ELSE table[k]]
  /\ lines' = Tail(lines)
  /\ UNCHANGED <<declCase, declPhase>>

(* The verdict is withheld when the lines are not the whole table. The     *)
(* lines counted are all that were read, total rows included.              *)
MarkUndeclared ==
  /\ lines = <<>> /\ Stage("lines", "benefits")
  /\ vis' = [i \in DOMAIN vis |->
       IF Complete(table, declCase.total) /\ vis[i].status = "verified" /\ HasAmount(vis[i]) /\ ~Claimed(vis[i])
       THEN [vis[i] EXCEPT !.status = "verified_not_declared"] ELSE vis[i]]
  /\ UNCHANGED <<lines, table, stubSources>>

FoldSameBenefit ==
  /\ declPhase = "benefits" /\ SameBenefit(vis) # {}
  /\ LET p == FirstPair(SameBenefit(vis)) IN vis' = FoldStatement(vis, p[1], p[2])
  /\ UNCHANGED <<declCase, lines, table, stubSources, declPhase>>

JoinBenefitLine ==
  /\ declPhase = "benefits" /\ SameBenefit(vis) = {} /\ LoneLines(vis) # {}
  /\ LET p == FirstPair(LoneLines(vis)) IN vis' = FoldLine(vis, p[1], p[2])
  /\ UNCHANGED <<declCase, lines, table, stubSources, declPhase>>

EndBenefits ==
  /\ SameBenefit(vis) = {} /\ LoneLines(vis) = {}
  /\ Stage("benefits", "done")
  /\ UNCHANGED <<vis, lines, table, stubSources>>

DeclNext ==
  \/ MergeRecords \/ RepairMagnitudes \/ DropTotalRows \/ ReconcileLine
  \/ MarkUndeclared \/ FoldSameBenefit \/ JoinBenefitLine \/ EndBenefits

DeclFinished == declPhase = "done" /\ UNCHANGED declVars
DeclSpec == DeclInit /\ [][DeclNext \/ DeclFinished]_declVars

-----------------------------------------------------------------------------
(* No income is counted twice: a line about an income some document        *)
(* verifies never stays as a record of its own beside the verified one,    *)
(* under whichever type, member or payer the form lists it, and the        *)
(* table's total never becomes anybody's income. An untyped line is held   *)
(* to this where the member has one verified record.                       *)
VerifiedRecordsOf(m) == {j \in DOMAIN vis : ~OwnStatement(vis[j]) /\ SamePerson(vis[j].member, m)}

VerifiedIncomeIsNotDeclaredBeside ==
  declPhase = "done" => \A i \in DOMAIN vis : OwnStatement(vis[i]) =>
    /\ vis[i].about # "all of it"
    /\ \/ Untyped(vis[i].type) /\ Cardinality(VerifiedRecordsOf(vis[i].member)) > 1
       \/ \A j \in DOMAIN vis : vis[j].about = vis[i].about => OwnStatement(vis[j])

==============================================================================
