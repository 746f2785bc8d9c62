----------------------------- MODULE MCRecords -----------------------------
(* From records to answers, part by part: the list of incomes               *)
(* (IncomeRecords), the annual figure of one source (IncomeCalculation),    *)
(* the certification's lines (Declarations), the accounts (Assets), the     *)
(* names and members (Household), the link to the rows Cartograph holds     *)
(* (Manifest) and the verdicts that come back (Feedback). A behaviour looks *)
(* at one part and leaves the others out.                                   *)
EXTENDS IncomeRecords, Assets, Household, Manifest, Feedback, TLC

CONSTANT Part  \* the parts looked at

VARIABLES
  part,                                                              \* the part this behaviour looks at
  evidence, untried, counted, calcRows,                              \* IncomeCalculation
  declCase, vis, lines, formTable, stubSources, declPhase            \* Declarations

incomeVars == vars
calcVars == <<evidence, untried, counted, calcRows>>
declVars == <<declCase, vis, lines, formTable, stubSources, declPhase>>

LeaveOutIncomes ==
  packet = None /\ recs = None /\ stubs = None /\ unverified = None /\ disputed = None /\ rows = {} /\ pass = 1
LeaveOutFigures == evidence = None /\ untried = None /\ counted = None /\ calcRows = None
LeaveOutForm ==
  declCase = None /\ vis = None /\ lines = None /\ formTable = None /\ stubSources = None /\ declPhase = None
LeaveOutAccounts == records = None /\ unread = None /\ built = None /\ declared = None /\ asked = None /\ lineAt = None /\ assetStep = None
LeaveOutFamily ==
  /\ household = None /\ roster = None /\ named = None /\ mentions = <<>>
  /\ clusters = <<>> /\ conflicts = {} /\ familyStep = "collect"
LeaveOutLinks ==
  payload = None /\ refs = None /\ claimed = None /\ memberLink = None /\ recordLink = None /\ linkStep = "refs"
LeaveOutVerdicts == table = {} /\ receiving = None /\ sends = None /\ accepted = {} /\ received = <<>>

UpTo(S, n) == UNION {[1..k -> S] : k \in 0..n}

-----------------------------------------------------------------------------
(* Incomes: two people who share a surname, one of them spelled two ways;  *)
(* up to three records and two stubs of the kinds the passes tell apart.   *)
ann == [given |-> "ann", last |-> "diaz"]
annV == [given |-> "ann", last |-> "dias"]
bob == [given |-> "bob", last |-> "diaz"]
nobody == [given |-> "", last |-> ""]
People == {ann, annV, bob}
SpelledAs == (ann :> ann) @@ (annV :> ann) @@ (bob :> bob)
Payers == {"acme", "acme inc", "mart", "court", "state", "agency", "support ledger", "ssa", "self"}
Overlapping == {<<"acme", "acme inc">>}

Rec(m, s, t, st, fig, decl, doc) ==
  [member |-> m, source |-> s, type |-> t, status |-> st, figure |-> fig, declared |-> decl, doc |-> doc,
   dated |-> 0, sheet |-> FALSE, paid |-> 0, workNumber |-> FALSE]
Ledger(m, s, n, paid) ==
  [Rec(m, s, "support", "verified", None, None, None) EXCEPT !.dated = n, !.paid = paid]
Sheet(m, s, paid) ==
  [Rec(m, s, "support", "verified", None, None, None) EXCEPT !.sheet = TRUE, !.paid = paid]

Wages == {
  [Rec(ann, "acme", "wage", "verified", 500, None, None) EXCEPT !.workNumber = TRUE],
  Rec(annV, "acme", "wage", "declared_only", None, 480, "tic"),
  Rec(ann, "acme", "wage", "declared_only", None, 300, "app"),
  Rec(bob, "acme inc", "wage", "verified", 300, None, None),
  Rec(ann, "none", "wage", "declared_only", None, 0, "app")}
Supports == {
  Ledger(ann, "court", 12, 240), Ledger(ann, "state", 3, 120), Ledger(ann, "support ledger", 2, 240),
  Sheet(nobody, "support ledger", 200), Ledger(nobody, "agency", 14, 260),
  Rec(ann, "state", "support", "verified", 0, None, None), Rec(ann, "court", "support", "declared_only", None, 200, "tic")}
Benefits == {
  Rec(ann, "ssa", "ss", "declared_only", None, 1200, "tic"), Rec(ann, "ssa", "ss", "verified", 100, None, None),
  Rec(ann, "ssa", "ssi", "verified", None, 0, None),
  Rec(annV, "none", "ss", "declared_only", None, 100, "app"), Rec(ann, "none", "ssi", "declared_only", None, 700, "app")}
PayStub(m, s) == [member |-> m, source |-> s]
PayStubs == {PayStub(ann, "acme"), PayStub(bob, "acme"), PayStub(annV, "mart"), PayStub(nobody, "acme inc"),
             PayStub(bob, "none"), PayStub(nobody, "none")}

\* Of the payers the questionnaire names, a declared line lists mart or none.
Extracted(rs, ss, total, employers, listed) ==
  [recs |-> rs, stubs |-> ss, head |-> ann, kind |-> "wage", total |-> total, employers |-> employers, listed |-> listed]
Extractions ==
  {Extracted(rs, <<>>, 0, {}, {}) : rs \in UpTo(Wages \cup Supports \cup Benefits, 3)}
    \cup {Extracted(rs, ss, 0, es, l) : rs \in UpTo(Wages, 2), ss \in UpTo(PayStubs, 2), es \in {{"mart"}, {"acme", "mart"}}, l \in {{}, {"mart"}}}
    \cup {Extracted(rs, ss, 900, {}, {}) : rs \in UpTo(Wages \cup Benefits, 2), ss \in UpTo(PayStubs, 1)}

-----------------------------------------------------------------------------
(* Figures: one source with a true pay at one of four frequencies, as up   *)
(* to four stubs labelled rightly, wrongly or not at all, a ledger of      *)
(* payments, a rate in any basis, and a declared amount right or wrong.    *)
(* `truth` is left open where nothing but the wrong declaration speaks.    *)
Pay == ("weekly" :> 800) @@ ("bi-weekly" :> 1600) @@ ("semi-monthly" :> 1740) @@ ("monthly" :> 3460)
Frequencies == DOMAIN Pay
TwoPeriods == ("weekly" :> 14) @@ ("bi-weekly" :> 28) @@ ("semi-monthly" :> 31) @@ ("monthly" :> 61)
PeriodsAYear == ("weekly" :> 52) @@ ("bi-weekly" :> 26) @@ ("semi-monthly" :> 24) @@ ("monthly" :> 12)
TruePay(f) == Pay[f] * PeriodsAYear[f]
NoEvidence == [mode |-> "employment", stubs |-> <<>>, history |-> <<>>, rate |-> None, unit |-> None, hours |-> None,
  rule |-> "average", frequency |-> None, declared |-> None, declaredAnnual |-> FALSE, ytd |-> None, yearStart |-> 900, truth |-> None]
Hours(f) == [low |-> Pay[f] \div 20, high |-> Pay[f] \div 20]
PaidStubs(f, n, label, from, ytd) ==
  [i \in 1..n |-> [gross |-> Pay[f], interval |-> label, day |-> from + (i * TwoPeriods[f]) \div 2, ytd |-> ytd]]
StubsRead(f) ==
  {PaidStubs(f, n, l, 1000, y) : n \in 0..2, l \in {f, None}, y \in {None, 4000}}
    \cup {PaidStubs(f, n, l, 1000, None) : n \in 3..4, l \in {f, None, "weekly", "monthly", "annually"}}
Rated(rate, unit, hours, frequency) == [rate |-> rate, unit |-> unit, hours |-> hours, frequency |-> frequency]
RatesRead(f) ==
  {Rated(None, None, None, None), Rated(20, "hourly", Hours(f), f), Rated(20, None, Hours(f), f), Rated(20, None, None, f),
   Rated(20, "hourly", Hours(f), None), Rated(Pay[f], None, Hours(f), f), Rated(Pay[f], "per_period", Hours(f), f),
   Rated(Pay[f], None, None, f), Rated(Pay[f], f, None, "annually"), Rated(TruePay(f), "annually", Hours(f), f),
   Rated(48360, None, Hours(f), f)}
DeclaredPay(f) ==
  {[amount |-> None, annual |-> FALSE], [amount |-> TruePay(f), annual |-> TRUE],
   [amount |-> Pay[f], annual |-> FALSE], [amount |-> 5000, annual |-> TRUE]}

With(f, s, r, d) ==
  [NoEvidence EXCEPT !.stubs = s, !.rate = r.rate, !.unit = r.unit, !.hours = r.hours,
     !.frequency = IF r.rate = None /\ d.amount # None THEN f ELSE r.frequency,
     !.declared = d.amount, !.declaredAnnual = d.annual]

(* The documents tell the pay: by stubs that can be told apart, or by a    *)
(* rate whose basis is stated or can be inferred.                          *)
Documented(e, f) ==
  \/ Len(e.stubs) >= 3 \/ \E i \in DOMAIN e.stubs : e.stubs[i].interval # None
  \/ e.unit \in {f, "annually"}
  \/ e.frequency # None /\ e.unit \in {"hourly", "per_period"}
  \/ e.frequency # None /\ e.unit = None /\ ((e.rate = 20 /\ e.hours # None) \/ (e.rate = Pay[f] /\ e.hours = None))
Misdeclared(e, f) == e.declared = 5000 \/ (e.declared = Pay[f] /\ ~e.declaredAnnual /\ e.frequency # f)

WageEvidence(f) ==
  {LET e == With(f, s, r, d) IN IF Misdeclared(e, f) /\ ~Documented(e, f) THEN e ELSE [e EXCEPT !.truth = TruePay(f)] :
     s \in StubsRead(f), r \in RatesRead(f), d \in DeclaredPay(f)}
Payments(f, n) ==
  [i \in 1..n |-> [day |-> 1000 + (i * TwoPeriods[f]) \div 2 - (n * TwoPeriods[f]) \div 2, amount |-> Pay[f]]]
BenefitEvidence ==
  {[NoEvidence EXCEPT !.mode = "fixed_monthly", !.rate = 994, !.frequency = f, !.truth = 11928, !.declared = d, !.declaredAnnual = TRUE] :
     f \in {None, "monthly"}, d \in {None, 11928, 994}}
  \cup {[NoEvidence EXCEPT !.mode = "fixed_monthly", !.history = Payments(f, n), !.truth = TruePay(f), !.declared = d] :
     f \in Frequencies, n \in {2, 3, 5, 11, 12, 13, 14, 23, 24, 26, 27, 30, 52, 53, 54}, d \in {None, 5}}
OldEvidence ==
  {[NoEvidence EXCEPT !.stubs = PaidStubs(f, 3, l, from, None), !.declared = d] :
     f \in Frequencies, l \in {"quarterly", None}, from \in {100, 1000}, d \in {None, 50}}
BusinessEvidence ==
  {[NoEvidence EXCEPT !.mode = "annual_net", !.declared = d, !.rate = r, !.frequency = "weekly", !.hours = h] :
     d \in {None, -300, 12000}, r \in {None, 20}, h \in {None, Hours("weekly")}}
SourceEvidence == UNION {WageEvidence(f) : f \in Frequencies} \cup BenefitEvidence \cup OldEvidence \cup BusinessEvidence

Figure == INSTANCE IncomeCalculation WITH Evidence <- SourceEvidence, CertDay <- 1400

-----------------------------------------------------------------------------
(* The form: up to two verified records and two lines of a household with  *)
(* one or two incomes, listed under the wrong member, type or payer, one   *)
(* digit off, or as the table's total. A benefit is understated only on a  *)
(* form without the other benefit, whose figure is within 2 % of its own.  *)
Verifying(m, t, s, rate, per, about) ==
  [member |-> m, type |-> t, source |-> s, status |-> "unset", rate |-> rate, period |-> per, history |-> None,
   self |-> None, selfDoc |-> None, declared |-> None, cert |-> None, about |-> about]
FormLine(m, t, s, amount, per, doc, page, about) ==
  [member |-> m, type |-> t, source |-> s, amount |-> amount, period |-> per, doc |-> doc, page |-> page, about |-> about]

YearlyOf == ("acme" :> 20000) @@ ("county" :> 9000) @@ ("ss" :> 12000) @@ ("ssi" :> 11928) @@ ("cs" :> 2400) @@ ("mart" :> 15600)
VerifyingRecords ==
  {Verifying("ann", "wage", "acme", 20000, "annually", "acme"), Verifying("ann", "wage", "acme inc", None, None, "acme"),
   Verifying("ann", "self-employment", "county", 9000, "annually", "county"),
   Verifying("ann", "social security", "ssa", 1000, "monthly", "ss"), Verifying("ann", "ssi", "eiv", 1000, "monthly", "ss"),
   Verifying("kid", "ssi", "ssa", 994, "monthly", "ssi"), Verifying("bob", "child support", "court", 200, "monthly", "cs"),
   Verifying("bob", "wage", "mart", 115600, "annually", "mart")}
Understated == FormLine("ann", "ss", "none", 11000, "annually", "tic", 1, "ss")
FormLines(total) ==
  {FormLine("ann", "wage", "acme inc", 20000, "annually", "tic", 1, "acme"),
   FormLine("ann", "wage", "none", 520000, "annually", "tic", 1, "acme"),
   FormLine("an", "wage", "none", 9000, "annually", "tic", 1, "county"),
   FormLine("ann", "ss", "none", 12000, "annually", "tic", 1, "ss"), FormLine("ann", "ssi", "none", 11928, "annually", "tic", 1, "ssi"),
   FormLine("ann", "child support", "none", 2400, "annually", "tic", 1, "cs"),
   FormLine("bob", "other", "none", 2867, "annually", "app", 2, "cs"),
   FormLine("bob", "wage", "mart", 15600, "annually", "tic", 1, "mart"),
   FormLine("bob", "zero income", "none", None, None, "tic", 1, "none"),
   FormLine("ann", "total", "none", total, "annually", "app", 2, "all of it")}
NoTwoAlike(s) == \A i, j \in DOMAIN s : i # j => s[i] # s[j]
OneLineEach(s) == \A i, j \in DOMAIN s : i # j => s[i].about # s[j].about
LinesOf(H, total) ==
  {d \in FormLines(total) \cup (IF "ssi" \in H THEN {} ELSE {Understated}) : d.about \in H \/ (d.about = "all of it" /\ total > 0)}
FormsOf(H, total) ==
  [vis : {s \in UpTo({r \in VerifyingRecords : r.about \in H}, 2) : NoTwoAlike(s)},
   stubs : IF "acme" \in H THEN {<<>>, <<[member |-> "ann", source |-> "acme", annual |-> 20000]>>} ELSE {<<>>},
   lines : {s \in UpTo(LinesOf(H, total), 2) : OneLineEach(s)},
   total : {total}, selfCertified : {FALSE}]

\* The form's total may not have been read. A salary times a checkbox is
\* repaired against the total, and without one keeps no period.
HouseholdForms ==
  UNION {FormsOf(H, 0) \cup FormsOf(H, MapThenSumSet(LAMBDA a : YearlyOf[a], H)) :
           H \in {S \in SUBSET DOMAIN YearlyOf : Cardinality(S) \in 1..2}}

Form == INSTANCE Declarations WITH
  NoMember <- "nobody", SpelledAlike <- {{"ann", "an"}}, NoSource <- "none", SharedWord <- {{"acme", "acme inc"}},
  SsaPayer <- {"ssa"}, NoType <- "untyped", CertForm <- {"tic"}, DeclaredCase <- HouseholdForms, table <- formTable

-----------------------------------------------------------------------------
(* Accounts: two statements of one owner, another or none, whole, as a     *)
(* request form or under another number of one last four, and up to two    *)
(* declared lines.                                                         *)
EndingIn == [n \in {"x4603", "y4603", "z7788"} |-> IF n = "z7788" THEN "7788" ELSE "4603"]
Statement(owner, source, type, number, balance) ==
  [owner |-> owner, source |-> source, type |-> type, number |-> number, balance |-> balance, stated |-> None,
   statedIn |-> None, status |-> "verified", pages |-> {1}]
AssetLine(owner, type, number, amount, doc) ==
  [kind |-> "asset", owner |-> owner, source |-> None, type |-> type, number |-> number, amount |-> amount, doc |-> doc, page |-> 9]

AnyStatement(owners) ==
  {Statement(owner, source, type, number, balance) :
     owner \in owners, source \in {None, "first"}, type \in {"checking", "savings"},
     number \in {None, "x4603", "y4603", "z7788"}, balance \in {None, 500, 641, 649}}
StatementsRead ==
  << {<<a>> : a \in AnyStatement({None, "ann"})},
     {<<a, b>> : a \in AnyStatement({"ann"}), b \in AnyStatement({None, "bob"})},
     {<<a, b>> : a, b \in AnyStatement({"ann"})} >>
AssetLines ==
  {[lines |-> l, totals |-> FALSE] :
     l \in { <<AssetLine("ann", "checking", None, 641, "TIC")>>, <<AssetLine("bob", "savings", "x4603", 700, "Application")>>,
             <<AssetLine("ann", "other", None, 649, "TIC"), AssetLine("ann", "checking", "z7788", None, "Application")>>,
             <<AssetLine("ann", "checking", None, 500, "TIC"), AssetLine("ann", "checking", None, 500, "Application")>>,
             <<AssetLine("bob", "checking", "z7788", 500, "TIC"), AssetLine(None, "checking", "y4603", 0, "Application")>> }}
  \cup {[lines |-> <<>>, totals |-> TRUE]}

NearNumbers == {<<"y4603", "z7788">>, <<"z7788", "y4603">>}
NearAmounts == {<<641, 649>>, <<649, 641>>}

-----------------------------------------------------------------------------
(* The household: names written two or three ways (each named here by its  *)
(* first name where the surname is shared), members read twice with        *)
(* differing dates and numbers, and what the documents state of them.      *)
FirstNames == {"marta", "maria", "maria lopez", "juan", "marla"}
Percent == ({"marta", "maria"} :> 85) @@ ({"marta", "maria lopez"} :> 67) @@ ({"marta", "juan"} :> 40) @@ ({"marta", "marla"} :> 63)
  @@ ({"maria", "maria lopez"} :> 78) @@ ({"maria", "juan"} :> 40) @@ ({"maria", "marla"} :> 67)
  @@ ({"maria lopez", "juan"} :> 40) @@ ({"maria lopez", "marla"} :> 52) @@ ({"juan", "marla"} :> 40)
Letters == ("marta" :> 12) @@ ("maria" :> 12) @@ ("maria lopez" :> 18) @@ ("juan" :> 11) @@ ("marla" :> 12)
Ends == ("111-11-1111" :> 1111) @@ ("***-**-1111" :> 1111) @@ ("***-**-1117" :> 1117) @@ (None :> 0)
MonthAndDay == (1960 :> 102) @@ (2060 :> 102) @@ (1990 :> 304)

Listed(n, d, s) == [name |-> n, dob |-> d, ssn |-> s, gender |-> None]
NamedIn(n, trust) == [name |-> n, trust |-> trust]
States(n, kind, value, page, rank) == [of |-> n, kind |-> kind, value |-> value, page |-> page, rank |-> rank]
Read(members, inRecords, titles, claims, certified) ==
  [roster |-> members, named |-> inRecords, titles |-> titles, claims |-> claims, cert |-> certified]
UpToSome(S, n) == UpTo(S, n) \ {<<>>}

Spelt ==
  {Read(r, q, t, <<>>, {}) :
     r \in UpToSome({Listed(n, None, None) : n \in {"marta", "maria", "maria lopez", "juan"}}, 2),
     q \in UpToSome({NamedIn("maria lopez", 5), NamedIn("maria", 5), NamedIn("marla", 8)}, 2),
     t \in UpTo({NamedIn("maria", 1), NamedIn("maria lopez", 3)}, 1)}
TwiceRead ==
  {Read(r, <<>>, <<>>, <<>>, {}) :
     r \in [1..3 -> {Listed(n, d, s) : n \in {"maria", "maria lopez"}, d \in {None, 1960, 1990}, s \in {None, "111-11-1111", "***-**-1117"}}]}
StatedOften ==
  {Read(r, <<>>, <<>>, c, {"maria", "juan"}) :
     r \in {<<Listed("maria", d, s), Listed("juan", None, None)>> : d \in {None, 1990}, s \in {None, "***-**-1117", "***-**-1111"}}
            \cup {<<Listed("marla", None, None)>>},
     c \in [1..3 -> {States("juan", "ssn", "***-**-1111", 1, 0), States("juan", "dob", 1990, 1, 2),
                     States("maria", "ssn", "***-**-1111", 3, 0), States("maria", "ssn", "***-**-1117", 1, 2),
                     States("maria", "ssn", "111-11-1111", 1, 3), States("maria", "ssn", "***-**-1117", 2, 0),
                     States("maria", "dob", 1960, 3, 0), States("maria", "dob", 2060, 1, 2), States("maria", "dob", 1990, 2, 2)}]}
Families == Spelt \cup TwiceRead \cup StatedOften

ShortNames == [n \in FirstNames |-> n]
SurnamesNear == {<<"marla", "maria">>}

-----------------------------------------------------------------------------
(* Links: two members and up to two records against two rows held under    *)
(* one or two names, dates that agree, differ by a slip or are missing.    *)
Resembles == ({"john", "jon"} :> 92) @@ ({"john", "jane"} :> 50) @@ ({"jon", "jane"} :> 40)
  @@ ({"acme", "acme inc"} :> 70) @@ ({"acme", "mart"} :> 10) @@ ({"acme inc", "mart"} :> 5)
Ours(n, d) == [name |-> n, dob |-> d]
Held(names, d) == [names |-> names, dob |-> d]
OurRecord(n, s) == [name |-> n, type |-> "wage", source |-> s]
HeldRecord(j, s) == [of |-> j, type |-> "wage", source |-> s]
PayloadsBuilt ==
  {[members |-> m, records |-> r, held |-> h, heldRecords |-> g] :
     m \in [1..2 -> {Ours(n, d) : n \in {"john", "jon", "jane"}, d \in {None, 1956, 1980}}],
     r \in {<<>>, <<OurRecord("john", "acme"), OurRecord("jon", "mart")>>, <<OurRecord("john", "acme"), OurRecord("john", "acme inc")>>,
            <<OurRecord("john", "mart"), OurRecord("john", None)>>},
     h \in [1..2 -> {Held(N, d) : N \in {{"john"}, {"jon"}, {"jane", "john"}}, d \in {None, 1956, 1958}}],
     g \in {<<HeldRecord(1, "acme"), HeldRecord(1, "mart")>>, <<HeldRecord(1, "acme inc"), HeldRecord(2, "acme")>>}}

-----------------------------------------------------------------------------
(* Verdicts: two nights' batches that share a case, each sent up to twice, *)
(* and one case of another environment under the same reference.           *)
JudgedCase(ref, findings, documents) == [ref |-> ref, verdicts |-> findings, manual |-> documents]
Says(key, verdict) == [key |-> key, verdict |-> verdict]
Bodies == <<
  [environment |-> "prod",
   cases |-> <<JudgedCase("j1", <<Says("f1", "invalid"), Says("no key", "valid")>>, <<"d1">>),
               JudgedCase("no ref", <<>>, <<>>),
               JudgedCase("j2", <<Says("f1", "valid"), Says("f2", "unsure")>>, <<>>)>>],
  [environment |-> "prod",
   cases |-> <<JudgedCase("j1", <<Says("f1", "valid")>>, <<"d1", "no key">>), JudgedCase("j2", <<Says("f2", "valid")>>, <<>>)>>],
  [environment |-> "staging", cases |-> <<JudgedCase("j1", <<Says("f1", "invalid")>>, <<>>)>>] >>

-----------------------------------------------------------------------------
recordVars == <<part, incomeVars, calcVars, declVars, assetVars, familyVars, linkVars, feedbackVars>>

RecordsInit ==
  /\ part \in Part
  /\ IF part = "incomes" THEN Init ELSE LeaveOutIncomes
  /\ IF part = "figures" THEN Figure!CalcInit ELSE LeaveOutFigures
  /\ IF part = "form" THEN Form!DeclInit ELSE LeaveOutForm
  /\ IF part = "accounts" THEN AssetInit ELSE LeaveOutAccounts
  /\ IF part = "family" THEN HouseholdInit ELSE LeaveOutFamily
  /\ IF part = "links" THEN LinkInit ELSE LeaveOutLinks
  /\ IF part = "verdicts" THEN FeedbackInit ELSE LeaveOutVerdicts

RecordsNext ==
  \/ part = "incomes" /\ (IncomeNext \/ Finished) /\ UNCHANGED <<part, calcVars, declVars, assetVars, familyVars, linkVars, feedbackVars>>
  \/ part = "figures" /\ (Figure!CalcNext \/ Figure!CalcFinished) /\ UNCHANGED <<part, incomeVars, declVars, assetVars, familyVars, linkVars, feedbackVars>>
  \/ part = "form" /\ (Form!DeclNext \/ Form!DeclFinished) /\ UNCHANGED <<part, incomeVars, calcVars, assetVars, familyVars, linkVars, feedbackVars>>
  \/ part = "accounts" /\ AssetNext /\ UNCHANGED <<part, incomeVars, calcVars, declVars, familyVars, linkVars, feedbackVars>>
  \/ part = "family" /\ HouseholdNext /\ UNCHANGED <<part, incomeVars, calcVars, declVars, assetVars, linkVars, feedbackVars>>
  \/ part = "links" /\ LinkNext /\ UNCHANGED <<part, incomeVars, calcVars, declVars, assetVars, familyVars, feedbackVars>>
  \/ part = "verdicts" /\ FeedbackNext /\ UNCHANGED <<part, incomeVars, calcVars, declVars, assetVars, familyVars, linkVars>>

RecordsSpec == RecordsInit /\ [][RecordsNext]_recordVars

-----------------------------------------------------------------------------
(* What the run checks of each part; the components' modules say what it   *)
(* means. (The incomes, the accounts, the household, the links and the     *)
(* verdicts satisfy theirs as they stand when they are left out.)          *)
(* Figures: a figure that counts is the income.                            *)
CountedFigureIsTheIncome == part = "figures" => Figure!CountedFigureIsTheIncome

(* Form: a verified income is not declared beside itself.                  *)
VerifiedIncomeIsNotDeclaredBeside == part = "form" => Form!VerifiedIncomeIsNotDeclaredBeside
=============================================================================
