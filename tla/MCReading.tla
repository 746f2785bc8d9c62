----------------------------- MODULE MCReading -----------------------------
(* Reading a case, part by part: the pages (PageReading), the model's calls *)
(* (ModelCalls), the groups of pages (Grouping), one document's amounts     *)
(* (DocumentReading) and the stubs of a packet (PayStubs). A behaviour      *)
(* looks at one part and leaves the others out, in a state in which what is *)
(* checked of them holds.                                                  *)
EXTENDS PageReading, ModelCalls, Grouping, DocumentReading, PayStubs, TLC

CONSTANT Part  \* the parts looked at

VARIABLE part  \* the part this behaviour looks at


LeaveOutPages ==
  /\ phase = 1 /\ at = 1 /\ sideways = {} /\ kept = {} /\ queued = {}
  /\ image = [p \in Page |-> "scanned"] /\ layer = [p \in Page |-> "none"]
  /\ read = [p \in Page |-> NoRead] /\ vision = [p \in Page |-> NoVision]
LeaveOutCalls == section = None /\ reads = None /\ answers = None /\ attempt = None /\ caseOutcome = None
LeaveOutGroups == bundle = None /\ groups = <<>> /\ pending = <<>> /\ groupStep = "build"
LeaveOutDocuments ==
  doc = None /\ pageText = None /\ spare = None /\ vis = None /\ pss = None /\ docStep = None /\ imaged = None
LeaveOutStubs == asRead = <<>> /\ stubs = <<>> /\ toRepair = {} /\ stubStep = "done"

-----------------------------------------------------------------------------
(* Pages: two pages and ten answers an OCR service can give: good, poor,   *)
(* invented, cut and sideways reads, one without a score, and one for each *)
(* kind of sign the tests look for.                                        *)
OcrAnswer(len, score, flags, signs, ext) ==
  [len |-> len, score |-> score, flags |-> flags, signs |-> signs, ext |-> ext]

OcrAnswers == {
  OcrAnswer(3, 16, {}, {}, FALSE),
  OcrAnswer(4, 13, {"fabricated"}, {}, FALSE),
  OcrAnswer(3, 12, {}, {}, FALSE),
  OcrAnswer(3, NoScore, {}, {}, FALSE),
  OcrAnswer(4, 16, {"cut"}, {"marks"}, FALSE),
  OcrAnswer(2, 9, {}, {}, FALSE),
  OcrAnswer(3, 12, {}, {"degenerate", "marks"}, FALSE),
  OcrAnswer(3, 17, {}, {"marks", "broken"}, FALSE),
  OcrAnswer(4, 17, {}, {"partial", "marks"}, FALSE),
  OcrAnswer(2, 0, {}, {}, TRUE)}
Transcripts == {1, 2, 3, 4}

(* Calls: one case of three documents, two read at a time, the extraction  *)
(* run at most twice.                                                      *)
CaseSections == <<"classification", "signature", "income", "declared">>
OutputBudget == [s \in {"classification", "signature", "income", "declared"} |-> IF s = "classification" THEN 4 ELSE 2]

(* Groups: three pages, dated and undated, printing a form's title or not, *)
(* in one file or two; the model's groups in one, two or three pieces, one *)
(* of them perhaps empty, with a page that is another's or does not exist. *)
Pg(date, income, head) ==
  [date |-> date, income |-> income, head |-> head, prints |-> IF head = None THEN {} ELSE {head}, text |-> TRUE]
PageKinds == {Pg(2024, 100, "tic"), Pg(2025, 200, "tic"), Pg(2025, None, None), Pg(None, 100, None),
              Pg(None, None, "rd"), Pg(None, None, "stub")}
Labels == {Plain("tic"), Label("tic", "previous"), Plain("rd"), Label("50059", "previous"), Plain("stub")}
Group(label, fit, pages) == [label |-> label, fit |-> fit, pages |-> pages]
ModelGroups ==
  {<<Group(l, f, {1, 2, 3})>> : l \in Labels, f \in {"exact", "nearest"}}
    \cup {<<Group(l, f, {1}), Group(m, "exact", {2, 3})>> : l \in Labels, m \in Labels, f \in {"exact", "nearest"}}
    \cup {<<Group(l, "exact", {1}), Group(m, "exact", {2}), Group(n, "nearest", {3})>> : l, m, n \in Labels}
    \cup {<<Group(l, "exact", {1, 3, 4}), Group(m, "nearest", S)>> : l \in Labels, m \in {Plain("rd")}, S \in {{}, {3}}}
ReadPackets ==
  {[pages |-> p, groups |-> g, hud |-> FALSE, files |-> f] : p \in [1..3 -> PageKinds], g \in ModelGroups, f \in {<<1>>, <<1, 3>>}}

(* Documents: a pay stub, a benefit letter and an employer's form of two   *)
(* pages, which may print no figure, $0.00, or either of two figures.      *)
Papers ==
  {[kind |-> k, template |-> k = "benefit letter", states |-> 2, person |-> who, seen |-> seen,
    text |-> [p \in 1..2 |-> IF p = 1 THEN first ELSE second]] :
      k \in {"pay stub", "benefit letter", "voi"}, who \in {None, "ann"}, seen \in {{}, {2}},
      first \in SUBSET {0, 1, 2}, second \in {{}, {2}}}

Income(type, amount, who) == [type |-> type, amount |-> amount, who |-> who]
Extractions ==
  {[vis |-> v, pss |-> {}] : v \in {{}, {Income("wage", 1, None)}, {Income("benefit", 2, "bob")},
      {Income("benefit", None, "bob"), Income("support", 1, "bob")}, {Income("benefit", 0, "bob")}, {Income("wage", None, None)}}} \cup
  {[vis |-> {}, pss |-> {Income(None, a, None)}] : a \in {None, 1}} \cup
  {[vis |-> {Income("support", 2, "bob")}, pss |-> {Income(None, 1, "bob")}]}

(* Stubs: three, of anyone and any employer, by name, employee number or   *)
(* running figures; or of one job, with figures out of sequence or without *)
(* their decimal point. Days are numbered by year.                         *)
Employers == [n \in {"acme", "acmee", "acnee"} |-> IF n = "acme" THEN 4 ELSE 5]
NearIdentical == {<<"acme", "acmee">>, <<"acmee", "acme">>, <<"acmee", "acnee">>, <<"acnee", "acmee">>}

Stub(who, id, source, date, gross, ytd) ==
  [who |-> who, id |-> id, source |-> source, date |-> date, gross |-> gross, ytd |-> ytd]
AnyStub(date) ==
  {Stub(who, id, source, date, 100, ytd) :
     who \in {None, "ann", "bob"}, id \in {None, 7}, source \in {None, "acme", "acmee", "acnee"}, ytd \in {None, 100 * (date - 100)}}
OfOneJob ==
  {Stub("ann", None, "acme", date, gross, ytd) :
     date \in {101, 102, 203}, gross \in {None, 100}, ytd \in {100, 200, 300, 20000, 30000}}
StubPackets ==
  << {<<a, b, c>> : a \in AnyStub(101), b \in AnyStub(102), c \in {s \in AnyStub(103) : s.ytd = None}},
     {<<a, b, c>> : a, b, c \in OfOneJob} >>

-----------------------------------------------------------------------------
pageVars == vars
readingVars == <<part, pageVars, callVars, groupVars, docVars, stubVars>>

ReadingInit ==
  /\ part \in Part
  /\ IF part = "pages" THEN Init ELSE LeaveOutPages
  /\ IF part = "calls" THEN CallInit ELSE LeaveOutCalls
  /\ IF part = "groups" THEN GroupInit ELSE LeaveOutGroups
  /\ IF part = "documents" THEN DocInit ELSE LeaveOutDocuments
  /\ IF part = "stubs" THEN PayInit ELSE LeaveOutStubs

ReadingNext ==
  \/ part = "pages" /\ Next /\ UNCHANGED <<part, callVars, groupVars, docVars, stubVars>>
  \/ part = "calls" /\ CallNext /\ UNCHANGED <<part, pageVars, groupVars, docVars, stubVars>>
  \/ part = "groups" /\ GroupNext /\ UNCHANGED <<part, pageVars, callVars, docVars, stubVars>>
  \/ part = "documents" /\ DocNext /\ UNCHANGED <<part, pageVars, callVars, groupVars, stubVars>>
  \/ part = "stubs" /\ PayNext /\ UNCHANGED <<part, pageVars, callVars, groupVars, docVars>>

ReadingSpec == ReadingInit /\ [][ReadingNext]_readingVars

=============================================================================
