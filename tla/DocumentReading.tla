-------------------------- MODULE DocumentReading ---------------------------
(***************************************************************************)
(* One income document read by the language model                          *)
(* (app/services/extractor.py, extract_income): the read, the check of     *)
(* every amount against the document's pages, the second ask for a missing *)
(* amount, the second read of a document that yielded nothing, the fixed   *)
(* wording of an SSA letter, and the page images transcribed when the text *)
(* did not carry the figure, after which the document is read again.       *)
(*                                                                         *)
(* A page is the set of figures printed on it. What the model answers is   *)
(* any member of Answer: it may invent figures and forget names. A record  *)
(* has one amount; None is a record that names an income and no amount.    *)
(***************************************************************************)
EXTENDS Records

CONSTANTS
  Document,  \* the documents the runs start from, with their pages
  Answer,    \* what a read may return: [vis, pss], sets of [type, amount, who]
  Figure     \* the figures a page may print, 0 among them

ASSUME AnswerAssumption ==
  \A answer \in Answer : \A r \in answer.vis \cup answer.pss : r = [type |-> r.type, amount |-> r.amount, who |-> r.who]

VARIABLES doc, pageText, spare, vis, pss, docStep, imaged

docVars == <<doc, pageText, spare, vis, pss, docStep, imaged>>

MaxImagePages == 3

(* A document: its label (kind), whether it carries the SSA letter's fixed *)
(* wording (template), the member the classifier found it to be about, its *)
(* pages as first read, and the pages vision has already read.             *)
DocInit ==
  /\ doc \in Document
  /\ pageText = doc.text
  /\ spare \in 0..MaxImagePages
  /\ vis = {} /\ pss = {}
  /\ docStep = "read" /\ imaged = FALSE

Printed == UNION {pageText[p] : p \in DOMAIN pageText}

(* Provenance: an amount no page of the document prints is set to null.    *)
OnlyPrinted(S) == {IF r.amount \in Printed THEN r ELSE [r EXCEPT !.amount = None] : r \in S}

(* A record without a name is the member's the document is about.          *)
Attributed(S) == {[r EXCEPT !.who = Or(@, doc.person)] : r \in S}

(* A line reading $0.00 is not income.                                     *)
StatesZero(r) == r.amount = 0

ReadFrom(answer) ==
  [vis |-> {r \in Attributed(OnlyPrinted(answer.vis)) : ~StatesZero(r)},
   pss |-> Attributed(OnlyPrinted(answer.pss))]

WageType(r) == r.type \in {"wage", None}
FixedType(r) == r.type = "benefit"
HasAmount(r) == r.amount # None
Amountless(S) == {r \in S : r.who # None /\ ~HasAmount(r)}

(* The first read; off a pay stub only wages are kept.                     *)
ReadDocument ==
  /\ docStep = "read"
  /\ \E answer \in Answer :
       LET got == ReadFrom(answer) IN
       /\ vis' = IF doc.kind = "pay stub" THEN {r \in got.vis : WageType(r)} ELSE got.vis
       /\ pss' = got.pss
  /\ docStep' = "amounts"
  /\ UNCHANGED <<doc, pageText, spare, imaged>>

(* Records that name an income without its amount are asked for once more, *)
(* and the figures recovered are held to the pages too. A call that fails  *)
(* leaves them as they were.                                               *)
Recovered(S, found) == {IF r \in DOMAIN found THEN [r EXCEPT !.amount = found[r]] ELSE r : r \in S}
RecoveredOnPage(S, found) == OnlyPrinted(Recovered(S, found))

RetryAmounts ==
  /\ docStep = "amounts"
  /\ LET asked == Amountless(vis) \cup Amountless(pss) IN
     \E found \in [asked -> Figure \cup {None}] :
       /\ vis' = RecoveredOnPage(vis, found)
       /\ pss' = RecoveredOnPage(pss, found)
  /\ docStep' = "settle"
  /\ UNCHANGED <<doc, pageText, spare, imaged>>

(* A benefit the document mentions without paying is dropped. A document   *)
(* that prints figures and yielded nothing is read once more.              *)
Settled == {r \in vis : HasAmount(r) \/ ~FixedType(r)}

SettleRecords ==
  /\ docStep = "settle"
  /\ vis' = Settled
  /\ docStep' = IF Settled = {} /\ pss = {} /\ Printed \ {0} # {} THEN "again" ELSE "template"
  /\ UNCHANGED <<doc, pageText, spare, pss, imaged>>

ReadAgain ==
  /\ docStep = "again"
  /\ \E answer \in Answer : vis' = ReadFrom(answer).vis /\ pss' = ReadFrom(answer).pss
  /\ docStep' = "template"
  /\ UNCHANGED <<doc, pageText, spare, imaged>>

(* An SSA letter no amount was read from is read by its fixed wording.     *)
TemplateRecords ==
  IF ~doc.template THEN {}
  ELSE {[type |-> "benefit", amount |-> x, who |-> doc.person] : x \in {y \in Printed \ {0} : y = doc.states}}

ReadTemplate ==
  /\ docStep = "template"
  /\ vis' = IF \E r \in vis : HasAmount(r) THEN vis ELSE vis \cup TemplateRecords
  /\ docStep' = IF ~imaged THEN "image" ELSE "named"
  /\ UNCHANGED <<doc, pageText, spare, pss, imaged>>

(* A stub without its gross, or a benefit letter without an amount: its    *)
(* pages are transcribed from their images, within what the documents      *)
(* before it left of the case's three pages, none vision has read before;  *)
(* each transcript that comes back replaces the page's text, and the       *)
(* document is read again. Otherwise the records stand.                    *)
WantsImage ==
  \/ \E r \in pss : ~HasAmount(r)
  \/ doc.kind = "benefit letter" /\ ~\E r \in vis : HasAmount(r)

ImagePages ==
  LET open == {p \in DOMAIN pageText : p \notin doc.seen} IN
  {p \in open : Cardinality({q \in open : q <= p}) <= spare}

ReadImages ==
  /\ docStep = "image" /\ WantsImage /\ ImagePages # {}
  /\ \E got \in SUBSET ImagePages : \E transcript \in [got -> SUBSET Figure] :
       /\ pageText' = [p \in DOMAIN pageText |-> IF p \in got THEN transcript[p] ELSE pageText[p]]
       /\ docStep' = IF got = {} THEN "named" ELSE "read"
  /\ imaged' = TRUE
  /\ UNCHANGED <<doc, spare, vis, pss>>

NoImages ==
  /\ docStep = "image" /\ ~(WantsImage /\ ImagePages # {})
  /\ docStep' = "named"
  /\ UNCHANGED <<doc, pageText, spare, vis, pss, imaged>>

(* Records that name nobody are dropped.                                   *)
DropUnnamed ==
  /\ docStep = "named"
  /\ vis' = {r \in vis : r.who # None}
  /\ pss' = {r \in pss : r.who # None}
  /\ docStep' = "done"
  /\ UNCHANGED <<doc, pageText, spare, imaged>>

DocFinished == docStep = "done" /\ UNCHANGED docVars

DocNext ==
  \/ ReadDocument \/ RetryAmounts \/ SettleRecords \/ ReadAgain \/ ReadTemplate
  \/ ReadImages \/ NoImages \/ DropUnnamed \/ DocFinished

DocSpec == DocInit /\ [][DocNext]_docVars

-----------------------------------------------------------------------------
(* Every amount that leaves the extraction is printed on the document's    *)
(* pages as they read at the end: through the second ask, the second read, *)
(* the letter's fixed wording and pages replaced by their transcripts.     *)
AmountsAreOnTheirPages ==
  docStep = "done" => \A r \in vis \cup pss : HasAmount(r) => r.amount \in Printed
=============================================================================
