------------------------------ MODULE Grouping ------------------------------
(***************************************************************************)
(* From pages to documents (app/services/two_pass_classifier.py,           *)
(* doc_taxonomy.py, pipeline.py): the model's groups are completed, a      *)
(* group holding two certifications is split, the labels of current and    *)
(* previous are put in the order of their dates, pages take the label      *)
(* their heading prints, labels only a HUD file has are taken back, the    *)
(* latest prior certification is promoted when none is current, and the    *)
(* copies in older files are set aside.                                    *)
(*                                                                         *)
(* A label is a document type and its suffix; a page has the date, the     *)
(* total income and the labels it prints, and the one its heading names.   *)
(* The pages of a group are kept in their order, so they are a set; a page *)
(* that an answer lists twice in one group is in it once.                  *)
(***************************************************************************)
EXTENDS Records

CONSTANTS
  Bundles,   \* [pages, groups, hud, files]: read pages, the model's groups, the program, each file's first page
  CertForms, \* the certification forms
  HudForms,  \* the types only a HUD or USDA file has, the HUD 50059 apart
  Hud50059,  \* the one whose presence makes the file a HUD file
  Untyped    \* the type of a page that matches none

VARIABLES
  bundle,
  groups,
  pending,   \* the groups the pass has still to look at
  groupStep

groupVars == <<bundle, groups, pending, groupStep>>

Label(type, suffix) == [type |-> type, suffix |-> suffix]
Plain(type) == Label(type, "")
IsIgnored(g) == g.label.suffix # "" \/ g.label.type = Untyped
IsCert(g) == g.label.type \in CertForms
Current(g) == IsCert(g) /\ ~IsIgnored(g)

IsGroup(g) ==
  /\ g = [label |-> Label(g.label.type, g.label.suffix), fit |-> g.fit, pages |-> g.pages]
  /\ g.pages \subseteq Nat /\ IsFiniteSet(g.pages)

(* The prompt (two_pass_classifier.py:353-357) has the model call a        *)
(* certification previous, and nothing else.                               *)
ASSUME BundleAssumption ==
  \A b \in Bundles :
    /\ DOMAIN b.pages \subseteq Nat /\ \A p \in DOMAIN b.pages : b.pages[p].date \in Nat \cup {None}
    /\ b.groups \in Seq({b.groups[k] : k \in DOMAIN b.groups})
    /\ \A k \in DOMAIN b.groups :
         /\ IsGroup(b.groups[k])
         /\ b.groups[k].label.suffix # "" => b.groups[k].label.suffix = "previous" /\ IsCert(b.groups[k])
ASSUME UntypedAssumption == Untyped \notin CertForms

(* A page number the model made up has no text.                            *)
BlankPage == [date |-> None, income |-> None, head |-> None, prints |-> {}, text |-> FALSE]
PageOf(p) == IF p \in DOMAIN bundle.pages THEN bundle.pages[p] ELSE BlankPage

GroupInit ==
  /\ bundle \in Bundles
  /\ groups = <<>> /\ pending = bundle.groups
  /\ groupStep = "build"

-----------------------------------------------------------------------------
(* The model's groups, those without pages dropped, and a group of its own *)
(* for each page with text it left out.                                    *)
AnswerGroup ==
  /\ groupStep = "build" /\ pending # <<>>
  /\ groups' = IF Head(pending).pages = {} THEN groups ELSE Append(groups, Head(pending))
  /\ pending' = Tail(pending)
  /\ UNCHANGED <<bundle, groupStep>>

LeftOut == {p \in DOMAIN bundle.pages : PageOf(p).text /\ \A k \in DOMAIN groups : p \notin groups[k].pages}

ForgottenPage ==
  /\ groupStep = "build" /\ pending = <<>> /\ LeftOut # {}
  /\ groups' = Append(groups, [label |-> Plain(Untyped), fit |-> "none", pages |-> {First(LeftOut)}])
  /\ UNCHANGED <<bundle, pending, groupStep>>

BeginSplit ==
  /\ groupStep = "build" /\ pending = <<>> /\ LeftOut = {}
  /\ groups' = <<>> /\ pending' = groups
  /\ groupStep' = "split"
  /\ UNCHANGED bundle

-----------------------------------------------------------------------------
(* Pages of one certification group with two dates or two incomes are two  *)
(* certifications: the page of the latest date leads, and the pages that   *)
(* contradict it are the previous one.                                     *)
States(S, field) == {PageOf(p)[field] : p \in S} \ {None}
Date(p) == Zero(PageOf(p).date)
Lead(S) == CHOOSE p \in S : \A q \in S \ {p} : Date(p) > Date(q) \/ (Date(p) = Date(q) /\ p < q)
Agrees(p, q, field) == PageOf(p)[field] = None \/ PageOf(q)[field] = None \/ PageOf(p)[field] = PageOf(q)[field]

TwoForms(g) ==
  /\ IsCert(g) /\ g.label.suffix = ""
  /\ Cardinality(States(g.pages, "date")) > 1 \/ Cardinality(States(g.pages, "income")) > 1

PriorOf(g, S) == [label |-> Label(g.label.type, "previous"), fit |-> g.fit, pages |-> S]

\* Mutant: a page without a date stays with neither form.
SplitOfDated(g) ==
  LET lead == Lead(g.pages)
      own == {p \in g.pages : PageOf(p).date # None /\ Agrees(p, lead, "date") /\ Agrees(p, lead, "income")}
      other == {p \in g.pages : ~Agrees(p, lead, "date")}
  IN IF ~TwoForms(g) \/ other = {} THEN <<g>>
     ELSE <<[g EXCEPT !.pages = own], PriorOf(g, other)>>
SplitOf(g) ==
  LET lead == Lead(g.pages)
      own == {p \in g.pages : Agrees(p, lead, "date") /\ Agrees(p, lead, "income")}
  IN IF ~TwoForms(g) \/ own = g.pages THEN <<g>>
     ELSE <<[g EXCEPT !.pages = own], PriorOf(g, g.pages \ own)>>

SplitGroup ==
  /\ groupStep = "split" /\ pending # <<>>
  /\ groups' = groups \o SplitOf(Head(pending)) /\ pending' = Tail(pending)
  /\ UNCHANGED <<bundle, groupStep>>

(* The only current form of a type gives its label to the previous form of *)
(* the latest date, when that is later than its own.                       *)
DatesOf(g) == States(g.pages, "date")
Later(g, h) == DatesOf(g) # {} /\ DatesOf(h) # {} /\ \E d \in DatesOf(g) : \A e \in DatesOf(h) : d > e

Sole(type) ==
  LET current == {k \in DOMAIN groups : groups[k].label = Plain(type)} IN
  IF Cardinality(current) = 1 THEN current ELSE {}

LaterThanSole(type) ==
  {k \in DOMAIN groups : groups[k].label = Label(type, "previous") /\ \E c \in Sole(type) : Later(groups[k], groups[c])}

Newest(K) == {k \in K : \A j \in K : ~Later(groups[j], groups[k]) /\ (j < k => Later(groups[k], groups[j]))}

OrderCertifications ==
  /\ groupStep = "split" /\ pending = <<>>
  /\ pending' = [k \in DOMAIN groups |->
       LET type == groups[k].label.type later == LaterThanSole(type) IN
       IF type \notin CertForms \/ later = {} THEN groups[k]
       ELSE IF k \in Newest(later) THEN [groups[k] EXCEPT !.label = Plain(type)]
       ELSE IF k \in Sole(type) THEN [groups[k] EXCEPT !.label = Label(type, "previous")]
       ELSE groups[k]]
  /\ groups' = <<>>
  /\ groupStep' = "relabel"
  /\ UNCHANGED bundle

-----------------------------------------------------------------------------
(* A page that nowhere prints its group's label takes the one its heading  *)
(* prints. When the headed pages all name one other form, and the group is *)
(* a certification or half of it is headed, the other pages follow. Runs   *)
(* of one label become groups.                                             *)
Heading(g, p) == IF g.label.type \in PageOf(p).prints THEN None ELSE PageOf(p).head

TypeOn(g, p) ==
  LET headed == {q \in g.pages : Heading(g, q) # None}
      one == /\ Cardinality({Heading(g, q) : q \in headed}) = 1
             /\ IsCert(g) \/ 2 * Cardinality(headed) >= Cardinality(g.pages)
  IN IF one THEN Heading(g, First(headed)) ELSE Or(Heading(g, p), g.label.type)

BeginsRun(g, p) ==
  \A q \in g.pages : (q < p /\ ~\E r \in g.pages : q < r /\ r < p) => TypeOn(g, q) # TypeOn(g, p)

Starts(g) == {p \in g.pages : BeginsRun(g, p)}
RunOf(g, p) == Cardinality({q \in Starts(g) : q <= p})

Runs(g) ==
  [n \in 1..Cardinality(Starts(g)) |->
     LET run == {p \in g.pages : RunOf(g, p) = n} type == TypeOn(g, First(run)) IN
     [label |-> Plain(type), fit |-> IF type = g.label.type THEN g.fit ELSE "exact", pages |-> run]]

RelabelGroup ==
  /\ groupStep = "relabel" /\ pending # <<>>
  /\ groups' = groups \o IF IsIgnored(Head(pending)) THEN <<Head(pending)>> ELSE Runs(Head(pending))
  /\ pending' = Tail(pending)
  /\ UNCHANGED <<bundle, groupStep>>

(* On a file that is not HUD's, a nearest match onto a HUD form is none.   *)
HudProperty == bundle.hud \/ \E k \in DOMAIN groups : groups[k].label.type = Hud50059 /\ groups[k].label.suffix # "previous"

DemoteHudOnly ==
  /\ groupStep = "relabel" /\ pending = <<>>
  /\ groups' = [k \in DOMAIN groups |->
       IF HudProperty \/ IsIgnored(groups[k]) \/ groups[k].label.type \notin HudForms \/ groups[k].fit = "exact" THEN groups[k]
       ELSE [label |-> Plain(Untyped), fit |-> "none", pages |-> groups[k].pages]]
  /\ groupStep' = "promote"
  /\ UNCHANGED <<bundle, pending>>

-----------------------------------------------------------------------------
(* Without a current certification, the prior document whose first date is *)
(* latest, then the one of most pages, becomes the form of record.         *)
\* Mutant: only a prior form with a date is promoted.
DatedPriors ==
  IF \E k \in DOMAIN groups : Current(groups[k]) THEN {}
  ELSE {k \in DOMAIN groups : groups[k].label.suffix = "previous" /\ DatesOf(groups[k]) # {}}
Priors ==
  IF \E k \in DOMAIN groups : Current(groups[k]) THEN {}
  ELSE {k \in DOMAIN groups : groups[k].label.suffix = "previous"}

FirstDate(g) == LET dated == {p \in g.pages : Date(p) # 0} IN IF dated = {} THEN 0 ELSE Date(First(dated))

MoreRecent(k, j) ==
  LET g == groups[k] h == groups[j] IN
  \/ FirstDate(g) > FirstDate(h)
  \/ FirstDate(g) = FirstDate(h) /\ Cardinality(g.pages) > Cardinality(h.pages)
  \/ FirstDate(g) = FirstDate(h) /\ Cardinality(g.pages) = Cardinality(h.pages) /\ k < j

PromotePrior ==
  /\ groupStep = "promote"
  /\ groups' = IF Priors = {} THEN groups
               ELSE LET best == CHOOSE k \in Priors : \A j \in Priors \ {k} : MoreRecent(k, j)
                    IN [groups EXCEPT ![best].label = Plain(groups[best].label.type)]
  /\ groupStep' = "supersede"
  /\ UNCHANGED <<bundle, pending>>

(* Of the current forms of a type, the one that starts first stays, and    *)
(* one that starts in another file is superseded.                          *)
Start(g) == First(g.pages)
FileOf(g) == Cardinality({n \in DOMAIN bundle.files : bundle.files[n] <= Start(g)})

StartsFirst(label) ==
  {k \in DOMAIN groups : /\ groups[k].label = label /\ Current(groups[k])
                         /\ \A j \in DOMAIN groups : groups[j].label = label => ~(Start(groups[j]) < Start(groups[k]))}

IsSuperseded(k) ==
  /\ Current(groups[k])
  /\ \E j \in StartsFirst(groups[k].label) :
       Start(groups[j]) < Start(groups[k]) /\ FileOf(groups[j]) # FileOf(groups[k])

DemoteSuperseded ==
  /\ groupStep = "supersede"
  /\ groups' = [k \in DOMAIN groups |->
       IF IsSuperseded(k) THEN [groups[k] EXCEPT !.label = Label(groups[k].label.type, "superseded")] ELSE groups[k]]
  /\ groupStep' = "done"
  /\ UNCHANGED <<bundle, pending>>

GroupNext ==
  \/ AnswerGroup \/ ForgottenPage \/ BeginSplit
  \/ SplitGroup \/ OrderCertifications \/ RelabelGroup \/ DemoteHudOnly
  \/ PromotePrior \/ DemoteSuperseded
  \/ (groupStep = "done" /\ UNCHANGED groupVars)

GroupSpec == GroupInit /\ [][GroupNext]_groupVars

-----------------------------------------------------------------------------
(* A recertification packet that holds only last year's form must not go   *)
(* out without a household (_promote_prior_certification): whatever the    *)
(* model called the certifications, and whatever the passes renamed, split *)
(* or set aside, a packet that has a prior certification ends with one     *)
(* that is read.                                                           *)
ACertificationIsRead ==
  groupStep = "done" =>
    ((\E k \in DOMAIN groups : IsCert(groups[k]) /\ groups[k].label.suffix # "") => \E k \in DOMAIN groups : Current(groups[k]))

(* The passes lose no page and read none twice (classify_and_group): every *)
(* page with text that the model placed once, or forgot, is in exactly one *)
(* group from then to the end.                                             *)
EveryPageIsInOneGroup ==
  groupStep # "build" =>
    \A p \in DOMAIN bundle.pages :
      (PageOf(p).text /\ Cardinality({k \in DOMAIN bundle.groups : p \in bundle.groups[k].pages}) < 2) =>
        Cardinality({k \in DOMAIN (groups \o pending) : p \in (groups \o pending)[k].pages}) = 1
=============================================================================
