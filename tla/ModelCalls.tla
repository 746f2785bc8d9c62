----------------------------- MODULE ModelCalls -----------------------------
(***************************************************************************)
(* The calls to the language model behind one audit                        *)
(* (app/services/llm_service.py) and what becomes of one that fails: API   *)
(* trouble is retried, an answer cut off or not JSON is asked for once     *)
(* more, and then the read fails. The documents of a section are read a    *)
(* few at a time and kept in the order of the documents; a failed read     *)
(* fails the case, which is extracted whole again, or, for a read the      *)
(* audit can do without, leaves an empty list.                             *)
(***************************************************************************)
EXTENDS Naturals, Sequences, FiniteSets
LOCAL INSTANCE SequencesExt

CONSTANTS
  Documents,    \* source documents of the income and of the asset section
  Readers,      \* reads of one section under way at once
  Sections,     \* the sections that call the model, in the pipeline's order
  Budget,       \* the output budget of each section's calls
  MaxOutput,    \* the largest budget of the one larger ask
  MaxAttempts   \* extractions of the case, the first one included

ASSUME CallsAssumption ==
  /\ Documents \in Nat /\ Readers \in Nat \ {0} /\ MaxOutput \in Nat /\ MaxAttempts \in Nat \ {0}
  /\ Sections \in Seq(DOMAIN Budget) /\ Budget \in [DOMAIN Budget -> Nat]

VARIABLES section, reads, answers, attempt, caseOutcome

callVars == <<section, reads, answers, attempt, caseOutcome>>

MaxRetries == 4
AskedTwice == 2

PerDocument == {"income", "assets"}
OptionalReads == {"signature", "declared"}

(* The signature check shows the page and asks under one count for both    *)
(* failures; a text read counts truncated and unreadable answers apart.    *)
OneCount(s) == s = "signature"
ReadsOf(s) == IF s \in PerDocument THEN 1..Documents ELSE {1}

NewRead(s) == [step |-> "waiting", requests |-> 0, cuts |-> 0, bad |-> 0, budget |-> Budget[s], why |-> "none"]
ReadsAt(i) == IF i > Len(Sections) THEN <<>> ELSE [r \in ReadsOf(Sections[i]) |-> NewRead(Sections[i])]
NothingKept == [i \in 1..Len(Sections) |-> <<>>]

Here == Sections[section]
Under(steps) == {r \in DOMAIN reads : reads[r].step \in steps}

CallInit ==
  /\ section = 1
  /\ reads = ReadsAt(1)
  /\ answers = NothingKept
  /\ attempt = 1
  /\ caseOutcome = "running"

Reading == caseOutcome = "running" /\ section <= Len(Sections)
Becomes(r, now) == reads' = [reads EXCEPT ![r] = now] /\ UNCHANGED <<section, answers, attempt, caseOutcome>>
Failed(now, why) == [NewRead(Here) EXCEPT !.step = "failed", !.why = why]

(* The pool hands the documents to its threads in their order.             *)
BeginRead(r) ==
  /\ Reading
  /\ r \in Under({"waiting"}) /\ \A q \in Under({"waiting"}) : r <= q
  /\ Cardinality(Under({"asking"})) < Readers
  /\ Becomes(r, [reads[r] EXCEPT !.step = "asking"])

(* A connection error, a time-out, a 5xx, a rate limit or an overload: the *)
(* request is made again after a wait, four times in all.                  *)
ApiBusy(r) ==
  /\ Reading /\ r \in Under({"asking"})
  /\ LET now == [reads[r] EXCEPT !.requests = @ + 1] IN
     Becomes(r, IF now.requests = MaxRetries THEN Failed(now, "unavailable") ELSE now)

(* Any other API status is permanent.                                      *)
ApiRefuses(r) ==
  /\ Reading /\ r \in Under({"asking"})
  /\ Becomes(r, Failed(reads[r], "refused"))

Larger(budget) == IF 2 * budget < MaxOutput THEN 2 * budget ELSE MaxOutput

(* An answer that stopped at max_tokens is asked for once more at twice    *)
(* the budget, if there is a larger one.                                   *)
AnswerCut(r) ==
  /\ Reading /\ r \in Under({"asking"})
  /\ LET now == [reads[r] EXCEPT !.requests = 0, !.cuts = @ + 1]
         asked == now.cuts + (IF OneCount(Here) THEN now.bad ELSE 0) IN
     Becomes(r, IF asked < AskedTwice /\ now.budget < MaxOutput
                THEN [now EXCEPT !.budget = Larger(@)]
                ELSE Failed(now, "truncated"))

(* A complete answer that holds no JSON object is asked for once more,     *)
(* from the first budget; the count of truncations starts again.           *)
AnswerNotJson(r) ==
  /\ Reading /\ r \in Under({"asking"})
  /\ LET now == [reads[r] EXCEPT !.requests = 0, !.bad = @ + 1]
         asked == now.bad + (IF OneCount(Here) THEN now.cuts ELSE 0) IN
     Becomes(r, IF asked >= AskedTwice THEN Failed(now, "not json")
                ELSE IF OneCount(Here) THEN now
                ELSE [now EXCEPT !.cuts = 0, !.budget = Budget[Here]])

AnswerUsable(r) ==
  /\ Reading /\ r \in Under({"asking"})
  /\ Becomes(r, [NewRead(Here) EXCEPT !.step = "answered"])

(* The results are taken in the order of the documents. The first failure  *)
(* met there calls off the reads that have not begun; those under way are  *)
(* waited for.                                                             *)
FirstFailure == {r \in Under({"failed"}) : \A q \in 1..(r - 1) : reads[q].step = "answered"}

CallOff ==
  /\ Reading /\ FirstFailure # {} /\ Under({"waiting"}) # {}
  /\ reads' = [r \in DOMAIN reads |-> IF reads[r].step = "waiting" THEN [reads[r] EXCEPT !.step = "called off"]
                                      ELSE reads[r]]
  /\ UNCHANGED <<section, answers, attempt, caseOutcome>>

(* The failures that leave a section empty instead of failing the case.    *)
InOrderOf(S) == SetToSortSeq(S, <)
KeptReads == InOrderOf(Under({"answered"}))
FailsTheCaseWhenEmpty(s) == s \notin OptionalReads /\ KeptReads = <<>>
FailsTheCase(s) == s \notin OptionalReads

SectionRead ==
  /\ Reading /\ Under({"waiting", "asking"}) = {}
  /\ FirstFailure = {} \/ ~FailsTheCase(Here)
  /\ answers' = [answers EXCEPT ![section] = KeptReads]
  /\ section' = section + 1
  /\ reads' = ReadsAt(section + 1)
  /\ UNCHANGED <<attempt, caseOutcome>>

(* Every failure is raised as the section's being unavailable, which the   *)
(* retry policy takes for transient.                                       *)
RaisedAs(why) == "unavailable"
IsRetryable(error) == error = "unavailable"

SectionFails ==
  /\ Reading /\ Under({"waiting", "asking"}) = {}
  /\ FirstFailure # {} /\ FailsTheCase(Here)
  /\ \E r \in FirstFailure :
       IF attempt < MaxAttempts /\ IsRetryable(RaisedAs(reads[r].why))
       THEN /\ attempt' = attempt + 1 /\ section' = 1 /\ reads' = ReadsAt(1) /\ answers' = NothingKept
            /\ UNCHANGED caseOutcome
       ELSE caseOutcome' = "failed" /\ UNCHANGED <<section, reads, answers, attempt>>

CaseDelivered ==
  /\ caseOutcome = "running" /\ section = Len(Sections) + 1
  /\ caseOutcome' = "delivered"
  /\ UNCHANGED <<section, reads, answers, attempt>>

CallsEnded == caseOutcome # "running" /\ UNCHANGED callVars

CallNext ==
  \/ \E r \in DOMAIN reads :
       BeginRead(r) \/ ApiBusy(r) \/ ApiRefuses(r) \/ AnswerCut(r) \/ AnswerNotJson(r) \/ AnswerUsable(r)
  \/ CallOff \/ SectionRead \/ SectionFails \/ CaseDelivered \/ CallsEnded

CallSpec == CallInit /\ [][CallNext]_callVars

-----------------------------------------------------------------------------
(* A finished audit has read every document of every section, each kept    *)
(* once and in the order of the packet, whichever thread was answered      *)
(* first: a read that failed never became an empty section.                *)
FinishedAuditHasReadEverything ==
  caseOutcome = "delivered" =>
    \A i \in 1..Len(Sections) :
      Sections[i] \notin OptionalReads => answers[i] = InOrderOf(ReadsOf(Sections[i]))

=============================================================================
