------------------------------ MODULE Feedback ------------------------------
(***************************************************************************)
(* Reviewer verdicts (POST /integration/findings_feedback,                 *)
(* routers/integration.py and the finding_feedback table of                *)
(* audit/job_store.py). A body is one case or a night's batch of them; a   *)
(* batch is stored case by case, one transaction each, and sent again      *)
(* until it is answered 200. The sender, Cartograph, is external.          *)
(***************************************************************************)
EXTENDS Naturals, Sequences, SequencesExt

CONSTANTS
  Body,      \* bodies: [environment, cases]; a case is [ref, verdicts, manual]
  NoRef,     \* the reference of a case that names none
  NoKey,     \* the finding key, or the description, of a row that has none
  MaxSends   \* how often a body is sent at most (bound)

ASSUME BodyAssumption ==
  \A b \in DOMAIN Body :
    /\ Body[b].cases \in Seq(Range(Body[b].cases))
    /\ \A i \in DOMAIN Body[b].cases : Body[b].cases[i].verdicts \in Seq(Range(Body[b].cases[i].verdicts))

VARIABLES table, receiving, sends, accepted, received

feedbackVars == <<table, receiving, sends, accepted, received>>

Nobody == [body |-> 0, at |-> 0, stored |-> {}]

FeedbackInit ==
  /\ table = {}
  /\ receiving = Nobody
  /\ sends = [b \in DOMAIN Body |-> 0]
  /\ accepted = {}
  /\ received = <<>>

(* The environment whose secret verified the request keys the rows. The    *)
(* primary key is (case, source, finding key, description), so a verdict   *)
(* on a finding replaces the one before; a keyless verdict and a manual    *)
(* finding without a description are passed over.                          *)
CaseKey(body, case) == <<body.environment, case.ref>>

VerdictRow(body, case, v) ==
  [case |-> CaseKey(body, case), source |-> "runpod", finding |-> v.key, description |-> NoKey, verdict |-> v.verdict]
ManualRow(body, case, d) ==
  [case |-> CaseKey(body, case), source |-> "manual", finding |-> NoKey, description |-> d, verdict |-> NoKey]

SamePrimaryKey(r, q) ==
  r.case = q.case /\ r.source = q.source /\ r.finding = q.finding /\ r.description = q.description

(* The rows a case leaves: of several verdicts on one finding, the last.   *)
IsLastOn(case, i) == \A k \in DOMAIN case.verdicts : k > i => case.verdicts[k].key # case.verdicts[i].key
RowsOf(body, case) ==
  {VerdictRow(body, case, case.verdicts[i]) : i \in {i \in DOMAIN case.verdicts : case.verdicts[i].key # NoKey /\ IsLastOn(case, i)}}
    \cup {ManualRow(body, case, d) : d \in Range(case.manual) \ {NoKey}}

StoredIn(t, body, case) ==
  {q \in t : \A r \in RowsOf(body, case) : ~SamePrimaryKey(q, r)} \cup RowsOf(body, case)

-----------------------------------------------------------------------------
BodyNow == Body[receiving.body]
Receiving == receiving # Nobody
CaseNow == BodyNow.cases[receiving.at]
MoreCases == receiving.at <= Len(BodyNow.cases)

Receive(b) ==
  /\ ~Receiving /\ b \notin accepted /\ sends[b] < MaxSends
  /\ receiving' = [body |-> b, at |-> 1, stored |-> {}]
  /\ sends' = [sends EXCEPT ![b] = @ + 1]
  /\ UNCHANGED <<table, accepted, received>>

StoreCase ==
  /\ Receiving /\ MoreCases /\ CaseNow.ref # NoRef
  /\ table' = StoredIn(table, BodyNow, CaseNow)
  /\ receiving' = [receiving EXCEPT !.at = @ + 1, !.stored = @ \cup {CaseNow.ref}]
  /\ received' = Append(received, <<receiving.body, receiving.at>>)
  /\ UNCHANGED <<sends, accepted>>

(* A case without a reference is skipped and counted.                      *)
SkipCase ==
  /\ Receiving /\ MoreCases /\ CaseNow.ref = NoRef
  /\ receiving' = [receiving EXCEPT !.at = @ + 1]
  /\ UNCHANGED <<table, sends, accepted, received>>

(* A case that cannot be stored answers 500 there and then, its own rows   *)
(* rolled back and those of the cases before it kept. The process may stop *)
(* at the same place.                                                      *)
PassedOver == receiving' = [receiving EXCEPT !.at = @ + 1] /\ UNCHANGED <<table, sends, accepted, received>>
CannotStore == receiving' = Nobody /\ UNCHANGED <<table, sends, accepted, received>>

StoreFails == Receiving /\ MoreCases /\ CaseNow.ref # NoRef /\ CannotStore

(* All read: 200 when a case was stored, 400 when none has a reference.    *)
(* The answer may be lost, and then the body comes again.                  *)
Answer ==
  /\ Receiving /\ ~MoreCases
  /\ receiving' = Nobody
  /\ accepted' = IF receiving.stored # {} THEN accepted \cup {receiving.body} ELSE accepted
  /\ UNCHANGED <<table, sends, received>>

AnswerLost == Receiving /\ ~MoreCases /\ receiving' = Nobody /\ UNCHANGED <<table, sends, accepted, received>>

FeedbackNext ==
  \/ \E b \in DOMAIN Body : Receive(b)
  \/ StoreCase \/ SkipCase \/ StoreFails \/ Answer \/ AnswerLost
  \/ ~Receiving /\ (\A b \in DOMAIN Body : b \in accepted \/ sends[b] = MaxSends) /\ UNCHANGED feedbackVars

FeedbackSpec == FeedbackInit /\ [][FeedbackNext]_feedbackVars

-----------------------------------------------------------------------------
(* The per-code counts of feedback_summary: rows judged valid or invalid.  *)
Judged(finding) == {r \in table : r.source = "runpod" /\ r.finding = finding /\ r.verdict \in {"valid", "invalid"}}

CaseOf(event) == Body[event[1]].cases[event[2]]
KeyOf(event) == CaseKey(Body[event[1]], CaseOf(event))
Judges(n, k, c, finding) ==
  /\ n \in DOMAIN received /\ KeyOf(received[n]) = c
  /\ k \in DOMAIN CaseOf(received[n]).verdicts /\ CaseOf(received[n]).verdicts[k].key = finding

(* The k-th verdict of the n-th case received is the last on the finding.  *)
LastJudges(n, k, c, finding) ==
  /\ Judges(n, k, c, finding)
  /\ \A m \in DOMAIN received : \A l \in DOMAIN CaseOf(received[m]).verdicts :
       Judges(m, l, c, finding) => m < n \/ (m = n /\ l <= k)

RowOf(n, k) == VerdictRow(Body[received[n][1]], CaseOf(received[n]), CaseOf(received[n]).verdicts[k])

(* Every verdict of an answered body stands in the table unless a case     *)
(* received after it judges the same finding, and a finding is counted     *)
(* once however often its verdict was sent: through a case that fails, a   *)
(* stop, a lost answer and a body sent again behind a later one.           *)
AcceptedVerdictsStand ==
  \A b \in accepted : \A i \in DOMAIN Body[b].cases :
    LET case == Body[b].cases[i] IN
    case.ref # NoRef =>
      \A v \in Range(case.verdicts) :
        v.key # NoKey =>
          LET c == CaseKey(Body[b], case) IN
          \E n \in DOMAIN received : \E k \in DOMAIN CaseOf(received[n]).verdicts :
            /\ LastJudges(n, k, c, v.key)
            /\ {r \in table : r.source = "runpod" /\ r.finding = v.key /\ r.case = c} = {RowOf(n, k)}
            /\ {r \in Judged(v.key) : r.case = c} = IF RowOf(n, k).verdict \in {"valid", "invalid"} THEN {RowOf(n, k)} ELSE {}
=============================================================================
