---------------------------- MODULE LifecycleProofs ---------------------------
(***************************************************************************)
(* The engine implements the lifecycle its README promises of a job, for   *)
(* every set of environments, cases and workers and whatever fails: each   *)
(* step of a thread, a restart or a sweep is a step of JobLifecycle or     *)
(* changes nothing it shows - provided the watchdog is patient.            *)
(***************************************************************************)
EXTENDS HolderProofs

-----------------------------------------------------------------------------
(* The strengthening: which states a row has at all, and which one an      *)
(* audit has given its row by the step it is at.                           *)
LifeStates ==
  {"absent", "queued", "extracting", "extracted", "done", "extraction_failed", "comparison_failed"}

Answered(k) == "result" \in heard[k]

Reading == {"fetch", "read", "extract"}

Delivering == {"deliver", "accepted", "rejected", "raised", "toDone", "toFailed"}

AuditRow(w) ==
  phase[w] = "running" =>
    /\ step[w] \in Reading => rows[Job(slot[w])].state = "extracting"
    /\ step[w] \in Delivering => rows[Job(slot[w])].state = "extracted"
    /\ step[w] \in {"accepted", "toDone"} => Answered(Job(slot[w]))

LifeInv ==
  /\ WatchInv
  /\ \A k \in Key : rows[k].state \in LifeStates
  /\ \A w \in Worker : AuditRow(w)

(* What a step does to one job: nothing the lifecycle shows, or one of its *)
(* moves.                                                                  *)
SameAnswer(k) == ("result" \in heard'[k]) = ("result" \in heard[k])

Stays(k) == rows'[k].state = rows[k].state /\ SameAnswer(k)

Begins(k) == ~IsOwned(rows, k) /\ rows'[k].state = "queued" /\ "result" \notin heard'[k]

GoesOn(k) ==
  /\ SameAnswer(k)
  /\ \/ IsOwned(rows, k) /\ rows'[k].state = "extracting"
     \/ rows[k].state = "extracting" /\ rows'[k].state = "extracted"

IsAnswered(k) == rows[k].state = "extracted" /\ rows'[k].state = "extracted" /\ "result" \in heard'[k]

Ends(k) ==
  /\ SameAnswer(k)
  /\ \/ rows[k].state = "extracted" /\ Answered(k) /\ rows'[k].state = "done"
     \/ IsOwned(rows, k) /\ rows'[k].state \in {"extraction_failed", "comparison_failed"}

OneMoves(k) ==
  /\ Begins(k) \/ GoesOn(k) \/ IsAnswered(k) \/ Ends(k)
  /\ \A j \in Key : j # k => Stays(j)

NoneMoves == \A j \in Key : Stays(j)

Forgotten(old) ==
  /\ \A k \in old : rows[k].state \in {"done", "extraction_failed", "comparison_failed"}
  /\ \A k \in Key : /\ rows'[k].state = IF k \in old THEN "absent" ELSE rows[k].state
                    /\ SameAnswer(k)

-----------------------------------------------------------------------------
(* Each is a step of the lifecycle.                                        *)
LEMMA QuietLife ==
  ASSUME NoneMoves
  PROVE  UNCHANGED Lifecycle!jobVars
<1>1. \A k \in Key : Status(rows'[k].state) = Status(rows[k].state)
  BY DEF NoneMoves, Stays
<1>2. \A k \in Key : ("result" \in heard'[k]) = ("result" \in heard[k])
  BY DEF NoneMoves, Stays, SameAnswer, Answered
<1> QED
  BY <1>1, <1>2 DEF Lifecycle!jobVars

LEMMA MovingLife ==
  ASSUME NEW k \in Key, OneMoves(k), rows[k].state \in LifeStates
  PROVE  Lifecycle!LifeNext
<1> DEFINE S == [j \in Key |-> Status(rows[j].state)]
           A == [j \in Key |-> "result" \in heard[j]]
<1>1. S' = [S EXCEPT ![k] = Status(rows'[k].state)]
  <2>1. \A j \in Key : j # k => Status(rows'[j].state) = Status(rows[j].state)
    BY DEF OneMoves, Stays
  <2> QED
    BY <2>1
<1>2. A' = [A EXCEPT ![k] = ("result" \in heard'[k])]
  <2>1. \A j \in Key : j # k => ("result" \in heard'[j]) = ("result" \in heard[j])
    BY DEF OneMoves, Stays, SameAnswer, Answered
  <2> QED
    BY <2>1
<1>3. ASSUME SameAnswer(k) PROVE A' = A
  <2>1. ("result" \in heard'[k]) = ("result" \in heard[k])
    BY <1>3 DEF SameAnswer
  <2> QED
    BY <1>2, <2>1
<1>4. S[k] = Status(rows[k].state) /\ A[k] = ("result" \in heard[k])
  OBVIOUS
<1>5. IsOwned(rows, k) <=> S[k] \in Lifecycle!UnderWay
  BY <1>4 DEF IsOwned, Present, OwnedStates, LifeStates, Status, Lifecycle!UnderWay
<1> HIDE DEF S, A
<1>6. CASE Begins(k)
  <2>1. S' = [S EXCEPT ![k] = "waiting"]
    BY <1>1, <1>6 DEF Begins, Status
  <2>2. A' = [A EXCEPT ![k] = FALSE]
    <3>1. ("result" \in heard'[k]) = FALSE
      BY <1>6 DEF Begins, SameAnswer, Answered
    <3> QED
      BY <1>2, <3>1
  <2>3. Lifecycle!Accept(k)
    BY <1>5, <1>6, <2>1, <2>2 DEF Begins, Lifecycle!Accept, Lifecycle!Become, S, A
  <2> QED
    BY <2>3 DEF Lifecycle!LifeNext
<1>7. CASE GoesOn(k)
  <2>1. CASE IsOwned(rows, k) /\ rows'[k].state = "extracting"
    <3>1. S' = [S EXCEPT ![k] = "auditing"]
      BY <1>1, <2>1 DEF Status
    <3>2. A' = A
      BY <1>3, <1>7 DEF GoesOn
    <3>3. Lifecycle!Start(k)
      BY <1>5, <2>1, <3>1, <3>2 DEF Lifecycle!Start, Lifecycle!Become, S, A
    <3> QED
      BY <3>3 DEF Lifecycle!LifeNext
  <2>2. CASE rows[k].state = "extracting" /\ rows'[k].state = "extracted"
    <3>1. S' = [S EXCEPT ![k] = "delivering"] /\ S[k] = "auditing"
      BY <1>1, <1>4, <2>2 DEF Status
    <3>2. A' = A
      BY <1>3, <1>7 DEF GoesOn
    <3>3. Lifecycle!Complete(k)
      BY <3>1, <3>2 DEF Lifecycle!Complete, Lifecycle!Become, S, A
    <3> QED
      BY <3>3 DEF Lifecycle!LifeNext
  <2> QED
    BY <1>7, <2>1, <2>2 DEF GoesOn
<1>8. CASE IsAnswered(k)
  <2>1. S[k] = "delivering" /\ Status(rows'[k].state) = S[k]
    BY <1>4, <1>8 DEF IsAnswered, Status
  <2>2. S' = S
    BY <1>1, <2>1 DEF S
  <2>3. A' = [A EXCEPT ![k] = TRUE]
    <3>1. ("result" \in heard'[k]) = TRUE
      BY <1>8 DEF IsAnswered, Answered
    <3> QED
      BY <1>2, <3>1
  <2>4. Lifecycle!Receive(k)
    BY <2>1, <2>2, <2>3 DEF Lifecycle!Receive, S, A
  <2> QED
    BY <2>4 DEF Lifecycle!LifeNext
<1>9. CASE Ends(k)
  <2>1. A' = A
    BY <1>3, <1>9 DEF Ends
  <2>2. CASE rows[k].state = "extracted" /\ Answered(k) /\ rows'[k].state = "done"
    <3>1. S' = [S EXCEPT ![k] = "done"] /\ S[k] = "delivering" /\ A[k]
      BY <1>1, <1>4, <2>2 DEF Status, SameAnswer, Answered
    <3>2. Lifecycle!Finish(k)
      BY <2>1, <3>1 DEF Lifecycle!Finish, Lifecycle!Become, S, A
    <3> QED
      BY <3>2 DEF Lifecycle!LifeNext
  <2>3. CASE /\ IsOwned(rows, k)
             /\ rows'[k].state \in {"extraction_failed", "comparison_failed"}
    <3>1. S' = [S EXCEPT ![k] = "failed"]
      BY <1>1, <2>3 DEF Status
    <3>2. Lifecycle!Fail(k)
      BY <1>5, <2>1, <2>3, <3>1 DEF Lifecycle!Fail, Lifecycle!Become, S, A
    <3> QED
      BY <3>2 DEF Lifecycle!LifeNext
  <2> QED
    BY <1>9, <2>2, <2>3 DEF Ends
<1> QED
  BY <1>6, <1>7, <1>8, <1>9 DEF OneMoves

LEMMA ForgettingLife ==
  ASSUME NEW old \in SUBSET Key, Forgotten(old)
  PROVE  Lifecycle!LifeNext
<1> DEFINE S == [j \in Key |-> Status(rows[j].state)]
           A == [j \in Key |-> "result" \in heard[j]]
<1>1. \A k \in old : S[k] \in Lifecycle!Ended
  BY DEF Forgotten, Status, Lifecycle!Ended
<1>2. S' = [k \in Key |-> IF k \in old THEN "absent" ELSE S[k]]
  BY DEF Forgotten, Status
<1>3. A' = A
  <2>1. \A k \in Key : ("result" \in heard'[k]) = ("result" \in heard[k])
    BY DEF Forgotten, SameAnswer, Answered
  <2> QED
    BY <2>1
<1>4. Lifecycle!Forget(old)
  BY <1>1, <1>2, <1>3 DEF Lifecycle!Forget
<1> QED
  BY <1>4 DEF Lifecycle!LifeNext

-----------------------------------------------------------------------------
(* Which steps move a job. A notice, or a touch of a row, shows nothing.   *)
LEMMA NoticeAnswers ==
  ASSUME TypeOK, NEW j, NoticeSent(j), NEW k \in Key
  PROVE  SameAnswer(k)
<1>1. heard' = heard \/ heard' = [heard EXCEPT ![j] = heard[j] \cup {"failure"}]
  BY DEF NoticeSent
<1>2. CASE heard' = heard
  BY <1>2 DEF SameAnswer, Answered
<1>3. CASE heard' = [heard EXCEPT ![j] = heard[j] \cup {"failure"}]
  BY <1>3 DEF SameAnswer, Answered, TypeOK
<1> QED
  BY <1>1, <1>2, <1>3

LEMMA StateKept ==
  ASSUME NEW tbl \in Table, NEW k \in Key, NEW j, NEW d
  PROVE  /\ Touch(tbl, j)[k].state = tbl[k].state
         /\ RecordRequest(tbl, j, d)[k].state = tbl[k].state
         /\ CloseWindow(tbl, j)[k].state = tbl[k].state
         /\ Aged(tbl)[k].state = tbl[k].state
  BY DEF Touch, RecordRequest, CloseWindow, Aged, Table, Row

LEMMA RowsQuiet ==
  ASSUME TypeOK, heard' = heard,
         \/ rows' = rows \/ rows' = Aged(rows)
         \/ \E j, d : \/ rows' = Touch(rows, j) \/ rows' = CloseWindow(rows, j)
                      \/ rows' = RecordRequest(rows, j, d)
  PROVE  NoneMoves
<1>1. rows \in Table
  BY DEF TypeOK
<1>2. ASSUME NEW k \in Key PROVE rows'[k].state = rows[k].state
  <2>1. CASE rows' = rows \/ rows' = Aged(rows)
    BY <1>1, <2>1, StateKept
  <2>2. CASE ~(rows' = rows \/ rows' = Aged(rows))
    <3>1. PICK j, d : \/ rows' = Touch(rows, j) \/ rows' = CloseWindow(rows, j)
                      \/ rows' = RecordRequest(rows, j, d)
      BY <2>2
    <3> QED
      BY <1>1, <3>1, StateKept
  <2> QED
    BY <2>1, <2>2
<1> QED
  BY <1>2 DEF NoneMoves, Stays, SameAnswer, Answered

(* A mark made on the one row of an owned job.                             *)
LEMMA MarkedRow ==
  ASSUME NEW tbl \in Table, NEW k, Present(tbl, k)
  PROVE  /\ MarkExtracting(tbl, k)[k].state = "extracting"
         /\ MarkExtracted(tbl, k)[k].state = "extracted"
         /\ MarkExtractionFailed(tbl, k)[k].state = "extraction_failed"
         /\ MarkComparisonFailed(tbl, k)[k].state = "comparison_failed"
         /\ MarkDone(tbl, k)[k].state = "done"
  BY DEF MarkExtracting, MarkExtracted, MarkExtractionFailed, MarkComparisonFailed, SetState,
     MarkDone, Present, Table, Row

LEMMA LoopLife ==
  ASSUME LifeInv, TypeOK, LoopStep
  PROVE  NoneMoves \/ \E k \in Key : ~IsOwned(rows, k) /\ OneMoves(k)
<1>0. rows \in Table /\ heard \in [Key -> SUBSET {"result", "failure"}]
  BY DEF TypeOK
<1>1. CASE ClaimCase
  <2> DEFINE k == Job(loopTask)
  <2>1. k \in Key
    BY <1>1, JobType DEF ClaimCase, TypeOK
  <2>2. /\ rows' = UpsertPending(rows, k, sent) /\ heard' = [heard EXCEPT ![k] = {}]
        /\ ~IsOwned(rows, k)
    BY <1>1 DEF ClaimCase
  <2> HIDE DEF k
  <2>3. Begins(k)
    <3>1. rows'[k].state = "queued"
      BY <1>0, <2>1, <2>2 DEF UpsertPending, Table
    <3>2. "result" \notin heard'[k]
      BY <1>0, <2>1, <2>2
    <3> QED
      BY <2>2, <3>1, <3>2 DEF Begins, SameAnswer, Answered
  <2>4. ASSUME NEW j \in Key, j # k PROVE Stays(j)
    <3>1. rows'[j] = rows[j]
      BY <1>0, <2>2, <2>4, UpsertKept
    <3> QED
      BY <1>0, <2>2, <2>4, <3>1 DEF Stays, SameAnswer, Answered
  <2> QED
    BY <2>1, <2>2, <2>3, <2>4 DEF OneMoves
<1>2. CASE ~ClaimCase
  <2>1. /\ heard' = heard
        /\ rows' = rows \/ rows' = RecordRequest(rows, Job(loopTask), loopTask.docs)
    BY <1>2 DEF LoopStep, ClaimDuplicate, KeepRequest, HandlerRaises, LoopJoin, LoopEnqueue,
       diskVars, cartographVars
  <2> QED
    BY <2>1, RowsQuiet
<1> QED
  BY <1>1, <1>2

(* The watchdog and the start end what nobody holds.                       *)
LEMMA SweepLife ==
  ASSUME LifeInv, TypeOK,
         \/ \E j \in todo : WatchdogFail(j)
         \/ \E j \in claims : FailInterrupted(j)
  PROVE  \E k \in Key : HolderCount(k) = 0 /\ OneMoves(k)
<1>1. PICK j \in claims \cup todo : WatchdogFail(j) \/ FailInterrupted(j)
  OBVIOUS
<1>2. /\ j \in Key /\ IsOwned(rows, j) /\ HolderCount(j) = 0 /\ rows \in Table
      /\ rows' = MarkExtractionFailed(rows, j) /\ heard' = heard
  BY <1>1 DEF LifeInv, WatchInv, KeyInv, TypeOK, WatchdogFail, FailInterrupted, cartographVars
<1>3. Ends(j)
  BY <1>2, MarkedRow DEF Ends, SameAnswer, Answered, IsOwned
<1>4. ASSUME NEW k \in Key, k # j PROVE Stays(k)
  <2>1. rows'[k] = rows[k]
    BY <1>2, <1>4, MarkKept
  <2> QED
    BY <1>2, <2>1 DEF Stays, SameAnswer, Answered
<1> QED
  BY <1>2, <1>3, <1>4 DEF OneMoves

(* The audit's own steps: what they do to its job.                         *)
LEMMA LiveOwns ==
  ASSUME LifeInv, TypeOK', NEW w \in Worker, phase[w] = "running", step[w] \in LiveSteps
  PROVE  /\ Job(slot[w]) \in Key /\ slot[w] \in Task
         /\ IsOwned(rows, Job(slot[w])) /\ Present(rows, Job(slot[w])) /\ AuditRow(w)
<1>1. TypeOK /\ \A k \in Key : KeyInv(k)
  BY DEF LifeInv, WatchInv, BaseInv
<1>2. slot[w] \in Task /\ Job(slot[w]) \in Key
  BY <1>1, HeldTask
<1>3. IsOwned(rows, Job(slot[w]))
  BY <1>1, <1>2, WorkerOwns
<1> QED
  BY <1>2, <1>3 DEF IsOwned, LifeInv

LEMMA TurnLife ==
  ASSUME TypeOK, TypeOK', NEW w \in Worker, TakeCase(w) \/ BeginCase(w) \/ LeaveCase(w)
  PROVE  NoneMoves /\ AuditRow(w)'
<1>1. rows' = rows /\ heard' = heard
  BY DEF TakeCase, BeginCase, LeaveCase, diskVars, cartographVars
<1>2. phase'[w] # "running" \/ step'[w] = "start"
  BY DEF TakeCase, Take, BeginCase, Goto, LeaveCase, Leave, TypeOK, IntakeTypeOK
<1> QED
  BY <1>1, <1>2, RowsQuiet DEF AuditRow, Reading, Delivering

LEMMA ReadingLife ==
  ASSUME LifeInv, TypeOK', NEW w \in Worker,
         \/ StartAudit(w) \/ Fetch(w) \/ FallBack(w) \/ DocumentsUnavailable(w) \/ Heartbeat(w)
         \/ PagesRead(w) \/ RetryExtraction(w) \/ ExtractionFails(w) \/ Extract(w)
  PROVE  /\ NoneMoves \/ (step[w] \in LiveSteps /\ phase[w] = "running" /\ OneMoves(Job(slot[w])))
         /\ AuditRow(w)'
<1> DEFINE j == Job(slot[w])
<1>0. /\ TypeOK /\ rows \in Table /\ step \in [Worker -> Steps]
      /\ phase[w] = "running" /\ step[w] \in LiveSteps
      /\ UNCHANGED <<phase, slot, heard>>
  BY DEF StartAudit, Fetch, FallBack, DocumentsUnavailable, PagesRead, RetryExtraction, Heartbeat,
     ExtractionFails, Extract, At, LiveSteps, RestOfAudit, intakeVars, LifeInv, WatchInv, BaseInv,
     TypeOK
<1>1. j \in Key /\ IsOwned(rows, j) /\ Present(rows, j) /\ AuditRow(w)
  BY <1>0, LiveOwns
<1> HIDE DEF j
<1>2. ASSUME \A k \in Key : k # j => rows'[k] = rows[k] PROVE \A k \in Key : k # j => Stays(k)
  BY <1>0, <1>2 DEF Stays, SameAnswer, Answered
<1>3. CASE StartAudit(w)
  <2>1. rows' = MarkExtracting(rows, j) /\ step'[w] = "fetch"
    BY <1>0, <1>3 DEF StartAudit, Goto, j
  <2>2. rows'[j].state = "extracting" /\ \A k \in Key : k # j => Stays(k)
    BY <1>0, <1>1, <1>2, <2>1, MarkedRow, MarkKept
  <2>3. OneMoves(j)
    BY <1>0, <1>1, <2>2 DEF OneMoves, GoesOn, SameAnswer, Answered
  <2>4. AuditRow(w)'
    BY <1>0, <2>1, <2>2 DEF AuditRow, Reading, Delivering, Job, JobKey, j
  <2> QED
    BY <1>0, <2>3, <2>4 DEF j
<1>4. CASE Extract(w)
  <2>1. rows' = MarkExtracted(rows, j) /\ step'[w] = "deliver" /\ rows[j].state = "extracting"
    BY <1>0, <1>1, <1>4 DEF Extract, Goto, At, AuditRow, Reading, j
  <2>2. rows'[j].state = "extracted" /\ \A k \in Key : k # j => Stays(k)
    BY <1>0, <1>1, <1>2, <2>1, MarkedRow, MarkKept
  <2>3. OneMoves(j)
    BY <1>0, <2>1, <2>2 DEF OneMoves, GoesOn, SameAnswer, Answered
  <2>4. AuditRow(w)'
    BY <1>0, <2>1, <2>2 DEF AuditRow, Reading, Delivering, Job, JobKey, j
  <2> QED
    BY <1>0, <2>3, <2>4 DEF j
<1>5. CASE DocumentsUnavailable(w) \/ ExtractionFails(w)
  <2>1. rows' = MarkExtractionFailed(rows, j) /\ step'[w] \in {"report", "reportAndClean"}
    BY <1>0, <1>5 DEF DocumentsUnavailable, ExtractionFails, Goto, j
  <2>2. rows'[j].state = "extraction_failed" /\ \A k \in Key : k # j => Stays(k)
    BY <1>0, <1>1, <1>2, <2>1, MarkedRow, MarkKept
  <2>3. OneMoves(j)
    BY <1>0, <1>1, <2>2 DEF OneMoves, Ends, SameAnswer, Answered
  <2>4. AuditRow(w)'
    BY <2>1 DEF AuditRow, Reading, Delivering
  <2> QED
    BY <1>0, <2>3, <2>4 DEF j
<1>6. CASE Fetch(w) \/ FallBack(w) \/ PagesRead(w) \/ RetryExtraction(w) \/ Heartbeat(w)
  <2>1. /\ rows' = rows \/ rows' = Touch(rows, j)
        /\ step[w] \in Reading /\ step'[w] \in Reading
    BY <1>0, <1>6 DEF Fetch, FallBack, PagesRead, RetryExtraction, Heartbeat, Goto, At, Reading,
       diskVars, j
  <2>2. NoneMoves
    BY <1>0, <2>1, RowsQuiet
  <2>3. rows'[j].state = "extracting"
    BY <1>0, <1>1, <2>1, <2>2 DEF AuditRow, NoneMoves, Stays, j
  <2>4. AuditRow(w)'
    BY <1>0, <2>1, <2>3 DEF AuditRow, Reading, Delivering, Job, JobKey, j
  <2> QED
    BY <2>2, <2>4
<1> QED
  BY <1>3, <1>4, <1>5, <1>6

(* The outcome of a delivery, marked on the bare case reference, is marked *)
(* on the job's own row or on none.                                        *)
LEMMA OutcomeLife ==
  ASSUME LifeInv, TypeOK', OneSided, NEW w \in Worker,
         DeliveryNotConfigured(w) \/ DeliveryRejected(w) \/ DeliveryAccepted(w)
  PROVE  NoneMoves \/ OneMoves(Job(slot[w]))
<1> DEFINE t == slot[w]
           j == Job(slot[w])
<1>0. /\ TypeOK /\ FromSenders /\ rows \in Table /\ phase[w] = "running" /\ step[w] \in LiveSteps
      /\ heard' = heard
  BY DEF DeliveryNotConfigured, DeliveryRejected, DeliveryAccepted, At, LiveSteps, LifeInv,
     WatchInv, BaseInv, TypeOK
<1>1. /\ t \in Task /\ j \in Key /\ IsOwned(rows, j) /\ Present(rows, j) /\ AuditRow(w)
      /\ KeyInv(j)
  BY <1>0, LiveOwns DEF LifeInv, WatchInv
<1>2. t.env \in Sender
  BY <1>1, KeyEnv DEF LifeInv, WatchInv, BaseInv, FromSenders
<1>3. ASSUME NEW k \in Key, k # j PROVE Stays(k)
  <2>1. rows'[k] = rows[k]
    BY <1>0, <1>1, <1>3, OutcomeRows
  <2> QED
    BY <1>0, <2>1 DEF Stays, SameAnswer
<1>4. \A k \in Key : Present(rows, k) => PrefixEnv(k) \in Sender
  BY <1>0 DEF FromSenders
<1>5. /\ DeliveryNotConfigured(w) \/ DeliveryRejected(w)
           => rows' = MarkComparisonFailed(rows, BareKey(t.case))
      /\ DeliveryAccepted(w) => rows' = MarkDone(rows, BareKey(t.case))
  BY DEF DeliveryNotConfigured, DeliveryRejected, DeliveryAccepted
<1>6. DeliveryAccepted(w) => rows[j].state = "extracted" /\ "result" \in heard[j]
  BY <1>1 DEF DeliveryAccepted, At, AuditRow, Delivering, Answered
<1>7. /\ \/ MarkComparisonFailed(rows, BareKey(t.case))[j].state = rows[j].state
         \/ MarkComparisonFailed(rows, BareKey(t.case))[j].state = "comparison_failed"
      /\ \/ MarkDone(rows, BareKey(t.case))[j].state = rows[j].state
         \/ MarkDone(rows, BareKey(t.case))[j].state = "done"
  <2>2. BareKey(t.case) = j \/ ~Present(rows, BareKey(t.case))
    BY <1>0, <1>1, <1>2, <1>4, BareMark
  <2> HIDE DEF t, j
  <2>3. CASE BareKey(t.case) = j
    BY <1>0, <1>1, <2>3, MarkedRow
  <2>4. CASE ~Present(rows, BareKey(t.case))
    BY <2>4 DEF MarkComparisonFailed, MarkDone, SetState
  <2> QED
    BY <2>2, <2>3, <2>4
<1> HIDE DEF t, j
<1>8. CASE rows'[j].state = rows[j].state
  <2>1. Stays(j)
    BY <1>0, <1>8 DEF Stays, SameAnswer
  <2> QED
    BY <1>3, <2>1 DEF NoneMoves
<1>9. CASE rows'[j].state # rows[j].state
  <2>1. CASE DeliveryAccepted(w)
    <3>1. rows'[j].state = "done"
      BY <1>5, <1>7, <1>9, <2>1
    <3>2. OneMoves(j)
      BY <1>0, <1>3, <1>6, <2>1, <3>1 DEF OneMoves, Ends, SameAnswer, Answered
    <3> QED
      BY <3>2 DEF j
  <2>2. CASE DeliveryRejected(w) \/ DeliveryNotConfigured(w)
    <3>2. rows'[j].state = "comparison_failed"
      BY <1>5, <1>7, <1>9, <2>2
    <3>3. OneMoves(j)
      BY <1>0, <1>1, <1>3, <3>2 DEF OneMoves, Ends, SameAnswer
    <3> QED
      BY <3>3 DEF j
  <2> QED
    BY <2>1, <2>2
<1> QED
  BY <1>8, <1>9

LEMMA DeliveringLife ==
  ASSUME LifeInv, TypeOK', OneSided, NEW w \in Worker,
         \/ DeliveryNotConfigured(w) \/ Post(w) \/ DeliveryRaised(w) \/ DeliveryRecorded(w)
         \/ DeliveryRejected(w) \/ DeliveryAccepted(w) \/ Unexpected(w) \/ UnexpectedMarked(w)
         \/ Report(w) \/ RemoveWorkDir(w)
  PROVE  /\ NoneMoves \/ (step[w] \in LiveSteps /\ phase[w] = "running" /\ OneMoves(Job(slot[w])))
         /\ AuditRow(w)'
<1> DEFINE j == Job(slot[w])
<1>0. /\ TypeOK /\ rows \in Table /\ step \in [Worker -> Steps] /\ phase[w] = "running"
      /\ heard \in [Key -> SUBSET {"result", "failure"}]
      /\ UNCHANGED <<phase, slot>>
  BY DEF DeliveryNotConfigured, Post, DeliveryRaised, DeliveryRecorded, DeliveryRejected,
     DeliveryAccepted, Unexpected, UnexpectedMarked, Report, RemoveWorkDir, At, RestOfAudit,
     intakeVars, LifeInv, WatchInv, BaseInv, TypeOK
<1>1. CASE DeliveryNotConfigured(w) \/ DeliveryRejected(w) \/ DeliveryAccepted(w)
  <2>1. step[w] \in LiveSteps /\ step'[w] = "end"
    BY <1>0, <1>1 DEF DeliveryNotConfigured, DeliveryRejected, DeliveryAccepted, Goto, At, LiveSteps
  <2>2. AuditRow(w)'
    BY <2>1 DEF AuditRow, Reading, Delivering
  <2> QED
    BY <1>0, <1>1, <2>1, <2>2, OutcomeLife
<1>2. CASE DeliveryRaised(w) \/ UnexpectedMarked(w)
  <2>1. /\ step[w] \in LiveSteps /\ step'[w] \in {"end", "report"} /\ heard' = heard
        /\ rows' = MarkExtractionFailed(rows, j) \/ rows' = MarkComparisonFailed(rows, j)
    BY <1>0, <1>2 DEF DeliveryRaised, UnexpectedMarked, Goto, At, LiveSteps
  <2>2. j \in Key /\ IsOwned(rows, j) /\ Present(rows, j)
    BY <1>0, <2>1, LiveOwns
  <2> HIDE DEF j
  <2>3. rows'[j].state \in {"extraction_failed", "comparison_failed"}
    BY <1>0, <2>1, <2>2, MarkedRow
  <2>4. ASSUME NEW k \in Key, k # j PROVE Stays(k)
    <3>1. rows'[k] = rows[k]
      BY <1>0, <2>1, <2>4, MarkKept
    <3> QED
      BY <2>1, <3>1 DEF Stays, SameAnswer
  <2>5. OneMoves(j)
    BY <2>1, <2>2, <2>3, <2>4 DEF OneMoves, Ends, SameAnswer
  <2>6. AuditRow(w)'
    BY <2>1 DEF AuditRow, Reading, Delivering
  <2> QED
    BY <1>0, <2>1, <2>5, <2>6 DEF j
<1>3. CASE Post(w)
  <2>1. /\ step[w] = "deliver" /\ rows' = rows /\ step'[w] \in {"accepted", "rejected", "raised"}
        /\ heard' = heard \/ heard' = [heard EXCEPT ![j] = heard[j] \cup {"result"}]
        /\ step'[w] = "accepted" => heard' = [heard EXCEPT ![j] = heard[j] \cup {"result"}]
    BY <1>0, <1>3 DEF Post, ResultReceived, Goto, At, diskVars
  <2>2. j \in Key /\ AuditRow(w)
    BY <1>0, <2>1, LiveOwns DEF LiveSteps
  <2>3. rows[j].state = "extracted"
    BY <1>0, <2>1, <2>2 DEF AuditRow, Delivering
  <2> HIDE DEF j
  <2>4. AuditRow(w)'
    BY <1>0, <2>1, <2>2, <2>3 DEF AuditRow, Reading, Delivering, Answered, Job, JobKey, j
  <2>5. CASE heard' = heard
    BY <2>1, <2>4, <2>5, <1>0, RowsQuiet
  <2>6. CASE heard' = [heard EXCEPT ![j] = heard[j] \cup {"result"}]
    <3>1. IsAnswered(j)
      BY <1>0, <2>1, <2>2, <2>3, <2>6 DEF IsAnswered
    <3>2. \A k \in Key : k # j => Stays(k)
      BY <1>0, <2>1, <2>6 DEF Stays, SameAnswer
    <3>3. OneMoves(j)
      BY <3>1, <3>2 DEF OneMoves
    <3> QED
      BY <1>0, <2>1, <2>4, <3>3 DEF LiveSteps, j
  <2> QED
    BY <2>1, <2>5, <2>6
<1>4. CASE Report(w) \/ RemoveWorkDir(w) \/ Unexpected(w)
  <2>1. /\ rows' = rows /\ step'[w] \in {"end", "clean", "brokeEarly", "brokeLate"}
        /\ heard' = heard \/ NoticeSent(j)
    BY <1>0, <1>4 DEF Report, RemoveWorkDir, Unexpected, Goto, At, diskVars
  <2>2. \A k \in Key : SameAnswer(k)
    BY <1>0, <2>1, NoticeAnswers DEF SameAnswer
  <2>3. NoneMoves
    BY <2>1, <2>2 DEF NoneMoves, Stays
  <2>4. AuditRow(w)'
    BY <2>1 DEF AuditRow, Reading, Delivering
  <2> QED
    BY <2>3, <2>4
<1>5. CASE DeliveryRecorded(w)
  <2>1. /\ step[w] \in {"accepted", "rejected"} /\ rows' = Touch(rows, j) /\ heard' = heard
        /\ step'[w] = IF step[w] = "accepted" THEN "toDone" ELSE "toFailed"
    BY <1>0, <1>5 DEF DeliveryRecorded, RecordDelivery, Goto, At
  <2>2. j \in Key /\ AuditRow(w)
    BY <1>0, <2>1, LiveOwns DEF LiveSteps
  <2>3. NoneMoves
    BY <1>0, <2>1, RowsQuiet
  <2>4. rows'[j].state = "extracted"
    BY <1>0, <2>1, <2>2, <2>3 DEF AuditRow, Delivering, NoneMoves, Stays
  <2> HIDE DEF j
  <2>5. step'[w] = "toDone" => Answered(j)
    BY <1>0, <2>1, <2>2 DEF AuditRow, j
  <2>6. AuditRow(w)'
    BY <1>0, <2>1, <2>4, <2>5 DEF AuditRow, Reading, Delivering, Answered, Job, JobKey, j
  <2> QED
    BY <2>3, <2>6
<1> QED
  BY <1>1, <1>2, <1>3, <1>4, <1>5

-----------------------------------------------------------------------------
(* An audit whose job a step leaves alone still knows its row.             *)
LEMMA AuditRowKept ==
  ASSUME NEW v \in Worker, AuditRow(v),
         phase'[v] = phase[v], slot'[v] = slot[v], step'[v] = step[v],
         phase[v] = "running" /\ step[v] \in LiveSteps => Stays(Job(slot[v]))
  PROVE  AuditRow(v)'
<1>1. CASE phase[v] = "running" /\ step[v] \in Reading \cup Delivering
  <2>1. Stays(Job(slot[v]))
    BY <1>1 DEF Reading, Delivering, LiveSteps
  <2>2. Job(slot'[v]) = Job(slot[v])
    OBVIOUS
  <2> QED
    BY <2>1, <2>2 DEF AuditRow, Stays, SameAnswer, Answered, Job, JobKey
<1>2. CASE ~(phase[v] = "running" /\ step[v] \in Reading \cup Delivering)
  BY <1>2 DEF AuditRow, Delivering
<1> QED
  BY <1>1, <1>2

\* A step no worker makes, which moves no held job.
LEMMA AuditRowsKept ==
  ASSUME LifeInv, TypeOK', UNCHANGED <<phase, slot, step>>,
         \/ NoneMoves
         \/ \E k \in Key : (~IsOwned(rows, k) \/ HolderCount(k) = 0) /\ OneMoves(k),
         NEW v \in Worker
  PROVE  AuditRow(v)'
<1>0. TypeOK /\ AuditRow(v) /\ \A k \in Key : KeyInv(k)
  BY DEF LifeInv, WatchInv, BaseInv
<1>1. ASSUME phase[v] = "running", step[v] \in LiveSteps PROVE Stays(Job(slot[v]))
  <2>1. /\ Job(slot[v]) \in Key /\ IsOwned(rows, Job(slot[v]))
        /\ HolderCount(Job(slot[v])) = 1
    BY <1>0, <1>1, HeldTask, WorkerOwns
  <2>2. CASE NoneMoves
    BY <2>1, <2>2 DEF NoneMoves
  <2>3. ASSUME NEW k \in Key, ~IsOwned(rows, k) \/ HolderCount(k) = 0, OneMoves(k)
        PROVE  Stays(Job(slot[v]))
    <3>1. Job(slot[v]) # k
      BY <2>1, <2>3
    <3> QED
      BY <2>1, <2>3, <3>1 DEF OneMoves
  <2> QED
    BY <2>2, <2>3
<1> QED
  BY <1>0, <1>1, AuditRowKept

LEMMA WorkerLife ==
  ASSUME LifeInv, TypeOK', OneSided, NEW w \in Worker, AuditStep(w) \/ Heartbeat(w)
  PROVE  /\ NoneMoves \/ \E k \in Key : OneMoves(k)
         /\ \A v \in Worker : AuditRow(v)'
<1>0. TypeOK /\ (\A k \in Key : KeyInv(k)) /\ (\A v \in Worker : AuditRow(v))
  BY DEF LifeInv, WatchInv, BaseInv
<1>1. /\ NoneMoves \/ (step[w] \in LiveSteps /\ phase[w] = "running" /\ OneMoves(Job(slot[w])))
      /\ AuditRow(w)'
  BY <1>0, TurnLife, ReadingLife, DeliveringLife DEF AuditStep
<1>2. ASSUME NEW v \in Worker, v # w PROVE AuditRow(v)'
  <2>1. phase'[v] = phase[v] /\ slot'[v] = slot[v] /\ step'[v] = step[v]
    <3>1. CASE TakeCase(w) \/ BeginCase(w) \/ LeaveCase(w)
      BY <1>0, <1>2, <3>1 DEF TakeCase, Take, BeginCase, Begin, LeaveCase, Leave, Goto,
         processVars, TypeOK, IntakeTypeOK
    <3>2. CASE ~(TakeCase(w) \/ BeginCase(w) \/ LeaveCase(w))
      <4>1. UNCHANGED <<phase, slot>> /\ (step' = step \/ \E s : step' = [step EXCEPT ![w] = s])
        BY <3>2 DEF AuditStep, Heartbeat, StartAudit, Fetch, FallBack, DocumentsUnavailable,
           PagesRead, RetryExtraction, ExtractionFails, Extract, DeliveryNotConfigured, Post,
           DeliveryRaised, DeliveryRecorded, DeliveryRejected, DeliveryAccepted, Unexpected,
           UnexpectedMarked, Report, RemoveWorkDir, Goto, RestOfAudit, intakeVars
      <4> QED
        BY <1>0, <1>2, <4>1 DEF TypeOK
    <3> QED
      BY <3>1, <3>2
  <2>2. ASSUME phase[v] = "running", step[v] \in LiveSteps PROVE Stays(Job(slot[v]))
    <3>1. Job(slot[v]) \in Key
      BY <1>0, <2>2, HeldTask
    <3>2. CASE NoneMoves
      BY <3>1, <3>2 DEF NoneMoves
    <3>3. CASE step[w] \in LiveSteps /\ phase[w] = "running" /\ OneMoves(Job(slot[w]))
      <4>1. Job(slot[v]) # Job(slot[w])
        <5> SUFFICES ASSUME Job(slot[v]) = Job(slot[w]) PROVE FALSE
          OBVIOUS
        <5>1. WorkerHolds(v, Job(slot[v])) /\ WorkerHolds(w, Job(slot[v]))
          BY <2>2, <3>3 DEF WorkerHolds
        <5>2. HolderCount(Job(slot[v])) > 1 /\ HolderCount(Job(slot[v])) <= 1
          BY <1>0, <1>2, <3>1, <5>1, TwoHolders DEF KeyInv
        <5>3. HolderCount(Job(slot[v])) \in Nat
          BY <1>0, <3>1, CountNat
        <5> QED
          BY <5>2, <5>3
      <4> QED
        BY <3>1, <3>3, <4>1 DEF OneMoves
    <3> QED
      BY <1>1, <3>2, <3>3
  <2> QED
    BY <1>0, <2>1, <2>2, AuditRowKept
<1>3. step[w] \in LiveSteps /\ phase[w] = "running" => Job(slot[w]) \in Key
  BY <1>0, HeldTask
<1> QED
  BY <1>1, <1>2, <1>3

(* Everyone else: Cartograph, the keeper, the clock, the process itself.   *)
LEMMA QuietSteps ==
  ASSUME LifeInv, TypeOK',
         \/ \E e \in Sender, c \in Case, d \in Docs : Notify(e, c, d)
         \/ \E j \in Key : ImportResult(j) \/ WindowCloses(j)
         \/ \E c \in Case : PrunePacket(c)
         \/ KeeperStepOnRows \/ WatchdogList \/ WatchdogReport \/ ReportInterrupted \/ Serve
         \/ BeginShutdown \/ Restart \/ ResumeStep \/ Tick \/ UNCHANGED vars
         \/ \E j \in claims : ClaimInterrupted(j)
  PROVE  NoneMoves /\ UNCHANGED <<phase, slot, step>>
<1>0. TypeOK
  BY DEF LifeInv, WatchInv, BaseInv
<1>1. CASE WatchdogReport \/ ReportInterrupted
  <2>1. rows' = rows /\ UNCHANGED <<phase, slot, step>> /\ \E j : NoticeSent(j)
    BY <1>1 DEF WatchdogReport, ReportInterrupted, intakeVars, diskVars
  <2>2. \A k \in Key : SameAnswer(k)
    BY <1>0, <2>1, NoticeAnswers
  <2> QED
    BY <2>1, <2>2 DEF NoneMoves, Stays
<1>2. CASE Tick
  BY <1>0, <1>2, RowsQuiet DEF Tick, KeeperAlarm, intakeVars, processVars, cartographVars
<1>3. CASE ResumeStep
  <2>1. rows' = rows /\ heard' = heard /\ UNCHANGED <<phase, slot, step>>
    BY <1>3 DEF ResumeStep, ResumeWakes, Reopen, ResumeJoin, ResumeEnqueue, ResumeRefused, Join,
       Enqueue, Refuse, intakeVars, processVars, diskVars, cartographVars
  <2> QED
    BY <1>0, <2>1, RowsQuiet
<1>4. ASSUME NEW j \in claims, ClaimInterrupted(j) PROVE NoneMoves /\ UNCHANGED <<phase, slot, step>>
  <2>1. rows' = Touch(rows, j) /\ heard' = heard /\ UNCHANGED <<phase, slot, step>>
    BY <1>4 DEF ClaimInterrupted, intakeVars, cartographVars
  <2> QED
    BY <1>0, <2>1, RowsQuiet
<1>5. CASE \/ \E e \in Sender, c \in Case, d \in Docs : Notify(e, c, d)
           \/ \E j \in Key : ImportResult(j) \/ WindowCloses(j)
           \/ \E c \in Case : PrunePacket(c)
           \/ KeeperStepOnRows \/ WatchdogList \/ Serve \/ BeginShutdown \/ Restart
           \/ UNCHANGED vars
  <2>1. heard' = heard /\ UNCHANGED <<phase, slot, step>>
    BY <1>5 DEF Notify, ImportResult, WindowCloses, PrunePacket, KeeperStepOnRows, KeeperSnapshot,
       KeeperWake, KeeperBeat, KeeperTouch, WatchdogList, Serve, BeginShutdown, Shutdown, Restart,
       vars, intakeVars, processVars, cartographVars
  <2>2. rows' = rows \/ \E j : rows' = Touch(rows, j) \/ rows' = CloseWindow(rows, j)
    BY <1>5 DEF Notify, ImportResult, WindowCloses, PrunePacket, KeeperStepOnRows, KeeperSnapshot,
       KeeperBeat, WatchdogList, Serve, BeginShutdown, Restart, vars, diskVars, RecordImportResult
  <2> QED
    BY <1>0, <2>1, <2>2, RowsQuiet
<1> QED
  BY <1>1, <1>2, <1>3, <1>4, <1>5

(* A step of the engine is a step of the lifecycle and keeps LifeInv.      *)
LEMMA MovesAreLife ==
  ASSUME LifeInv,
         NoneMoves \/ (\E k \in Key : OneMoves(k)) \/ \E old \in SUBSET Key : Forgotten(old)
  PROVE  /\ \A k \in Key : rows'[k].state \in LifeStates
         /\ [Lifecycle!LifeNext]_Lifecycle!jobVars
<1>0. \A k \in Key : rows[k].state \in LifeStates
  BY DEF LifeInv
<1>1. CASE NoneMoves
  <2>1. \A k \in Key : rows'[k].state \in LifeStates
    BY <1>0, <1>1 DEF NoneMoves, Stays
  <2> QED
    BY <1>1, <2>1, QuietLife
<1>2. ASSUME NEW k \in Key, OneMoves(k)
      PROVE  (\A j \in Key : rows'[j].state \in LifeStates) /\ Lifecycle!LifeNext
  <2>1. rows'[k].state \in LifeStates
    BY <1>2 DEF OneMoves, Begins, GoesOn, IsAnswered, Ends, LifeStates
  <2>2. ASSUME NEW j \in Key PROVE rows'[j].state \in LifeStates
    BY <1>0, <1>2, <2>1 DEF OneMoves, Stays
  <2> QED
    BY <1>0, <1>2, <2>2, MovingLife
<1>3. ASSUME NEW old \in SUBSET Key, Forgotten(old)
      PROVE  (\A j \in Key : rows'[j].state \in LifeStates) /\ Lifecycle!LifeNext
  <2>1. \A j \in Key : rows'[j].state \in LifeStates
    BY <1>0, <1>3 DEF Forgotten, LifeStates
  <2> QED
    BY <1>3, <2>1, ForgettingLife
<1> QED
  BY <1>1, <1>2, <1>3

LEMMA LifeStep ==
  ASSUME PatientWatchdog, LifeInv, [Next]_vars
  PROVE  LifeInv' /\ [Lifecycle!LifeNext]_Lifecycle!jobVars
<1>0. /\ WatchInv /\ WatchInv' /\ TypeOK /\ TypeOK' /\ ProcessInv /\ OneSided
      /\ rows \in Table
  BY WatchStep, PatientIsOneSided DEF LifeInv, WatchInv, BaseInv, TypeOK
<1>1. ASSUME NoneMoves \/ (\E k \in Key : OneMoves(k)) \/ \E old \in SUBSET Key : Forgotten(old),
             \A v \in Worker : AuditRow(v)'
      PROVE  LifeInv' /\ [Lifecycle!LifeNext]_Lifecycle!jobVars
  BY <1>0, <1>1, MovesAreLife DEF LifeInv
<1>2. ASSUME NEW w \in Worker, AuditStep(w) \/ Heartbeat(w)
      PROVE  LifeInv' /\ [Lifecycle!LifeNext]_Lifecycle!jobVars
  BY <1>0, <1>1, <1>2, WorkerLife
<1>3. ASSUME LoopStep PROVE LifeInv' /\ [Lifecycle!LifeNext]_Lifecycle!jobVars
  <2>1. UNCHANGED <<phase, slot, step>>
    BY <1>3 DEF LoopStep, ClaimDuplicate, ClaimCase, KeepRequest, HandlerRaises, LoopJoin,
       LoopEnqueue, Join, Enqueue, intakeVars
  <2> QED
    BY <1>0, <1>1, <1>3, <2>1, LoopLife, AuditRowsKept
<1>4. ASSUME (\E j \in todo : WatchdogFail(j)) \/ \E j \in claims : FailInterrupted(j)
      PROVE  LifeInv' /\ [Lifecycle!LifeNext]_Lifecycle!jobVars
  <2>1. UNCHANGED <<phase, slot, step>>
    BY <1>4 DEF WatchdogFail, FailInterrupted, intakeVars
  <2> QED
    BY <1>0, <1>1, <1>4, <2>1, SweepLife, AuditRowsKept
<1>5. ASSUME RetentionSweep PROVE LifeInv' /\ [Lifecycle!LifeNext]_Lifecycle!jobVars
  <2>1. /\ UNCHANGED <<phase, slot, step>> /\ heard' = heard
        /\ \E old \in SUBSET Expired(rows) : rows' = DeleteRows(rows, old)
    BY <1>5 DEF RetentionSweep, intakeVars, processVars, cartographVars
  <2>2. PICK old \in SUBSET Expired(rows) : rows' = DeleteRows(rows, old)
    BY <2>1
  <2>3. \A k \in old : k \in Key /\ IsTerminal(rows, k)
    BY <2>2 DEF Expired
  <2>4. Forgotten(old)
    <3>1. \A k \in old : rows[k].state \in {"done", "extraction_failed", "comparison_failed"}
      BY <2>3 DEF LifeInv, LifeStates, IsTerminal, TerminalStates
    <3>2. \A k \in Key : rows'[k].state = IF k \in old THEN "absent" ELSE rows[k].state
      BY <2>2 DEF DeleteRows, NoRow
    <3> QED
      BY <2>1, <3>1, <3>2 DEF Forgotten, SameAnswer
  <2>5. ASSUME NEW v \in Worker PROVE AuditRow(v)'
    <3>1. ASSUME phase[v] = "running", step[v] \in LiveSteps PROVE Stays(Job(slot[v]))
      <4>1. Job(slot[v]) \in Key /\ IsOwned(rows, Job(slot[v]))
        BY <1>0, <3>1, LiveOwns
      <4>2. Job(slot[v]) \notin old
        BY <2>3, <4>1 DEF IsTerminal, IsOwned, TerminalStates, OwnedStates
      <4> QED
        BY <2>4, <4>1, <4>2 DEF Forgotten, Stays
    <3> QED
      BY <2>1, <3>1, AuditRowKept DEF LifeInv
  <2>6. old \in SUBSET Key
    BY <2>3
  <2> QED
    BY <1>1, <2>4, <2>5, <2>6
<1>6. ASSUME Stop PROVE LifeInv' /\ [Lifecycle!LifeNext]_Lifecycle!jobVars
  <2>1. rows' = rows /\ heard' = heard /\ \A v \in Worker : phase'[v] = "idle"
    BY <1>6 DEF Stop, IntakeReset, diskVars, cartographVars
  <2>2. NoneMoves /\ \A v \in Worker : AuditRow(v)'
    BY <1>0, <2>1, RowsQuiet DEF AuditRow
  <2> QED
    BY <1>1, <2>2
<1>7. ASSUME \/ \E e \in Sender, c \in Case, d \in Docs : Notify(e, c, d)
             \/ \E j \in Key : ImportResult(j) \/ WindowCloses(j)
             \/ \E c \in Case : PrunePacket(c)
             \/ KeeperStepOnRows \/ WatchdogList \/ WatchdogReport \/ ReportInterrupted \/ Serve
             \/ BeginShutdown \/ Restart \/ ResumeStep \/ Tick \/ UNCHANGED vars
             \/ \E j \in claims : ClaimInterrupted(j)
      PROVE  LifeInv' /\ [Lifecycle!LifeNext]_Lifecycle!jobVars
  <2>1. NoneMoves /\ UNCHANGED <<phase, slot, step>>
    BY <1>0, <1>7, QuietSteps
  <2> QED
    BY <1>0, <1>1, <2>1, AuditRowsKept
<1> QED
  BY <1>2, <1>3, <1>4, <1>5, <1>6, <1>7 DEF Next, WatchdogStep, StartStep

LEMMA LifeStarts ==
  ASSUME Init
  PROVE  LifeInv /\ Lifecycle!LifeInit
<1>1. WatchInv
  BY WatchInit
<1>2. /\ \A k \in Key : rows[k].state = "absent" /\ heard[k] = {}
      /\ \A w \in Worker : phase[w] = "idle"
  BY DEF Init, IntakeInit, NoRow
<1>3. \A k \in Key : Status(rows[k].state) = "absent" /\ ("result" \in heard[k]) = FALSE
  BY <1>2 DEF Status
<1>4. Lifecycle!LifeInit
  BY <1>3 DEF Lifecycle!LifeInit
<1> QED
  BY <1>1, <1>2, <1>4 DEF LifeInv, LifeStates, AuditRow

(* The engine implements the lifecycle README.md tells of a job: a case    *)
(* under way is never accepted again, it is done only when Cartograph has  *)
(* its result, and only an ended case is forgotten - through failures,     *)
(* exceptions, restarts and the watchdog, provided the watchdog is patient *)
(* and the environments that notify are on one side of the default.        *)
THEOREM LifecycleImplemented ==
  ASSUME PatientWatchdog
  PROVE  SafetySpec => ImplementsLifecycle
<1>1. Init => LifeInv /\ Lifecycle!LifeInit
  BY LifeStarts
<1>2. LifeInv /\ [Next]_vars => LifeInv' /\ [Lifecycle!LifeNext]_Lifecycle!jobVars
  BY LifeStep
<1> QED
  BY <1>1, <1>2, PTL DEF SafetySpec, ImplementsLifecycle, Lifecycle!LifeSpec
=============================================================================
