---------------------------- MODULE AuditProofs -----------------------------
(***************************************************************************)
(* Theorems of the engine, for every set of environments, cases, documents *)
(* and workers and every bound: the types, and that no row of the default  *)
(* environment is stranded.                                                *)
(***************************************************************************)
EXTENDS AuditProperties, IntakeProofs

-----------------------------------------------------------------------------
(* The job store's operations keep a table a table.                        *)
LEMMA NoRowType == NoRow \in Row
  BY StaleAssumption DEF NoRow, Row

(* A row keeps its type under the assignments of one operation.            *)
LEMMA FieldType ==
  ASSUME NEW r \in Row
  PROVE  /\ [r EXCEPT !.age = 0] \in Row
         /\ \A s \in State : [r EXCEPT !.state = s] \in Row
         /\ \A d \in Docs : [r EXCEPT !.docs = d] \in Row
         /\ \A b \in BOOLEAN : [r EXCEPT !.recent = b] \in Row
<1>1. [r EXCEPT !.age = 0] \in Row
  BY StaleAssumption DEF Row
<1>2. \A s \in State : [r EXCEPT !.state = s] \in Row
  BY DEF Row
<1>3. \A d \in Docs : [r EXCEPT !.docs = d] \in Row
  BY DEF Row
<1>4. \A b \in BOOLEAN : [r EXCEPT !.recent = b] \in Row
  BY DEF Row
<1> QED
  BY <1>1, <1>2, <1>3, <1>4

LEMMA SetStateType ==
  ASSUME NEW tbl \in Table, NEW k, NEW s \in State
  PROVE  SetState(tbl, k, s) \in Table
<1>1. CASE Present(tbl, k)
  <2>1. tbl[k] \in Row
    BY <1>1 DEF Present, Table
  <2>2. [[tbl[k] EXCEPT !.state = s] EXCEPT !.age = 0] \in Row
    BY <2>1, FieldType
  <2>3. SetState(tbl, k, s) = [tbl EXCEPT ![k] = [[tbl[k] EXCEPT !.state = s] EXCEPT !.age = 0]]
    BY <1>1 DEF SetState, Table, Present
  <2> QED
    BY <2>2, <2>3 DEF Table
<1>2. CASE ~Present(tbl, k)
  BY <1>2 DEF SetState
<1> QED
  BY <1>1, <1>2

LEMMA TouchType ==
  ASSUME NEW tbl \in Table, NEW k
  PROVE  Touch(tbl, k) \in Table
  BY StaleAssumption DEF Touch, Present, Table, Row

LEMMA UpsertType ==
  ASSUME NEW tbl \in Table, NEW k \in Key, NEW now \in Nat
  PROVE  UpsertPending(tbl, k, now) \in Table
<1>1. ASSUME ~IsOwned(tbl, k) PROVE UpsertPending(tbl, k, now) \in Table
  <2> DEFINE row == [state |-> "queued", docs |-> tbl[k].docs, age |-> 0, recent |-> FALSE,
                     created |-> IF Present(tbl, k) THEN tbl[k].created ELSE now]
  <2>1. row \in Row
    BY StaleAssumption DEF Row, State, OwnedStates, Table
  <2>2. UpsertPending(tbl, k, now) = [tbl EXCEPT ![k] = row]
    BY <1>1 DEF UpsertPending
  <2> QED
    BY <2>1, <2>2 DEF Table
<1>2. ASSUME IsOwned(tbl, k) PROVE UpsertPending(tbl, k, now) \in Table
  BY <1>2 DEF UpsertPending
<1> QED
  BY <1>1, <1>2

LEMMA RequestType ==
  ASSUME NEW tbl \in Table, NEW k, NEW d \in Docs
  PROVE  RecordRequest(tbl, k, d) \in Table
<1>1. CASE Present(tbl, k)
  <2>1. [[tbl[k] EXCEPT !.docs = d] EXCEPT !.age = 0] \in Row
    BY <1>1, FieldType DEF Present, Table
  <2>2. RecordRequest(tbl, k, d) =
          [tbl EXCEPT ![k] = [[tbl[k] EXCEPT !.docs = d] EXCEPT !.age = 0]]
    BY <1>1 DEF RecordRequest, Table, Present
  <2> QED
    BY <2>1, <2>2 DEF Table
<1>2. CASE ~Present(tbl, k)
  BY <1>2 DEF RecordRequest
<1> QED
  BY <1>1, <1>2

LEMMA MarkType ==
  ASSUME NEW tbl \in Table, NEW k
  PROVE  /\ MarkExtracting(tbl, k) \in Table
         /\ MarkExtracted(tbl, k) \in Table
         /\ MarkExtractionFailed(tbl, k) \in Table
         /\ MarkComparisonFailed(tbl, k) \in Table
         /\ MarkDone(tbl, k) \in Table
<1>1. {"extracting", "extracted", "extraction_failed", "comparison_failed", "done"} \subseteq State
  BY DEF State, OwnedStates, TerminalStates
<1>2. MarkDone(tbl, k) \in Table
  <2>1. CASE Present(tbl, k)
    <3>1. [[[tbl[k] EXCEPT !.state = "done"] EXCEPT !.age = 0] EXCEPT !.recent = TRUE] \in Row
      BY <1>1, <2>1, FieldType DEF Present, Table
    <3>2. MarkDone(tbl, k) =
            [tbl EXCEPT ![k] =
               [[[tbl[k] EXCEPT !.state = "done"] EXCEPT !.age = 0] EXCEPT !.recent = TRUE]]
      BY <2>1 DEF MarkDone, Table, Present
    <3> QED
      BY <3>1, <3>2 DEF Table
  <2>2. CASE ~Present(tbl, k)
    BY <2>2 DEF MarkDone
  <2> QED
    BY <2>1, <2>2
<1> QED
  BY <1>1, <1>2, SetStateType
     DEF MarkExtracting, MarkExtracted, MarkExtractionFailed, MarkComparisonFailed

LEMMA DeleteType ==
  ASSUME NEW tbl \in Table, NEW old
  PROVE  DeleteRows(tbl, old) \in Table
  BY NoRowType DEF DeleteRows, Table

LEMMA AgedType ==
  ASSUME NEW tbl \in Table
  PROVE  Aged(tbl) \in Table
<1>1. \A k \in Key : tbl[k].age < Stale => [tbl[k] EXCEPT !.age = @ + 1] \in Row
  BY StaleAssumption DEF Table, Row
<1> QED
  BY <1>1 DEF Aged, Table

LEMMA WindowType ==
  ASSUME NEW tbl \in Table, NEW k
  PROVE  CloseWindow(tbl, k) \in Table
  BY DEF CloseWindow, Table, Row

-----------------------------------------------------------------------------
(* Keys and tasks: a row's key names its environment and case, and gives   *)
(* the job of the task that resumes it.                                    *)
LEMMA JobType == \A t \in Task : Job(t) \in Key
  BY DEF Task, Job, Key

LEMMA KeyParts ==
  ASSUME NEW k \in Key
  PROVE  /\ PrefixEnv(k) \in Env /\ k[2] \in Case
         /\ JobKey(PrefixEnv(k), k[2]) = k
         /\ BareKey(k[2]) \in Key
<1>1. PICK e \in Env, c \in Case : k = JobKey(e, c)
  BY DEF Key
<1>2. JobKey(DefaultEnv, c) = BareKey(c)
  BY DEF JobKey, BareKey
<1> QED
  BY <1>1, <1>2, EnvAssumption DEF JobKey, PrefixEnv, BareKey, Key

LEMMA ResumedTask ==
  ASSUME NEW k \in Key, NEW d \in Docs, NEW p \in Packet \cup {NoPacket}
  PROVE  /\ [env |-> PrefixEnv(k), case |-> k[2], docs |-> d, packet |-> p] \in Task
         /\ Job([env |-> PrefixEnv(k), case |-> k[2], docs |-> d, packet |-> p]) = k
  BY KeyParts DEF Task, Job

LEMMA NoticeType ==
  ASSUME TypeOK, NEW k, NoticeSent(k)
  PROVE  heard' \in [Key -> SUBSET {"result", "failure"}]
<1>1. heard' = heard \/ heard' = [heard EXCEPT ![k] = heard[k] \cup {"failure"}]
  BY DEF NoticeSent
<1>2. k \in Key => heard[k] \cup {"failure"} \in SUBSET {"result", "failure"}
  BY DEF TypeOK
<1> QED
  BY <1>1, <1>2 DEF TypeOK

-----------------------------------------------------------------------------
(* The types are kept: the handler on the event loop.                      *)
LEMMA LoopType ==
  ASSUME TypeOK, LoopStep
  PROVE  TypeOK'
<1>1. CASE ClaimDuplicate
  <2>1. IntakeTypeOK'
    BY <1>1, IntakeStutterType DEF TypeOK, ClaimDuplicate
  <2> QED
    BY <1>1, <2>1 DEF TypeOK, ClaimDuplicate, diskVars, cartographVars, LoopPcs
<1>2. CASE ClaimCase
  <2>1. IntakeTypeOK'
    BY <1>2, IntakeStutterType DEF TypeOK, ClaimCase
  <2>2. loopTask \in Task /\ sent \in Nat
    BY <1>2 DEF TypeOK, ClaimCase
  <2>3. Job(loopTask) \in Key /\ loopTask.docs \in Docs
    BY <2>2, JobType DEF Task
  <2>4. rows' \in Table
    BY <1>2, <2>2, <2>3, UpsertType DEF TypeOK, ClaimCase
  <2> QED
    BY <1>2, <2>1, <2>3, <2>4 DEF TypeOK, ClaimCase, LoopPcs
<1>3. CASE KeepRequest
  <2>1. IntakeTypeOK'
    BY <1>3, IntakeStutterType DEF TypeOK, KeepRequest
  <2>2. loopTask \in Task
    BY <1>3 DEF TypeOK, KeepRequest
  <2>3. loopTask.docs \in Docs
    BY <2>2 DEF Task
  <2>4. rows' \in Table
    BY <1>3, <2>3, RequestType DEF TypeOK, KeepRequest
  <2> QED
    BY <1>3, <2>1, <2>4 DEF TypeOK, KeepRequest, LoopPcs, cartographVars
<1>4. CASE LoopJoin
  <2>1. loopTask \in Task /\ "loop" \in Submitter
    BY <1>4, EngineAssumption DEF TypeOK, LoopJoin
  <2>2. IntakeTypeOK'
    BY <1>4, <2>1, JoinType DEF TypeOK, LoopJoin
  <2> QED
    BY <1>4, <2>2 DEF TypeOK, LoopJoin, diskVars, cartographVars, LoopPcs
<1>5. CASE LoopEnqueue
  <2>1. IntakeTypeOK'
    BY <1>5, SubmitterType, EngineAssumption DEF TypeOK, LoopEnqueue
  <2> QED
    BY <1>5, <2>1 DEF TypeOK, LoopEnqueue, diskVars, cartographVars, LoopPcs
<1>6. CASE HandlerRaises
  <2>1. IntakeTypeOK'
    BY <1>6, IntakeStutterType DEF TypeOK, HandlerRaises
  <2> QED
    BY <1>6, <2>1 DEF TypeOK, HandlerRaises, diskVars, cartographVars, LoopPcs
<1> QED
  BY <1>1, <1>2, <1>3, <1>4, <1>5, <1>6 DEF LoopStep

(* The types are kept: audit_case on a worker.                             *)
LEMMA HeldTask ==
  ASSUME TypeOK, NEW w \in Worker, phase[w] # "idle"
  PROVE  slot[w] \in Task /\ Job(slot[w]) \in Key
<1>1. slot[w] \in Task
  BY DEF TypeOK, IntakeTypeOK
<1> QED
  BY <1>1, JobType

LEMMA WorkerType ==
  ASSUME TypeOK, NEW w \in Worker, TakeCase(w) \/ BeginCase(w) \/ LeaveCase(w)
  PROVE  TypeOK'
<1>1. CASE TakeCase(w)
  <2>1. IntakeTypeOK'
    BY <1>1, TakeType DEF TypeOK, TakeCase
  <2> QED
    BY <1>1, <2>1 DEF TypeOK, TakeCase, processVars, diskVars, cartographVars
<1>2. CASE BeginCase(w)
  <2>1. IntakeTypeOK'
    BY <1>2, BeginType DEF TypeOK, BeginCase
  <2> QED
    BY <1>2, <2>1 DEF TypeOK, BeginCase, Goto, Steps, LiveSteps, diskVars, cartographVars
<1>3. CASE LeaveCase(w)
  <2>1. IntakeTypeOK'
    BY <1>3, LeaveType DEF TypeOK, LeaveCase
  <2> QED
    BY <1>3, <2>1 DEF TypeOK, LeaveCase, Goto, Steps, LiveSteps, diskVars, cartographVars
<1> QED
  BY <1>1, <1>2, <1>3

LEMMA ReadingType ==
  ASSUME TypeOK, NEW w \in Worker,
         \/ StartAudit(w) \/ Fetch(w) \/ FallBack(w) \/ DocumentsUnavailable(w) \/ Heartbeat(w)
         \/ PagesRead(w) \/ RetryExtraction(w) \/ ExtractionFails(w) \/ Extract(w)
  PROVE  TypeOK'
<1>1. CASE StartAudit(w)
  <2>1. IntakeTypeOK' /\ rows' \in Table
    BY <1>1, IntakeStutterType, MarkType DEF TypeOK, StartAudit, RestOfAudit
  <2> QED
    BY <1>1, <2>1 DEF TypeOK, StartAudit, RestOfAudit, Goto, Steps, LiveSteps
<1>2. CASE Fetch(w)
  <2>1. IntakeTypeOK'
    BY <1>2, IntakeStutterType DEF TypeOK, Fetch, RestOfAudit
  <2>2. slot[w] \in Task
    BY <1>2, HeldTask DEF Fetch, At
  <2>3. [env |-> slot[w].env, docs |-> slot[w].docs] \in Packet /\ slot[w].case \in Case
    BY <2>2 DEF Task, Packet
  <2>4. kept' \in [Case -> Packet \cup {NoPacket}] /\ packet' \in [Worker -> Packet \cup {NoPacket}]
    BY <1>2, <2>3 DEF TypeOK, Fetch
  <2> QED
    BY <1>2, <2>1, <2>4 DEF TypeOK, Fetch, RestOfAudit, Goto, Steps, LiveSteps
<1>3. CASE FallBack(w)
  <2>1. IntakeTypeOK'
    BY <1>3, IntakeStutterType DEF TypeOK, FallBack, RestOfAudit
  <2>2. slot[w].packet \in Packet \cup {NoPacket}
    BY <1>3, HeldTask DEF FallBack, At, Task
  <2> QED
    BY <1>3, <2>1, <2>2 DEF TypeOK, FallBack, RestOfAudit, Goto, Steps, LiveSteps, diskVars
<1>4. CASE DocumentsUnavailable(w)
  <2>1. IntakeTypeOK' /\ rows' \in Table
    BY <1>4, IntakeStutterType, MarkType DEF TypeOK, DocumentsUnavailable, RestOfAudit
  <2> QED
    BY <1>4, <2>1 DEF TypeOK, DocumentsUnavailable, RestOfAudit, Goto, Steps, LiveSteps
<1>5. CASE Heartbeat(w)
  <2>1. IntakeTypeOK' /\ rows' \in Table
    BY <1>5, IntakeStutterType, TouchType DEF TypeOK, Heartbeat, RestOfAudit
  <2> QED
    BY <1>5, <2>1 DEF TypeOK, Heartbeat, RestOfAudit, Goto, Steps, LiveSteps
<1>6. CASE PagesRead(w)
  <2>1. IntakeTypeOK'
    BY <1>6, IntakeStutterType DEF TypeOK, PagesRead, RestOfAudit
  <2> QED
    BY <1>6, <2>1 DEF TypeOK, PagesRead, RestOfAudit, Goto, Steps, LiveSteps, diskVars
<1>7. CASE RetryExtraction(w)
  <2>1. IntakeTypeOK' /\ rows' \in Table
    BY <1>7, IntakeStutterType, TouchType DEF TypeOK, RetryExtraction, RestOfAudit
  <2> QED
    BY <1>7, <2>1 DEF TypeOK, RetryExtraction, RestOfAudit, Goto, Steps, LiveSteps
<1>8. CASE ExtractionFails(w)
  <2>1. IntakeTypeOK' /\ rows' \in Table
    BY <1>8, IntakeStutterType, MarkType DEF TypeOK, ExtractionFails, RestOfAudit
  <2> QED
    BY <1>8, <2>1 DEF TypeOK, ExtractionFails, RestOfAudit, Goto, Steps, LiveSteps
<1>9. CASE Extract(w)
  <2>1. IntakeTypeOK' /\ rows' \in Table
    BY <1>9, IntakeStutterType, MarkType DEF TypeOK, Extract, RestOfAudit
  <2> QED
    BY <1>9, <2>1 DEF TypeOK, Extract, RestOfAudit, Goto, Steps, LiveSteps
<1> QED
  BY <1>1, <1>2, <1>3, <1>4, <1>5, <1>6, <1>7, <1>8, <1>9

LEMMA DeliveringType ==
  ASSUME TypeOK, NEW w \in Worker,
         \/ DeliveryNotConfigured(w) \/ Post(w) \/ DeliveryRaised(w) \/ DeliveryRecorded(w)
         \/ DeliveryRejected(w) \/ DeliveryAccepted(w) \/ Unexpected(w) \/ UnexpectedMarked(w)
         \/ Report(w) \/ RemoveWorkDir(w)
  PROVE  TypeOK'
<1>1. CASE DeliveryNotConfigured(w)
  <2>1. IntakeTypeOK' /\ rows' \in Table
    BY <1>1, IntakeStutterType, MarkType DEF TypeOK, DeliveryNotConfigured, RestOfAudit
  <2> QED
    BY <1>1, <2>1 DEF TypeOK, DeliveryNotConfigured, RestOfAudit, Goto, Steps, LiveSteps
<1>2. CASE Post(w)
  <2>1. IntakeTypeOK'
    BY <1>2, IntakeStutterType DEF TypeOK, Post, RestOfAudit
  <2>2. Job(slot[w]) \in Key
    BY <1>2, HeldTask DEF Post, At
  <2>3. ASSUME ResultReceived(w)
        PROVE  /\ imports' \subseteq Key /\ delivered' \in [Key -> Nat]
               /\ heard' \in [Key -> SUBSET {"result", "failure"}]
    <3>1. heard[Job(slot[w])] \cup {"result"} \in SUBSET {"result", "failure"}
      BY <2>2 DEF TypeOK
    <3> QED
      BY <2>2, <2>3, <3>1 DEF TypeOK, ResultReceived
  <2>4. /\ imports' \subseteq Key /\ delivered' \in [Key -> Nat]
        /\ heard' \in [Key -> SUBSET {"result", "failure"}]
    BY <1>2, <2>3 DEF TypeOK, Post
  <2>5. step' \in [Worker -> Steps]
    BY <1>2 DEF TypeOK, Post, Goto, Steps, LiveSteps
  <2> QED
    BY <1>2, <2>1, <2>4, <2>5 DEF TypeOK, Post, RestOfAudit, diskVars
<1>3. CASE DeliveryRaised(w)
  <2>1. IntakeTypeOK' /\ rows' \in Table
    BY <1>3, IntakeStutterType, MarkType DEF TypeOK, DeliveryRaised, RestOfAudit
  <2> QED
    BY <1>3, <2>1 DEF TypeOK, DeliveryRaised, RestOfAudit, Goto, Steps, LiveSteps
<1>4. CASE DeliveryRejected(w)
  <2>1. IntakeTypeOK' /\ rows' \in Table
    BY <1>4, IntakeStutterType, MarkType DEF TypeOK, DeliveryRejected, RestOfAudit
  <2> QED
    BY <1>4, <2>1 DEF TypeOK, DeliveryRejected, RestOfAudit, Goto, Steps, LiveSteps
<1>5. CASE DeliveryAccepted(w)
  <2>1. IntakeTypeOK' /\ rows' \in Table
    BY <1>5, IntakeStutterType, MarkType DEF TypeOK, DeliveryAccepted, RestOfAudit
  <2> QED
    BY <1>5, <2>1 DEF TypeOK, DeliveryAccepted, RestOfAudit, Goto, Steps, LiveSteps
<1>6. CASE Unexpected(w)
  <2>1. IntakeTypeOK'
    BY <1>6, IntakeStutterType DEF TypeOK, Unexpected, RestOfAudit
  <2> QED
    BY <1>6, <2>1 DEF TypeOK, Unexpected, RestOfAudit, Goto, Steps, LiveSteps, diskVars
<1>7. CASE Report(w)
  <2>1. IntakeTypeOK' /\ heard' \in [Key -> SUBSET {"result", "failure"}]
    BY <1>7, IntakeStutterType, NoticeType DEF TypeOK, Report, RestOfAudit
  <2> QED
    BY <1>7, <2>1 DEF TypeOK, Report, RestOfAudit, Goto, Steps, LiveSteps, diskVars
<1>8. CASE RemoveWorkDir(w)
  <2>1. IntakeTypeOK'
    BY <1>8, IntakeStutterType DEF TypeOK, RemoveWorkDir, RestOfAudit
  <2> QED
    BY <1>8, <2>1 DEF TypeOK, RemoveWorkDir, RestOfAudit, Goto, Steps, LiveSteps, diskVars
<1>9. CASE DeliveryRecorded(w)
  <2>1. IntakeTypeOK' /\ rows' \in Table
    BY <1>9, IntakeStutterType, TouchType DEF TypeOK, DeliveryRecorded, RestOfAudit, RecordDelivery
  <2> QED
    BY <1>9, <2>1 DEF TypeOK, DeliveryRecorded, RestOfAudit, Goto, Steps, LiveSteps
<1>10. CASE UnexpectedMarked(w)
  <2>1. IntakeTypeOK' /\ rows' \in Table
    BY <1>10, IntakeStutterType, MarkType DEF TypeOK, UnexpectedMarked, RestOfAudit
  <2> QED
    BY <1>10, <2>1 DEF TypeOK, UnexpectedMarked, RestOfAudit, Goto, Steps, LiveSteps
<1> QED
  BY <1>1, <1>2, <1>3, <1>4, <1>5, <1>6, <1>7, <1>8, <1>9, <1>10

(* The types are kept: Cartograph's calls, the maintenance thread and the  *)
(* clock.                                                                  *)
LEMMA CallType ==
  ASSUME TypeOK,
         \/ \E e \in Sender, c \in Case, d \in Docs : Notify(e, c, d)
         \/ \E k \in Key : ImportResult(k) \/ WindowCloses(k)
  PROVE  TypeOK'
<1>1. ASSUME NEW e \in Sender, NEW c \in Case, NEW d \in Docs, Notify(e, c, d) PROVE TypeOK'
  <2>1. IntakeTypeOK'
    BY <1>1, IntakeStutterType DEF TypeOK, Notify
  <2>2. NotifiedTask(e, c, d) \in Task
    BY NotifiedTaskType, EngineAssumption
  <2>3. NotifiedTask(e, c, d) # NoTask
    BY <2>2, NoTaskAssumption
  <2> QED
    BY <1>1, <2>1, <2>2, <2>3 DEF TypeOK, Notify, LoopPcs, diskVars
<1>2. ASSUME NEW k \in Key, ImportResult(k) PROVE TypeOK'
  <2>1. IntakeTypeOK' /\ rows' \in Table
    BY <1>2, IntakeStutterType, TouchType DEF TypeOK, ImportResult, RecordImportResult
  <2> QED
    BY <1>2, <2>1 DEF TypeOK, ImportResult, processVars, diskVars, cartographVars
<1>3. ASSUME NEW k \in Key, WindowCloses(k) PROVE TypeOK'
  <2>1. IntakeTypeOK' /\ rows' \in Table
    BY <1>3, IntakeStutterType, WindowType DEF TypeOK, WindowCloses
  <2> QED
    BY <1>3, <2>1 DEF TypeOK, WindowCloses, processVars, diskVars, cartographVars
<1> QED
  BY <1>1, <1>2, <1>3

LEMMA MaintenanceType ==
  ASSUME TypeOK, WatchdogStep \/ RetentionSweep \/ \E c \in Case : PrunePacket(c)
  PROVE  TypeOK'
<1>1. ASSUME NEW c \in Case, PrunePacket(c) PROVE TypeOK'
  <2>1. IntakeTypeOK'
    BY <1>1, IntakeStutterType DEF TypeOK, PrunePacket
  <2> QED
    BY <1>1, <2>1 DEF TypeOK, PrunePacket, processVars, diskVars, cartographVars
<1>2. CASE RetentionSweep
  <2>1. IntakeTypeOK' /\ rows' \in Table
    BY <1>2, IntakeStutterType, DeleteType DEF TypeOK, RetentionSweep
  <2> QED
    BY <1>2, <2>1 DEF TypeOK, RetentionSweep, processVars, diskVars, cartographVars
<1>3. CASE WatchdogList
  <2>1. IntakeTypeOK'
    BY <1>3, IntakeStutterType DEF TypeOK, WatchdogList
  <2> QED
    BY <1>3, <2>1 DEF TypeOK, WatchdogList, processVars, diskVars, cartographVars, Wedged
<1>4. ASSUME NEW k \in todo, WatchdogFail(k) PROVE TypeOK'
  <2>1. IntakeTypeOK' /\ rows' \in Table
    BY <1>4, IntakeStutterType, MarkType DEF TypeOK, WatchdogFail
  <2> QED
    BY <1>4, <2>1 DEF TypeOK, WatchdogFail, processVars, diskVars, cartographVars
<1>5. CASE WatchdogReport
  <2>1. IntakeTypeOK' /\ heard' \in [Key -> SUBSET {"result", "failure"}]
    BY <1>5, IntakeStutterType, NoticeType DEF TypeOK, WatchdogReport
  <2> QED
    BY <1>5, <2>1 DEF TypeOK, WatchdogReport, processVars, diskVars, cartographVars
<1> QED
  BY <1>1, <1>2, <1>3, <1>4, <1>5 DEF WatchdogStep

LEMMA ClockType ==
  ASSUME TypeOK, KeeperStepOnRows \/ Tick
  PROVE  TypeOK'
<1>1. CASE KeeperSnapshot
  <2>1. IntakeTypeOK'
    BY <1>1, KeeperType DEF TypeOK, KeeperSnapshot
  <2> QED
    BY <1>1, <2>1 DEF TypeOK, KeeperSnapshot, processVars, diskVars, cartographVars
<1>2. ASSUME NEW l \in beats, KeeperBeat(l) PROVE TypeOK'
  <2>1. IntakeTypeOK' /\ rows' \in Table
    BY <1>2, KeeperType, TouchType DEF TypeOK, KeeperBeat
  <2> QED
    BY <1>2, <2>1 DEF TypeOK, KeeperBeat, processVars, diskVars, cartographVars
<1>3. CASE Tick
  <2>1. IntakeTypeOK' /\ rows' \in Table
    BY <1>3, KeeperType, IntakeStutterType, AgedType DEF TypeOK, Tick
  <2> QED
    BY <1>3, <2>1 DEF TypeOK, Tick, processVars, diskVars, cartographVars
<1> QED
  BY <1>1, <1>2, <1>3 DEF KeeperStepOnRows

(* The types are kept: the process stops, starts and resumes.              *)
LEMMA ProcessType ==
  ASSUME TypeOK, BeginShutdown \/ Stop \/ StartStep
  PROVE  TypeOK'
<1>1. CASE BeginShutdown
  <2>1. IntakeTypeOK'
    BY <1>1, ShutdownType DEF TypeOK, BeginShutdown
  <2> QED
    BY <1>1, <2>1 DEF TypeOK, BeginShutdown, processVars, diskVars, cartographVars
<1>2. CASE Stop
  <2>1. IntakeTypeOK' /\ << >> \in Seq(Task)
    BY <1>2, ResetType, EmptySeq DEF Stop
  <2> QED
    BY <1>2, <2>1 DEF TypeOK, Stop, LoopPcs, Steps, diskVars, cartographVars
<1>3. CASE Restart
  <2>1. IntakeTypeOK'
    BY <1>3, IntakeStutterType DEF TypeOK, Restart
  <2> QED
    BY <1>3, <2>1 DEF TypeOK, Restart, processVars, diskVars, cartographVars
<1>4. CASE Serve
  <2>1. IntakeTypeOK'
    BY <1>4, IntakeStutterType DEF TypeOK, Serve
  <2> QED
    BY <1>4, <2>1 DEF TypeOK, Serve, processVars, diskVars, cartographVars
<1>5. ASSUME NEW k \in claims, ClaimInterrupted(k) PROVE TypeOK'
  <2>1. IntakeTypeOK' /\ rows' \in Table
    BY <1>5, IntakeStutterType, TouchType DEF TypeOK, ClaimInterrupted
  <2>2. k \in Key /\ k[2] \in Case
    BY KeyParts DEF TypeOK
  <2>3. rows[k].docs \in Docs /\ kept[k[2]] \in Packet \cup {NoPacket}
    BY <1>5, <2>2 DEF TypeOK, ClaimInterrupted, Table, Row
  <2>4. resuming' \in Seq(Task)
    BY <1>5, <2>2, <2>3, ResumedTask, AppendProperties DEF TypeOK, ClaimInterrupted
  <2> QED
    BY <1>5, <2>1, <2>4 DEF TypeOK, ClaimInterrupted, cartographVars
<1>6. ASSUME NEW k \in claims, FailInterrupted(k) PROVE TypeOK'
  <2>1. IntakeTypeOK' /\ rows' \in Table
    BY <1>6, IntakeStutterType, MarkType DEF TypeOK, FailInterrupted
  <2> QED
    BY <1>6, <2>1 DEF TypeOK, FailInterrupted, cartographVars
<1>7. CASE ReportInterrupted
  <2>1. IntakeTypeOK' /\ heard' \in [Key -> SUBSET {"result", "failure"}]
    BY <1>7, IntakeStutterType, NoticeType DEF TypeOK, ReportInterrupted
  <2> QED
    BY <1>7, <2>1 DEF TypeOK, ReportInterrupted, diskVars
<1> QED
  BY <1>1, <1>2, <1>3, <1>4, <1>5, <1>6, <1>7 DEF StartStep

LEMMA ResumeType ==
  ASSUME TypeOK, ResumeStep
  PROVE  TypeOK'
<1>1. CASE ResumeJoin
  <2>1. /\ Head(resuming) \in Task /\ Tail(resuming) \in Seq(Task)
        /\ "resume" \in Submitter
    BY <1>1, HeadTailProperties, EngineAssumption DEF TypeOK, ResumeJoin
  <2>2. IntakeTypeOK'
    BY <1>1, <2>1, JoinType DEF TypeOK, ResumeJoin
  <2> QED
    BY <1>1, <2>1, <2>2 DEF TypeOK, ResumeJoin, diskVars, cartographVars
<1>2. CASE ResumeEnqueue
  <2>1. IntakeTypeOK'
    BY <1>2, SubmitterType, EngineAssumption DEF TypeOK, ResumeEnqueue
  <2> QED
    BY <1>2, <2>1 DEF TypeOK, ResumeEnqueue, diskVars, cartographVars
<1>3. CASE ResumeRefused
  <2>1. IntakeTypeOK' /\ << >> \in Seq(Task)
    BY <1>3, SubmitterType, EngineAssumption, EmptySeq DEF TypeOK, ResumeRefused
  <2> QED
    BY <1>3, <2>1 DEF TypeOK, ResumeRefused, diskVars, cartographVars
<1>4. CASE ResumeWakes
  <2>1. IntakeTypeOK'
    BY <1>4, ReopenType, IntakeStutterType DEF TypeOK, ResumeWakes
  <2> QED
    BY <1>4, <2>1 DEF TypeOK, ResumeWakes, diskVars, cartographVars
<1> QED
  BY <1>1, <1>2, <1>3, <1>4 DEF ResumeStep

LEMMA InitType == Init => TypeOK
<1>1. << >> \in Seq(Task)
  BY EmptySeq
<1>2. NoRow \in Row
  BY NoRowType
<1> QED
  BY <1>1, <1>2, IntakeInitType DEF Init, TypeOK, Table, LoopPcs, Steps

LEMMA StepType == TypeOK /\ [Next]_vars => TypeOK'
<1> SUFFICES ASSUME TypeOK, [Next]_vars PROVE TypeOK'
  OBVIOUS
<1>1. ASSUME NEW w \in Worker, AuditStep(w) \/ Heartbeat(w) PROVE TypeOK'
  BY <1>1, WorkerType, ReadingType, DeliveringType DEF AuditStep
<1>2. CASE UNCHANGED vars
  <2>1. IntakeTypeOK'
    BY <1>2, IntakeStutterType DEF TypeOK, vars
  <2> QED
    BY <1>2, <2>1 DEF TypeOK, vars, processVars, diskVars, cartographVars
<1> QED
  BY <1>1, <1>2, LoopType, CallType, MaintenanceType, ClockType, ProcessType, ResumeType
     DEF Next

(* The state of the engine always has its type: no row leaves the job      *)
(* store's states, every thread is at one of its steps.                    *)
THEOREM EngineTypes == SafetySpec => []TypeOK
  BY InitType, StepType, PTL DEF SafetySpec
-----------------------------------------------------------------------------
(* What each operation of the job store does to the rows some worker owns. *)
LEMMA TouchOwned ==
  ASSUME NEW tbl \in Table, NEW k, NEW j
  PROVE  IsOwned(Touch(tbl, k), j) <=> IsOwned(tbl, j)
  BY DEF Touch, IsOwned, Present, Table, Row

LEMMA RequestOwned ==
  ASSUME NEW tbl \in Table, NEW k, NEW j, NEW d
  PROVE  IsOwned(RecordRequest(tbl, k, d), j) <=> IsOwned(tbl, j)
  BY DEF RecordRequest, IsOwned, Present, Table, Row

LEMMA SetStateOwned ==
  ASSUME NEW tbl \in Table, NEW k, NEW j, NEW s \in State, IsOwned(SetState(tbl, k, s), j)
  PROVE  \/ j = k /\ s \in OwnedStates
         \/ j # k /\ IsOwned(tbl, j)
  BY DEF SetState, IsOwned, Present, Table, Row

(* The marks that end an audit release the row.                            *)
LEMMA EndOwned ==
  ASSUME NEW tbl \in Table, NEW k, NEW j,
         \/ IsOwned(MarkExtractionFailed(tbl, k), j)
         \/ IsOwned(MarkComparisonFailed(tbl, k), j)
         \/ IsOwned(MarkDone(tbl, k), j)
  PROVE  j # k /\ IsOwned(tbl, j)
<1>1. /\ "extraction_failed" \in State \ OwnedStates
      /\ "comparison_failed" \in State \ OwnedStates
  BY DEF State, OwnedStates, TerminalStates
<1>2. CASE IsOwned(MarkDone(tbl, k), j)
  BY <1>2 DEF MarkDone, IsOwned, Present, Table, Row, OwnedStates
<1>3. CASE IsOwned(MarkExtractionFailed(tbl, k), j) \/ IsOwned(MarkComparisonFailed(tbl, k), j)
  BY <1>1, <1>3, SetStateOwned DEF MarkExtractionFailed, MarkComparisonFailed
<1> QED
  BY <1>2, <1>3

(* The others own no row but the one they are about.                       *)
LEMMA ProgressOwned ==
  ASSUME NEW tbl \in Table, NEW k, NEW j,
         \/ IsOwned(MarkExtracting(tbl, k), j)
         \/ IsOwned(MarkExtracted(tbl, k), j)
  PROVE  j = k \/ IsOwned(tbl, j)
<1>1. {"extracting", "extracted"} \subseteq State
  BY DEF State, OwnedStates
<1> QED
  BY <1>1, SetStateOwned DEF MarkExtracting, MarkExtracted

LEMMA UpsertOwned ==
  ASSUME NEW tbl \in Table, NEW k \in Key, NEW j, NEW now, IsOwned(UpsertPending(tbl, k, now), j)
  PROVE  j = k \/ IsOwned(tbl, j)
<1>1. CASE IsOwned(tbl, k)
  BY <1>1 DEF UpsertPending
<1>2. CASE ~IsOwned(tbl, k) /\ j # k
  <2>1. j \in Key
    BY DEF IsOwned, Present
  <2>2. UpsertPending(tbl, k, now)[j] = tbl[j]
    BY <1>2, <2>1 DEF UpsertPending, Table
  <2> QED
    BY <2>1, <2>2 DEF IsOwned, Present
<1> QED
  BY <1>1, <1>2

LEMMA PassingOwned ==
  ASSUME NEW tbl \in Table, NEW j
  PROVE  /\ \A old : IsOwned(DeleteRows(tbl, old), j) => IsOwned(tbl, j)
         /\ IsOwned(Aged(tbl), j) <=> IsOwned(tbl, j)
         /\ \A k : IsOwned(CloseWindow(tbl, k), j) <=> IsOwned(tbl, j)
<1>1. \A old : IsOwned(DeleteRows(tbl, old), j) => IsOwned(tbl, j)
  BY DEF DeleteRows, NoRow, IsOwned, Present
<1>2. IsOwned(Aged(tbl), j) <=> IsOwned(tbl, j)
  BY DEF Aged, IsOwned, Present, Table, Row
<1>3. \A k : IsOwned(CloseWindow(tbl, k), j) <=> IsOwned(tbl, j)
  BY DEF CloseWindow, IsOwned, Present, Table, Row
<1> QED
  BY <1>1, <1>2, <1>3
-----------------------------------------------------------------------------
(* The inductive invariant: types, the invariant itself, and that the pool *)
(* is shut down only by a process that no longer serves - otherwise a      *)
(* refused submit would drop the case it holds.                            *)
StrandedInv ==
  /\ TypeOK
  /\ stopped => up = "stopping"
  /\ OwnedIsHeld

\* A key somebody will end: claimed at start, or held.
Kept(k) == k \in claims \/ Held(k)

(* A step keeps the invariant when it lets nobody go of a row that stays   *)
(* owned, and hands every row it makes owned to somebody.                  *)
LEMMA HoldersKeep ==
  ASSUME OwnedIsHeld, up' \in {"boot", "up"} => up \in {"boot", "up"},
         \A k \in DefaultKeys :
           IsOwned(rows', k) => Kept(k)' \/ (IsOwned(rows, k) /\ (Kept(k) => Kept(k)'))
  PROVE  OwnedIsHeld'
<1> SUFFICES ASSUME up' \in {"boot", "up"}, NEW k \in DefaultKeys', IsOwned(rows', k)
             PROVE  k \in claims' \/ Held(k)'
  BY DEF OwnedIsHeld
<1>1. k \in DefaultKeys
  BY DEF DefaultKeys
<1>2. IsOwned(rows, k) => Kept(k)
  BY <1>1 DEF OwnedIsHeld, Kept
<1> QED
  BY <1>1, <1>2 DEF Kept

(* Nobody takes or lets go.                                                *)
holderVars == <<loopPc, loopTask, joining, queue, resuming, phase, slot, step, claims>>

LEMMA HoldersStay ==
  ASSUME UNCHANGED holderVars, NEW k
  PROVE  Kept(k) <=> Kept(k)'
  BY DEF holderVars, Kept, Held, LoopHolds, JoiningHolds, QueueHolds, ResumeHolds, WorkerHolds

(* Worker w goes on, or lets go of its own job only.                       *)
LEMMA WorkerMoves ==
  ASSUME UNCHANGED <<loopPc, loopTask, joining, queue, resuming, claims>>, NEW w \in Worker,
         \A v \in Worker : v # w => /\ phase'[v] = phase[v] /\ slot'[v] = slot[v]
                                    /\ step'[v] = step[v],
         NEW k, Kept(k), WorkerHolds(w, k) => WorkerHolds(w, k)'
  PROVE  Kept(k)'
<1>1. \A v \in Worker : WorkerHolds(v, k) => WorkerHolds(v, k)'
  BY DEF WorkerHolds
<1> QED
  BY <1>1 DEF Kept, Held, LoopHolds, JoiningHolds, QueueHolds, ResumeHolds

\* A default key is the bare reference of the cases that have it.
LEMMA DefaultKey ==
  ASSUME NEW t \in Task, Job(t) \in DefaultKeys
  PROVE  Job(t) = BareKey(t.case)
  BY EnvAssumption DEF DefaultKeys, Job, JobKey, BareKey, Task

(* A submitter hands its case to the pool's queue.                         *)
LEMMA EnqueueKeeps ==
  ASSUME IntakeTypeOK, NEW s \in Submitter, Enqueue(s),
         UNCHANGED <<loopTask, resuming, step, claims>>,
         loopPc' = loopPc \/ loopPc = "joined",
         NEW k, Kept(k)
  PROVE  Kept(k)'
<1>1. /\ joining' = [joining EXCEPT ![s] = NoTask] /\ joining[s] # NoTask
      /\ joining \in [Submitter -> Task \cup {NoTask}] /\ queue \in Seq(Task)
      /\ joining[s] \in Task /\ queue' = Append(queue, joining[s])
      /\ UNCHANGED <<phase, slot>>
  BY DEF Enqueue, IntakeTypeOK
<1>2. /\ \A i \in DOMAIN queue : i \in DOMAIN queue' /\ queue'[i] = queue[i]
      /\ Len(queue) + 1 \in DOMAIN queue' /\ queue'[Len(queue) + 1] = joining[s]
  BY <1>1, AppendProperties, LenProperties
<1>3. \A r \in Submitter : JoiningHolds(r, k) =>
         JoiningHolds(r, k)' \/ (\E i \in DOMAIN queue : QueueHolds(i, k))'
  <2> SUFFICES ASSUME NEW r \in Submitter, JoiningHolds(r, k)
               PROVE  JoiningHolds(r, k)' \/ (\E i \in DOMAIN queue : QueueHolds(i, k))'
    OBVIOUS
  <2>1. CASE r = s
    BY <1>2, <2>1 DEF JoiningHolds, QueueHolds
  <2>2. CASE r # s
    <3>1. joining'[r] = joining[r]
      BY <1>1, <2>2
    <3> QED
      BY <3>1 DEF JoiningHolds
  <2> QED
    BY <2>1, <2>2
<1>4. \A i \in DOMAIN queue : QueueHolds(i, k) => QueueHolds(i, k)'
  BY <1>2 DEF QueueHolds
<1>5. LoopHolds(k) => LoopHolds(k)'
  BY DEF LoopHolds
<1>6. \A w \in Worker : WorkerHolds(w, k) => WorkerHolds(w, k)'
  BY <1>1 DEF WorkerHolds
<1>7. \A i \in DOMAIN resuming : ResumeHolds(i, k) => i \in DOMAIN resuming' /\ ResumeHolds(i, k)'
  BY DEF ResumeHolds
<1>8. k \in claims => k \in claims'
  OBVIOUS
<1>9. (\E r \in Submitter : JoiningHolds(r, k)) => Held(k)'
  BY <1>3 DEF Held
<1>10. (\E i \in DOMAIN queue : QueueHolds(i, k)) => Held(k)'
  BY <1>2, <1>4 DEF Held
<1> QED
  BY <1>5, <1>6, <1>7, <1>8, <1>9, <1>10 DEF Kept, Held

-----------------------------------------------------------------------------
(* The handler claims a row for the line, and nobody else lets go.         *)
LEMMA LoopKeeps ==
  ASSUME ~OddRequests, StrandedInv, LoopStep
  PROVE  OwnedIsHeld'
<1>0. /\ TypeOK /\ OwnedIsHeld /\ rows \in Table /\ "loop" \in Submitter
      /\ joining \in [Submitter -> Task \cup {NoTask}] /\ queue \in Seq(Task)
  BY EngineAssumption DEF StrandedInv, TypeOK, IntakeTypeOK
<1>1. CASE ClaimDuplicate
  <2>1. \A k : Kept(k) => Kept(k)'
    BY <1>1 DEF ClaimDuplicate, intakeVars, Kept, Held, LoopHolds, JoiningHolds, QueueHolds,
                ResumeHolds, WorkerHolds
  <2> QED
    BY <1>0, <1>1, <2>1, HoldersKeep DEF ClaimDuplicate, diskVars
<1>2. CASE ClaimCase
  <2>1. Job(loopTask) \in Key
    BY <1>2, JobType DEF StrandedInv, TypeOK, ClaimCase
  <2>2. Kept(Job(loopTask))'
    BY <1>2 DEF ClaimCase, Kept, Held, LoopHolds
  <2>3. \A k : Kept(k) => Kept(k)'
    BY <1>2 DEF ClaimCase, intakeVars, Kept, Held, LoopHolds, JoiningHolds, QueueHolds,
                ResumeHolds, WorkerHolds
  <2>4. \A k : IsOwned(rows', k) => k = Job(loopTask) \/ IsOwned(rows, k)
    BY <1>0, <1>2, <2>1, UpsertOwned DEF ClaimCase
  <2> QED
    BY <1>0, <1>2, <2>2, <2>3, <2>4, HoldersKeep DEF ClaimCase
<1>3. CASE KeepRequest
  <2>1. \A k : Kept(k) => Kept(k)'
    BY <1>3 DEF KeepRequest, intakeVars, Kept, Held, LoopHolds, JoiningHolds, QueueHolds,
                ResumeHolds, WorkerHolds
  <2>2. \A k : IsOwned(rows', k) => IsOwned(rows, k)
    BY <1>0, <1>3, RequestOwned DEF KeepRequest
  <2> QED
    BY <1>0, <1>3, <2>1, <2>2, HoldersKeep DEF KeepRequest
<1>4. CASE LoopJoin
  <2>1. loopTask # NoTask
    BY <1>4 DEF StrandedInv, TypeOK, LoopJoin
  <2>2. \A k : \A s \in Submitter : JoiningHolds(s, k) => JoiningHolds(s, k)'
    BY <1>0, <1>4 DEF LoopJoin, Join, JoiningHolds
  <2>3. \A k : LoopHolds(k) => JoiningHolds("loop", k)'
    BY <1>0, <1>4, <2>1 DEF LoopJoin, Join, JoiningHolds, LoopHolds
  <2>4. \A k : Kept(k) => Kept(k)'
    <3> SUFFICES ASSUME NEW k, Kept(k) PROVE Kept(k)'
      OBVIOUS
    <3>1. UNCHANGED <<queue, resuming, phase, slot, step, claims>>
      BY <1>4 DEF LoopJoin, Join
    <3>2. /\ \A i : QueueHolds(i, k) => QueueHolds(i, k)'
          /\ \A i : ResumeHolds(i, k) => ResumeHolds(i, k)'
          /\ \A w \in Worker : WorkerHolds(w, k) => WorkerHolds(w, k)'
      BY <3>1 DEF QueueHolds, ResumeHolds, WorkerHolds
    <3> QED
      BY <1>0, <2>2, <2>3, <3>1, <3>2 DEF Kept, Held
  <2> QED
    BY <1>0, <1>4, <2>4, HoldersKeep DEF LoopJoin, diskVars
<1>5. CASE LoopEnqueue
  <2>1. \A k : Kept(k) => Kept(k)'
    BY <1>0, <1>5, EnqueueKeeps DEF LoopEnqueue, TypeOK
  <2> QED
    BY <1>0, <1>5, <2>1, HoldersKeep DEF LoopEnqueue, diskVars
<1> QED
  BY <1>1, <1>2, <1>3, <1>4, <1>5 DEF LoopStep, HandlerRaises
-----------------------------------------------------------------------------
(* audit_case: a step that goes on with the job, and a step that ends it   *)
(* or comes after its end.                                                 *)
LEMMA GoingKeeps ==
  ASSUME StrandedInv, NEW w \in Worker, phase[w] = "running", step[w] \in LiveSteps,
         UNCHANGED RestOfAudit, NEW s \in LiveSteps,
         step' = step \/ step' = [step EXCEPT ![w] = s],
         \A k : IsOwned(rows', k) => IsOwned(rows, k) \/ k = Job(slot[w])
  PROVE  OwnedIsHeld'
<1>1. /\ UNCHANGED <<loopPc, loopTask, joining, queue, resuming, claims, up, phase, slot>>
      /\ \A v \in Worker : v # w => step'[v] = step[v]
      /\ step'[w] \in LiveSteps
  BY DEF RestOfAudit, intakeVars, StrandedInv, TypeOK
<1>2. \A k : WorkerHolds(w, k) => WorkerHolds(w, k)'
  BY <1>1 DEF WorkerHolds
<1>3. \A k : Kept(k) => Kept(k)'
  BY <1>1, <1>2, WorkerMoves
<1>4. Kept(Job(slot[w]))
  BY DEF Kept, Held, WorkerHolds
<1> QED
  BY <1>1, <1>3, <1>4, HoldersKeep DEF StrandedInv

LEMMA EndingKeeps ==
  ASSUME StrandedInv, NEW w \in Worker, phase[w] = "running",
         UNCHANGED RestOfAudit, NEW s, step' = [step EXCEPT ![w] = s],
         \A k \in DefaultKeys : IsOwned(rows', k) => IsOwned(rows, k) /\ ~WorkerHolds(w, k)
  PROVE  OwnedIsHeld'
<1>1. /\ UNCHANGED <<loopPc, loopTask, joining, queue, resuming, claims, up, phase, slot>>
      /\ \A v \in Worker : v # w => step'[v] = step[v]
  BY DEF RestOfAudit, intakeVars, StrandedInv, TypeOK
<1>2. \A k : Kept(k) /\ ~WorkerHolds(w, k) => Kept(k)'
  BY <1>1, WorkerMoves
<1> QED
  BY <1>1, <1>2, HoldersKeep DEF StrandedInv

LEMMA ReadingKeeps ==
  ASSUME StrandedInv, NEW w \in Worker,
         \/ StartAudit(w) \/ Fetch(w) \/ FallBack(w) \/ DocumentsUnavailable(w) \/ Heartbeat(w)
         \/ PagesRead(w) \/ RetryExtraction(w) \/ ExtractionFails(w) \/ Extract(w)
  PROVE  OwnedIsHeld'
<1>0. rows \in Table
  BY DEF StrandedInv, TypeOK
<1>1. CASE StartAudit(w)
  <2>1. \A k : IsOwned(rows', k) => IsOwned(rows, k) \/ k = Job(slot[w])
    BY <1>0, <1>1, ProgressOwned DEF StartAudit
  <2> QED
    BY <1>1, <2>1, GoingKeeps DEF StartAudit, At, Goto, LiveSteps
<1>2. CASE Fetch(w)
  <2>1. \A k : IsOwned(rows', k) => IsOwned(rows, k) \/ k = Job(slot[w])
    BY <1>0, <1>2 DEF Fetch
  <2> QED
    BY <1>2, <2>1, GoingKeeps DEF Fetch, At, Goto, LiveSteps
<1>3. CASE FallBack(w)
  <2>1. \A k : IsOwned(rows', k) => IsOwned(rows, k) \/ k = Job(slot[w])
    BY <1>0, <1>3 DEF FallBack, diskVars
  <2> QED
    BY <1>3, <2>1, GoingKeeps DEF FallBack, At, Goto, LiveSteps
<1>4. CASE DocumentsUnavailable(w)
  <2>1. \A k \in DefaultKeys : IsOwned(rows', k) => IsOwned(rows, k) /\ k # Job(slot[w])
    BY <1>0, <1>4, EndOwned DEF DocumentsUnavailable
  <2> QED
    BY <1>4, <2>1, EndingKeeps DEF DocumentsUnavailable, At, Goto, WorkerHolds
<1>5. CASE Heartbeat(w)
  <2>1. \A k : IsOwned(rows', k) => IsOwned(rows, k) \/ k = Job(slot[w])
    BY <1>0, <1>5, TouchOwned DEF Heartbeat
  <2> QED
    BY <1>5, <2>1, GoingKeeps DEF Heartbeat, At, Goto, LiveSteps
<1>6. CASE PagesRead(w)
  <2>1. \A k : IsOwned(rows', k) => IsOwned(rows, k) \/ k = Job(slot[w])
    BY <1>0, <1>6 DEF PagesRead, diskVars
  <2> QED
    BY <1>6, <2>1, GoingKeeps DEF PagesRead, At, Goto, LiveSteps
<1>7. CASE RetryExtraction(w)
  <2>1. \A k : IsOwned(rows', k) => IsOwned(rows, k) \/ k = Job(slot[w])
    BY <1>0, <1>7, TouchOwned DEF RetryExtraction
  <2> QED
    BY <1>7, <2>1, GoingKeeps DEF RetryExtraction, At, Goto, LiveSteps
<1>8. CASE ExtractionFails(w)
  <2>1. \A k \in DefaultKeys : IsOwned(rows', k) => IsOwned(rows, k) /\ k # Job(slot[w])
    BY <1>0, <1>8, EndOwned DEF ExtractionFails
  <2> QED
    BY <1>8, <2>1, EndingKeeps DEF ExtractionFails, At, Goto, WorkerHolds
<1>9. CASE Extract(w)
  <2>1. \A k : IsOwned(rows', k) => IsOwned(rows, k) \/ k = Job(slot[w])
    BY <1>0, <1>9, ProgressOwned DEF Extract
  <2> QED
    BY <1>9, <2>1, GoingKeeps DEF Extract, At, Goto, LiveSteps
<1> QED
  BY <1>1, <1>2, <1>3, <1>4, <1>5, <1>6, <1>7, <1>8, <1>9

LEMMA DeliveringKeeps ==
  ASSUME StrandedInv, NEW w \in Worker,
         \/ DeliveryNotConfigured(w) \/ Post(w) \/ DeliveryRaised(w) \/ DeliveryRecorded(w)
         \/ DeliveryRejected(w) \/ DeliveryAccepted(w) \/ Unexpected(w) \/ UnexpectedMarked(w)
         \/ Report(w) \/ RemoveWorkDir(w)
  PROVE  OwnedIsHeld'
<1>0. rows \in Table
  BY DEF StrandedInv, TypeOK
<1>1. CASE DeliveryNotConfigured(w)
  <2>1. \A k \in DefaultKeys : IsOwned(rows', k) => IsOwned(rows, k) /\ k # BareKey(slot[w].case)
    BY <1>0, <1>1, EndOwned DEF DeliveryNotConfigured
  <2>2. \A k \in DefaultKeys : IsOwned(rows', k) => IsOwned(rows, k) /\ k # Job(slot[w])
    BY <1>1, <2>1, HeldTask, DefaultKey DEF StrandedInv, DeliveryNotConfigured, At
  <2> QED
    BY <1>1, <2>2, EndingKeeps DEF DeliveryNotConfigured, At, Goto, WorkerHolds
<1>2. CASE Post(w)
  <2>1. \A k : IsOwned(rows', k) => IsOwned(rows, k) \/ k = Job(slot[w])
    BY <1>0, <1>2 DEF Post, diskVars
  <2> QED
    BY <1>2, <2>1, GoingKeeps DEF Post, At, Goto, LiveSteps
<1>3. CASE DeliveryRaised(w)
  <2>1. \A k \in DefaultKeys : IsOwned(rows', k) => IsOwned(rows, k) /\ k # Job(slot[w])
    BY <1>0, <1>3, EndOwned DEF DeliveryRaised
  <2> QED
    BY <1>3, <2>1, EndingKeeps DEF DeliveryRaised, At, Goto, WorkerHolds
<1>4. CASE DeliveryRejected(w)
  <2>1. \A k \in DefaultKeys : IsOwned(rows', k) => IsOwned(rows, k) /\ k # BareKey(slot[w].case)
    BY <1>0, <1>4, EndOwned DEF DeliveryRejected
  <2>2. \A k \in DefaultKeys : IsOwned(rows', k) => IsOwned(rows, k) /\ k # Job(slot[w])
    BY <1>4, <2>1, HeldTask, DefaultKey DEF StrandedInv, DeliveryRejected, At
  <2> QED
    BY <1>4, <2>2, EndingKeeps DEF DeliveryRejected, At, Goto, WorkerHolds
<1>5. CASE DeliveryAccepted(w)
  <2>1. \A k \in DefaultKeys : IsOwned(rows', k) => IsOwned(rows, k) /\ k # BareKey(slot[w].case)
    BY <1>0, <1>5, EndOwned DEF DeliveryAccepted
  <2>2. \A k \in DefaultKeys : IsOwned(rows', k) => IsOwned(rows, k) /\ k # Job(slot[w])
    BY <1>5, <2>1, HeldTask, DefaultKey DEF StrandedInv, DeliveryAccepted, At
  <2> QED
    BY <1>5, <2>2, EndingKeeps DEF DeliveryAccepted, At, Goto, WorkerHolds
<1>6. CASE Unexpected(w)
  <2>1. \A k : IsOwned(rows', k) => IsOwned(rows, k) \/ k = Job(slot[w])
    BY <1>0, <1>6 DEF Unexpected, diskVars
  <2> QED
    BY <1>6, <2>1, GoingKeeps DEF Unexpected, At, Goto, LiveSteps
<1>7. CASE Report(w)
  <2>1. \A k : ~WorkerHolds(w, k)
    BY <1>7 DEF Report, At, LiveSteps, WorkerHolds
  <2> QED
    BY <1>7, <2>1, EndingKeeps DEF Report, At, Goto, diskVars
<1>8. CASE RemoveWorkDir(w)
  <2>1. \A k : ~WorkerHolds(w, k)
    BY <1>8 DEF RemoveWorkDir, At, LiveSteps, WorkerHolds
  <2> QED
    BY <1>8, <2>1, EndingKeeps DEF RemoveWorkDir, At, Goto, diskVars
<1>9. CASE DeliveryRecorded(w)
  <2>1. \A k : IsOwned(rows', k) => IsOwned(rows, k) \/ k = Job(slot[w])
    BY <1>0, <1>9, TouchOwned DEF DeliveryRecorded, RecordDelivery
  <2> QED
    BY <1>9, <2>1, GoingKeeps DEF DeliveryRecorded, At, Goto, LiveSteps
<1>10. CASE UnexpectedMarked(w)
  <2>1. \A k \in DefaultKeys : IsOwned(rows', k) => IsOwned(rows, k) /\ k # Job(slot[w])
    BY <1>0, <1>10, EndOwned DEF UnexpectedMarked
  <2> QED
    BY <1>10, <2>1, EndingKeeps DEF UnexpectedMarked, At, Goto, WorkerHolds
<1> QED
  BY <1>1, <1>2, <1>3, <1>4, <1>5, <1>6, <1>7, <1>8, <1>9, <1>10
-----------------------------------------------------------------------------
(* A case moves from the queue to a worker, begins, and leaves.            *)
LEMMA TakeKeeps ==
  ASSUME StrandedInv, NEW w \in Worker, TakeCase(w)
  PROVE  OwnedIsHeld'
<1>1. /\ slot' = [slot EXCEPT ![w] = Head(queue)] /\ phase' = [phase EXCEPT ![w] = "taken"]
      /\ phase[w] = "idle" /\ queue # << >> /\ queue' = Tail(queue) /\ queue \in Seq(Task)
      /\ phase \in [Worker -> {"idle", "taken", "running"}]
      /\ slot \in [Worker -> Task \cup {NoTask}]
      /\ UNCHANGED <<joining, loopPc, loopTask, claims, resuming, step, rows, up>>
  BY DEF TakeCase, Take, processVars, diskVars, StrandedInv, TypeOK, IntakeTypeOK
<1>2. /\ DOMAIN queue = 1..Len(queue) /\ DOMAIN queue' = 1..(Len(queue) - 1)
      /\ \A i \in DOMAIN queue' : queue'[i] = queue[i + 1]
      /\ Head(queue) = queue[1]
      /\ Len(queue) \in Nat /\ Len(queue) # 0
  BY <1>1, HeadTailProperties, LenProperties, EmptySeq
<1>3. ASSUME NEW k, NEW i \in DOMAIN queue, QueueHolds(i, k) PROVE Held(k)'
  <2>1. CASE i = 1
    <3>1. WorkerHolds(w, k)'
      BY <1>1, <1>2, <1>3, <2>1 DEF WorkerHolds, QueueHolds
    <3> QED
      BY <3>1 DEF Held
  <2>2. CASE i # 1
    <3>1. i - 1 \in DOMAIN queue' /\ queue'[i - 1] = queue[i]
      BY <1>2, <2>2
    <3>2. \E j \in DOMAIN queue' : Job(queue'[j]) = k
      BY <1>3, <3>1 DEF QueueHolds
    <3> QED
      BY <3>2 DEF Held, QueueHolds
  <2> QED
    BY <2>1, <2>2
<1>4. ASSUME NEW k, NEW v \in Worker, WorkerHolds(v, k) PROVE WorkerHolds(v, k)'
  <2>1. v # w
    BY <1>1, <1>4 DEF WorkerHolds
  <2> QED
    BY <1>1, <1>4, <2>1 DEF WorkerHolds
<1>5. \A k : (LoopHolds(k) => LoopHolds(k)') /\ (k \in claims => k \in claims')
  BY <1>1 DEF LoopHolds
<1>6. \A k : \A s \in Submitter : JoiningHolds(s, k) => JoiningHolds(s, k)'
  BY <1>1 DEF JoiningHolds
<1>7. \A k : \A i : ResumeHolds(i, k) => ResumeHolds(i, k)'
  BY <1>1 DEF ResumeHolds
<1>8. \A k : Kept(k) => Kept(k)'
  BY <1>1, <1>3, <1>4, <1>5, <1>6, <1>7 DEF Kept, Held
<1> QED
  BY <1>1, <1>8, HoldersKeep DEF StrandedInv

LEMMA PassKeeps ==
  ASSUME StrandedInv, NEW w \in Worker, BeginCase(w) \/ LeaveCase(w)
  PROVE  OwnedIsHeld'
<1>1. /\ UNCHANGED <<loopPc, loopTask, joining, queue, resuming, claims, rows, up>>
      /\ \A v \in Worker : v # w => /\ phase'[v] = phase[v] /\ slot'[v] = slot[v]
                                    /\ step'[v] = step[v]
  BY DEF BeginCase, Begin, LeaveCase, Leave, Goto, diskVars, StrandedInv, TypeOK, IntakeTypeOK
<1>2. ASSUME BeginCase(w), NEW k, WorkerHolds(w, k) PROVE WorkerHolds(w, k)'
  BY <1>2 DEF BeginCase, Begin, Goto, WorkerHolds, LiveSteps, StrandedInv, TypeOK, IntakeTypeOK
<1>3. ASSUME LeaveCase(w), NEW k PROVE ~WorkerHolds(w, k)
  BY <1>3 DEF LeaveCase, Leave, At, WorkerHolds, LiveSteps
<1>4. \A k : Kept(k) => Kept(k)'
  BY <1>1, <1>2, <1>3, WorkerMoves
<1> QED
  BY <1>1, <1>4, HoldersKeep DEF StrandedInv

-----------------------------------------------------------------------------
(* The calls of Cartograph, the maintenance thread and the clock take no   *)
(* row: the sweeps only end or delete rows.                                *)
LEMMA PassersByKeep ==
  ASSUME StrandedInv,
         \/ \E e \in Sender, c \in Case, d \in Docs : Notify(e, c, d)
         \/ \E k \in Key : ImportResult(k) \/ WindowCloses(k)
         \/ WatchdogStep \/ RetentionSweep \/ \E c \in Case : PrunePacket(c)
         \/ KeeperStepOnRows \/ Tick
  PROVE  OwnedIsHeld'
<1>0. TypeOK /\ OwnedIsHeld /\ rows \in Table
  BY DEF StrandedInv, TypeOK
<1>1. ASSUME NEW e \in Sender, NEW c \in Case, NEW d \in Docs, Notify(e, c, d) PROVE OwnedIsHeld'
  <2>1. \A k : Kept(k) => Kept(k)'
    BY <1>1 DEF Notify, intakeVars, Kept, Held, LoopHolds, JoiningHolds, QueueHolds,
                ResumeHolds, WorkerHolds
  <2> QED
    BY <1>0, <1>1, <2>1, HoldersKeep DEF Notify, diskVars
<1>2. ASSUME NEW j \in Key, ImportResult(j) PROVE OwnedIsHeld'
  <2>1. \A k : IsOwned(rows', k) => IsOwned(rows, k)
    BY <1>0, <1>2, TouchOwned DEF ImportResult, RecordImportResult
  <2>2. UNCHANGED <<holderVars, up>>
    BY <1>2 DEF ImportResult, holderVars, intakeVars, processVars
  <2> QED
    BY <1>0, <2>1, <2>2, HoldersStay, HoldersKeep
<1>3. ASSUME NEW j \in Key, WindowCloses(j) PROVE OwnedIsHeld'
  <2>1. \A k : IsOwned(rows', k) => IsOwned(rows, k)
    BY <1>0, <1>3, PassingOwned DEF WindowCloses
  <2>2. UNCHANGED <<holderVars, up>>
    BY <1>3 DEF WindowCloses, holderVars, intakeVars, processVars
  <2> QED
    BY <1>0, <2>1, <2>2, HoldersStay, HoldersKeep
<1>4. CASE RetentionSweep
  <2>1. \A k : IsOwned(rows', k) => IsOwned(rows, k)
    BY <1>0, <1>4, PassingOwned DEF RetentionSweep
  <2>2. UNCHANGED <<holderVars, up>>
    BY <1>4 DEF RetentionSweep, holderVars, intakeVars, processVars
  <2> QED
    BY <1>0, <2>1, <2>2, HoldersStay, HoldersKeep
<1>5. ASSUME NEW c \in Case, PrunePacket(c) PROVE OwnedIsHeld'
  <2>1. \A k : IsOwned(rows', k) => IsOwned(rows, k)
    BY <1>0, <1>5 DEF PrunePacket
  <2>2. UNCHANGED <<holderVars, up>>
    BY <1>5 DEF PrunePacket, holderVars, intakeVars, processVars
  <2> QED
    BY <1>0, <2>1, <2>2, HoldersStay, HoldersKeep
<1>6. CASE WatchdogList
  <2>1. \A k : IsOwned(rows', k) => IsOwned(rows, k)
    BY <1>0, <1>6 DEF WatchdogList, diskVars
  <2>2. UNCHANGED <<holderVars, up>>
    BY <1>6 DEF WatchdogList, holderVars, intakeVars, processVars
  <2> QED
    BY <1>0, <2>1, <2>2, HoldersStay, HoldersKeep
<1>7. ASSUME NEW j \in todo, WatchdogFail(j) PROVE OwnedIsHeld'
  <2>1. \A k : IsOwned(rows', k) => IsOwned(rows, k)
    BY <1>0, <1>7, EndOwned DEF WatchdogFail
  <2>2. UNCHANGED <<holderVars, up>>
    BY <1>7 DEF WatchdogFail, holderVars, intakeVars, processVars
  <2> QED
    BY <1>0, <2>1, <2>2, HoldersStay, HoldersKeep
<1>8. CASE WatchdogReport
  <2>1. \A k : IsOwned(rows', k) => IsOwned(rows, k)
    BY <1>0, <1>8 DEF WatchdogReport, diskVars
  <2>2. UNCHANGED <<holderVars, up>>
    BY <1>8 DEF WatchdogReport, holderVars, intakeVars, processVars
  <2> QED
    BY <1>0, <2>1, <2>2, HoldersStay, HoldersKeep
<1>9. CASE KeeperSnapshot
  <2>1. \A k : IsOwned(rows', k) => IsOwned(rows, k)
    BY <1>0, <1>9 DEF KeeperSnapshot, diskVars
  <2>2. UNCHANGED <<holderVars, up>>
    BY <1>9 DEF KeeperSnapshot, KeeperWake, holderVars, intakeVars, processVars
  <2> QED
    BY <1>0, <2>1, <2>2, HoldersStay, HoldersKeep
<1>10. ASSUME NEW l \in beats, KeeperBeat(l) PROVE OwnedIsHeld'
  <2>1. \A k : IsOwned(rows', k) => IsOwned(rows, k)
    BY <1>0, <1>10, TouchOwned DEF KeeperBeat
  <2>2. UNCHANGED <<holderVars, up>>
    BY <1>10 DEF KeeperBeat, KeeperTouch, holderVars, intakeVars, processVars
  <2> QED
    BY <1>0, <2>1, <2>2, HoldersStay, HoldersKeep
<1>11. CASE Tick
  <2>1. \A k : IsOwned(rows', k) => IsOwned(rows, k)
    BY <1>0, <1>11, PassingOwned DEF Tick
  <2>2. UNCHANGED <<holderVars, up>>
    BY <1>11 DEF Tick, KeeperAlarm, holderVars, intakeVars, processVars
  <2> QED
    BY <1>0, <2>1, <2>2, HoldersStay, HoldersKeep
<1> QED
  BY <1>1, <1>2, <1>3, <1>4, <1>5, <1>6, <1>7, <1>8, <1>9, <1>10, <1>11
     DEF WatchdogStep, KeeperStepOnRows
-----------------------------------------------------------------------------
(* The process stops and starts; the start claims what is owned.           *)
LEMMA ProcessKeeps ==
  ASSUME StrandedInv, BeginShutdown \/ Stop \/ StartStep
  PROVE  OwnedIsHeld'
<1>0. TypeOK /\ OwnedIsHeld /\ rows \in Table
  BY DEF StrandedInv, TypeOK
<1>1. CASE BeginShutdown \/ Stop
  BY <1>1 DEF BeginShutdown, Stop, OwnedIsHeld
<1>2. CASE Restart
  <2>1. \A k : IsOwned(rows', k) => Kept(k)'
    BY <1>2 DEF Restart, diskVars, Kept, IsOwned, Present
  <2> QED
    BY <2>1 DEF OwnedIsHeld, Kept, DefaultKeys
<1>3. CASE Serve
  <2>1. UNCHANGED holderVars /\ rows' = rows
    BY <1>3 DEF Serve, holderVars, intakeVars, processVars, diskVars
  <2> QED
    BY <1>0, <1>3, <2>1, HoldersStay, HoldersKeep DEF Serve
<1>4. ASSUME NEW j \in claims, ClaimInterrupted(j) PROVE OwnedIsHeld'
  <2> DEFINE t == [env |-> PrefixEnv(j), case |-> j[2], docs |-> rows[j].docs, packet |-> kept[j[2]]]
  <2>1. j \in Key /\ j[2] \in Case
    BY <1>0, KeyParts DEF TypeOK
  <2>2. rows[j].docs \in Docs /\ kept[j[2]] \in Packet \cup {NoPacket}
    BY <1>0, <1>4, <2>1 DEF TypeOK, ClaimInterrupted, Table, Row
  <2>3. t \in Task /\ Job(t) = j
    BY <2>1, <2>2, ResumedTask
  <2>4. /\ resuming \in Seq(Task) /\ resuming' = Append(resuming, t)
        /\ UNCHANGED <<loopPc, loopTask, joining, queue, phase, slot, step, up>>
        /\ claims' = claims \ {j}
    BY <1>0, <1>4 DEF ClaimInterrupted, intakeVars, TypeOK
  <2>5. /\ \A i \in DOMAIN resuming : i \in DOMAIN resuming' /\ resuming'[i] = resuming[i]
        /\ \E i \in DOMAIN resuming' : resuming'[i] = t
    BY <2>3, <2>4, AppendProperties, LenProperties
  <2>6. ASSUME NEW k, Held(k) PROVE Held(k)'
    <3>1. \A i \in DOMAIN resuming : ResumeHolds(i, k) => i \in DOMAIN resuming' /\ ResumeHolds(i, k)'
      BY <2>5 DEF ResumeHolds
    <3>2. /\ LoopHolds(k) => LoopHolds(k)'
          /\ \A s \in Submitter : JoiningHolds(s, k) => JoiningHolds(s, k)'
          /\ \A i \in DOMAIN queue : QueueHolds(i, k) => i \in DOMAIN queue' /\ QueueHolds(i, k)'
          /\ \A w \in Worker : WorkerHolds(w, k) => WorkerHolds(w, k)'
      BY <2>4 DEF LoopHolds, JoiningHolds, QueueHolds, WorkerHolds
    <3> QED
      BY <2>6, <3>1, <3>2 DEF Held
  <2>7. Held(j)'
    BY <2>3, <2>5 DEF Held, ResumeHolds
  <2>8. \A k : Kept(k) => Kept(k)'
    BY <2>4, <2>6, <2>7 DEF Kept
  <2>9. \A k : IsOwned(rows', k) => IsOwned(rows, k)
    BY <1>0, <1>4, TouchOwned DEF ClaimInterrupted
  <2> QED
    BY <1>0, <2>4, <2>8, <2>9, HoldersKeep
<1>5. ASSUME NEW j \in claims, FailInterrupted(j) PROVE OwnedIsHeld'
  <2>1. \A k : IsOwned(rows', k) => IsOwned(rows, k) /\ k # j
    BY <1>0, <1>5, EndOwned DEF FailInterrupted
  <2>2. claims' = claims \ {j}
    BY <1>5 DEF FailInterrupted
  <2>3. \A k : Held(k) => Held(k)'
    BY <1>5 DEF FailInterrupted, intakeVars, Held, LoopHolds, JoiningHolds, QueueHolds,
                ResumeHolds, WorkerHolds
  <2>4. \A k : k # j /\ Kept(k) => Kept(k)'
    BY <2>2, <2>3 DEF Kept
  <2> QED
    BY <1>0, <1>5, <2>1, <2>4, HoldersKeep DEF FailInterrupted
<1>6. CASE ReportInterrupted
  <2>1. UNCHANGED <<holderVars, up, rows>>
    BY <1>6 DEF ReportInterrupted, holderVars, intakeVars, diskVars
  <2> QED
    BY <1>0, <2>1, HoldersStay, HoldersKeep
<1> QED
  BY <1>1, <1>2, <1>3, <1>4, <1>5, <1>6 DEF StartStep

(* The resume thread hands what was claimed to the line.                   *)
LEMMA ResumeKeeps ==
  ASSUME StrandedInv, ResumeStep
  PROVE  OwnedIsHeld'
<1>0. /\ TypeOK /\ IntakeTypeOK /\ OwnedIsHeld /\ "resume" \in Submitter
  BY EngineAssumption DEF StrandedInv, TypeOK
<1>1. CASE ResumeJoin
  <2>1. /\ joining' = [joining EXCEPT !["resume"] = Head(resuming)]
        /\ joining["resume"] = NoTask
        /\ joining \in [Submitter -> Task \cup {NoTask}]
        /\ resuming # << >> /\ resuming \in Seq(Task) /\ resuming' = Tail(resuming)
        /\ UNCHANGED <<loopPc, loopTask, queue, phase, slot, step, claims, rows, up>>
    BY <1>0, <1>1 DEF ResumeJoin, Join, diskVars, TypeOK, IntakeTypeOK
  <2>2. /\ DOMAIN resuming = 1..Len(resuming) /\ DOMAIN resuming' = 1..(Len(resuming) - 1)
        /\ \A i \in DOMAIN resuming' : resuming'[i] = resuming[i + 1]
        /\ Head(resuming) = resuming[1] /\ Head(resuming) \in Task
        /\ Len(resuming) \in Nat /\ Len(resuming) # 0
    BY <2>1, HeadTailProperties, LenProperties, EmptySeq
  <2>3. ASSUME NEW k, NEW i \in DOMAIN resuming, ResumeHolds(i, k) PROVE Held(k)'
    <3>1. CASE i = 1
      <4>1. JoiningHolds("resume", k)'
        BY <1>0, <2>1, <2>2, <2>3, <3>1, NoTaskAssumption DEF JoiningHolds, ResumeHolds
      <4> QED
        BY <1>0, <4>1 DEF Held
    <3>2. CASE i # 1
      <4>1. i - 1 \in DOMAIN resuming' /\ resuming'[i - 1] = resuming[i]
        BY <2>2, <3>2
      <4>2. \E j \in DOMAIN resuming' : Job(resuming'[j]) = k
        BY <2>3, <4>1 DEF ResumeHolds
      <4> QED
        BY <4>2 DEF Held, ResumeHolds
    <3> QED
      BY <3>1, <3>2
  <2>4. \A k : \A s \in Submitter : JoiningHolds(s, k) => JoiningHolds(s, k)'
    BY <2>1 DEF JoiningHolds
  <2>5. \A k : /\ LoopHolds(k) => LoopHolds(k)'
               /\ \A i \in DOMAIN queue : QueueHolds(i, k) => i \in DOMAIN queue' /\ QueueHolds(i, k)'
               /\ \A w \in Worker : WorkerHolds(w, k) => WorkerHolds(w, k)'
               /\ k \in claims => k \in claims'
    BY <2>1 DEF LoopHolds, QueueHolds, WorkerHolds
  <2>6. \A k : Kept(k) => Kept(k)'
    BY <2>3, <2>4, <2>5 DEF Kept, Held
  <2> QED
    BY <1>0, <2>1, <2>6, HoldersKeep
<1>2. CASE ResumeEnqueue
  <2>1. UNCHANGED <<loopPc, loopTask, resuming, step, claims, rows, up>> /\ Enqueue("resume")
    BY <1>2 DEF ResumeEnqueue, diskVars
  <2>2. \A k : Kept(k) => Kept(k)'
    BY <1>0, <2>1, EnqueueKeeps
  <2> QED
    BY <1>0, <2>1, <2>2, HoldersKeep
<1>3. CASE ResumeRefused
  <2>1. up' = "stopping"
    BY <1>3 DEF ResumeRefused, Refuse, StrandedInv
  <2> QED
    BY <2>1 DEF OwnedIsHeld
<1>4. CASE ResumeWakes
  <2>1. UNCHANGED <<holderVars, up, rows>>
    BY <1>4 DEF ResumeWakes, Reopen, holderVars, intakeVars, diskVars
  <2> QED
    BY <1>0, <2>1, HoldersStay, HoldersKeep
<1> QED
  BY <1>1, <1>2, <1>3, <1>4 DEF ResumeStep

LEMMA StoppedOnlyStopping ==
  ASSUME StrandedInv, [Next]_vars
  PROVE  (stopped => up = "stopping")'
<1>1. ASSUME NEW w \in Worker, AuditStep(w) \/ Heartbeat(w) PROVE UNCHANGED <<stopped, up>>
  BY <1>1 DEF AuditStep, Heartbeat, TakeCase, Take, BeginCase, Begin, LeaveCase, Leave, StartAudit, Fetch,
     FallBack, DocumentsUnavailable, PagesRead, RetryExtraction, ExtractionFails, Extract,
     DeliveryNotConfigured, Post, DeliveryRaised, DeliveryRecorded, DeliveryRejected,
     DeliveryAccepted, Unexpected, UnexpectedMarked, Report, RemoveWorkDir, RestOfAudit, intakeVars
<1>2. ASSUME LoopStep \/ ResumeStep \/ KeeperStepOnRows \/ Tick
      PROVE  (stopped' => stopped) /\ up' = up
  BY <1>2 DEF LoopStep, ClaimDuplicate, ClaimCase, KeepRequest, HandlerRaises, LoopJoin,
     LoopEnqueue, ResumeStep, ResumeWakes, Reopen, ResumeJoin, ResumeEnqueue, ResumeRefused,
     Join, Enqueue, Refuse,
     KeeperStepOnRows, KeeperSnapshot, KeeperWake, KeeperBeat, KeeperTouch, Tick, KeeperAlarm,
     intakeVars
<1>3. ASSUME \/ \E e \in Sender, c \in Case, d \in Docs : Notify(e, c, d)
             \/ \E k \in Key : ImportResult(k) \/ WindowCloses(k)
             \/ WatchdogStep \/ RetentionSweep \/ \E c \in Case : PrunePacket(c)
             \/ UNCHANGED vars
      PROVE  UNCHANGED <<stopped, up>>
  BY <1>3 DEF Notify, ImportResult, WindowCloses, WatchdogStep, WatchdogList, WatchdogFail,
     WatchdogReport, RetentionSweep, PrunePacket, intakeVars, vars
<1>4. ASSUME BeginShutdown \/ Stop \/ StartStep PROVE (stopped => up = "stopping")'
  BY <1>4 DEF BeginShutdown, Shutdown, Stop, IntakeReset, StartStep, Restart, Serve,
     ClaimInterrupted, FailInterrupted, ReportInterrupted, intakeVars, StrandedInv
<1> QED
  BY <1>1, <1>2, <1>3, <1>4 DEF Next, StrandedInv

LEMMA StrandedStep ==
  ASSUME ~OddRequests
  PROVE  StrandedInv /\ [Next]_vars => StrandedInv'
<1> SUFFICES ASSUME StrandedInv, [Next]_vars PROVE StrandedInv'
  OBVIOUS
<1>1. TypeOK' /\ (stopped => up = "stopping")'
  BY StepType, StoppedOnlyStopping DEF StrandedInv
<1>2. ASSUME NEW w \in Worker, AuditStep(w) \/ Heartbeat(w) PROVE OwnedIsHeld'
  BY <1>2, TakeKeeps, PassKeeps, ReadingKeeps, DeliveringKeeps DEF AuditStep
<1>3. ASSUME UNCHANGED vars PROVE OwnedIsHeld'
  <2>1. UNCHANGED <<holderVars, up, rows>>
    BY <1>3 DEF vars, holderVars, intakeVars, processVars, diskVars
  <2> QED
    BY <2>1, HoldersStay, HoldersKeep DEF StrandedInv
<1>4. OwnedIsHeld'
  BY <1>2, <1>3, LoopKeeps, PassersByKeep, ProcessKeeps, ResumeKeeps DEF Next
<1> QED
  BY <1>1, <1>4 DEF StrandedInv

(* No row of the default environment is stranded: while the process        *)
(* serves, every owned row is claimed for a fresh start or held by a       *)
(* thread whose next steps end it - for any number of cases, workers,      *)
(* notifications and restarts, with a network that fails and with no bound *)
(* on how long a row stays untouched (tasks.py, audit_case; resume.py).    *)
(* A notification the handler itself trips over, once it has claimed the   *)
(* row, strands it, and is excluded.                                       *)
THEOREM NoRowIsStranded ==
  ASSUME ~OddRequests
  PROVE  SafetySpec => []OwnedIsHeld
<1>1. Init => StrandedInv
  <2> SUFFICES ASSUME Init PROVE StrandedInv
    OBVIOUS
  <2>1. \A k : ~IsOwned(rows, k)
    BY DEF Init, NoRow, IsOwned, Present
  <2> QED
    BY <2>1, InitType DEF Init, IntakeInit, StrandedInv, OwnedIsHeld
<1>2. StrandedInv => OwnedIsHeld
  BY DEF StrandedInv
<1> QED
  BY <1>1, <1>2, StrandedStep, PTL DEF SafetySpec
=============================================================================
