---------------------------- MODULE HolderProofs ----------------------------
(***************************************************************************)
(* Who holds a job, counted: for every set of environments, cases and      *)
(* workers, and whatever fails, a job has one audit at a time and the      *)
(* watchdog takes no row from whoever is at work on it - provided the      *)
(* watchdog's patience exceeds what an audit may leave its row untouched.  *)
(***************************************************************************)
EXTENDS AuditProofs, FiniteSetTheorems, FunctionTheorems

-----------------------------------------------------------------------------
(* Counting: a set that gains or loses one element.                        *)
LEMMA CountChange ==
  ASSUME NEW A, IsFiniteSet(A), NEW B, NEW x, B \subseteq A \cup {x}
  PROVE  /\ IsFiniteSet(B) /\ Cardinality(A) \in Nat /\ Cardinality(B) \in Nat
         /\ Cardinality(B) <= Cardinality(A) + 1
         /\ x \notin B \/ x \in A => Cardinality(B) <= Cardinality(A)
         /\ x \in A /\ x \notin B => Cardinality(B) + 1 <= Cardinality(A)
<1>1. IsFiniteSet(A \cup {x}) /\ Cardinality(A \cup {x}) <= Cardinality(A) + 1
      /\ Cardinality(A) \in Nat
  BY FS_AddElement, FS_CardinalityType
<1>2. IsFiniteSet(B) /\ Cardinality(B) <= Cardinality(A \cup {x}) /\ Cardinality(B) \in Nat
      /\ Cardinality(A \cup {x}) \in Nat
  BY <1>1, FS_Subset, FS_CardinalityType
<1>3. ASSUME x \notin B \/ x \in A PROVE Cardinality(B) <= Cardinality(A)
  <2>1. B \in SUBSET A
    BY <1>3
  <2> QED
    BY <2>1, FS_Subset
<1>4. ASSUME x \in A, x \notin B PROVE Cardinality(B) + 1 <= Cardinality(A)
  <2>1. B \in SUBSET (A \ {x})
    BY <1>4
  <2>2. IsFiniteSet(A \ {x}) /\ Cardinality(A \ {x}) = Cardinality(A) - 1
    BY <1>4, FS_RemoveElement
  <2>3. Cardinality(B) <= Cardinality(A \ {x})
    BY <2>1, <2>2, FS_Subset
  <2> QED
    BY <1>1, <1>2, <2>2, <2>3
<1> QED
  BY <1>1, <1>2, <1>3, <1>4

(* Where a key stands in a line of tasks.                                  *)
Places(line, k) == {i \in DOMAIN line : Job(line[i]) = k}

LEMMA PlacesFinite ==
  ASSUME NEW line \in Seq(Task), NEW k
  PROVE  IsFiniteSet(Places(line, k)) /\ Cardinality(Places(line, k)) \in Nat
<1>1. DOMAIN line = 1..Len(line) /\ Len(line) \in Nat
  BY LenProperties
<1>2. IsFiniteSet(1..Len(line))
  BY <1>1, FS_Interval
<1>3. Places(line, k) \in SUBSET (1..Len(line))
  BY <1>1 DEF Places
<1> QED
  BY <1>2, <1>3, FS_Subset, FS_CardinalityType

LEMMA PlacesAppend ==
  ASSUME NEW line \in Seq(Task), NEW t \in Task, NEW k
  PROVE  Cardinality(Places(Append(line, t), k))
           <= Cardinality(Places(line, k)) + (IF Job(t) = k THEN 1 ELSE 0)
<1> DEFINE last == Len(line) + 1
<1>1. /\ DOMAIN line = 1..Len(line) /\ Len(line) \in Nat
      /\ DOMAIN Append(line, t) = 1..last
      /\ \A i \in 1..Len(line) : Append(line, t)[i] = line[i]
      /\ Append(line, t)[last] = t
  BY LenProperties, AppendProperties
<1>2. Places(Append(line, t), k) \subseteq Places(line, k) \cup {last}
  BY <1>1 DEF Places
<1>3. last \in Places(Append(line, t), k) => Job(t) = k
  BY <1>1 DEF Places
<1> QED
  BY <1>2, <1>3, PlacesFinite, CountChange

LEMMA PlacesTail ==
  ASSUME NEW line \in Seq(Task), line # <<>>, NEW k
  PROVE  /\ Head(line) \in Task /\ Tail(line) \in Seq(Task)
         /\ Cardinality(Places(Tail(line), k)) + (IF Job(Head(line)) = k THEN 1 ELSE 0)
              <= Cardinality(Places(line, k))
<1>1. /\ DOMAIN line = 1..Len(line) /\ Len(line) \in Nat /\ Len(line) # 0
      /\ Tail(line) \in Seq(Task) /\ DOMAIN Tail(line) = 1..(Len(line) - 1)
      /\ \A i \in 1..(Len(line) - 1) : Tail(line)[i] = line[i + 1]
      /\ Head(line) = line[1] /\ Head(line) \in Task
  BY HeadTailProperties, LenProperties, EmptySeq
<1> DEFINE A == Places(line, k)
           B == Places(Tail(line), k)
           next == [i \in B |-> i + 1]
<1>2. IsFiniteSet(A) /\ IsFiniteSet(A \ {1}) /\ Cardinality(A \ {1}) \in Nat
      /\ Cardinality(A) \in Nat /\ Cardinality(B) \in Nat
      /\ Cardinality(A \ {1}) = IF 1 \in A THEN Cardinality(A) - 1 ELSE Cardinality(A)
  BY <1>1, PlacesFinite, FS_RemoveElement, FS_CardinalityType
<1>3. next \in Injection(B, A \ {1})
  <2>1. \A i \in B : i + 1 \in A \ {1}
    BY <1>1 DEF Places
  <2>2. next \in [B -> A \ {1}]
    BY <2>1
  <2>3. \A i, j \in B : next[i] = next[j] => i = j
    BY <1>1 DEF Places
  <2> HIDE DEF next
  <2> QED
    BY <2>2, <2>3, Fun_IsInj DEF Injection, IsInjective
<1>4. Cardinality(B) <= Cardinality(A \ {1})
  BY <1>2, <1>3, FS_Injection
<1>5. 1 \in A <=> Job(Head(line)) = k
  BY <1>1 DEF Places
<1> QED
  BY <1>1, <1>2, <1>4, <1>5

-----------------------------------------------------------------------------
(* The inductive invariant. Where the process stands decides what its      *)
(* threads can hold.                                                       *)
ProcessInv ==
  /\ stopped => up = "stopping"
  /\ stopped => queue = <<>>
  /\ up # "boot" => claims = {}
  /\ up = "down" => resuming = <<>>
  /\ up \in {"down", "boot"} =>
       /\ loopPc = "idle" /\ resumePc = "idle" /\ queue = <<>> /\ todo = {}
       /\ \A s \in Submitter : joining[s] = NoTask
       /\ \A w \in Worker : phase[w] = "idle"

(* A second pool is made only in a process that is stopping, by the resume *)
(* thread, when nothing is on its way into the line and its threads have   *)
(* held nothing yet.                                                       *)
PoolInv ==
  /\ stopped \/ up # "stopping" => crew = FirstCrew
  /\ \A w \in Relief \ crew : phase[w] = "idle"
  /\ up # "up" => loopPc = "idle"
  /\ joining["loop"] # NoTask => loopPc = "joined"
  /\ resumePc = "delay" => joining["resume"] = NoTask

(* Only the environments that notify have rows.                            *)
FromSenders ==
  /\ loopTask # NoTask => loopTask.env \in Sender
  /\ \A k \in Key : Present(rows, k) => PrefixEnv(k) \in Sender

(* A key has one holder, who holds an owned row the watchdog does not yet  *)
(* take for a dead worker's; what is claimed at start, or listed by the    *)
(* watchdog, is owned and nobody's.                                        *)
KeyInv(k) ==
  /\ HolderCount(k) <= 1
  /\ HolderCount(k) = 1 => IsOwned(rows, k) /\ rows[k].age < Stale
  /\ k \in claims \cup todo => IsOwned(rows, k) /\ HolderCount(k) = 0

(* In a named environment the keeper keeps the line's rows fresh: a row    *)
(* that waits is as old as the ticks since the keeper's last pass.         *)
AheadOfLine(k) ==
  \/ LoopHolds(k)
  \/ \E s \in Submitter : JoiningHolds(s, k)
  \/ \E i \in DOMAIN resuming : ResumeHolds(i, k)

FreshTask(t) ==
  /\ rows[Job(t)].age <= 1
  /\ keeperPc # "awake" => rows[Job(t)].age = 0 \/ Label(t) \in beats

LineFresh ==
  /\ \A k \in Key : AheadOfLine(k) => rows[k].age = 0
  /\ \A i \in DOMAIN queue : FreshTask(queue[i])
  /\ keeperPc # "beating" => beats = {}

BaseInv == TypeOK /\ ProcessInv /\ PoolInv /\ FromSenders

WatchInv ==
  /\ BaseInv
  /\ \A k \in Key : KeyInv(k)
  /\ HeartbeatInv
  /\ DefaultEnv \notin Sender => LineFresh

-----------------------------------------------------------------------------
(* Where the process stands: a worker that takes or runs a case, a handler *)
(* or a submitter under way show that the process serves or is stopping.   *)
LEMMA ProcessStep ==
  ASSUME TypeOK, ProcessInv, [Next]_vars
  PROVE  ProcessInv'
<1>1. ASSUME NEW w \in Worker, AuditStep(w) \/ Heartbeat(w) PROVE ProcessInv'
  <2>1. /\ UNCHANGED <<stopped, up, claims, resuming, resumePc, loopPc, todo, joining>>
        /\ queue' = queue \/ (queue # <<>> /\ queue' = Tail(queue))
    BY <1>1 DEF AuditStep, Heartbeat, TakeCase, Take, BeginCase, Begin, LeaveCase, Leave,
       StartAudit, Fetch, FallBack, DocumentsUnavailable, PagesRead, RetryExtraction,
       ExtractionFails, Extract, DeliveryNotConfigured, Post, DeliveryRaised, DeliveryRejected,
       DeliveryAccepted, DeliveryRecorded, Unexpected, UnexpectedMarked, Report, RemoveWorkDir,
       RestOfAudit, intakeVars, processVars
  <2>2. phase[w] # "idle" \/ queue # <<>>
    BY <1>1 DEF AuditStep, Heartbeat, TakeCase, Take, BeginCase, Begin, LeaveCase, StartAudit,
       Fetch, FallBack, DocumentsUnavailable, PagesRead, RetryExtraction, ExtractionFails,
       Extract, DeliveryNotConfigured, Post, DeliveryRaised, DeliveryRejected,
       DeliveryAccepted, DeliveryRecorded, Unexpected, UnexpectedMarked, Report, RemoveWorkDir, At
  <2>3. up \notin {"down", "boot"} /\ (stopped => queue' = queue)
    BY <2>1, <2>2 DEF ProcessInv
  <2> QED
    BY <2>1, <2>3 DEF ProcessInv
<1>2. ASSUME LoopStep PROVE ProcessInv'
  <2>1. /\ UNCHANGED <<stopped, up, claims, resuming, resumePc, todo, phase>> /\ loopPc # "idle"
        /\ queue' = queue \/ ~stopped
    BY <1>2 DEF LoopStep, ClaimDuplicate, ClaimCase, KeepRequest, HandlerRaises, LoopJoin,
       LoopEnqueue, Join, Enqueue, intakeVars
  <2> QED
    BY <2>1 DEF ProcessInv
<1>3. ASSUME ResumeStep PROVE ProcessInv'
  <2>1. CASE ResumeJoin
    BY <2>1 DEF ResumeJoin, Join, ProcessInv
  <2>3. CASE ResumeWakes
    BY <2>3 DEF ResumeWakes, Reopen, intakeVars, ProcessInv
  <2>2. CASE ResumeEnqueue \/ ResumeRefused
    <3>1. "resume" \in Submitter
      BY EngineAssumption
    <3> QED
      BY <2>2, <3>1 DEF ResumeEnqueue, ResumeRefused, Enqueue, Refuse, ProcessInv
  <2> QED
    BY <1>3, <2>1, <2>2, <2>3 DEF ResumeStep
<1>4. ASSUME \/ \E e \in Sender, c \in Case, d \in Docs : Notify(e, c, d)
             \/ \E k \in Key : ImportResult(k) \/ WindowCloses(k)
             \/ RetentionSweep \/ \E c \in Case : PrunePacket(c)
             \/ WatchdogStep \/ KeeperStepOnRows \/ Tick \/ UNCHANGED vars
      PROVE  ProcessInv'
  <2>1. UNCHANGED <<stopped, up, queue, claims, resuming, resumePc, joining, phase>>
    BY <1>4 DEF Notify, ImportResult, WindowCloses, RetentionSweep, PrunePacket, WatchdogStep,
       WatchdogList, WatchdogFail, WatchdogReport, KeeperStepOnRows, KeeperSnapshot, KeeperBeat,
       KeeperWake, KeeperTouch, Tick, KeeperAlarm, intakeVars, processVars, vars
  <2>2. (loopPc' = loopPc /\ todo' = todo) \/ up = "up" \/ (loopPc' = loopPc /\ todo # {})
    BY <1>4 DEF Notify, ImportResult, WindowCloses, RetentionSweep, PrunePacket, WatchdogStep,
       WatchdogList, WatchdogFail, WatchdogReport, SweepIdle, KeeperStepOnRows, KeeperSnapshot,
       KeeperBeat, Tick, processVars, vars
  <2> QED
    BY <2>1, <2>2 DEF ProcessInv
<1>5. ASSUME BeginShutdown \/ Restart \/ Serve PROVE ProcessInv'
  BY <1>5 DEF BeginShutdown, Shutdown, Restart, Serve, intakeVars, processVars, ProcessInv
<1>6. ASSUME Stop PROVE ProcessInv'
  BY <1>6 DEF Stop, IntakeReset, ProcessInv
<1>7. ASSUME \/ ReportInterrupted
             \/ \E k \in claims : ClaimInterrupted(k) \/ FailInterrupted(k)
      PROVE  ProcessInv'
  <2>1. /\ UNCHANGED <<stopped, queue, loopPc, resumePc, todo, joining, phase>>
        /\ up = "boot" /\ up' = up
    BY <1>7 DEF ClaimInterrupted, FailInterrupted, ReportInterrupted, intakeVars
  <2> QED
    BY <2>1 DEF ProcessInv
<1> QED
  BY <1>1, <1>2, <1>3, <1>4, <1>5, <1>6, <1>7 DEF Next, StartStep

(* The pool: only a resume thread that wakes in a stopping process makes   *)
(* the second one, and only threads of the pool in use take a case.        *)
LEMMA PoolStep ==
  ASSUME TypeOK, ProcessInv, PoolInv, [Next]_vars
  PROVE  PoolInv'
<1>0. "loop" \in Submitter /\ "resume" \in Submitter
  BY EngineAssumption
<1>1. ASSUME NEW w \in Worker, AuditStep(w) \/ Heartbeat(w) PROVE PoolInv'
  <2>1. UNCHANGED <<stopped, up, crew, loopPc, joining, resumePc>>
    BY <1>1 DEF AuditStep, Heartbeat, TakeCase, Take, BeginCase, Begin, LeaveCase, Leave,
       StartAudit, Fetch, FallBack, DocumentsUnavailable, PagesRead, RetryExtraction,
       ExtractionFails, Extract, DeliveryNotConfigured, Post, DeliveryRaised, DeliveryRejected,
       DeliveryAccepted, DeliveryRecorded, Unexpected, UnexpectedMarked, Report, RemoveWorkDir,
       RestOfAudit, intakeVars, processVars
  <2>2. \A v \in Relief \ crew : phase'[v] = "idle"
    <3>1. CASE TakeCase(w)
      BY <3>1 DEF TakeCase, Take, PoolInv, TypeOK, IntakeTypeOK
    <3>2. CASE BeginCase(w)
      BY <3>2 DEF BeginCase, Begin, PoolInv, TypeOK, IntakeTypeOK
    <3>3. CASE LeaveCase(w)
      BY <3>3 DEF LeaveCase, Leave, PoolInv, TypeOK, IntakeTypeOK
    <3>4. CASE phase' = phase
      BY <3>4 DEF PoolInv
    <3> QED
      BY <1>1, <3>1, <3>2, <3>3, <3>4 DEF AuditStep, Heartbeat, StartAudit, Fetch, FallBack,
         DocumentsUnavailable, PagesRead, RetryExtraction, ExtractionFails, Extract,
         DeliveryNotConfigured, Post, DeliveryRaised, DeliveryRejected, DeliveryAccepted,
         DeliveryRecorded, Unexpected, UnexpectedMarked, Report, RemoveWorkDir, RestOfAudit,
         intakeVars
  <2> QED
    BY <2>1, <2>2 DEF PoolInv
<1>2. ASSUME LoopStep PROVE PoolInv'
  <2>1. UNCHANGED <<stopped, up, crew, phase, resumePc>> /\ loopPc # "idle"
    BY <1>2 DEF LoopStep, ClaimDuplicate, ClaimCase, KeepRequest, HandlerRaises, LoopJoin,
       LoopEnqueue, Join, Enqueue, intakeVars
  <2>2. /\ joining' = joining \/ joining' = [joining EXCEPT !["loop"] = loopTask]
             \/ joining' = [joining EXCEPT !["loop"] = NoTask]
        /\ joining'["loop"] = NoTask \/ loopPc' = "joined"
    BY <1>0, <1>2 DEF LoopStep, ClaimDuplicate, ClaimCase, KeepRequest, HandlerRaises, LoopJoin,
       LoopEnqueue, Join, Enqueue, intakeVars, PoolInv, TypeOK, IntakeTypeOK
  <2> QED
    BY <1>0, <2>1, <2>2 DEF PoolInv, TypeOK, IntakeTypeOK
<1>3. ASSUME ResumeStep PROVE PoolInv'
  <2>1. UNCHANGED <<up, phase, loopPc>>
    BY <1>3 DEF ResumeStep, ResumeWakes, Reopen, ResumeJoin, ResumeEnqueue, ResumeRefused, Join,
       Enqueue, Refuse, intakeVars
  <2>2. CASE ResumeWakes
    <3>1. UNCHANGED <<joining>> /\ resumePc' = "submitting"
      BY <2>2 DEF ResumeWakes, Reopen, intakeVars
    <3>2. CASE stopped
      <4>1. /\ up = "stopping" /\ crew = FirstCrew /\ crew' = Relief /\ ~stopped'
        BY <2>2, <3>2 DEF ResumeWakes, Reopen, ProcessInv, PoolInv
      <4> QED
        BY <2>1, <3>1, <4>1 DEF PoolInv
    <3>3. CASE ~stopped
      <4>1. UNCHANGED intakeVars
        BY <2>2, <3>3 DEF ResumeWakes
      <4> QED
        BY <2>1, <3>1, <4>1 DEF PoolInv, intakeVars
    <3> QED
      BY <3>2, <3>3
  <2>3. CASE ResumeJoin \/ ResumeEnqueue \/ ResumeRefused
    <3>1. /\ UNCHANGED <<stopped, crew>>
          /\ \A s \in Submitter : s # "resume" => joining'[s] = joining[s]
          /\ resumePc' # "delay" \/ (resumePc' = resumePc /\ joining'["resume"] = NoTask)
      BY <1>0, <2>3 DEF ResumeJoin, ResumeEnqueue, ResumeRefused, Join, Enqueue, Refuse, TypeOK,
         IntakeTypeOK
    <3> QED
      BY <1>0, <2>1, <3>1 DEF PoolInv
  <2> QED
    BY <1>3, <2>2, <2>3 DEF ResumeStep
<1>4. ASSUME \/ \E e \in Sender, c \in Case, d \in Docs : Notify(e, c, d)
             \/ \E k \in Key : ImportResult(k) \/ WindowCloses(k)
             \/ RetentionSweep \/ \E c \in Case : PrunePacket(c)
             \/ WatchdogStep \/ KeeperStepOnRows \/ Tick \/ UNCHANGED vars
             \/ BeginShutdown \/ Restart \/ ReportInterrupted
             \/ \E k \in claims : ClaimInterrupted(k) \/ FailInterrupted(k)
      PROVE  PoolInv'
  <2>1. UNCHANGED <<crew, joining, phase, resumePc>>
    BY <1>4 DEF Notify, ImportResult, WindowCloses, RetentionSweep, PrunePacket, WatchdogStep,
       WatchdogList, WatchdogFail, WatchdogReport, KeeperStepOnRows, KeeperSnapshot, KeeperBeat,
       KeeperWake, KeeperTouch, Tick, KeeperAlarm, BeginShutdown, Shutdown, Restart,
       ReportInterrupted, ClaimInterrupted, FailInterrupted, intakeVars, processVars, vars
  <2>2. \/ UNCHANGED <<up, stopped, loopPc>>
        \/ up = "up" /\ UNCHANGED <<up, stopped>> /\ joining["loop"] = NoTask
        \/ up = "up" /\ stopped' /\ loopPc = "idle" /\ loopPc' = loopPc
        \/ up = "down" /\ up' = "boot" /\ UNCHANGED <<stopped, loopPc>>
    BY <1>4 DEF Notify, ImportResult, WindowCloses, RetentionSweep, PrunePacket, WatchdogStep,
       WatchdogList, WatchdogFail, WatchdogReport, KeeperStepOnRows, KeeperSnapshot, KeeperBeat,
       KeeperWake, KeeperTouch, Tick, KeeperAlarm, BeginShutdown, Shutdown, Restart,
       ReportInterrupted, ClaimInterrupted, FailInterrupted, intakeVars, processVars, vars,
       PoolInv
  <2> QED
    BY <2>1, <2>2 DEF PoolInv
<1>5. ASSUME Serve PROVE PoolInv'
  BY <1>0, <1>5 DEF Serve, intakeVars, ProcessInv, PoolInv
<1>6. ASSUME Stop PROVE PoolInv'
  BY <1>0, <1>6, WorkerAssumption DEF Stop, IntakeReset, PoolInv, FirstCrew
<1> QED
  BY <1>1, <1>2, <1>3, <1>4, <1>5, <1>6 DEF Next, StartStep

-----------------------------------------------------------------------------
(* Only a claim creates a row.                                             *)
LEMMA PresenceKept ==
  ASSUME NEW tbl \in Table, NEW j
  PROVE  /\ \A k : Present(Touch(tbl, k), j) => Present(tbl, j)
         /\ \A k, d : Present(RecordRequest(tbl, k, d), j) => Present(tbl, j)
         /\ \A k : \A s \in State : Present(SetState(tbl, k, s), j) => Present(tbl, j)
         /\ \A k : Present(MarkDone(tbl, k), j) => Present(tbl, j)
         /\ \A old : Present(DeleteRows(tbl, old), j) => Present(tbl, j)
         /\ Present(Aged(tbl), j) => Present(tbl, j)
         /\ \A k : Present(CloseWindow(tbl, k), j) => Present(tbl, j)
<1>1. \A k : Present(Touch(tbl, k), j) => Present(tbl, j)
  BY DEF Touch, Present, Table, Row
<1>2. \A k, d : Present(RecordRequest(tbl, k, d), j) => Present(tbl, j)
  BY DEF RecordRequest, Present, Table, Row
<1>3. \A k : \A s \in State : Present(SetState(tbl, k, s), j) => Present(tbl, j)
  BY DEF SetState, Present, Table, Row
<1>4. \A k : Present(MarkDone(tbl, k), j) => Present(tbl, j)
  BY DEF MarkDone, Present, Table, Row
<1>5. \A old : Present(DeleteRows(tbl, old), j) => Present(tbl, j)
  BY DEF DeleteRows, NoRow, Present
<1>6. Present(Aged(tbl), j) => Present(tbl, j)
  BY DEF Aged, Present, Table, Row
<1>7. \A k : Present(CloseWindow(tbl, k), j) => Present(tbl, j)
  BY DEF CloseWindow, Present, Table, Row
<1> QED
  BY <1>1, <1>2, <1>3, <1>4, <1>5, <1>6, <1>7

LEMMA UpsertPresence ==
  ASSUME NEW tbl \in Table, NEW k \in Key, NEW j, NEW now, Present(UpsertPending(tbl, k, now), j)
  PROVE  j = k \/ Present(tbl, j)
  BY DEF UpsertPending, Present, Table

\* The states the marks set.
LEMMA MarkStates == {"extracting", "extracted", "extraction_failed", "comparison_failed"} \subseteq State
  BY DEF State, OwnedStates, TerminalStates

(* A key's environment is its task's.                                      *)
LEMMA KeyEnv ==
  ASSUME NEW t \in Task
  PROVE  PrefixEnv(Job(t)) = t.env
  BY EnvAssumption DEF Task, Job, JobKey, PrefixEnv

LEMMA SendersStep ==
  ASSUME TypeOK, FromSenders, [Next]_vars
  PROVE  FromSenders'
<1>0. rows \in Table
  BY DEF TypeOK
<1> DEFINE Fewer == \A k \in Key : Present(rows', k) => Present(rows, k)
<1>1. ASSUME Fewer, loopTask' = loopTask \/ loopTask' = NoTask PROVE FromSenders'
  BY <1>1 DEF FromSenders
<1>2. ASSUME rows' = rows PROVE Fewer
  BY <1>2
<1> HIDE DEF Fewer
<1>3. ASSUME NEW w \in Worker, AuditStep(w) \/ Heartbeat(w) PROVE FromSenders'
  <2>1. loopTask' = loopTask
    BY <1>3 DEF AuditStep, Heartbeat, TakeCase, BeginCase, LeaveCase, StartAudit, Fetch, FallBack,
       DocumentsUnavailable, PagesRead, RetryExtraction, ExtractionFails, Extract,
       DeliveryNotConfigured, Post, DeliveryRaised, DeliveryRejected, DeliveryAccepted,
       DeliveryRecorded, Unexpected, UnexpectedMarked, Report, RemoveWorkDir, RestOfAudit,
       processVars
  <2>2. CASE rows' = rows
    BY <1>1, <1>2, <2>1, <2>2
  <2>3. CASE Heartbeat(w) \/ RetryExtraction(w) \/ DeliveryRecorded(w)
    BY <1>0, <1>1, <2>1, <2>3, PresenceKept DEF Heartbeat, RetryExtraction, DeliveryRecorded,
       RecordDelivery, Fewer
  <2>4. CASE \/ StartAudit(w) \/ DocumentsUnavailable(w) \/ ExtractionFails(w) \/ Extract(w)
             \/ DeliveryNotConfigured(w) \/ DeliveryRaised(w) \/ UnexpectedMarked(w)
             \/ DeliveryRejected(w) \/ DeliveryAccepted(w)
    <3>1. Fewer
      BY <1>0, <2>4, PresenceKept, MarkStates DEF StartAudit, DocumentsUnavailable,
         ExtractionFails, Extract, DeliveryNotConfigured, DeliveryRaised, UnexpectedMarked,
         DeliveryRejected, DeliveryAccepted, Fewer, MarkExtracting, MarkExtracted,
         MarkExtractionFailed, MarkComparisonFailed
    <3> QED
      BY <1>1, <2>1, <3>1
  <2> QED
    BY <1>3, <2>2, <2>3, <2>4 DEF AuditStep, TakeCase, BeginCase, LeaveCase, Fetch, FallBack,
       PagesRead, Post, Unexpected, Report, RemoveWorkDir, diskVars
<1>4. ASSUME LoopStep PROVE FromSenders'
  <2>1. CASE ClaimCase
    <3>1. loopTask \in Task /\ loopTask.env \in Sender
      BY <2>1 DEF ClaimCase, TypeOK, FromSenders
    <3>2. Job(loopTask) \in Key /\ PrefixEnv(Job(loopTask)) \in Sender
      BY <3>1, KeyEnv, JobType
    <3>3. \A k \in Key : Present(rows', k) => k = Job(loopTask) \/ Present(rows, k)
      BY <1>0, <2>1, <3>2, UpsertPresence DEF ClaimCase
    <3>4. loopTask' = loopTask
      BY <2>1 DEF ClaimCase
    <3> QED
      BY <3>1, <3>2, <3>3, <3>4 DEF FromSenders
  <2>2. CASE KeepRequest
    BY <1>0, <1>1, <1>2, <2>2, PresenceKept DEF KeepRequest, Fewer
  <2>3. CASE ClaimDuplicate \/ HandlerRaises \/ LoopJoin \/ LoopEnqueue
    BY <1>1, <1>2, <2>3 DEF ClaimDuplicate, HandlerRaises, LoopJoin, LoopEnqueue, diskVars
  <2> QED
    BY <1>4, <2>1, <2>2, <2>3 DEF LoopStep
<1>5. ASSUME NEW e \in Sender, NEW c \in Case, NEW d \in Docs, Notify(e, c, d) PROVE FromSenders'
  <2>1. rows' = rows /\ (loopTask' = loopTask \/ loopTask' = NotifiedTask(e, c, d))
    BY <1>5 DEF Notify, diskVars
  <2> QED
    BY <2>1 DEF FromSenders, NotifiedTask
<1>6. ASSUME NEW k \in Key, ImportResult(k) \/ WindowCloses(k) PROVE FromSenders'
  BY <1>0, <1>1, <1>6, PresenceKept DEF ImportResult, WindowCloses, RecordImportResult, Fewer,
     processVars
<1>7. ASSUME WatchdogStep \/ RetentionSweep \/ (\E c \in Case : PrunePacket(c)) PROVE FromSenders'
  BY <1>0, <1>1, <1>2, <1>7, PresenceKept, MarkStates DEF WatchdogStep, WatchdogList, WatchdogFail,
     WatchdogReport, RetentionSweep, PrunePacket, Fewer, MarkExtractionFailed, processVars, diskVars
<1>8. ASSUME KeeperStepOnRows \/ Tick \/ UNCHANGED vars PROVE FromSenders'
  BY <1>0, <1>1, <1>2, <1>8, PresenceKept DEF KeeperStepOnRows, KeeperSnapshot, KeeperBeat, Tick,
     Fewer, vars, processVars, diskVars
<1>9. ASSUME BeginShutdown \/ Stop \/ ResumeStep PROVE FromSenders'
  BY <1>1, <1>2, <1>9 DEF BeginShutdown, Stop, ResumeStep, ResumeWakes, Reopen, ResumeJoin,
     ResumeEnqueue, ResumeRefused, processVars, diskVars
<1>10. ASSUME StartStep PROVE FromSenders'
  <2>1. Fewer
    BY <1>0, <1>2, <1>10, PresenceKept, MarkStates DEF StartStep, Restart, Serve, ReportInterrupted,
       ClaimInterrupted, FailInterrupted, Fewer, MarkExtractionFailed, diskVars
  <2>2. loopTask' = loopTask
    BY <1>10 DEF StartStep, Restart, Serve, ReportInterrupted, ClaimInterrupted, FailInterrupted,
       processVars
  <2> QED
    BY <1>1, <2>1, <2>2
<1> QED
  BY <1>3, <1>4, <1>5, <1>6, <1>7, <1>8, <1>9, <1>10 DEF Next

-----------------------------------------------------------------------------
(* Counting the holders: those ahead of the workers, and the workers that  *)
(* hold a key at one of some steps.                                        *)
JoinersOf(j, k) == {s \in Submitter : j[s] # NoTask /\ Job(j[s]) = k}

LineCount(k) ==
  (IF LoopHolds(k) THEN 1 ELSE 0) + Cardinality(JoinersOf(joining, k))
    + Cardinality(Places(queue, k)) + Cardinality(Places(resuming, k))

WorkersAt(S, k) ==
  {w \in Worker : /\ phase[w] = "taken" \/ (phase[w] = "running" /\ step[w] \in S)
                  /\ Job(slot[w]) = k}

LEMMA JoinersFinite ==
  ASSUME NEW j, NEW k
  PROVE  IsFiniteSet(JoinersOf(j, k)) /\ Cardinality(JoinersOf(j, k)) \in Nat
<1>1. IsFiniteSet(Submitter)
  <2>1. Submitter = {"loop"} \cup {"resume"}
    BY EngineAssumption
  <2>2. IsFiniteSet({"loop"})
    BY FS_Singleton
  <2> QED
    BY <2>1, <2>2, FS_AddElement
<1>2. JoinersOf(j, k) \in SUBSET Submitter
  BY DEF JoinersOf
<1> QED
  BY <1>1, <1>2, FS_Subset, FS_CardinalityType

LEMMA JoinersChange ==
  ASSUME NEW j \in [Submitter -> Task \cup {NoTask}], NEW s \in Submitter,
         NEW t \in Task \cup {NoTask}, NEW k
  PROVE  LET after == [j EXCEPT ![s] = t]
             joins == t # NoTask /\ Job(t) = k
             leaves == j[s] # NoTask /\ Job(j[s]) = k
         IN /\ Cardinality(JoinersOf(after, k))
                 <= Cardinality(JoinersOf(j, k)) + (IF joins THEN 1 ELSE 0)
            /\ leaves /\ ~joins => Cardinality(JoinersOf(after, k)) + 1 <= Cardinality(JoinersOf(j, k))
<1> DEFINE after == [j EXCEPT ![s] = t]
<1>1. JoinersOf(after, k) \subseteq JoinersOf(j, k) \cup {s}
  BY DEF JoinersOf
<1>2. s \in JoinersOf(after, k) <=> t # NoTask /\ Job(t) = k
  BY DEF JoinersOf
<1>3. s \in JoinersOf(j, k) <=> j[s] # NoTask /\ Job(j[s]) = k
  BY DEF JoinersOf
<1> HIDE DEF after
<1>4. /\ Cardinality(JoinersOf(j, k)) \in Nat /\ Cardinality(JoinersOf(after, k)) \in Nat
      /\ Cardinality(JoinersOf(after, k)) <= Cardinality(JoinersOf(j, k)) + 1
      /\ s \notin JoinersOf(after, k)
           => Cardinality(JoinersOf(after, k)) <= Cardinality(JoinersOf(j, k))
      /\ s \in JoinersOf(j, k) /\ s \notin JoinersOf(after, k)
           => Cardinality(JoinersOf(after, k)) + 1 <= Cardinality(JoinersOf(j, k))
  BY <1>1, JoinersFinite, CountChange
<1> QED
  BY <1>2, <1>3, <1>4 DEF after

LEMMA CountNow ==
  ASSUME TypeOK, NEW k
  PROVE  /\ LineCount(k) \in Nat
         /\ HolderCount(k) = LineCount(k) + Cardinality(WorkersAt(LiveSteps, k))
         /\ \A S : IsFiniteSet(WorkersAt(S, k)) /\ Cardinality(WorkersAt(S, k)) \in Nat
<1>1. /\ Cardinality(Places(queue, k)) \in Nat /\ Cardinality(Places(resuming, k)) \in Nat
      /\ Cardinality(JoinersOf(joining, k)) \in Nat
  BY PlacesFinite, JoinersFinite DEF TypeOK, IntakeTypeOK
<1>2. LineCount(k) \in Nat
  BY <1>1 DEF LineCount
<1>3. \A S : IsFiniteSet(WorkersAt(S, k)) /\ Cardinality(WorkersAt(S, k)) \in Nat
  <2>1. \A S : WorkersAt(S, k) \in SUBSET Worker
    BY DEF WorkersAt
  <2> QED
    BY <2>1, WorkerAssumption, FS_Subset, FS_CardinalityType
<1>4. /\ JoinersOf(joining, k) = {s \in Submitter : JoiningHolds(s, k)}
      /\ Places(queue, k) = {i \in DOMAIN queue : QueueHolds(i, k)}
      /\ Places(resuming, k) = {i \in DOMAIN resuming : ResumeHolds(i, k)}
      /\ WorkersAt(LiveSteps, k) = {w \in Worker : WorkerHolds(w, k)}
  BY DEF JoinersOf, JoiningHolds, Places, QueueHolds, ResumeHolds, WorkersAt, WorkerHolds
<1>5. HolderCount(k) = LineCount(k) + Cardinality(WorkersAt(LiveSteps, k))
  BY <1>1, <1>3, <1>4 DEF HolderCount, LineCount
<1> QED
  BY <1>2, <1>3, <1>5

LEMMA CountNat ==
  ASSUME TypeOK, TypeOK', NEW k
  PROVE  /\ LineCount(k) \in Nat /\ LineCount(k)' \in Nat
         /\ HolderCount(k) = LineCount(k) + Cardinality(WorkersAt(LiveSteps, k))
         /\ HolderCount(k)' = LineCount(k)' + Cardinality(WorkersAt(LiveSteps, k))'
         /\ \A S : /\ IsFiniteSet(WorkersAt(S, k)) /\ Cardinality(WorkersAt(S, k)) \in Nat
                   /\ IsFiniteSet(WorkersAt(S, k)') /\ Cardinality(WorkersAt(S, k)') \in Nat
<1>1. /\ Cardinality(Places(queue', k)) \in Nat /\ Cardinality(Places(resuming', k)) \in Nat
      /\ Cardinality(JoinersOf(joining', k)) \in Nat
  BY PlacesFinite, JoinersFinite DEF TypeOK, IntakeTypeOK
<1>2. LineCount(k)' \in Nat
  BY <1>1 DEF LineCount
<1>3. ASSUME NEW S PROVE IsFiniteSet(WorkersAt(S, k)') /\ Cardinality(WorkersAt(S, k)') \in Nat
  <2>1. WorkersAt(S, k)' \in SUBSET Worker
    BY DEF WorkersAt
  <2> QED
    BY <2>1, WorkerAssumption, FS_Subset, FS_CardinalityType
<1>4. /\ JoinersOf(joining', k) = {s \in Submitter : JoiningHolds(s, k)'}
      /\ Places(queue', k) = {i \in DOMAIN queue' : QueueHolds(i, k)'}
      /\ Places(resuming', k) = {i \in DOMAIN resuming' : ResumeHolds(i, k)'}
      /\ WorkersAt(LiveSteps, k)' = {w \in Worker : WorkerHolds(w, k)'}
  BY DEF JoinersOf, JoiningHolds, Places, QueueHolds, ResumeHolds, WorkersAt, WorkerHolds
<1>5. HolderCount(k)' = LineCount(k)' + Cardinality(WorkersAt(LiveSteps, k))'
  BY <1>1, <1>3, <1>4 DEF HolderCount, LineCount
<1> QED
  BY <1>2, <1>3, <1>5, CountNow

LEMMA TwoHolders ==
  ASSUME TypeOK, NEW v \in Worker, NEW w \in Worker, v # w, NEW k, WorkerHolds(v, k), WorkerHolds(w, k)
  PROVE  HolderCount(k) > 1
<1> DEFINE S == WorkersAt(LiveSteps, k)
<1>1. /\ IsFiniteSet(S) /\ Cardinality(S) \in Nat /\ LineCount(k) \in Nat
      /\ HolderCount(k) = LineCount(k) + Cardinality(S)
  BY CountNow
<1>2. v \in S /\ w \in S \ {v}
  BY DEF WorkersAt, WorkerHolds
<1> HIDE DEF S
<1>3. /\ IsFiniteSet(S \ {v}) /\ Cardinality(S \ {v}) = Cardinality(S) - 1
      /\ Cardinality(S \ {v}) # 0 /\ Cardinality(S \ {v}) \in Nat
  BY <1>1, <1>2, FS_RemoveElement, FS_EmptySet, FS_CardinalityType
<1> QED
  BY <1>1, <1>3

(* What each step does to the count of those ahead of the workers.         *)
LEMMA LineStays ==
  ASSUME UNCHANGED <<joining, queue, resuming>>, NEW k, LoopHolds(k)' => LoopHolds(k),
         TypeOK, TypeOK'
  PROVE  LineCount(k)' <= LineCount(k)
<1>1. LineCount(k) \in Nat /\ LineCount(k)' \in Nat
  BY CountNat
<1>2. /\ Cardinality(Places(queue, k)) \in Nat /\ Cardinality(Places(resuming, k)) \in Nat
      /\ Cardinality(JoinersOf(joining, k)) \in Nat
  BY PlacesFinite, JoinersFinite DEF TypeOK, IntakeTypeOK
<1> QED
  BY <1>1, <1>2 DEF LineCount

LEMMA EnqueueLine ==
  ASSUME TypeOK, NEW s \in Submitter, Enqueue(s), UNCHANGED resuming,
         NEW k, LoopHolds(k)' => LoopHolds(k)
  PROVE  LineCount(k)' <= LineCount(k)
<1>1. /\ joining' = [joining EXCEPT ![s] = NoTask] /\ queue' = Append(queue, joining[s])
      /\ joining \in [Submitter -> Task \cup {NoTask}] /\ queue \in Seq(Task)
      /\ joining[s] \in Task /\ joining[s] # NoTask
  BY DEF Enqueue, TypeOK, IntakeTypeOK
<1> DEFINE here == IF Job(joining[s]) = k THEN 1 ELSE 0
<1>2. Cardinality(Places(queue', k)) <= Cardinality(Places(queue, k)) + here
  BY <1>1, PlacesAppend
<1>3. Cardinality(JoinersOf(joining', k)) + here <= Cardinality(JoinersOf(joining, k))
  <2>1. /\ Cardinality(JoinersOf(joining', k)) <= Cardinality(JoinersOf(joining, k)) + 0
        /\ Job(joining[s]) = k
             => Cardinality(JoinersOf(joining', k)) + 1 <= Cardinality(JoinersOf(joining, k))
    BY <1>1, JoinersChange
  <2> QED
    BY <2>1, JoinersFinite
<1>4. queue' \in Seq(Task)
  BY <1>1, AppendProperties
<1>5. /\ Cardinality(Places(queue, k)) \in Nat /\ Cardinality(Places(resuming, k)) \in Nat
      /\ Cardinality(Places(queue', k)) \in Nat
      /\ Cardinality(JoinersOf(joining, k)) \in Nat /\ Cardinality(JoinersOf(joining', k)) \in Nat
  BY <1>1, <1>4, PlacesFinite, JoinersFinite DEF TypeOK
<1> QED
  BY <1>2, <1>3, <1>5 DEF LineCount

LEMMA LoopLine ==
  ASSUME TypeOK, TypeOK', LoopStep, NEW k
  PROVE  \/ LineCount(k)' <= LineCount(k)
         \/ ClaimCase /\ k = Job(loopTask) /\ LineCount(k)' <= LineCount(k) + 1
<1>0. "loop" \in Submitter
  BY EngineAssumption
<1>1. CASE ClaimDuplicate \/ KeepRequest \/ HandlerRaises
  <2>1. UNCHANGED <<joining, queue, resuming>> /\ (LoopHolds(k)' => LoopHolds(k))
    BY <1>1 DEF ClaimDuplicate, KeepRequest, HandlerRaises, LoopHolds, intakeVars
  <2> QED
    BY <2>1, LineStays
<1>2. CASE ClaimCase
  <2>1. UNCHANGED <<joining, queue, resuming, loopTask>>
    BY <1>2 DEF ClaimCase, intakeVars
  <2>2. CASE k # Job(loopTask)
    BY <2>1, <2>2, LineStays DEF LoopHolds
  <2>3. /\ Cardinality(Places(queue, k)) \in Nat /\ Cardinality(Places(resuming, k)) \in Nat
        /\ Cardinality(JoinersOf(joining, k)) \in Nat
    BY PlacesFinite, JoinersFinite DEF TypeOK, IntakeTypeOK
  <2>4. LineCount(k)' <= LineCount(k) + 1
    BY <2>1, <2>3 DEF LineCount
  <2> QED
    BY <1>2, <2>2, <2>4
<1>3. CASE LoopJoin
  <2>1. /\ joining' = [joining EXCEPT !["loop"] = loopTask]
        /\ joining \in [Submitter -> Task \cup {NoTask}] /\ loopTask \in Task
        /\ UNCHANGED <<queue, resuming>> /\ loopPc = "recorded" /\ loopPc' = "joined"
    BY <1>3 DEF LoopJoin, Join, TypeOK, IntakeTypeOK
  <2>2. Cardinality(JoinersOf(joining', k))
          <= Cardinality(JoinersOf(joining, k)) + (IF Job(loopTask) = k THEN 1 ELSE 0)
    BY <1>0, <2>1, JoinersChange, NoTaskAssumption
  <2>3. /\ Cardinality(Places(queue, k)) \in Nat /\ Cardinality(Places(resuming, k)) \in Nat
        /\ Cardinality(JoinersOf(joining, k)) \in Nat /\ Cardinality(JoinersOf(joining', k)) \in Nat
    BY PlacesFinite, JoinersFinite DEF TypeOK, IntakeTypeOK
  <2> QED
    BY <2>1, <2>2, <2>3 DEF LineCount, LoopHolds
<1>4. CASE LoopEnqueue
  <2>1. Enqueue("loop") /\ resuming' = resuming /\ ~LoopHolds(k)'
    BY <1>4 DEF LoopEnqueue, LoopHolds
  <2> QED
    BY <1>0, <2>1, EnqueueLine
<1> QED
  BY <1>1, <1>2, <1>3, <1>4 DEF LoopStep

LEMMA ResumeLine ==
  ASSUME TypeOK, TypeOK', ResumeStep, NEW k
  PROVE  LineCount(k)' <= LineCount(k)
<1>0. "resume" \in Submitter
  BY EngineAssumption
<1>1. LoopHolds(k)' <=> LoopHolds(k)
  BY DEF ResumeStep, ResumeWakes, Reopen, ResumeJoin, ResumeEnqueue, ResumeRefused, LoopHolds,
     processVars
<1>2. /\ Cardinality(Places(queue, k)) \in Nat /\ Cardinality(Places(resuming, k)) \in Nat
      /\ Cardinality(JoinersOf(joining, k)) \in Nat /\ Cardinality(JoinersOf(joining', k)) \in Nat
      /\ Cardinality(Places(queue', k)) \in Nat /\ Cardinality(Places(resuming', k)) \in Nat
  BY PlacesFinite, JoinersFinite DEF TypeOK, IntakeTypeOK
<1>3. CASE ResumeJoin
  <2>1. /\ joining' = [joining EXCEPT !["resume"] = Head(resuming)]
        /\ joining \in [Submitter -> Task \cup {NoTask}] /\ resuming \in Seq(Task)
        /\ resuming # <<>> /\ resuming' = Tail(resuming) /\ queue' = queue
    BY <1>3 DEF ResumeJoin, Join, TypeOK, IntakeTypeOK
  <2>2. /\ Head(resuming) \in Task
        /\ Cardinality(Places(resuming', k)) + (IF Job(Head(resuming)) = k THEN 1 ELSE 0)
             <= Cardinality(Places(resuming, k))
    BY <2>1, PlacesTail
  <2>3. Cardinality(JoinersOf(joining', k))
          <= Cardinality(JoinersOf(joining, k)) + (IF Job(Head(resuming)) = k THEN 1 ELSE 0)
    BY <1>0, <1>2, <2>1, <2>2, JoinersChange, NoTaskAssumption
  <2> QED
    BY <1>1, <1>2, <2>1, <2>2, <2>3 DEF LineCount
<1>4. CASE ResumeEnqueue
  <2>1. Enqueue("resume") /\ resuming' = resuming
    BY <1>4 DEF ResumeEnqueue
  <2> QED
    BY <1>0, <1>1, <2>1, EnqueueLine
<1>5. CASE ResumeRefused
  <2>1. /\ joining' = [joining EXCEPT !["resume"] = NoTask] /\ queue' = queue /\ resuming' = <<>>
        /\ joining \in [Submitter -> Task \cup {NoTask}]
    BY <1>5 DEF ResumeRefused, Refuse, TypeOK, IntakeTypeOK
  <2>2. Cardinality(JoinersOf(joining', k)) <= Cardinality(JoinersOf(joining, k)) + 0
    BY <1>0, <2>1, JoinersChange
  <2>3. Places(resuming', k) = {}
    BY <2>1 DEF Places
  <2>4. Cardinality(Places(resuming', k)) = 0
    BY <2>3, FS_EmptySet
  <2> QED
    BY <1>1, <1>2, <2>1, <2>2, <2>4 DEF LineCount
<1>6. CASE ResumeWakes
  <2>1. UNCHANGED <<joining, queue, resuming>>
    BY <1>6 DEF ResumeWakes, Reopen, intakeVars
  <2> QED
    BY <1>1, <2>1, LineStays
<1> QED
  BY <1>3, <1>4, <1>5, <1>6 DEF ResumeStep

LEMMA ClaimedLine ==
  ASSUME TypeOK, TypeOK', NEW j \in claims, ClaimInterrupted(j), NEW k
  PROVE  LineCount(k)' <= LineCount(k) + (IF k = j THEN 1 ELSE 0)
<1> DEFINE t == [env |-> PrefixEnv(j), case |-> j[2], docs |-> rows[j].docs, packet |-> kept[j[2]]]
<1>1. j \in Key /\ j[2] \in Case
  BY KeyParts DEF TypeOK
<1>2. rows[j].docs \in Docs /\ kept[j[2]] \in Packet \cup {NoPacket}
  BY <1>1 DEF TypeOK, ClaimInterrupted, Table, Row
<1>3. t \in Task /\ Job(t) = j
  BY <1>1, <1>2, ResumedTask
<1>4. /\ resuming \in Seq(Task) /\ resuming' = Append(resuming, t)
      /\ UNCHANGED <<loopPc, loopTask, joining, queue>>
  BY DEF ClaimInterrupted, intakeVars, TypeOK
<1> HIDE DEF t
<1>5. Cardinality(Places(resuming', k)) <= Cardinality(Places(resuming, k)) + (IF j = k THEN 1 ELSE 0)
  BY <1>3, <1>4, PlacesAppend
<1>6. /\ Cardinality(Places(queue, k)) \in Nat /\ Cardinality(Places(resuming, k)) \in Nat
      /\ Cardinality(JoinersOf(joining, k)) \in Nat /\ Cardinality(Places(resuming', k)) \in Nat
  BY PlacesFinite, JoinersFinite DEF TypeOK, IntakeTypeOK
<1> QED
  BY <1>4, <1>5, <1>6 DEF LineCount, LoopHolds

LEMMA TakenLine ==
  ASSUME TypeOK, TypeOK', NEW w \in Worker, TakeCase(w), NEW k
  PROVE  /\ Head(queue) \in Task
         /\ LineCount(k)' + (IF Job(Head(queue)) = k THEN 1 ELSE 0) <= LineCount(k)
<1>1. /\ queue \in Seq(Task) /\ queue # <<>> /\ queue' = Tail(queue)
      /\ UNCHANGED <<loopPc, loopTask, joining, resuming>>
  BY DEF TakeCase, Take, processVars, TypeOK, IntakeTypeOK
<1>2. /\ Head(queue) \in Task
      /\ Cardinality(Places(queue', k)) + (IF Job(Head(queue)) = k THEN 1 ELSE 0)
           <= Cardinality(Places(queue, k))
  BY <1>1, PlacesTail
<1>3. /\ Cardinality(Places(queue, k)) \in Nat /\ Cardinality(Places(resuming, k)) \in Nat
      /\ Cardinality(JoinersOf(joining, k)) \in Nat /\ Cardinality(Places(queue', k)) \in Nat
  BY PlacesFinite, JoinersFinite DEF TypeOK, IntakeTypeOK
<1> QED
  BY <1>1, <1>2, <1>3 DEF LineCount, LoopHolds

LEMMA WorkerCount ==
  ASSUME TypeOK, TypeOK', NEW w \in Worker,
         \A v \in Worker : v # w => /\ phase'[v] = phase[v] /\ slot'[v] = slot[v]
                                    /\ step'[v] = step[v],
         NEW S, NEW k
  PROVE  LET before == w \in WorkersAt(S, k)
             after == w \in WorkersAt(S, k)'
         IN /\ Cardinality(WorkersAt(S, k)')
                 <= Cardinality(WorkersAt(S, k)) + (IF after /\ ~before THEN 1 ELSE 0)
            /\ before /\ ~after
                 => Cardinality(WorkersAt(S, k)') + 1 <= Cardinality(WorkersAt(S, k))
<1>1. WorkersAt(S, k)' \subseteq WorkersAt(S, k) \cup {w}
  BY DEF WorkersAt
<1>2. /\ Cardinality(WorkersAt(S, k)) \in Nat /\ Cardinality(WorkersAt(S, k)') \in Nat
      /\ IsFiniteSet(WorkersAt(S, k))
  BY CountNat
<1>3. /\ Cardinality(WorkersAt(S, k)') <= Cardinality(WorkersAt(S, k)) + 1
      /\ w \notin WorkersAt(S, k)' \/ w \in WorkersAt(S, k)
           => Cardinality(WorkersAt(S, k)') <= Cardinality(WorkersAt(S, k))
      /\ w \in WorkersAt(S, k) /\ w \notin WorkersAt(S, k)'
           => Cardinality(WorkersAt(S, k)') + 1 <= Cardinality(WorkersAt(S, k))
  BY <1>1, <1>2, CountChange
<1> QED
  BY <1>2, <1>3

-----------------------------------------------------------------------------
(* What the operations of the job store leave alone.                       *)
LEMMA RowsKept ==
  ASSUME NEW tbl \in Table, NEW j \in Key, NEW k, j # k
  PROVE  /\ Touch(tbl, k)[j] = tbl[j]
         /\ MarkDone(tbl, k)[j] = tbl[j]
         /\ CloseWindow(tbl, k)[j] = tbl[j]
  BY DEF Touch, MarkDone, CloseWindow, Table

LEMMA UpsertKept ==
  ASSUME NEW tbl \in Table, NEW j \in Key, NEW k, j # k, NEW now
  PROVE  UpsertPending(tbl, k, now)[j] = tbl[j]
  BY DEF UpsertPending, Table

LEMMA MarkKept ==
  ASSUME NEW tbl \in Table, NEW j \in Key, NEW k, j # k
  PROVE  /\ MarkExtracting(tbl, k)[j] = tbl[j]
         /\ MarkExtracted(tbl, k)[j] = tbl[j]
         /\ MarkExtractionFailed(tbl, k)[j] = tbl[j]
         /\ MarkComparisonFailed(tbl, k)[j] = tbl[j]
  BY DEF MarkExtracting, MarkExtracted, MarkExtractionFailed, MarkComparisonFailed, SetState, Table

LEMMA RowTouched ==
  ASSUME NEW tbl \in Table, NEW j \in Key, NEW k
  PROVE  /\ Touch(tbl, k)[j].age \in 0..tbl[j].age
         /\ Touch(tbl, k)[j].state = tbl[j].state
         /\ Present(tbl, j) => Touch(tbl, j)[j].age = 0
         /\ \A d : /\ RecordRequest(tbl, k, d)[j].age \in 0..tbl[j].age
                   /\ RecordRequest(tbl, k, d)[j].state = tbl[j].state
         /\ CloseWindow(tbl, k)[j].age = tbl[j].age
         /\ CloseWindow(tbl, k)[j].state = tbl[j].state
<1>1. tbl[j].age \in Nat
  BY StaleAssumption DEF Table, Row
<1>2. /\ Touch(tbl, k)[j].age \in 0..tbl[j].age
      /\ Touch(tbl, k)[j].state = tbl[j].state
      /\ Present(tbl, j) => Touch(tbl, j)[j].age = 0
  BY <1>1 DEF Touch, Table, Row
<1>3. ASSUME NEW d
      PROVE  /\ RecordRequest(tbl, k, d)[j].age \in 0..tbl[j].age
             /\ RecordRequest(tbl, k, d)[j].state = tbl[j].state
  BY <1>1 DEF RecordRequest, Table, Row
<1>4. CloseWindow(tbl, k)[j].age = tbl[j].age /\ CloseWindow(tbl, k)[j].state = tbl[j].state
  BY DEF CloseWindow, Table, Row
<1> QED
  BY <1>2, <1>3, <1>4

LEMMA RowMarked ==
  ASSUME NEW tbl \in Table, NEW k, Present(tbl, k), NEW s
  PROVE  SetState(tbl, k, s)[k].state = s /\ SetState(tbl, k, s)[k].age = 0
  BY DEF SetState, Present, Table, Row

(* With one environment on either side, a mark made on the bare case       *)
(* reference is made on the job itself, or on no row at all.               *)
OneSided == Sender \subseteq {DefaultEnv} \/ DefaultEnv \notin Sender

LEMMA BareMark ==
  ASSUME OneSided, NEW t \in Task, t.env \in Sender, NEW tbl \in Table,
         \A k \in Key : Present(tbl, k) => PrefixEnv(k) \in Sender
  PROVE  \/ t.env = DefaultEnv /\ BareKey(t.case) = Job(t)
         \/ t.env # DefaultEnv /\ ~Present(tbl, BareKey(t.case))
<1>1. CASE t.env = DefaultEnv
  BY <1>1 DEF BareKey, Job, JobKey
<1>2. CASE t.env # DefaultEnv
  <2>1. PrefixEnv(BareKey(t.case)) = DefaultEnv
    BY DEF PrefixEnv, BareKey
  <2> QED
    BY <1>2, <2>1 DEF OneSided, Present
<1> QED
  BY <1>1, <1>2

-----------------------------------------------------------------------------
(* What a step may do to one key. Every step does one of these.            *)
SameRow(k) == (IsOwned(rows', k) <=> IsOwned(rows, k)) /\ rows'[k].age <= rows[k].age

Unlisted(k) == (k \in todo' => k \in todo) /\ (k \in claims' => k \in claims)

KeySame(k) == HolderCount(k)' <= HolderCount(k) /\ SameRow(k) /\ Unlisted(k)

KeyTaken(k) ==
  /\ HolderCount(k)' <= HolderCount(k) + 1
  /\ ~IsOwned(rows, k) \/ k \in claims
  /\ IsOwned(rows', k) /\ rows'[k].age = 0
  /\ k \notin todo' \cup claims'

KeyEnded(k) == HolderCount(k)' + 1 <= HolderCount(k) /\ Unlisted(k)

KeyReleased(k) ==
  HolderCount(k)' <= HolderCount(k) /\ k \in todo \cup claims /\ k \notin todo' \cup claims'

KeyFree(k) == HolderCount(k)' <= HolderCount(k) /\ ~IsOwned(rows, k) /\ Unlisted(k)

KeyListed(k) ==
  /\ HolderCount(k)' <= HolderCount(k)
  /\ rows' = rows /\ rows[k].age = Stale /\ IsOwned(rows, k)

KeyAged(k) ==
  /\ HolderCount(k)' <= HolderCount(k) /\ Unlisted(k)
  /\ IsOwned(rows', k) <=> IsOwned(rows, k)
  /\ HolderCount(k) = 1 => rows'[k].age < Stale

KeyDropped(k) ==
  HolderCount(k)' = 0 /\ (k \in todo' \cup claims' => IsOwned(rows', k))

KeyStep(k) ==
  \/ KeySame(k) \/ KeyTaken(k) \/ KeyEnded(k) \/ KeyReleased(k) \/ KeyFree(k)
  \/ KeyListed(k) \/ KeyAged(k) \/ KeyDropped(k)

LEMMA KeyInvStep ==
  ASSUME TypeOK, TypeOK', NEW k \in Key, KeyInv(k), KeyStep(k)
  PROVE  KeyInv(k)'
<1>1. /\ HolderCount(k) \in Nat /\ HolderCount(k)' \in Nat
      /\ rows[k].age \in Nat /\ rows'[k].age \in Nat /\ Stale \in Nat \ {0}
  <2>1. rows[k] \in Row /\ rows'[k] \in Row
    BY DEF TypeOK, Table
  <2>2. rows[k].age \in Nat /\ rows'[k].age \in Nat /\ Stale \in Nat \ {0}
    BY <2>1, StaleAssumption DEF Row
  <2> QED
    BY <2>2, CountNat
<1> DEFINE n == HolderCount(k)
           m == HolderCount(k)'
<1>2. /\ n <= 1
      /\ n = 1 => IsOwned(rows, k) /\ rows[k].age < Stale
      /\ k \in claims \cup todo => IsOwned(rows, k) /\ n = 0
  BY DEF KeyInv
<1>3. SUFFICES /\ m <= 1
               /\ m = 1 => IsOwned(rows', k) /\ rows'[k].age < Stale
               /\ k \in claims' \cup todo' => IsOwned(rows', k) /\ m = 0
  BY DEF KeyInv
<1>4. CASE KeySame(k)
  BY <1>1, <1>2, <1>4 DEF KeySame, SameRow, Unlisted
<1>5. CASE KeyTaken(k)
  BY <1>1, <1>2, <1>5 DEF KeyTaken
<1>6. CASE KeyEnded(k)
  BY <1>1, <1>2, <1>6 DEF KeyEnded, Unlisted
<1>7. CASE KeyReleased(k)
  BY <1>1, <1>2, <1>7 DEF KeyReleased
<1>8. CASE KeyFree(k)
  BY <1>1, <1>2, <1>8 DEF KeyFree, Unlisted
<1>9. CASE KeyListed(k)
  BY <1>1, <1>2, <1>9 DEF KeyListed
<1>10. CASE KeyAged(k)
  BY <1>1, <1>2, <1>10 DEF KeyAged, Unlisted
<1>11. CASE KeyDropped(k)
  BY <1>1, <1>2, <1>11 DEF KeyDropped
<1> QED
  BY <1>4, <1>5, <1>6, <1>7, <1>8, <1>9, <1>10, <1>11 DEF KeyStep

(* A step in which nobody lets go or takes, and no operation changes who   *)
(* owns a row.                                                             *)
LEMMA QuietKeys ==
  ASSUME TypeOK, TypeOK', UNCHANGED <<joining, queue, resuming, phase, slot>>,
         \A w \in Worker : step'[w] = step[w] \/ (step[w] \notin LiveSteps /\ step'[w] \notin LiveSteps),
         NEW k \in Key, LoopHolds(k)' => LoopHolds(k)
  PROVE  HolderCount(k)' <= HolderCount(k)
<1>1. WorkersAt(LiveSteps, k)' = WorkersAt(LiveSteps, k)
  BY DEF WorkersAt
<1>2. LineCount(k)' <= LineCount(k)
  BY LineStays
<1> QED
  BY <1>1, <1>2, CountNat

LEMMA RowsSame ==
  ASSUME TypeOK, NEW k \in Key,
         \/ rows' = rows
         \/ \E j : \/ rows' = Touch(rows, j)
                   \/ rows' = CloseWindow(rows, j)
                   \/ \E d : rows' = RecordRequest(rows, j, d)
  PROVE  SameRow(k)
<1>1. rows \in Table /\ rows[k].age \in Nat
  BY StaleAssumption DEF TypeOK, Table, Row
<1>2. rows'[k].state = rows[k].state /\ rows'[k].age <= rows[k].age
  <2>1. CASE rows' = rows
    BY <1>1, <2>1
  <2>2. ASSUME NEW j, \/ rows' = Touch(rows, j)
                      \/ rows' = CloseWindow(rows, j)
                      \/ \E d : rows' = RecordRequest(rows, j, d)
        PROVE  rows'[k].state = rows[k].state /\ rows'[k].age <= rows[k].age
    <3>1. /\ rows'[k].state = rows[k].state
          /\ rows'[k].age \in 0..rows[k].age \/ rows'[k].age = rows[k].age
      BY <1>1, <2>2, RowTouched
    <3> QED
      BY <1>1, <3>1
  <2> QED
    BY <2>1, <2>2
<1> QED
  BY <1>2 DEF SameRow, IsOwned, Present

LEMMA RowSame ==
  ASSUME TypeOK, NEW k \in Key, rows'[k] = rows[k]
  PROVE  SameRow(k)
<1>1. rows[k].age \in Nat
  BY StaleAssumption DEF TypeOK, Table, Row
<1> QED
  BY <1>1 DEF SameRow, IsOwned, Present

\* The worker counts of a step in which no worker moves.
LEMMA WorkersStay ==
  ASSUME UNCHANGED <<phase, slot, step>>, NEW S, NEW k
  PROVE  WorkersAt(S, k)' = WorkersAt(S, k)
  BY DEF WorkersAt

LEMMA LoopKeys ==
  ASSUME TypeOK, TypeOK', LoopStep, NEW k \in Key, KeyInv(k)
  PROVE  KeyStep(k)
<1>1. UNCHANGED <<phase, slot, step, todo, claims>> /\ rows \in Table
  BY DEF LoopStep, ClaimDuplicate, ClaimCase, KeepRequest, HandlerRaises, LoopJoin, LoopEnqueue,
     Join, Enqueue, intakeVars, TypeOK
<1>2. Unlisted(k)
  BY <1>1 DEF Unlisted
<1>3. HolderCount(k)' + LineCount(k) = HolderCount(k) + LineCount(k)'
  BY <1>1, CountNat, WorkersStay
<1>4. LineCount(k) \in Nat /\ LineCount(k)' \in Nat /\ HolderCount(k) \in Nat /\ HolderCount(k)' \in Nat
  BY CountNat
<1>5. CASE ClaimCase /\ k = Job(loopTask)
  <2>1. /\ HolderCount(k)' <= HolderCount(k) + 1
        /\ ~IsOwned(rows, k) /\ rows' = UpsertPending(rows, k, sent)
    BY <1>3, <1>4, <1>5, LoopLine DEF ClaimCase
  <2>2. IsOwned(rows', k) /\ rows'[k].age = 0
    BY <1>1, <2>1 DEF UpsertPending, IsOwned, Present, OwnedStates, Table
  <2>3. k \notin todo' \cup claims'
    BY <1>1, <2>1 DEF KeyInv
  <2> QED
    BY <2>1, <2>2, <2>3 DEF KeyTaken, KeyStep
<1>6. CASE ~(ClaimCase /\ k = Job(loopTask))
  <2>1. HolderCount(k)' <= HolderCount(k)
    BY <1>3, <1>4, <1>6, LoopLine
  <2>2. SameRow(k)
    <3>1. CASE ClaimCase
      <4>1. k # Job(loopTask) /\ rows' = UpsertPending(rows, Job(loopTask), sent)
        BY <1>6, <3>1 DEF ClaimCase
      <4>2. rows'[k] = rows[k]
        BY <1>1, <4>1, UpsertKept
      <4> QED
        BY <4>2, RowSame
    <3>2. CASE ~ClaimCase
      <4>1. rows' = rows \/ rows' = RecordRequest(rows, Job(loopTask), loopTask.docs)
        BY <3>2 DEF LoopStep, ClaimDuplicate, KeepRequest, HandlerRaises, LoopJoin, LoopEnqueue,
           diskVars
      <4> QED
        BY <4>1, RowsSame
    <3> QED
      BY <3>1, <3>2
  <2> QED
    BY <1>2, <2>1, <2>2 DEF KeySame, KeyStep
<1> QED
  BY <1>5, <1>6

(* Whoever runs an audit holds its job, and owns its row.                  *)
LEMMA WorkerOwns ==
  ASSUME TypeOK, TypeOK', NEW w \in Worker,
         phase[w] = "taken" \/ (phase[w] = "running" /\ step[w] \in LiveSteps),
         KeyInv(Job(slot[w]))
  PROVE  /\ HolderCount(Job(slot[w])) = 1
         /\ IsOwned(rows, Job(slot[w])) /\ rows[Job(slot[w])].age < Stale
<1> DEFINE j == Job(slot[w])
<1>1. w \in WorkersAt(LiveSteps, j)
  BY DEF WorkersAt
<1>2. Cardinality(WorkersAt(LiveSteps, j)) # 0
  BY <1>1, CountNat, FS_EmptySet
<1>3. /\ LineCount(j) \in Nat /\ Cardinality(WorkersAt(LiveSteps, j)) \in Nat
      /\ HolderCount(j) = LineCount(j) + Cardinality(WorkersAt(LiveSteps, j))
  BY CountNat
<1>4. HolderCount(j) <= 1 /\ (HolderCount(j) = 1 => IsOwned(rows, j) /\ rows[j].age < Stale)
  BY DEF KeyInv
<1> QED
  BY <1>2, <1>3, <1>4

(* A running audit that goes on with its job, and one that ends with the   *)
(* mark on its own row and no other.                                       *)
LEMMA GoingKeys ==
  ASSUME TypeOK, TypeOK', NEW w \in Worker, phase[w] = "running", step[w] \in LiveSteps,
         NEW s \in LiveSteps, step' = [step EXCEPT ![w] = s],
         UNCHANGED <<joining, queue, resuming, phase, slot, loopPc, loopTask, todo, claims>>,
         \/ rows' = rows \/ rows' = Touch(rows, Job(slot[w]))
         \/ rows' = MarkExtracting(rows, Job(slot[w])) \/ rows' = MarkExtracted(rows, Job(slot[w])),
         NEW k \in Key, KeyInv(k)
  PROVE  KeyStep(k)
<1>0. rows \in Table /\ rows[k].age \in Nat /\ step \in [Worker -> Steps]
  BY StaleAssumption DEF TypeOK, Table, Row
<1>1. WorkersAt(LiveSteps, k)' = WorkersAt(LiveSteps, k)
  BY <1>0 DEF WorkersAt
<1>2. LineCount(k)' <= LineCount(k)
  BY LineStays DEF LoopHolds
<1>3. HolderCount(k)' <= HolderCount(k) /\ Unlisted(k)
  BY <1>1, <1>2, CountNat DEF Unlisted
<1>4. SameRow(k)
  <2>1. CASE k # Job(slot[w])
    <3>1. rows'[k] = rows[k]
      BY <1>0, <2>1, RowsKept, MarkKept
    <3> QED
      BY <3>1, RowSame
  <2>2. CASE rows' = rows \/ rows' = Touch(rows, Job(slot[w]))
    BY <2>2, RowsSame
  <2>3. CASE /\ k = Job(slot[w])
             /\ rows' = MarkExtracting(rows, k) \/ rows' = MarkExtracted(rows, k)
    <3>1. IsOwned(rows, k)
      BY <2>3, WorkerOwns
    <3>2. rows'[k].state \in {"extracting", "extracted"} /\ rows'[k].age = 0
      BY <1>0, <2>3, <3>1, RowMarked DEF MarkExtracting, MarkExtracted, IsOwned
    <3> QED
      BY <1>0, <3>1, <3>2 DEF SameRow, IsOwned, Present, OwnedStates
  <2> QED
    BY <2>1, <2>2, <2>3
<1> QED
  BY <1>3, <1>4 DEF KeySame, KeyStep

LEMMA EndingKeys ==
  ASSUME TypeOK, TypeOK', NEW w \in Worker, phase[w] = "running", step[w] \in LiveSteps,
         NEW s \in Steps \ LiveSteps, step' = [step EXCEPT ![w] = s],
         UNCHANGED <<joining, queue, resuming, phase, slot, loopPc, loopTask, todo, claims>>,
         \A j \in Key : j # Job(slot[w]) => rows'[j] = rows[j],
         NEW k \in Key
  PROVE  KeyStep(k)
<1>0. rows \in Table /\ step \in [Worker -> Steps]
  BY DEF TypeOK
<1>1. LineCount(k)' <= LineCount(k) /\ Unlisted(k)
  BY LineStays DEF LoopHolds, Unlisted
<1>2. w \notin WorkersAt(LiveSteps, k)'
  BY <1>0 DEF WorkersAt
<1>3. w \in WorkersAt(LiveSteps, k) <=> k = Job(slot[w])
  BY DEF WorkersAt
<1>4. /\ Cardinality(WorkersAt(LiveSteps, k)') <= Cardinality(WorkersAt(LiveSteps, k)) + 0
      /\ k = Job(slot[w])
           => Cardinality(WorkersAt(LiveSteps, k)') + 1 <= Cardinality(WorkersAt(LiveSteps, k))
  BY <1>0, <1>2, <1>3, WorkerCount
<1>5. CASE k = Job(slot[w])
  BY <1>1, <1>4, <1>5, CountNat DEF KeyEnded, KeyStep
<1>6. CASE k # Job(slot[w])
  <2>1. HolderCount(k)' <= HolderCount(k)
    BY <1>1, <1>4, CountNat
  <2> QED
    BY <1>1, <1>6, <2>1, RowSame DEF KeySame, KeyStep
<1> QED
  BY <1>5, <1>6
LEMMA TakeKeys ==
  ASSUME TypeOK, TypeOK', NEW w \in Worker, TakeCase(w) \/ BeginCase(w) \/ LeaveCase(w),
         NEW k \in Key
  PROVE  KeyStep(k)
<1>1. /\ UNCHANGED <<rows, todo, claims>>
      /\ \A v \in Worker : v # w => phase'[v] = phase[v] /\ slot'[v] = slot[v] /\ step'[v] = step[v]
  BY DEF TakeCase, Take, BeginCase, Begin, LeaveCase, Leave, Goto, processVars, diskVars, TypeOK,
     IntakeTypeOK
<1>2. SameRow(k) /\ Unlisted(k)
  BY <1>1, RowSame DEF Unlisted
<1> DEFINE before == w \in WorkersAt(LiveSteps, k)
           after == w \in WorkersAt(LiveSteps, k)'
<1>3. /\ Cardinality(WorkersAt(LiveSteps, k)')
           <= Cardinality(WorkersAt(LiveSteps, k)) + (IF after /\ ~before THEN 1 ELSE 0)
      /\ before /\ ~after
           => Cardinality(WorkersAt(LiveSteps, k)') + 1 <= Cardinality(WorkersAt(LiveSteps, k))
  BY <1>1, WorkerCount
<1>4. LineCount(k)' + (IF after /\ ~before THEN 1 ELSE 0) <= LineCount(k)
  <2>0. LineCount(k) \in Nat /\ LineCount(k)' \in Nat
    BY CountNat
  <2>1. CASE TakeCase(w)
    <3>1. slot'[w] = Head(queue)
      BY <2>1 DEF TakeCase, Take, TypeOK, IntakeTypeOK
    <3>2. after => Job(Head(queue)) = k
      BY <3>1 DEF WorkersAt
    <3>3. LineCount(k)' + (IF Job(Head(queue)) = k THEN 1 ELSE 0) <= LineCount(k)
      BY <2>1, TakenLine
    <3> QED
      BY <2>0, <3>2, <3>3
  <2>2. CASE BeginCase(w) \/ LeaveCase(w)
    <3>1. UNCHANGED <<joining, queue, resuming, loopPc, loopTask>>
      BY <2>2 DEF BeginCase, Begin, LeaveCase, Leave
    <3>2. LineCount(k)' <= LineCount(k)
      BY <3>1, LineStays DEF LoopHolds
    <3>3. after => before
      <4>1. CASE BeginCase(w)
        <5>1. phase[w] = "taken" /\ slot' = slot
          BY <4>1 DEF BeginCase, Begin
        <5> QED
          BY <5>1 DEF WorkersAt
      <4>2. CASE LeaveCase(w)
        <5>1. phase'[w] = "idle"
          BY <4>2 DEF LeaveCase, Leave, TypeOK, IntakeTypeOK
        <5> QED
          BY <5>1 DEF WorkersAt
      <4> QED
        BY <2>2, <4>1, <4>2
    <3> QED
      BY <2>0, <3>2, <3>3
  <2> QED
    BY <2>1, <2>2
<1>5. HolderCount(k)' <= HolderCount(k)
  <2>1. /\ LineCount(k) \in Nat /\ LineCount(k)' \in Nat
        /\ HolderCount(k) = LineCount(k) + Cardinality(WorkersAt(LiveSteps, k))
        /\ HolderCount(k)' = LineCount(k)' + Cardinality(WorkersAt(LiveSteps, k)')
        /\ Cardinality(WorkersAt(LiveSteps, k)) \in Nat
        /\ Cardinality(WorkersAt(LiveSteps, k)') \in Nat
    BY CountNat
  <2> QED
    BY <1>3, <1>4, <2>1
<1> QED
  BY <1>2, <1>5 DEF KeySame, KeyStep

LEMMA ReadingKeys ==
  ASSUME TypeOK, TypeOK', NEW w \in Worker,
         \/ StartAudit(w) \/ Fetch(w) \/ FallBack(w) \/ DocumentsUnavailable(w) \/ Heartbeat(w)
         \/ PagesRead(w) \/ RetryExtraction(w) \/ ExtractionFails(w) \/ Extract(w),
         \A j \in Key : KeyInv(j), NEW k \in Key
  PROVE  KeyStep(k)
<1>0. /\ rows \in Table /\ step \in [Worker -> Steps]
      /\ phase[w] = "running" /\ step[w] \in LiveSteps
      /\ UNCHANGED <<joining, queue, resuming, phase, slot, loopPc, loopTask, todo, claims>>
  BY DEF StartAudit, Fetch, FallBack, DocumentsUnavailable, Heartbeat, PagesRead, RetryExtraction,
     ExtractionFails, Extract, At, LiveSteps, RestOfAudit, intakeVars, TypeOK
<1>1. KeyInv(k)
  OBVIOUS
<1>2. CASE \/ StartAudit(w) \/ Fetch(w) \/ FallBack(w) \/ Heartbeat(w)
           \/ PagesRead(w) \/ RetryExtraction(w) \/ Extract(w)
  <2>1. \E s \in LiveSteps : step' = [step EXCEPT ![w] = s]
    <3>1. CASE Heartbeat(w)
      <4>1. step' = [step EXCEPT ![w] = step[w]]
        BY <1>0, <3>1 DEF Heartbeat
      <4> QED
        BY <1>0, <4>1
    <3> QED
      BY <1>2, <3>1 DEF StartAudit, Fetch, FallBack, PagesRead, RetryExtraction, Extract, Goto,
         LiveSteps
  <2>2. \/ rows' = rows \/ rows' = Touch(rows, Job(slot[w]))
        \/ rows' = MarkExtracting(rows, Job(slot[w])) \/ rows' = MarkExtracted(rows, Job(slot[w]))
    BY <1>2 DEF StartAudit, Fetch, FallBack, Heartbeat, PagesRead, RetryExtraction, Extract,
       diskVars
  <2> QED
    BY <1>0, <1>1, <2>1, <2>2, GoingKeys
<1>3. CASE DocumentsUnavailable(w) \/ ExtractionFails(w)
  <2>1. \E s \in Steps \ LiveSteps : step' = [step EXCEPT ![w] = s]
    BY <1>3 DEF DocumentsUnavailable, ExtractionFails, Goto, Steps, LiveSteps
  <2>2. rows' = MarkExtractionFailed(rows, Job(slot[w]))
    BY <1>3 DEF DocumentsUnavailable, ExtractionFails
  <2>3. \A j \in Key : j # Job(slot[w]) => rows'[j] = rows[j]
    BY <1>0, <2>2, MarkKept
  <2> QED
    BY <1>0, <2>1, <2>3, EndingKeys
<1> QED
  BY <1>2, <1>3

(* The marks of the delivery made on the bare case reference leave every   *)
(* other job's row alone.                                                  *)
LEMMA OutcomeRows ==
  ASSUME TypeOK, TypeOK', FromSenders, OneSided, NEW w \in Worker,
         phase[w] = "running", step[w] \in LiveSteps, KeyInv(Job(slot[w])),
         DeliveryNotConfigured(w) \/ DeliveryRejected(w) \/ DeliveryAccepted(w),
         NEW j \in Key, j # Job(slot[w])
  PROVE  rows'[j] = rows[j]
<1> DEFINE t == slot[w]
<1>0. t \in Task /\ Job(t) \in Key /\ rows \in Table
  BY HeldTask DEF TypeOK
<1>1. t.env \in Sender
  <2>1. Present(rows, Job(t))
    BY WorkerOwns DEF IsOwned
  <2> QED
    BY <1>0, <2>1, KeyEnv DEF FromSenders
<1>2. BareKey(t.case) = Job(t) \/ ~Present(rows, BareKey(t.case))
  <2>1. \A k \in Key : Present(rows, k) => PrefixEnv(k) \in Sender
    BY DEF FromSenders
  <2> QED
    BY <1>0, <1>1, <2>1, BareMark
<1>3. \/ rows' = MarkComparisonFailed(rows, BareKey(t.case))
      \/ rows' = MarkDone(rows, BareKey(t.case))
  BY DEF DeliveryNotConfigured, DeliveryRejected, DeliveryAccepted
<1> HIDE DEF t
<1>4. CASE BareKey(t.case) = Job(t)
  BY <1>0, <1>3, <1>4, RowsKept, MarkKept DEF t
<1>5. CASE ~Present(rows, BareKey(t.case))
  BY <1>3, <1>5 DEF MarkComparisonFailed, MarkDone, SetState
<1> QED
  BY <1>2, <1>4, <1>5

LEMMA DeliveringKeys ==
  ASSUME TypeOK, TypeOK', FromSenders, OneSided, NEW w \in Worker,
         \/ DeliveryNotConfigured(w) \/ Post(w) \/ DeliveryRaised(w) \/ DeliveryRecorded(w)
         \/ DeliveryRejected(w) \/ DeliveryAccepted(w) \/ Unexpected(w) \/ UnexpectedMarked(w)
         \/ Report(w) \/ RemoveWorkDir(w),
         \A j \in Key : KeyInv(j), NEW k \in Key
  PROVE  KeyStep(k)
<1>0. /\ rows \in Table /\ step \in [Worker -> Steps] /\ phase[w] = "running"
      /\ UNCHANGED <<joining, queue, resuming, phase, slot, loopPc, loopTask, todo, claims>>
  BY DEF DeliveryNotConfigured, Post, DeliveryRaised, DeliveryRejected, DeliveryAccepted,
     DeliveryRecorded, Unexpected, UnexpectedMarked, Report, RemoveWorkDir, At, RestOfAudit,
     intakeVars, TypeOK
<1>1. KeyInv(k) /\ KeyInv(Job(slot[w]))
  BY <1>0, HeldTask
<1>2. CASE Post(w) \/ DeliveryRecorded(w) \/ Unexpected(w)
  <2>1. /\ \E s \in LiveSteps : step' = [step EXCEPT ![w] = s]
        /\ rows' = rows \/ rows' = Touch(rows, Job(slot[w]))
        /\ step[w] \in LiveSteps
    BY <1>2 DEF Post, DeliveryRecorded, RecordDelivery, Unexpected, Goto, At, LiveSteps, diskVars
  <2> QED
    BY <1>0, <1>1, <2>1, GoingKeys
<1>3. CASE \/ DeliveryNotConfigured(w) \/ DeliveryRaised(w) \/ DeliveryRejected(w)
           \/ DeliveryAccepted(w) \/ UnexpectedMarked(w)
  <2>1. /\ \E s \in Steps \ LiveSteps : step' = [step EXCEPT ![w] = s]
        /\ step[w] \in LiveSteps
    BY <1>3 DEF DeliveryNotConfigured, DeliveryRaised, DeliveryRejected, DeliveryAccepted,
       UnexpectedMarked, Goto, At, Steps, LiveSteps
  <2>2. \A j \in Key : j # Job(slot[w]) => rows'[j] = rows[j]
    <3>1. CASE DeliveryNotConfigured(w) \/ DeliveryRejected(w) \/ DeliveryAccepted(w)
      BY <1>0, <1>1, <2>1, <3>1, OutcomeRows
    <3>2. CASE DeliveryRaised(w) \/ UnexpectedMarked(w)
      <4>1. \/ rows' = MarkExtractionFailed(rows, Job(slot[w]))
            \/ rows' = MarkComparisonFailed(rows, Job(slot[w]))
        BY <3>2 DEF DeliveryRaised, UnexpectedMarked
      <4> QED
        BY <1>0, <4>1, MarkKept
    <3> QED
      BY <1>3, <3>1, <3>2
  <2> QED
    BY <1>0, <2>1, <2>2, EndingKeys
<1>4. CASE Report(w) \/ RemoveWorkDir(w)
  <2>1. /\ \A v \in Worker : step'[v] = step[v] \/ (step[v] \notin LiveSteps /\ step'[v] \notin LiveSteps)
        /\ rows' = rows
    BY <1>0, <1>4 DEF Report, RemoveWorkDir, Goto, At, LiveSteps, diskVars
  <2>2. HolderCount(k)' <= HolderCount(k)
    BY <1>0, <2>1, QuietKeys DEF LoopHolds
  <2> QED
    BY <1>0, <2>1, <2>2, RowSame DEF Unlisted, KeySame, KeyStep
<1> QED
  BY <1>2, <1>3, <1>4
LEMMA HeldCount ==
  ASSUME TypeOK, TypeOK', NEW k
  PROVE  Held(k) <=> HolderCount(k) # 0
<1>1. /\ IsFiniteSet(JoinersOf(joining, k)) /\ IsFiniteSet(Places(queue, k))
      /\ IsFiniteSet(Places(resuming, k)) /\ IsFiniteSet(WorkersAt(LiveSteps, k))
      /\ Cardinality(JoinersOf(joining, k)) \in Nat /\ Cardinality(Places(queue, k)) \in Nat
      /\ Cardinality(Places(resuming, k)) \in Nat /\ Cardinality(WorkersAt(LiveSteps, k)) \in Nat
      /\ HolderCount(k) = LineCount(k) + Cardinality(WorkersAt(LiveSteps, k))
  BY JoinersFinite, PlacesFinite, CountNat DEF TypeOK, IntakeTypeOK
<1>2. HolderCount(k) # 0 <=> \/ LoopHolds(k) \/ Cardinality(JoinersOf(joining, k)) # 0
                             \/ Cardinality(Places(queue, k)) # 0
                             \/ Cardinality(Places(resuming, k)) # 0
                             \/ Cardinality(WorkersAt(LiveSteps, k)) # 0
  <2> DEFINE ahead == IF LoopHolds(k) THEN 1 ELSE 0
             a == Cardinality(JoinersOf(joining, k))
             b == Cardinality(Places(queue, k))
             c == Cardinality(Places(resuming, k))
             d == Cardinality(WorkersAt(LiveSteps, k))
  <2>1. HolderCount(k) = ahead + a + b + c + d
    BY <1>1 DEF LineCount
  <2>2. ahead \in Nat /\ (ahead # 0 <=> LoopHolds(k))
    OBVIOUS
  <2>3. a \in Nat /\ b \in Nat /\ c \in Nat /\ d \in Nat
    BY <1>1
  <2> HIDE DEF ahead, a, b, c, d
  <2>4. ahead + a + b + c + d # 0 <=> ahead # 0 \/ a # 0 \/ b # 0 \/ c # 0 \/ d # 0
    BY <2>2, <2>3
  <2> QED
    BY <2>1, <2>2, <2>4 DEF a, b, c, d
<1>3. /\ Cardinality(JoinersOf(joining, k)) # 0 <=> JoinersOf(joining, k) # {}
      /\ Cardinality(Places(queue, k)) # 0 <=> Places(queue, k) # {}
      /\ Cardinality(Places(resuming, k)) # 0 <=> Places(resuming, k) # {}
      /\ Cardinality(WorkersAt(LiveSteps, k)) # 0 <=> WorkersAt(LiveSteps, k) # {}
  BY <1>1, FS_EmptySet
<1>4. /\ JoinersOf(joining, k) # {} <=> \E s \in Submitter : JoiningHolds(s, k)
      /\ Places(queue, k) # {} <=> \E i \in DOMAIN queue : QueueHolds(i, k)
      /\ Places(resuming, k) # {} <=> \E i \in DOMAIN resuming : ResumeHolds(i, k)
      /\ WorkersAt(LiveSteps, k) # {} <=> \E w \in Worker : WorkerHolds(w, k)
  BY DEF JoinersOf, JoiningHolds, Places, QueueHolds, ResumeHolds, WorkersAt, WorkerHolds
<1> QED
  BY <1>2, <1>3, <1>4 DEF Held

(* Cartograph's calls, the maintenance thread and the keeper.              *)
LEMMA CallKeys ==
  ASSUME TypeOK, TypeOK', NEW k \in Key,
         \/ \E e \in Sender, c \in Case, d \in Docs : Notify(e, c, d)
         \/ \E j \in Key : ImportResult(j) \/ WindowCloses(j)
         \/ \E c \in Case : PrunePacket(c)
         \/ KeeperStepOnRows \/ WatchdogReport \/ ReportInterrupted \/ Serve \/ UNCHANGED vars
  PROVE  KeyStep(k)
<1>1. UNCHANGED <<joining, queue, resuming, phase, slot, step, todo, claims>>
  BY DEF Notify, ImportResult, WindowCloses, PrunePacket, KeeperStepOnRows, KeeperSnapshot,
     KeeperWake, KeeperBeat, KeeperTouch, WatchdogReport, ReportInterrupted, Serve, vars,
     intakeVars, processVars
<1>2. LoopHolds(k)' => LoopHolds(k)
  <2>1. UNCHANGED <<loopPc, loopTask>> \/ loopPc' = "checked"
    BY DEF Notify, ImportResult, WindowCloses, PrunePacket, KeeperStepOnRows, KeeperSnapshot,
       KeeperBeat, WatchdogReport, ReportInterrupted, Serve, vars, processVars
  <2> QED
    BY <2>1 DEF LoopHolds
<1>3. \/ rows' = rows
      \/ \E j : rows' = Touch(rows, j) \/ rows' = CloseWindow(rows, j)
  BY DEF Notify, ImportResult, WindowCloses, PrunePacket, KeeperStepOnRows, KeeperSnapshot,
     KeeperBeat, WatchdogReport, ReportInterrupted, Serve, vars, diskVars, RecordImportResult
<1>4. SameRow(k)
  BY <1>3, RowsSame
<1>5. HolderCount(k)' <= HolderCount(k)
  BY <1>1, <1>2, QuietKeys
<1> QED
  BY <1>1, <1>4, <1>5 DEF KeySame, Unlisted, KeyStep

LEMMA SweepKeys ==
  ASSUME TypeOK, TypeOK', ProcessInv, NEW k \in Key,
         RetentionSweep \/ WatchdogList \/ \E j \in todo : WatchdogFail(j)
  PROVE  KeyStep(k)
<1>0. rows \in Table
  BY DEF TypeOK
<1>1. UNCHANGED <<joining, queue, resuming, phase, slot, step, loopPc, loopTask, claims>>
  BY DEF RetentionSweep, WatchdogList, WatchdogFail, intakeVars, processVars
<1>2. HolderCount(k)' <= HolderCount(k)
  BY <1>1, QuietKeys DEF LoopHolds
<1>3. CASE RetentionSweep
  <2>1. PICK old \in SUBSET Expired(rows) : rows' = DeleteRows(rows, old)
    BY <1>3 DEF RetentionSweep
  <2>2. Unlisted(k)
    BY <1>1, <1>3 DEF Unlisted, RetentionSweep, processVars
  <2>3. CASE k \in old
    <3>1. ~IsOwned(rows, k)
      BY <2>1, <2>3 DEF Expired, IsTerminal, IsOwned, TerminalStates, OwnedStates
    <3> QED
      BY <1>2, <2>2, <3>1 DEF KeyFree, KeyStep
  <2>4. CASE k \notin old
    <3>1. rows'[k] = rows[k]
      BY <2>1, <2>4 DEF DeleteRows
    <3> QED
      BY <1>2, <2>2, <3>1, RowSame DEF KeySame, KeyStep
  <2> QED
    BY <2>3, <2>4
<1>4. CASE WatchdogList
  <2>1. rows' = rows /\ todo' = Wedged(rows)
    BY <1>4 DEF WatchdogList, diskVars
  <2>2. CASE k \in Wedged(rows)
    <3>1. rows[k].age = Stale /\ IsOwned(rows, k)
      BY <2>2 DEF Wedged, WedgeProneStates, IsOwned, Present, OwnedStates
    <3> QED
      BY <1>2, <2>1, <3>1 DEF KeyListed, KeyStep
  <2>3. CASE k \notin Wedged(rows)
    <3>1. Unlisted(k) /\ SameRow(k)
      BY <1>1, <2>1, <2>3, RowSame DEF Unlisted
    <3> QED
      BY <1>2, <3>1 DEF KeySame, KeyStep
  <2> QED
    BY <2>2, <2>3
<1>5. ASSUME NEW j \in todo, WatchdogFail(j) PROVE KeyStep(k)
  <2>1. todo' = todo \ {j} /\ rows' = MarkExtractionFailed(rows, j) /\ claims' = {}
    BY <1>1, <1>5 DEF WatchdogFail, ProcessInv
  <2>2. CASE k = j
    BY <1>2, <2>1, <2>2 DEF KeyReleased, KeyStep
  <2>3. CASE k # j
    <3>1. rows'[k] = rows[k]
      BY <1>0, <2>1, <2>3, MarkKept
    <3> QED
      BY <1>2, <2>1, <3>1, RowSame DEF Unlisted, KeySame, KeyStep
  <2> QED
    BY <2>2, <2>3
<1> QED
  BY <1>3, <1>4, <1>5

(* Stopping and starting.                                                  *)
LEMMA StopKeys ==
  ASSUME TypeOK, TypeOK', ProcessInv, NEW k \in Key, BeginShutdown \/ Stop \/ Restart
  PROVE  KeyStep(k)
<1>0. Cardinality(Places(<<>>, k)) = 0
  <2>1. Places(<<>>, k) = {}
    BY DEF Places
  <2> QED
    BY <2>1, FS_EmptySet
<1>1. CASE BeginShutdown
  <2>1. /\ queue' = <<>>
        /\ UNCHANGED <<joining, resuming, phase, slot, step, loopPc, loopTask, claims, todo, rows>>
    BY <1>1 DEF BeginShutdown, Shutdown, processVars, diskVars
  <2>2. /\ Cardinality(Places(queue, k)) \in Nat /\ Cardinality(Places(resuming, k)) \in Nat
        /\ Cardinality(JoinersOf(joining, k)) \in Nat
    BY PlacesFinite, JoinersFinite DEF TypeOK, IntakeTypeOK
  <2>3. LineCount(k)' <= LineCount(k)
    BY <1>0, <2>1, <2>2 DEF LineCount, LoopHolds
  <2>4. WorkersAt(LiveSteps, k)' = WorkersAt(LiveSteps, k)
    BY <2>1, WorkersStay
  <2>5. HolderCount(k)' <= HolderCount(k)
    BY <2>3, <2>4, CountNat
  <2> QED
    BY <2>1, <2>5, RowSame DEF Unlisted, KeySame, KeyStep
<1>2. CASE Stop \/ Restart
  <2>1. /\ queue' = <<>> /\ resuming' = <<>> /\ loopPc' = "idle"
        /\ \A s \in Submitter : joining'[s] = NoTask
        /\ \A w \in Worker : phase'[w] = "idle"
    BY <1>2 DEF Stop, Restart, IntakeReset, intakeVars, ProcessInv
  <2>2. ~LoopHolds(k)' /\ JoinersOf(joining', k) = {} /\ WorkersAt(LiveSteps, k)' = {}
    BY <2>1 DEF LoopHolds, JoinersOf, WorkersAt
  <2>3. HolderCount(k)' = 0
    <3>1. Cardinality(JoinersOf(joining', k)) = 0 /\ Cardinality(WorkersAt(LiveSteps, k)') = 0
      BY <2>2, FS_EmptySet
    <3>2. LineCount(k)' = 0
      BY <1>0, <2>1, <2>2, <3>1 DEF LineCount
    <3>3. HolderCount(k)' = LineCount(k)' + Cardinality(WorkersAt(LiveSteps, k)')
      BY CountNat
    <3> QED
      BY <3>1, <3>2, <3>3
  <2>4. k \in todo' \cup claims' => IsOwned(rows', k)
    <3>1. CASE Stop
      BY <3>1 DEF Stop
    <3>2. CASE Restart
      BY <3>2 DEF Restart, ProcessInv, diskVars
    <3> QED
      BY <1>2, <3>1, <3>2
  <2> QED
    BY <2>3, <2>4 DEF KeyDropped, KeyStep
<1> QED
  BY <1>1, <1>2

LEMMA ClaimKeys ==
  ASSUME TypeOK, TypeOK', ProcessInv, NEW k \in Key, KeyInv(k),
         NEW j \in claims, ClaimInterrupted(j) \/ FailInterrupted(j)
  PROVE  KeyStep(k)
<1>0. /\ rows \in Table /\ todo = {} /\ todo' = {} /\ claims' = claims \ {j}
      /\ UNCHANGED <<phase, slot, step>>
  BY DEF TypeOK, ClaimInterrupted, FailInterrupted, ProcessInv, intakeVars
<1>1. WorkersAt(LiveSteps, k)' = WorkersAt(LiveSteps, k)
  BY <1>0, WorkersStay
<1>2. CASE ClaimInterrupted(j)
  <2>1. LineCount(k)' <= LineCount(k) + (IF k = j THEN 1 ELSE 0)
    BY <1>2, ClaimedLine
  <2>2. HolderCount(k)' <= HolderCount(k) + (IF k = j THEN 1 ELSE 0)
    BY <1>1, <2>1, CountNat
  <2>3. rows' = Touch(rows, j)
    BY <1>2 DEF ClaimInterrupted
  <2>4. CASE k = j
    <3>1. IsOwned(rows, k)
      BY <2>4 DEF KeyInv
    <3>2. IsOwned(rows', k) /\ rows'[k].age = 0
      BY <1>0, <2>3, <2>4, <3>1, TouchOwned, RowTouched DEF IsOwned
    <3>3. HolderCount(k)' <= HolderCount(k) + 1
      BY <2>2, <2>4
    <3> QED
      BY <1>0, <2>4, <3>2, <3>3 DEF KeyTaken, KeyStep
  <2>5. CASE k # j
    <3>1. rows'[k] = rows[k]
      BY <1>0, <2>3, <2>5, RowsKept
    <3>2. HolderCount(k)' <= HolderCount(k)
      BY <2>2, <2>5, CountNat
    <3> QED
      BY <1>0, <3>1, <3>2, RowSame DEF Unlisted, KeySame, KeyStep
  <2> QED
    BY <2>4, <2>5
<1>3. CASE FailInterrupted(j)
  <2>1. /\ UNCHANGED <<joining, queue, resuming, loopPc, loopTask>>
        /\ rows' = MarkExtractionFailed(rows, j)
    BY <1>3 DEF FailInterrupted, intakeVars
  <2>2. HolderCount(k)' <= HolderCount(k)
    BY <1>0, <2>1, QuietKeys DEF LoopHolds
  <2>3. CASE k = j
    BY <1>0, <2>2, <2>3 DEF KeyReleased, KeyStep
  <2>4. CASE k # j
    <3>1. rows'[k] = rows[k]
      BY <1>0, <2>1, <2>4, MarkKept
    <3> QED
      BY <1>0, <2>2, <3>1, RowSame DEF Unlisted, KeySame, KeyStep
  <2> QED
    BY <2>3, <2>4
<1> QED
  BY <1>2, <1>3

LEMMA ResumeKeys ==
  ASSUME TypeOK, TypeOK', NEW k \in Key, ResumeStep
  PROVE  KeyStep(k)
<1>1. UNCHANGED <<phase, slot, step, rows, todo, claims>>
  BY DEF ResumeStep, ResumeWakes, Reopen, ResumeJoin, ResumeEnqueue, ResumeRefused, Join,
     Enqueue, Refuse, intakeVars, diskVars
<1>2. HolderCount(k)' <= HolderCount(k)
  BY <1>1, ResumeLine, WorkersStay, CountNat
<1> QED
  BY <1>1, <1>2, RowSame DEF Unlisted, KeySame, KeyStep

(* A tick ages the rows: that of a running audit is not yet QuietBound     *)
(* old, and that of a waiting case is young by WaitBound, or by the keeper.*)
LEMMA TickKeys ==
  ASSUME TypeOK, TypeOK', ProcessInv, PatientWatchdog, DefaultEnv \notin Sender => LineFresh,
         NEW k \in Key, Tick
  PROVE  KeyStep(k)
<1>0. /\ rows \in Table /\ rows' = Aged(rows) /\ TimeMayPass
      /\ UNCHANGED <<joining, queue, resuming, phase, slot, step, loopPc, loopTask, todo, claims>>
  BY DEF TypeOK, Tick, KeeperAlarm, intakeVars, processVars
<1>1. HolderCount(k)' <= HolderCount(k)
  BY <1>0, QuietKeys DEF LoopHolds
<1>2. IsOwned(rows', k) <=> IsOwned(rows, k)
  BY <1>0, PassingOwned
<1>3. ASSUME HolderCount(k) = 1 PROVE rows'[k].age < Stale
  <2>1. /\ rows[k].age \in Nat /\ Stale \in Nat /\ QuietBound \in Nat /\ WaitBound \in Nat
        /\ rows'[k].age \in Nat /\ rows'[k].age <= rows[k].age + 1
    <3>1. rows[k] \in Row /\ rows'[k] \in Row
      BY DEF TypeOK, Table
    <3>2. rows[k].age \in Nat /\ rows'[k].age \in Nat
      BY <3>1, StaleAssumption DEF Row
    <3>3. rows'[k].age <= rows[k].age + 1
      BY <1>0, <3>1, <3>2 DEF Aged, Row
    <3> QED
      BY <3>2, <3>3, StaleAssumption, EngineAssumption
  <2>2. Held(k)
    BY <1>3, HeldCount
  <2>3. \/ \E i \in DOMAIN queue : QueueHolds(i, k)
        \/ \E w \in Worker : WorkerHolds(w, k)
    BY <1>0, <2>2 DEF Held, LoopHolds, JoiningHolds, ResumeHolds, TimeMayPass
  <2>4. ASSUME NEW w \in Worker, WorkerHolds(w, k) PROVE rows'[k].age < Stale
    <3>1. rows[k].age < QuietBound /\ QuietBound < Stale
      BY <1>0, <2>4 DEF WorkerHolds, TimeMayPass, PatientWatchdog
    <3> QED
      BY <2>1, <3>1
  <2>5. ASSUME NEW i \in DOMAIN queue, QueueHolds(i, k) PROVE rows'[k].age < Stale
    <3>1. CASE WaitBound < Stale
      <4>1. rows[k].age < WaitBound
        BY <1>0, <2>5 DEF QueueHolds, TimeMayPass
      <4> QED
        BY <2>1, <3>1, <4>1
    <3>2. CASE DefaultEnv \notin Sender /\ Stale > 1
      <4>1. queue # <<>>
        BY <2>5
      <4>2. keeperPc = "asleep"
        BY <1>0, <4>1 DEF TimeMayPass, ProcessInv
      <4>3. rows[k].age = 0
        BY <2>5, <3>2, <4>2 DEF LineFresh, FreshTask, QueueHolds
      <4> QED
        BY <2>1, <3>2, <4>3
    <3> QED
      BY <3>1, <3>2 DEF PatientWatchdog
  <2> QED
    BY <2>3, <2>4, <2>5
<1> QED
  BY <1>0, <1>1, <1>2, <1>3 DEF Unlisted, KeyAged, KeyStep
-----------------------------------------------------------------------------
(* The intake inside the engine: the dedupe keeps two pending cases from   *)
(* having one label, which is what the intake's own proof asks of callers. *)
LEMMA FreshLabel ==
  ASSUME TypeOK, TypeOK', NEW t \in Task, HolderCount(Job(t)) <= 1,
         LoopHolds(Job(t)) \/ \E i \in DOMAIN resuming : resuming[i] = t
  PROVE  Label(t) \notin PendingLabels
<1> DEFINE k == Job(t)
           a == Cardinality(JoinersOf(joining, k))
           b == Cardinality(Places(queue, k))
           c == Cardinality(Places(resuming, k))
           d == Cardinality(WorkersAt(LiveSteps, k))
           ahead == IF LoopHolds(k) THEN 1 ELSE 0
<1>1. /\ IsFiniteSet(JoinersOf(joining, k)) /\ IsFiniteSet(Places(queue, k))
      /\ IsFiniteSet(Places(resuming, k)) /\ IsFiniteSet(WorkersAt(LiveSteps, k))
      /\ a \in Nat /\ b \in Nat /\ c \in Nat /\ d \in Nat
      /\ HolderCount(k) = LineCount(k) + d
  BY JoinersFinite, PlacesFinite, CountNat DEF TypeOK, IntakeTypeOK
<1>2. HolderCount(k) = ahead + a + b + c + d /\ ahead \in Nat
  BY <1>1 DEF LineCount
<1>3. ahead + c # 0
  <2>1. CASE LoopHolds(k)
    BY <1>1, <2>1
  <2>2. CASE \E i \in DOMAIN resuming : resuming[i] = t
    <3>1. Places(resuming, k) # {}
      BY <2>2 DEF Places
    <3>2. c # 0
      BY <1>1, <3>1, FS_EmptySet
    <3> QED
      BY <1>1, <1>2, <3>2
  <2> QED
    BY <2>1, <2>2
<1>4. a + b + d = 0
  BY <1>1, <1>2, <1>3
<1>5. a = 0 /\ b = 0 /\ d = 0
  BY <1>1, <1>4
<1>6. JoinersOf(joining, k) = {} /\ Places(queue, k) = {} /\ WorkersAt(LiveSteps, k) = {}
  BY <1>1, <1>5, FS_EmptySet
<1>7. \A u \in Task : Label(u) = Label(t) => Job(u) = k
  BY DEF Label, Job
<1>8. ASSUME Label(t) \in PendingLabels PROVE FALSE
  <2>1. \/ \E s \in Submitter : JoiningPending(s) /\ Label(t) = Label(joining[s])
        \/ \E i \in DOMAIN queue : Label(t) = Label(queue[i])
        \/ \E w \in Worker : phase[w] = "taken" /\ Label(t) = Label(slot[w])
    <3>1. crew \subseteq Worker
      BY CrewOfWorkers DEF TypeOK
    <3> QED
      BY <1>8, <3>1, PendingLabel
  <2>2. /\ \A s \in Submitter : JoiningPending(s) => joining[s] \in Task
        /\ \A i \in DOMAIN queue : queue[i] \in Task
        /\ \A w \in Worker : phase[w] = "taken" => slot[w] \in Task
    BY DEF TypeOK, IntakeTypeOK, JoiningPending
  <2>3. ASSUME NEW s \in Submitter, JoiningPending(s), Label(t) = Label(joining[s]) PROVE FALSE
    BY <1>6, <1>7, <2>2, <2>3 DEF JoinersOf, JoiningPending
  <2>4. ASSUME NEW i \in DOMAIN queue, Label(t) = Label(queue[i]) PROVE FALSE
    BY <1>6, <1>7, <2>2, <2>4 DEF Places
  <2>5. ASSUME NEW w \in Worker, phase[w] = "taken", Label(t) = Label(slot[w]) PROVE FALSE
    BY <1>6, <1>7, <2>2, <2>5 DEF WorkersAt
  <2> QED
    BY <2>1, <2>3, <2>4, <2>5
<1> QED
  BY <1>8

LEMMA ResetPending ==
  ASSUME IntakeReset
  PROVE  HeartbeatInv'
<1>1. IntakeTypeOK'
  BY ResetType
<1>2. crew' \subseteq Worker /\ \A w \in crew' : phase'[w] = "idle"
  BY DEF IntakeReset, FirstCrew
<1>3. PendingDistinct'
  BY <1>2 DEF IntakeReset, PendingDistinct, JoiningPending
<1>4. HeartbeatCoversLine'
  BY <1>2 DEF IntakeReset, HeartbeatCoversLine, PendingLabels, PendingTasks
<1> QED
  BY <1>1, <1>3, <1>4 DEF HeartbeatInv

(* The second intake starts with an empty line.                            *)
LEMMA ReopenPending ==
  ASSUME IntakeTypeOK, Reopen, queue = <<>>, \A s \in Submitter : joining[s] = NoTask,
         \A w \in Relief : phase[w] = "idle"
  PROVE  HeartbeatInv'
<1>1. IntakeTypeOK'
  BY ReopenType
<1>2. /\ crew' = Relief /\ phase' = phase /\ joining' = joining /\ queue' = <<>> /\ waiting' = {}
  BY DEF Reopen
<1>3. PendingDistinct'
  BY <1>2 DEF PendingDistinct, JoiningPending
<1>4. HeartbeatCoversLine'
  BY <1>2 DEF HeartbeatCoversLine, PendingLabels, PendingTasks
<1> QED
  BY <1>1, <1>3, <1>4 DEF HeartbeatInv

LEMMA HeartbeatStep ==
  ASSUME TypeOK, TypeOK', ProcessInv, PoolInv, \A k \in Key : KeyInv(k), HeartbeatInv, [Next]_vars
  PROVE  HeartbeatInv'
<1>0. "loop" \in Submitter /\ "resume" \in Submitter
  BY EngineAssumption
<1>1. ASSUME UNCHANGED intakeVars PROVE HeartbeatInv'
  BY <1>1, QuietPending
<1>2. ASSUME NEW w \in Worker, AuditStep(w) \/ Heartbeat(w) PROVE HeartbeatInv'
  <2>1. CASE TakeCase(w) \/ BeginCase(w) \/ LeaveCase(w)
    BY <2>1, TakePending, BeginPending, LeavePending DEF TakeCase, BeginCase, LeaveCase
  <2>2. CASE ~(TakeCase(w) \/ BeginCase(w) \/ LeaveCase(w))
    <3>1. UNCHANGED intakeVars
      BY <1>2, <2>2 DEF AuditStep, Heartbeat, StartAudit, Fetch, FallBack, DocumentsUnavailable,
         PagesRead, RetryExtraction, ExtractionFails, Extract, DeliveryNotConfigured, Post,
         DeliveryRaised, DeliveryRejected, DeliveryAccepted, DeliveryRecorded, Unexpected,
         UnexpectedMarked, Report, RemoveWorkDir, RestOfAudit
    <3> QED
      BY <1>1, <3>1
  <2> QED
    BY <2>1, <2>2
<1>3. ASSUME LoopStep PROVE HeartbeatInv'
  <2>1. CASE LoopJoin
    <3>1. Join("loop", loopTask) /\ loopTask \in Task /\ LoopHolds(Job(loopTask))
      BY <2>1 DEF LoopJoin, TypeOK, LoopHolds
    <3>2. HolderCount(Job(loopTask)) <= 1
      BY <3>1, JobType DEF KeyInv
    <3>3. Label(loopTask) \notin PendingLabels
      BY <3>1, <3>2, FreshLabel
    <3> QED
      BY <1>0, <3>1, <3>3, JoinPending
  <2>2. CASE LoopEnqueue
    BY <1>0, <2>2, EnqueuePending DEF LoopEnqueue
  <2>3. CASE ClaimDuplicate \/ ClaimCase \/ KeepRequest \/ HandlerRaises
    BY <1>1, <2>3 DEF ClaimDuplicate, ClaimCase, KeepRequest, HandlerRaises
  <2> QED
    BY <1>3, <2>1, <2>2, <2>3 DEF LoopStep
<1>4. ASSUME ResumeStep PROVE HeartbeatInv'
  <2>1. CASE ResumeJoin
    <3>1. /\ Join("resume", Head(resuming)) /\ resuming # <<>> /\ resuming \in Seq(Task)
      BY <2>1 DEF ResumeJoin, TypeOK
    <3>2. Head(resuming) \in Task /\ \E i \in DOMAIN resuming : resuming[i] = Head(resuming)
      <4>1. Head(resuming) = resuming[1] /\ Head(resuming) \in Task
        BY <3>1, HeadTailProperties
      <4>2. 1 \in DOMAIN resuming
        BY <3>1, EmptySeq, LenProperties
      <4> QED
        BY <4>1, <4>2
    <3>3. HolderCount(Job(Head(resuming))) <= 1
      BY <3>2, JobType DEF KeyInv
    <3>4. Label(Head(resuming)) \notin PendingLabels
      BY <3>2, <3>3, FreshLabel
    <3> QED
      BY <1>0, <3>1, <3>2, <3>4, JoinPending
  <2>2. CASE ResumeEnqueue
    BY <1>0, <2>2, EnqueuePending DEF ResumeEnqueue
  <2>3. CASE ResumeRefused
    BY <1>0, <2>3, ClosedPending DEF ResumeRefused
  <2>4. CASE ResumeWakes
    <3>1. CASE stopped
      <4>1. /\ Reopen /\ up = "stopping" /\ queue = <<>> /\ resumePc = "delay"
        BY <2>4, <3>1 DEF ResumeWakes, ProcessInv
      <4>2. \A s \in Submitter : joining[s] = NoTask
        BY <4>1, EngineAssumption DEF PoolInv
      <4>3. \A w \in Relief : phase[w] = "idle"
        BY <3>1 DEF PoolInv, FirstCrew
      <4> QED
        BY <4>1, <4>2, <4>3, ReopenPending DEF TypeOK
    <3>2. CASE ~stopped
      BY <1>1, <2>4, <3>2 DEF ResumeWakes
    <3> QED
      BY <3>1, <3>2
  <2> QED
    BY <1>4, <2>1, <2>2, <2>3, <2>4 DEF ResumeStep
<1>5. ASSUME KeeperStepOnRows \/ Tick PROVE HeartbeatInv'
  BY <1>1, <1>5, QuietPending DEF KeeperStepOnRows, KeeperSnapshot, KeeperBeat, Tick, KeeperStep
<1>6. ASSUME BeginShutdown \/ Stop PROVE HeartbeatInv'
  BY <1>6, ClosedPending, ResetPending DEF BeginShutdown, Stop
<1>7. ASSUME \/ \E e \in Sender, c \in Case, d \in Docs : Notify(e, c, d)
             \/ \E k \in Key : ImportResult(k) \/ WindowCloses(k)
             \/ RetentionSweep \/ \E c \in Case : PrunePacket(c)
             \/ WatchdogStep \/ StartStep \/ UNCHANGED vars
      PROVE  HeartbeatInv'
  BY <1>1, <1>7 DEF Notify, ImportResult, WindowCloses, RetentionSweep, PrunePacket, WatchdogStep,
     WatchdogList, WatchdogFail, WatchdogReport, StartStep, Restart, Serve, ReportInterrupted,
     ClaimInterrupted, FailInterrupted, vars
<1> QED
  BY <1>2, <1>3, <1>4, <1>5, <1>6, <1>7 DEF Next

-----------------------------------------------------------------------------
(* Only the clock makes a row older.                                       *)
LEMMA OpsRefresh ==
  ASSUME NEW tbl \in Table, NEW k \in Key, NEW j
  PROVE  /\ Touch(tbl, j)[k].age <= tbl[k].age
         /\ CloseWindow(tbl, j)[k].age <= tbl[k].age
         /\ MarkExtracting(tbl, j)[k].age <= tbl[k].age
         /\ MarkExtracted(tbl, j)[k].age <= tbl[k].age
         /\ MarkExtractionFailed(tbl, j)[k].age <= tbl[k].age
         /\ MarkComparisonFailed(tbl, j)[k].age <= tbl[k].age
         /\ MarkDone(tbl, j)[k].age <= tbl[k].age
         /\ \A d : RecordRequest(tbl, j, d)[k].age <= tbl[k].age
         /\ \A now : UpsertPending(tbl, j, now)[k].age <= tbl[k].age
         /\ \A old : DeleteRows(tbl, old)[k].age <= tbl[k].age
<1>1. tbl[k].age \in Nat
  BY StaleAssumption DEF Table, Row
<1>2. /\ Touch(tbl, j)[k].age <= tbl[k].age
      /\ CloseWindow(tbl, j)[k].age <= tbl[k].age
      /\ \A d : RecordRequest(tbl, j, d)[k].age <= tbl[k].age
      /\ \A old : DeleteRows(tbl, old)[k].age <= tbl[k].age
  BY <1>1 DEF Touch, CloseWindow, RecordRequest, DeleteRows, NoRow, Table, Row
<1>3. \A s : SetState(tbl, j, s)[k].age <= tbl[k].age
  BY <1>1 DEF SetState, Table, Row
<1>4. MarkDone(tbl, j)[k].age <= tbl[k].age
  BY <1>1 DEF MarkDone, Table, Row
<1>5. \A now : UpsertPending(tbl, j, now)[k].age <= tbl[k].age
  BY <1>1 DEF UpsertPending, Table, Row
<1>6. /\ MarkExtracting(tbl, j)[k].age <= tbl[k].age
      /\ MarkExtracted(tbl, j)[k].age <= tbl[k].age
      /\ MarkExtractionFailed(tbl, j)[k].age <= tbl[k].age
      /\ MarkComparisonFailed(tbl, j)[k].age <= tbl[k].age
  BY <1>3 DEF MarkExtracting, MarkExtracted, MarkExtractionFailed, MarkComparisonFailed
<1> QED
  BY <1>2, <1>4, <1>5, <1>6

LEMMA AgesFall ==
  ASSUME TypeOK, [Next]_vars, ~Tick, NEW k \in Key
  PROVE  rows'[k].age <= rows[k].age
<1>0. rows \in Table /\ rows[k].age \in Nat
  BY StaleAssumption DEF TypeOK, Table, Row
<1>1. ASSUME rows' = rows PROVE rows'[k].age <= rows[k].age
  BY <1>0, <1>1
<1>2. ASSUME NEW w \in Worker, AuditStep(w) \/ Heartbeat(w) PROVE rows'[k].age <= rows[k].age
  <2>1. CASE \/ StartAudit(w) \/ DocumentsUnavailable(w) \/ Heartbeat(w) \/ RetryExtraction(w)
             \/ ExtractionFails(w) \/ Extract(w) \/ DeliveryNotConfigured(w) \/ DeliveryRaised(w)
             \/ DeliveryRecorded(w) \/ DeliveryRejected(w) \/ DeliveryAccepted(w)
             \/ UnexpectedMarked(w)
    BY <1>0, <2>1, OpsRefresh DEF StartAudit, DocumentsUnavailable, Heartbeat, RetryExtraction,
       ExtractionFails, Extract, DeliveryNotConfigured, DeliveryRaised, DeliveryRecorded,
       RecordDelivery, DeliveryRejected, DeliveryAccepted, UnexpectedMarked
  <2>2. CASE rows' = rows
    BY <1>1, <2>2
  <2> QED
    BY <1>2, <2>1, <2>2 DEF AuditStep, TakeCase, BeginCase, LeaveCase, Fetch, FallBack,
       PagesRead, Post, Unexpected, Report, RemoveWorkDir, diskVars
<1>3. ASSUME LoopStep PROVE rows'[k].age <= rows[k].age
  <2>1. \/ rows' = rows \/ rows' = UpsertPending(rows, Job(loopTask), sent)
        \/ rows' = RecordRequest(rows, Job(loopTask), loopTask.docs)
    BY <1>3 DEF LoopStep, ClaimDuplicate, ClaimCase, KeepRequest, HandlerRaises, LoopJoin,
       LoopEnqueue, diskVars
  <2> QED
    BY <1>0, <1>1, <2>1, OpsRefresh
<1>4. ASSUME \/ \E e \in Sender, c \in Case, d \in Docs : Notify(e, c, d)
             \/ \E j \in Key : ImportResult(j) \/ WindowCloses(j)
             \/ RetentionSweep \/ \E c \in Case : PrunePacket(c)
             \/ WatchdogStep \/ KeeperStepOnRows \/ UNCHANGED vars
             \/ BeginShutdown \/ Stop \/ StartStep \/ ResumeStep
      PROVE  rows'[k].age <= rows[k].age
  <2>1. \/ rows' = rows
        \/ \E j : rows' = Touch(rows, j) \/ rows' = CloseWindow(rows, j)
                  \/ rows' = MarkExtractionFailed(rows, j)
        \/ \E old : rows' = DeleteRows(rows, old)
    <3>1. CASE RetentionSweep
      BY <3>1 DEF RetentionSweep
    <3>2. CASE \/ \E e \in Sender, c \in Case, d \in Docs : Notify(e, c, d)
               \/ \E j \in Key : ImportResult(j) \/ WindowCloses(j)
               \/ \E c \in Case : PrunePacket(c)
               \/ WatchdogStep \/ KeeperStepOnRows \/ UNCHANGED vars
      BY <3>2 DEF Notify, ImportResult, WindowCloses, PrunePacket, WatchdogStep, WatchdogList,
         WatchdogFail, WatchdogReport, KeeperStepOnRows, KeeperSnapshot, KeeperBeat, vars,
         diskVars, RecordImportResult
    <3>3. CASE BeginShutdown \/ Stop \/ StartStep \/ ResumeStep
      BY <3>3 DEF BeginShutdown, Stop, StartStep, Restart, Serve, ReportInterrupted,
         ClaimInterrupted, FailInterrupted, ResumeStep, ResumeWakes, Reopen, ResumeJoin,
         ResumeEnqueue, ResumeRefused, diskVars
    <3> QED
      BY <1>4, <3>1, <3>2, <3>3
  <2> QED
    BY <1>0, <1>1, <2>1, OpsRefresh
<1> QED
  BY <1>2, <1>3, <1>4 DEF Next
(* The rows ahead of the line are as fresh as the step that put them there.*)
LEMMA AheadFresh ==
  ASSUME TypeOK, TypeOK', ProcessInv, LineFresh, \A k \in Key : KeyInv(k), [Next]_vars, ~Tick,
         NEW k \in Key, AheadOfLine(k)'
  PROVE  rows'[k].age = 0
<1>0. /\ rows \in Table /\ rows[k].age \in Nat /\ rows'[k].age \in Nat
      /\ rows'[k].age <= rows[k].age
  BY AgesFall, StaleAssumption DEF TypeOK, Table, Row
<1>1. ASSUME AheadOfLine(k) PROVE rows'[k].age = 0
  BY <1>0, <1>1 DEF LineFresh
<1>2. ASSUME UNCHANGED <<joining, resuming>>, LoopHolds(k)' => LoopHolds(k) PROVE rows'[k].age = 0
  <2>1. AheadOfLine(k)
    BY <1>2 DEF AheadOfLine, JoiningHolds, ResumeHolds
  <2> QED
    BY <1>1, <2>1
<1>3. ASSUME LoopStep PROVE rows'[k].age = 0
  <2>1. CASE ClaimCase
    <3>1. /\ UNCHANGED <<joining, resuming, loopTask>>
          /\ rows' = UpsertPending(rows, Job(loopTask), sent) /\ ~IsOwned(rows, Job(loopTask))
      BY <2>1 DEF ClaimCase, intakeVars
    <3>2. CASE k = Job(loopTask)
      BY <1>0, <3>1, <3>2 DEF UpsertPending, Table
    <3>3. CASE k # Job(loopTask)
      BY <1>2, <3>1, <3>3 DEF LoopHolds
    <3> QED
      BY <3>2, <3>3
  <2>2. CASE ClaimDuplicate \/ KeepRequest \/ HandlerRaises
    BY <1>2, <2>2 DEF ClaimDuplicate, KeepRequest, HandlerRaises, LoopHolds, intakeVars
  <2>3. CASE LoopJoin
    <3>1. /\ joining' = [joining EXCEPT !["loop"] = loopTask] /\ resuming' = resuming
          /\ loopPc = "recorded" /\ loopPc' = "joined"
          /\ joining \in [Submitter -> Task \cup {NoTask}]
      BY <2>3 DEF LoopJoin, Join, TypeOK, IntakeTypeOK
    <3>2. AheadOfLine(k)
      BY <3>1 DEF AheadOfLine, LoopHolds, JoiningHolds, ResumeHolds
    <3> QED
      BY <1>1, <3>2
  <2>4. CASE LoopEnqueue
    <3>1. /\ joining' = [joining EXCEPT !["loop"] = NoTask] /\ resuming' = resuming
          /\ loopPc' = "idle" /\ joining \in [Submitter -> Task \cup {NoTask}]
      BY <2>4 DEF LoopEnqueue, Enqueue, TypeOK, IntakeTypeOK
    <3>2. AheadOfLine(k)
      BY <3>1 DEF AheadOfLine, LoopHolds, JoiningHolds, ResumeHolds
    <3> QED
      BY <1>1, <3>2
  <2> QED
    BY <1>3, <2>1, <2>2, <2>3, <2>4 DEF LoopStep
<1>4. ASSUME ResumeStep PROVE rows'[k].age = 0
  <2>0. /\ LoopHolds(k)' => LoopHolds(k)
        /\ joining \in [Submitter -> Task \cup {NoTask}] /\ resuming \in Seq(Task)
    BY <1>4 DEF ResumeStep, ResumeWakes, Reopen, ResumeJoin, ResumeEnqueue, ResumeRefused,
       LoopHolds, processVars, TypeOK, IntakeTypeOK
  <2>1. CASE ResumeJoin
    <3>1. /\ joining' = [joining EXCEPT !["resume"] = Head(resuming)]
          /\ resuming # <<>> /\ resuming' = Tail(resuming)
      BY <2>1 DEF ResumeJoin, Join
    <3>2. /\ Head(resuming) = resuming[1] /\ 1 \in DOMAIN resuming
          /\ \A i \in DOMAIN Tail(resuming) : i + 1 \in DOMAIN resuming /\ Tail(resuming)[i] = resuming[i + 1]
      BY <2>0, <3>1, HeadTailProperties, LenProperties, EmptySeq
    <3>3. \A i \in DOMAIN resuming' : \E j \in DOMAIN resuming : resuming'[i] = resuming[j]
      BY <3>1, <3>2
    <3>4. \A s \in Submitter : joining'[s] = joining[s] \/ joining'[s] = resuming[1]
      BY <2>0, <3>1, <3>2
    <3>5. AheadOfLine(k)
      BY <2>0, <3>2, <3>3, <3>4 DEF AheadOfLine, JoiningHolds, ResumeHolds
    <3> QED
      BY <1>1, <3>5
  <2>2. CASE ResumeEnqueue \/ ResumeRefused
    <3>1. /\ \A s \in Submitter : joining'[s] = joining[s] \/ joining'[s] = NoTask
          /\ resuming' = resuming \/ resuming' = <<>>
      BY <2>0, <2>2 DEF ResumeEnqueue, ResumeRefused, Enqueue, Refuse
    <3>2. AheadOfLine(k)
      BY <2>0, <3>1 DEF AheadOfLine, JoiningHolds, ResumeHolds
    <3> QED
      BY <1>1, <3>2
  <2>3. CASE ResumeWakes
    BY <1>2, <2>0, <2>3 DEF ResumeWakes, Reopen, intakeVars
  <2> QED
    BY <1>4, <2>1, <2>2, <2>3 DEF ResumeStep
<1>5. ASSUME NEW j \in claims, ClaimInterrupted(j) PROVE rows'[k].age = 0
  <2> DEFINE t == [env |-> PrefixEnv(j), case |-> j[2], docs |-> rows[j].docs, packet |-> kept[j[2]]]
  <2>1. j \in Key /\ j[2] \in Case
    BY KeyParts DEF TypeOK
  <2>2. rows[j].docs \in Docs /\ kept[j[2]] \in Packet \cup {NoPacket}
    BY <1>5, <2>1 DEF TypeOK, ClaimInterrupted, Table, Row
  <2>3. t \in Task /\ Job(t) = j
    BY <2>1, <2>2, ResumedTask
  <2>4. /\ resuming \in Seq(Task) /\ resuming' = Append(resuming, t) /\ rows' = Touch(rows, j)
        /\ UNCHANGED <<loopPc, loopTask, joining>>
    BY <1>5 DEF ClaimInterrupted, intakeVars, TypeOK
  <2> HIDE DEF t
  <2>5. CASE k = j
    <3>1. Present(rows, j)
      BY <1>5, <2>1 DEF KeyInv, IsOwned
    <3> QED
      BY <1>0, <2>4, <2>5, <3>1, RowTouched
  <2>6. CASE k # j
    <3>1. \A i \in DOMAIN resuming' : resuming'[i] = t \/ (i \in DOMAIN resuming /\ resuming'[i] = resuming[i])
      BY <2>3, <2>4, AppendProperties, LenProperties
    <3>2. AheadOfLine(k)
      BY <2>3, <2>4, <2>6, <3>1 DEF AheadOfLine, LoopHolds, JoiningHolds, ResumeHolds
    <3> QED
      BY <1>1, <3>2
  <2> QED
    BY <2>5, <2>6
<1>6. ASSUME NEW w \in Worker, AuditStep(w) \/ Heartbeat(w) PROVE rows'[k].age = 0
  <2>1. UNCHANGED <<joining, resuming, loopPc, loopTask>>
    BY <1>6 DEF AuditStep, Heartbeat, TakeCase, Take, BeginCase, Begin, LeaveCase, Leave,
       StartAudit, Fetch, FallBack, DocumentsUnavailable, PagesRead, RetryExtraction,
       ExtractionFails, Extract, DeliveryNotConfigured, Post, DeliveryRaised, DeliveryRejected,
       DeliveryAccepted, DeliveryRecorded, Unexpected, UnexpectedMarked, Report, RemoveWorkDir,
       RestOfAudit, intakeVars, processVars
  <2> QED
    BY <1>2, <2>1 DEF LoopHolds
<1>7. ASSUME Stop PROVE rows'[k].age = 0
  BY <1>7 DEF Stop, IntakeReset, AheadOfLine, LoopHolds, JoiningHolds, ResumeHolds
<1>8. ASSUME \/ \E e \in Sender, c \in Case, d \in Docs : Notify(e, c, d)
             \/ \E j \in Key : ImportResult(j) \/ WindowCloses(j)
             \/ RetentionSweep \/ \E c \in Case : PrunePacket(c)
             \/ WatchdogStep \/ KeeperStepOnRows \/ UNCHANGED vars
      PROVE  rows'[k].age = 0
  <2>1. /\ UNCHANGED <<joining, resuming>>
        /\ UNCHANGED <<loopPc, loopTask>> \/ loopPc' = "checked"
    BY <1>8 DEF Notify, ImportResult, WindowCloses, RetentionSweep, PrunePacket, WatchdogStep,
       WatchdogList, WatchdogFail, WatchdogReport, KeeperStepOnRows, KeeperSnapshot, KeeperWake,
       KeeperBeat, KeeperTouch, vars, intakeVars, processVars
  <2> QED
    BY <1>2, <2>1 DEF LoopHolds
<1>9. ASSUME \/ BeginShutdown \/ Restart \/ Serve \/ ReportInterrupted
             \/ \E j \in claims : FailInterrupted(j)
      PROVE  rows'[k].age = 0
  <2>1. UNCHANGED <<joining, resuming, loopPc, loopTask>>
    BY <1>9 DEF BeginShutdown, Shutdown, Restart, Serve, ReportInterrupted, FailInterrupted,
       intakeVars, processVars
  <2> QED
    BY <1>2, <2>1 DEF LoopHolds
<1> QED
  BY <1>3, <1>4, <1>5, <1>6, <1>7, <1>8, <1>9 DEF Next, StartStep
LEMMA LineFreshStep ==
  ASSUME TypeOK, TypeOK', ProcessInv, FromSenders, HeartbeatInv, LineFresh, PatientWatchdog,
         DefaultEnv \notin Sender, \A k \in Key : KeyInv(k), [Next]_vars
  PROVE  LineFresh'
<1>0. /\ rows \in Table /\ queue \in Seq(Task) /\ queue' \in Seq(Task)
      /\ \A k \in Key : rows[k].age \in Nat /\ rows'[k].age \in Nat
      /\ \A i \in DOMAIN queue : queue[i] \in Task /\ Job(queue[i]) \in Key
  <2>1. /\ rows \in Table /\ rows' \in Table /\ queue \in Seq(Task) /\ queue' \in Seq(Task)
    BY DEF TypeOK, IntakeTypeOK
  <2>2. \A k \in Key : rows[k].age \in Nat /\ rows'[k].age \in Nat
    BY <2>1, StaleAssumption DEF Table, Row
  <2>3. \A i \in DOMAIN queue : queue[i] \in Task
    BY <2>1
  <2> QED
    BY <2>1, <2>2, <2>3, JobType
<1>1. CASE Tick
  <2>1. /\ rows' = Aged(rows) /\ TimeMayPass
        /\ UNCHANGED <<joining, queue, resuming, loopPc, loopTask, beats>>
    BY <1>1 DEF Tick, KeeperAlarm, intakeVars, processVars
  <2>2. \A k : ~AheadOfLine(k)'
    BY <2>1 DEF TimeMayPass, AheadOfLine, LoopHolds, JoiningHolds, ResumeHolds
  <2>3. ASSUME NEW i \in DOMAIN queue PROVE FreshTask(queue[i])'
    <3>1. up # "down" /\ ~stopped
      BY <2>3 DEF ProcessInv
    <3>2. keeperPc = "asleep" /\ keeperPc' = "awake"
      BY <1>1, <2>1, <3>1 DEF TimeMayPass, Tick, KeeperAlarm
    <3>3. rows[Job(queue[i])].age = 0
      BY <2>3, <3>2 DEF LineFresh, FreshTask
    <3>4. rows'[Job(queue[i])].age <= rows[Job(queue[i])].age + 1
      <4>1. /\ Job(queue[i]) \in Key /\ rows[Job(queue[i])] \in Row
            /\ rows[Job(queue[i])].age \in Nat
        BY <1>0, <2>3 DEF Table
      <4> QED
        BY <2>1, <4>1 DEF Aged, Row
    <3>5. Job(queue[i]) \in Key
      BY <1>0, <2>3
    <3> QED
      BY <1>0, <2>1, <3>2, <3>3, <3>4, <3>5 DEF FreshTask, Job
  <2>4. keeperPc' # "beating" => beats' = {}
    BY <1>1, <2>1 DEF Tick, KeeperAlarm, intakeVars, LineFresh
  <2> QED
    BY <2>1, <2>2, <2>3, <2>4 DEF LineFresh
<1>2. CASE ~Tick
  <2>1. \A k \in Key : AheadOfLine(k)' => rows'[k].age = 0
    BY <1>2, AheadFresh
  <2>2. \A k \in Key : rows'[k].age <= rows[k].age
    BY <1>2, AgesFall
  <2>3. ASSUME KeeperSnapshot PROVE LineFresh'
    <3>1. /\ UNCHANGED <<queue, stopped, rows>> /\ keeperPc = "awake" /\ beats' = waiting
          /\ keeperPc' = IF waiting = {} THEN "asleep" ELSE "beating"
      BY <2>3 DEF KeeperSnapshot, KeeperWake, diskVars
    <3>2. ASSUME NEW i \in DOMAIN queue PROVE FreshTask(queue[i])'
      <4>1. ~stopped
        BY <3>2 DEF ProcessInv
      <4>2. Label(queue[i]) \in waiting
        BY <3>2, <4>1, PendingLabel DEF HeartbeatInv, HeartbeatCoversLine
      <4>3. rows[Job(queue[i])].age <= 1
        BY <3>2 DEF LineFresh, FreshTask
      <4> QED
        BY <3>1, <4>2, <4>3 DEF FreshTask, Job, Label
    <3> QED
      BY <2>1, <3>1, <3>2 DEF LineFresh
  <2>4. ASSUME NEW l \in beats, KeeperBeat(l) PROVE LineFresh'
    <3>1. /\ queue' = queue /\ rows' = Touch(rows, l) /\ beats' = beats \ {l}
          /\ keeperPc' = IF beats = {l} THEN "asleep" ELSE "beating"
      BY <2>4 DEF KeeperBeat, KeeperTouch
    <3>2. ASSUME NEW i \in DOMAIN queue PROVE FreshTask(queue[i])'
      <4>1. /\ rows[Job(queue[i])].age <= 1
            /\ rows[Job(queue[i])].age = 0 \/ Label(queue[i]) \in beats
            /\ Job(queue[i]) \in Key
        BY <1>0, <2>4, <3>2 DEF LineFresh, FreshTask
      <4>2. rows'[Job(queue[i])].age <= 1
        BY <1>0, <2>2, <4>1
      <4>3. rows'[Job(queue[i])].age = 0 \/ Label(queue[i]) \in beats'
        <5>1. CASE rows[Job(queue[i])].age = 0
          BY <1>0, <2>2, <4>1, <5>1
        <5>2. CASE Label(queue[i]) = l
          <6>1. HolderCount(Job(queue[i])) # 0
            BY <3>2, HeldCount DEF Held, QueueHolds
          <6>2. HolderCount(Job(queue[i])) = 1 /\ Present(rows, Job(queue[i]))
            <7>1. HolderCount(Job(queue[i])) \in Nat
              BY CountNat
            <7>2. KeyInv(Job(queue[i]))
              BY <4>1
            <7> QED
              BY <6>1, <7>1, <7>2 DEF KeyInv, IsOwned
          <6>3. queue[i].env \in Sender
            BY <1>0, <3>2, <4>1, <6>2, KeyEnv DEF FromSenders
          <6>4. Job(queue[i]) = l
            BY <5>2, <6>3 DEF Label, Job, JobKey
          <6> QED
            BY <1>0, <3>1, <4>1, <6>2, <6>4, RowTouched
        <5>3. CASE Label(queue[i]) # l /\ Label(queue[i]) \in beats
          BY <3>1, <5>3
        <5> QED
          BY <4>1, <5>1, <5>2, <5>3
      <4> QED
        BY <3>1, <4>2, <4>3 DEF FreshTask, Job, Label
    <3> QED
      BY <2>1, <3>1, <3>2 DEF LineFresh
  <2>5. ASSUME UNCHANGED <<keeperPc, beats>>,
               \A i \in DOMAIN queue' :
                 \/ \E j \in DOMAIN queue : queue'[i] = queue[j]
                 \/ \E s \in Submitter : joining[s] # NoTask /\ queue'[i] = joining[s]
        PROVE  LineFresh'
    <3>1. ASSUME NEW i \in DOMAIN queue' PROVE FreshTask(queue[i])'
      <4>1. CASE \E j \in DOMAIN queue : queue'[i] = queue[j]
        <5>1. PICK j \in DOMAIN queue : queue'[i] = queue[j]
          BY <4>1
        <5>2. FreshTask(queue[j]) /\ Job(queue[j]) \in Key
          BY <1>0 DEF LineFresh
        <5>3. /\ rows'[Job(queue[j])].age <= rows[Job(queue[j])].age
              /\ rows'[Job(queue[j])].age \in Nat /\ rows[Job(queue[j])].age \in Nat
          BY <1>0, <2>2, <5>2
        <5> QED
          BY <2>5, <5>1, <5>2, <5>3 DEF FreshTask, Job, Label
      <4>2. CASE \E s \in Submitter : joining[s] # NoTask /\ queue'[i] = joining[s]
        <5>1. PICK s \in Submitter : joining[s] # NoTask /\ queue'[i] = joining[s]
          BY <4>2
        <5>2. Job(joining[s]) \in Key
          BY <5>1, JobType DEF TypeOK, IntakeTypeOK
        <5>3. rows[Job(joining[s])].age = 0
          BY <5>1, <5>2 DEF LineFresh, AheadOfLine, JoiningHolds
        <5>4. rows'[Job(joining[s])].age = 0
          BY <1>0, <2>2, <5>2, <5>3
        <5> QED
          BY <5>1, <5>4 DEF FreshTask, Job, Label
      <4> QED
        BY <2>5, <3>1, <4>1, <4>2
    <3> QED
      BY <2>1, <2>5, <3>1 DEF LineFresh
  <2>6. ASSUME UNCHANGED <<keeperPc, beats, queue>> PROVE LineFresh'
    BY <2>5, <2>6
  <2>7. ASSUME NEW s \in Submitter, Enqueue(s) PROVE LineFresh'
    <3>1. queue' = Append(queue, joining[s]) /\ joining[s] \in Task /\ joining[s] # NoTask
      BY <2>7 DEF Enqueue, TypeOK, IntakeTypeOK
    <3>2. \A i \in DOMAIN queue' :
            queue'[i] = joining[s] \/ (i \in DOMAIN queue /\ queue'[i] = queue[i])
      BY <1>0, <3>1, AppendProperties, LenProperties
    <3>3. UNCHANGED <<keeperPc, beats>>
      BY <2>7 DEF Enqueue
    <3> QED
      BY <2>5, <3>1, <3>2, <3>3
  <2>8. ASSUME NEW w \in Worker, AuditStep(w) \/ Heartbeat(w) PROVE LineFresh'
    <3>1. CASE TakeCase(w)
      <4>1. /\ queue # <<>> /\ queue' = Tail(queue) /\ UNCHANGED <<keeperPc, beats>>
        BY <3>1 DEF TakeCase, Take
      <4>2. \A i \in DOMAIN queue' : i + 1 \in DOMAIN queue /\ queue'[i] = queue[i + 1]
        BY <1>0, <4>1, HeadTailProperties, LenProperties, EmptySeq
      <4> QED
        BY <2>5, <4>1, <4>2
    <3>2. CASE ~TakeCase(w)
      <4>1. UNCHANGED <<keeperPc, beats, queue>>
        BY <2>8, <3>2 DEF AuditStep, Heartbeat, BeginCase, Begin, LeaveCase, Leave, StartAudit,
           Fetch, FallBack, DocumentsUnavailable, PagesRead, RetryExtraction, ExtractionFails,
           Extract, DeliveryNotConfigured, Post, DeliveryRaised, DeliveryRejected,
           DeliveryAccepted, DeliveryRecorded, Unexpected, UnexpectedMarked, Report,
           RemoveWorkDir, RestOfAudit, intakeVars
      <4> QED
        BY <2>6, <4>1
    <3> QED
      BY <3>1, <3>2
  <2>9. ASSUME LoopStep \/ ResumeStep PROVE LineFresh'
    <3>1. CASE LoopEnqueue \/ ResumeEnqueue
      BY <2>7, <3>1, EngineAssumption DEF LoopEnqueue, ResumeEnqueue
    <3>2. CASE \/ ClaimDuplicate \/ ClaimCase \/ KeepRequest \/ HandlerRaises \/ LoopJoin
               \/ ResumeWakes \/ ResumeJoin \/ ResumeRefused
      BY <2>6, <3>2 DEF ClaimDuplicate, ClaimCase, KeepRequest, HandlerRaises, LoopJoin,
         ResumeWakes, Reopen, ResumeJoin, ResumeRefused, Join, Refuse, intakeVars
    <3> QED
      BY <2>9, <3>1, <3>2 DEF LoopStep, ResumeStep
  <2>10. ASSUME BeginShutdown \/ Stop PROVE LineFresh'
    <3>1. queue' = <<>> /\ (keeperPc' # "beating" => beats' = {})
      BY <2>10 DEF BeginShutdown, Shutdown, Stop, IntakeReset, LineFresh
    <3> QED
      BY <2>1, <3>1 DEF LineFresh
  <2>11. ASSUME \/ \E e \in Sender, c \in Case, d \in Docs : Notify(e, c, d)
                \/ \E k \in Key : ImportResult(k) \/ WindowCloses(k)
                \/ RetentionSweep \/ \E c \in Case : PrunePacket(c)
                \/ WatchdogStep \/ StartStep \/ UNCHANGED vars
         PROVE  LineFresh'
    <3>1. UNCHANGED <<keeperPc, beats, queue>>
      BY <2>11 DEF Notify, ImportResult, WindowCloses, RetentionSweep, PrunePacket, WatchdogStep,
         WatchdogList, WatchdogFail, WatchdogReport, StartStep, Restart, Serve,
         ReportInterrupted, ClaimInterrupted, FailInterrupted, vars, intakeVars
    <3> QED
      BY <2>6, <3>1
  <2> QED
    BY <1>2, <2>3, <2>4, <2>8, <2>9, <2>10, <2>11 DEF Next, KeeperStepOnRows
<1> QED
  BY <1>1, <1>2

-----------------------------------------------------------------------------
LEMMA PatientIsOneSided == PatientWatchdog => OneSided
  BY DEF PatientWatchdog, OneSided

LEMMA EveryKeyStep ==
  ASSUME WatchInv, TypeOK', PatientWatchdog, [Next]_vars, NEW k \in Key
  PROVE  KeyStep(k)
<1>0. /\ TypeOK /\ ProcessInv /\ FromSenders /\ KeyInv(k) /\ (\A j \in Key : KeyInv(j))
      /\ OneSided /\ (DefaultEnv \notin Sender => LineFresh)
  BY PatientIsOneSided DEF WatchInv, BaseInv
<1>1. ASSUME NEW w \in Worker, AuditStep(w) \/ Heartbeat(w) PROVE KeyStep(k)
  BY <1>0, <1>1, TakeKeys, ReadingKeys, DeliveringKeys DEF AuditStep
<1>2. ASSUME LoopStep PROVE KeyStep(k)
  BY <1>0, <1>2, LoopKeys
<1>3. ASSUME \/ \E e \in Sender, c \in Case, d \in Docs : Notify(e, c, d)
             \/ \E j \in Key : ImportResult(j) \/ WindowCloses(j)
             \/ \E c \in Case : PrunePacket(c)
             \/ KeeperStepOnRows \/ WatchdogReport \/ ReportInterrupted \/ Serve \/ UNCHANGED vars
      PROVE  KeyStep(k)
  BY <1>0, <1>3, CallKeys
<1>4. ASSUME RetentionSweep \/ WatchdogList \/ \E j \in todo : WatchdogFail(j) PROVE KeyStep(k)
  BY <1>0, <1>4, SweepKeys
<1>5. ASSUME BeginShutdown \/ Stop \/ Restart PROVE KeyStep(k)
  BY <1>0, <1>5, StopKeys
<1>6. ASSUME NEW j \in claims, ClaimInterrupted(j) \/ FailInterrupted(j) PROVE KeyStep(k)
  BY <1>0, <1>6, ClaimKeys
<1>7. ASSUME ResumeStep PROVE KeyStep(k)
  BY <1>0, <1>7, ResumeKeys
<1>8. ASSUME Tick PROVE KeyStep(k)
  BY <1>0, <1>8, TickKeys
<1> QED
  BY <1>1, <1>2, <1>3, <1>4, <1>5, <1>6, <1>7, <1>8 DEF Next, WatchdogStep, StartStep

LEMMA WatchInit == Init => WatchInv
<1> SUFFICES ASSUME Init PROVE WatchInv
  OBVIOUS
<1>1. TypeOK
  BY InitType
<1>2. ProcessInv /\ FromSenders
  BY NoTaskAssumption DEF Init, IntakeInit, ProcessInv, FromSenders, NoRow, Present
<1>6. PoolInv
  BY EngineAssumption, WorkerAssumption DEF Init, IntakeInit, PoolInv, FirstCrew
<1>3. HeartbeatInv
  <2>1. IntakeTypeOK
    BY <1>1 DEF TypeOK
  <2>0. \A w \in crew : phase[w] = "idle"
    BY <2>1, CrewOfWorkers DEF Init, IntakeInit
  <2>2. PendingDistinct
    BY <2>0 DEF Init, IntakeInit, PendingDistinct, JoiningPending
  <2>3. HeartbeatCoversLine
    BY <2>0 DEF Init, IntakeInit, HeartbeatCoversLine, PendingLabels, PendingTasks
  <2> QED
    BY <2>1, <2>2, <2>3 DEF HeartbeatInv
<1>4. LineFresh
  BY DEF Init, IntakeInit, LineFresh, NoRow
<1>5. ASSUME NEW k \in Key PROVE KeyInv(k)
  <2>1. /\ JoinersOf(joining, k) = {} /\ Places(queue, k) = {} /\ Places(resuming, k) = {}
        /\ WorkersAt(LiveSteps, k) = {} /\ ~LoopHolds(k)
    BY DEF Init, IntakeInit, JoinersOf, Places, WorkersAt, LoopHolds
  <2>2. LineCount(k) = 0 /\ Cardinality(WorkersAt(LiveSteps, k)) = 0
    BY <2>1, FS_EmptySet DEF LineCount
  <2>3. HolderCount(k) = 0
    BY <1>1, <2>2, CountNow
  <2> QED
    BY <2>3 DEF KeyInv, Init
<1> QED
  BY <1>1, <1>2, <1>3, <1>4, <1>5, <1>6 DEF WatchInv, BaseInv

LEMMA WatchStep ==
  ASSUME PatientWatchdog, WatchInv, [Next]_vars
  PROVE  WatchInv'
<1>0. /\ TypeOK /\ ProcessInv /\ PoolInv /\ FromSenders /\ HeartbeatInv /\ (\A j \in Key : KeyInv(j))
      /\ (DefaultEnv \notin Sender => LineFresh)
  BY DEF WatchInv, BaseInv
<1>1. TypeOK'
  BY <1>0, StepType
<1>2. BaseInv'
  BY <1>0, <1>1, ProcessStep, PoolStep, SendersStep DEF BaseInv
<1>3. ASSUME NEW k \in Key PROVE KeyInv(k)'
  BY <1>0, <1>1, EveryKeyStep, KeyInvStep
<1>4. HeartbeatInv'
  BY <1>0, <1>1, HeartbeatStep
<1>5. DefaultEnv \notin Sender => LineFresh'
  BY <1>0, <1>1, LineFreshStep
<1> QED
  BY <1>2, <1>3, <1>4, <1>5 DEF WatchInv

-----------------------------------------------------------------------------
(* While the watchdog is more patient than an audit is quiet, a job has    *)
(* one audit at a time: the dedupe, the claim at start and the watchdog    *)
(* never let a second holder in, for any number of environments on one     *)
(* side, cases, workers and restarts (job_store.upsert_pending,            *)
(* resume.claim_interrupted, maintenance).                                 *)
THEOREM OneAuditHolds ==
  ASSUME PatientWatchdog
  PROVE  SafetySpec => []OneAuditPerJob
<1>1. WatchInv /\ [Next]_vars => WatchInv'
  BY WatchStep
<1>2. WatchInv => OneAuditPerJob
  BY DEF WatchInv, KeyInv, OneAuditPerJob
<1> QED
  BY <1>1, <1>2, WatchInit, PTL DEF SafetySpec

(* Under the same patience the watchdog fails no row that a thread holds   *)
(* (config.py on audit_watchdog_seconds: a slow packet is never mistaken   *)
(* for a dead one).                                                        *)
THEOREM WatchdogIsSparing ==
  ASSUME PatientWatchdog
  PROVE  SafetySpec => WatchdogSparesTheLiving
<1> DEFINE Spared == \A k \in todo : k \notin todo' /\ up' # "down" => ~Held(k)
<1>1. WatchInv /\ [Next]_vars => WatchInv'
  BY WatchStep
<1>2. WatchInv /\ WatchInv' => Spared
  <2> SUFFICES ASSUME WatchInv, WatchInv', NEW k \in todo PROVE ~Held(k)
    OBVIOUS
  <2>1. TypeOK /\ TypeOK' /\ k \in Key
    BY DEF WatchInv, BaseInv, TypeOK
  <2>2. HolderCount(k) = 0
    BY <2>1 DEF WatchInv, KeyInv
  <2> QED
    BY <2>1, <2>2, HeldCount
<1>3. WatchInv /\ [Next]_vars => [Spared]_vars
  BY <1>1, <1>2
<1> QED
  BY <1>1, <1>3, WatchInit, PTL DEF SafetySpec, WatchdogSparesTheLiving

(* The heartbeat covers the line in the engine too, whose threads submit   *)
(* only what the job store let in: the intake's own theorem assumes that   *)
(* of its callers (tasks.enqueue_case, resume.resume_claimed).             *)
THEOREM EngineHeartbeat ==
  ASSUME PatientWatchdog
  PROVE  SafetySpec => []HeartbeatCoversLine
<1>1. WatchInv /\ [Next]_vars => WatchInv'
  BY WatchStep
<1>2. WatchInv => HeartbeatCoversLine
  BY DEF WatchInv, HeartbeatInv
<1> QED
  BY <1>1, <1>2, WatchInit, PTL DEF SafetySpec
=============================================================================
