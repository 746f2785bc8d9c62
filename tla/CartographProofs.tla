--------------------------- MODULE CartographProofs --------------------------
(***************************************************************************)
(* What Cartograph hears: no more results than it asked for, and of every  *)
(* extraction that failed - for every set of environments, cases and       *)
(* workers, and with no assumption on the watchdog's patience.             *)
(***************************************************************************)
EXTENDS HolderProofs

-----------------------------------------------------------------------------
(* A result is owed for each case on its way to the delivery: ahead of the *)
(* workers, with a worker that has not posted it, or claimed at start.     *)
(* What was received and what is owed never exceeds what was accepted, and *)
(* one per stop, which may fall between the delivery and the mark.         *)
Undelivered == {"start", "fetch", "read", "extract", "deliver"}

Claimed(k) == IF k \in claims THEN 1 ELSE 0

Down == IF up = "down" THEN 1 ELSE 0

Owed(k) == LineCount(k) + Cardinality(WorkersAt(Undelivered, k)) + Claimed(k)

ResultsInv ==
  TypeOK /\ \A k \in Key : delivered[k] + Owed(k) + Down <= accepted[k] + stops

LEMMA OwedNat ==
  ASSUME TypeOK, TypeOK', NEW k \in Key
  PROVE  /\ LineCount(k) \in Nat /\ LineCount(k)' \in Nat
         /\ Cardinality(WorkersAt(Undelivered, k)) \in Nat
         /\ Cardinality(WorkersAt(Undelivered, k)') \in Nat
         /\ Claimed(k) \in 0..1 /\ Claimed(k)' \in 0..1 /\ Down \in 0..1 /\ Down' \in 0..1
         /\ delivered[k] \in Nat /\ delivered'[k] \in Nat
         /\ accepted[k] \in Nat /\ accepted'[k] \in Nat /\ stops \in Nat /\ stops' \in Nat
<1>1. Claimed(k) \in 0..1 /\ Claimed(k)' \in 0..1 /\ Down \in 0..1 /\ Down' \in 0..1
  BY DEF Claimed, Down
<1>2. /\ delivered[k] \in Nat /\ delivered'[k] \in Nat
      /\ accepted[k] \in Nat /\ accepted'[k] \in Nat /\ stops \in Nat /\ stops' \in Nat
  BY DEF TypeOK
<1> QED
  BY <1>1, <1>2, CountNat

\* A step that adds no debt the credit does not cover.
Covered(k) ==
  delivered'[k] + Owed(k)' + Down' + (accepted[k] + stops)
    <= delivered[k] + Owed(k) + Down + (accepted'[k] + stops')

LEMMA AuditCovered ==
  ASSUME TypeOK, TypeOK', NEW w \in Worker, AuditStep(w) \/ Heartbeat(w), NEW k \in Key
  PROVE  Covered(k)
<1>0. /\ UNCHANGED <<accepted, stops, claims, up, loopPc, loopTask, joining, resuming>>
      /\ \A v \in Worker : v # w => phase'[v] = phase[v] /\ slot'[v] = slot[v] /\ step'[v] = step[v]
  <2>1. UNCHANGED <<accepted, stops, claims, up, loopPc, loopTask, joining, resuming>>
    BY DEF AuditStep, Heartbeat, TakeCase, Take, BeginCase, Begin, LeaveCase, Leave, StartAudit,
       Fetch, FallBack, DocumentsUnavailable, PagesRead, RetryExtraction, ExtractionFails,
       Extract, DeliveryNotConfigured, Post, DeliveryRaised, DeliveryRejected, DeliveryAccepted,
       DeliveryRecorded, Unexpected, UnexpectedMarked, Report, RemoveWorkDir, RestOfAudit,
       intakeVars, processVars, cartographVars
  <2>2. CASE TakeCase(w) \/ BeginCase(w) \/ LeaveCase(w)
    BY <2>1, <2>2 DEF TakeCase, Take, BeginCase, Begin, LeaveCase, Leave, Goto, processVars, TypeOK,
       IntakeTypeOK
  <2>3. CASE ~(TakeCase(w) \/ BeginCase(w) \/ LeaveCase(w))
    <3>1. UNCHANGED <<phase, slot>> /\ (step' = step \/ \E s : step' = [step EXCEPT ![w] = s])
      BY <2>3 DEF AuditStep, Heartbeat, StartAudit, Fetch, FallBack, DocumentsUnavailable,
         PagesRead, RetryExtraction, ExtractionFails, Extract, DeliveryNotConfigured, Post,
         DeliveryRaised, DeliveryRejected, DeliveryAccepted, DeliveryRecorded, Unexpected,
         UnexpectedMarked, Report, RemoveWorkDir, Goto, RestOfAudit, intakeVars
    <3> QED
      BY <2>1, <3>1 DEF TypeOK
  <2> QED
    BY <2>1, <2>2, <2>3
<1> DEFINE before == w \in WorkersAt(Undelivered, k)
           after == w \in WorkersAt(Undelivered, k)'
<1>1. /\ Cardinality(WorkersAt(Undelivered, k)')
           <= Cardinality(WorkersAt(Undelivered, k)) + (IF after /\ ~before THEN 1 ELSE 0)
      /\ before /\ ~after
           => Cardinality(WorkersAt(Undelivered, k)') + 1 <= Cardinality(WorkersAt(Undelivered, k))
  BY <1>0, WorkerCount
<1>2. ASSUME delivered' = delivered,
             LineCount(k)' + (IF after /\ ~before THEN 1 ELSE 0) <= LineCount(k)
      PROVE  Covered(k)
  <2>1. Claimed(k)' = Claimed(k) /\ Down' = Down
    BY <1>0 DEF Claimed, Down
  <2> QED
    BY <1>0, <1>1, <1>2, <2>1, OwedNat DEF Covered, Owed
<1>3. CASE TakeCase(w)
  <2>1. slot'[w] = Head(queue)
    BY <1>3 DEF TakeCase, Take, TypeOK, IntakeTypeOK
  <2>2. after => Job(Head(queue)) = k
    BY <2>1 DEF WorkersAt
  <2>3. LineCount(k)' + (IF Job(Head(queue)) = k THEN 1 ELSE 0) <= LineCount(k)
    BY <1>3, TakenLine
  <2>4. LineCount(k)' + (IF after /\ ~before THEN 1 ELSE 0) <= LineCount(k)
    BY <2>2, <2>3, OwedNat
  <2> QED
    BY <1>2, <1>3, <2>4 DEF TakeCase, cartographVars
<1>4. CASE ~TakeCase(w)
  <2>1. queue' = queue
    BY <1>4 DEF AuditStep, Heartbeat, BeginCase, Begin, LeaveCase, Leave, StartAudit, Fetch,
       FallBack, DocumentsUnavailable, PagesRead, RetryExtraction, ExtractionFails, Extract,
       DeliveryNotConfigured, Post, DeliveryRaised, DeliveryRejected, DeliveryAccepted,
       DeliveryRecorded, Unexpected, UnexpectedMarked, Report, RemoveWorkDir, RestOfAudit,
       intakeVars
  <2>2. LineCount(k)' <= LineCount(k)
    BY <1>0, <2>1, LineStays DEF LoopHolds
  <2>3. after => before
    <3>1. CASE BeginCase(w)
      BY <3>1 DEF BeginCase, Begin, WorkersAt
    <3>2. CASE LeaveCase(w)
      <4>1. phase'[w] = "idle"
        BY <3>2 DEF LeaveCase, Leave, TypeOK, IntakeTypeOK
      <4> QED
        BY <4>1 DEF WorkersAt
    <3>3. CASE \/ StartAudit(w) \/ Fetch(w) \/ FallBack(w) \/ PagesRead(w) \/ RetryExtraction(w)
               \/ Extract(w) \/ Heartbeat(w)
      <4>1. phase[w] = "running" /\ step[w] \in Undelivered /\ UNCHANGED <<phase, slot>>
        BY <3>3 DEF StartAudit, Fetch, FallBack, PagesRead, RetryExtraction, Extract, Heartbeat, At,
           Undelivered, RestOfAudit, intakeVars
      <4> QED
        BY <4>1 DEF WorkersAt
    <3>4. CASE \/ DocumentsUnavailable(w) \/ ExtractionFails(w) \/ DeliveryNotConfigured(w) \/ Post(w)
               \/ DeliveryRaised(w) \/ DeliveryRecorded(w) \/ DeliveryRejected(w)
               \/ DeliveryAccepted(w) \/ Unexpected(w) \/ UnexpectedMarked(w)
               \/ Report(w) \/ RemoveWorkDir(w)
      <4>1. phase[w] = "running" /\ phase' = phase /\ step'[w] \notin Undelivered
        BY <3>4 DEF DocumentsUnavailable, ExtractionFails, DeliveryNotConfigured, Post,
           DeliveryRaised, DeliveryRejected, DeliveryAccepted, DeliveryRecorded, Unexpected,
           UnexpectedMarked, Report, RemoveWorkDir, Goto, At, TypeOK, Undelivered, RestOfAudit,
           intakeVars
      <4> QED
        BY <4>1 DEF WorkersAt
    <3> QED
      BY <1>4, <3>1, <3>2, <3>3, <3>4 DEF AuditStep
  <2>4. LineCount(k)' + (IF after /\ ~before THEN 1 ELSE 0) <= LineCount(k)
    BY <2>2, <2>3, OwedNat
  <2>5. CASE delivered' = delivered
    BY <1>2, <2>4, <2>5
  <2>6. CASE Post(w) /\ ResultReceived(w) /\ k = Job(slot[w])
    <3>1. delivered'[k] = delivered[k] + 1
      BY <2>6 DEF ResultReceived, TypeOK
    <3>2. before
      BY <2>6 DEF Post, At, WorkersAt, Undelivered
    <3>3. ~after
      <4>1. phase[w] = "running" /\ phase' = phase /\ step'[w] \notin Undelivered
        BY <2>6 DEF Post, Goto, At, TypeOK, Undelivered, RestOfAudit, intakeVars
      <4> QED
        BY <4>1 DEF WorkersAt
    <3>4. Claimed(k)' = Claimed(k) /\ Down' = Down
      BY <1>0 DEF Claimed, Down
    <3>5. Cardinality(WorkersAt(Undelivered, k)') + 1 <= Cardinality(WorkersAt(Undelivered, k))
      BY <1>1, <3>2, <3>3
    <3> QED
      BY <1>0, <2>2, <3>1, <3>4, <3>5, OwedNat DEF Covered, Owed
  <2>7. CASE Post(w) /\ ResultReceived(w) /\ k # Job(slot[w])
    <3>1. delivered'[k] = delivered[k]
      BY <2>7 DEF ResultReceived, TypeOK
    <3>2. Claimed(k)' = Claimed(k) /\ Down' = Down
      BY <1>0 DEF Claimed, Down
    <3>3. Cardinality(WorkersAt(Undelivered, k)') <= Cardinality(WorkersAt(Undelivered, k))
      BY <1>1, <2>3, OwedNat
    <3> QED
      BY <1>0, <2>2, <3>1, <3>2, <3>3, OwedNat DEF Covered, Owed
  <2>8. delivered' = delivered \/ (Post(w) /\ ResultReceived(w))
    <3>1. CASE Post(w)
      BY <3>1 DEF Post
    <3>2. CASE ~Post(w)
      BY <1>4, <3>2 DEF AuditStep, Heartbeat, BeginCase, LeaveCase, StartAudit, Fetch, FallBack,
         DocumentsUnavailable, PagesRead, RetryExtraction, ExtractionFails, Extract,
         DeliveryNotConfigured, DeliveryRaised, DeliveryRejected, DeliveryAccepted,
         DeliveryRecorded, Unexpected, UnexpectedMarked, Report, RemoveWorkDir, cartographVars
    <3> QED
      BY <3>1, <3>2
  <2> QED
    BY <2>5, <2>6, <2>7, <2>8
<1> QED
  BY <1>3, <1>4

LEMMA OthersCovered ==
  ASSUME TypeOK, TypeOK', NEW k \in Key,
         [Next]_vars, \A w \in Worker : ~AuditStep(w) /\ ~Heartbeat(w)
  PROVE  Covered(k)
<1>0. delivered' = delivered
  BY DEF Next, Notify, LoopStep, ClaimDuplicate, ClaimCase, KeepRequest, HandlerRaises, LoopJoin,
     LoopEnqueue, WatchdogStep, WatchdogList, WatchdogFail, WatchdogReport, RetentionSweep,
     PrunePacket, BeginShutdown, Stop, StartStep, Restart, Serve, ReportInterrupted,
     ClaimInterrupted, FailInterrupted, ResumeStep, ResumeWakes, Reopen, ResumeJoin,
     ResumeEnqueue, ResumeRefused, KeeperStepOnRows, KeeperSnapshot, KeeperBeat, Tick,
     ImportResult, WindowCloses, vars, cartographVars
<1>1. ASSUME UNCHANGED <<phase, slot, step>>, LineCount(k)' <= LineCount(k),
             UNCHANGED <<accepted, stops, claims>>, Down' <= Down
      PROVE  Covered(k)
  <2>1. WorkersAt(Undelivered, k)' = WorkersAt(Undelivered, k) /\ Claimed(k)' = Claimed(k)
    BY <1>1, WorkersStay DEF Claimed
  <2> QED
    BY <1>0, <1>1, <2>1, OwedNat DEF Covered, Owed
<1>2. ASSUME LoopStep PROVE Covered(k)
  <2>1. UNCHANGED <<phase, slot, step, stops, claims, up>>
    BY <1>2 DEF LoopStep, ClaimDuplicate, ClaimCase, KeepRequest, HandlerRaises, LoopJoin,
       LoopEnqueue, Join, Enqueue, intakeVars
  <2>2. Down' = Down /\ Claimed(k)' = Claimed(k)
    BY <2>1 DEF Down, Claimed
  <2>3. WorkersAt(Undelivered, k)' = WorkersAt(Undelivered, k)
    BY <2>1, WorkersStay
  <2>4. CASE ClaimCase /\ k = Job(loopTask)
    <3>1. LineCount(k)' <= LineCount(k) + 1
      <4>1. LineCount(k) \in Nat /\ LineCount(k)' \in Nat
        BY OwedNat
      <4>2. LineCount(k)' <= LineCount(k) \/ LineCount(k)' <= LineCount(k) + 1
        BY <1>2, LoopLine
      <4> QED
        BY <4>1, <4>2
    <3>2. accepted'[k] = accepted[k] + 1
      BY <2>4 DEF ClaimCase, TypeOK
    <3> QED
      BY <1>0, <2>1, <2>2, <2>3, <3>1, <3>2, OwedNat DEF Covered, Owed
  <2>5. CASE ~(ClaimCase /\ k = Job(loopTask))
    <3>1. LineCount(k)' <= LineCount(k)
      BY <1>2, <2>5, LoopLine
    <3>2. accepted'[k] = accepted[k]
      BY <1>2, <2>5 DEF LoopStep, ClaimDuplicate, ClaimCase, KeepRequest, HandlerRaises, LoopJoin,
         LoopEnqueue, cartographVars, TypeOK
    <3> QED
      BY <1>0, <2>1, <2>2, <2>3, <3>1, <3>2, OwedNat DEF Covered, Owed
  <2> QED
    BY <2>4, <2>5
<1>3. ASSUME ResumeStep PROVE Covered(k)
  <2>1. UNCHANGED <<phase, slot, step, accepted, stops, claims, up>>
    BY <1>3 DEF ResumeStep, ResumeWakes, Reopen, ResumeJoin, ResumeEnqueue, ResumeRefused, Join,
       Enqueue, Refuse, intakeVars, cartographVars
  <2>2. LineCount(k)' <= LineCount(k)
    BY <1>3, ResumeLine
  <2>3. Down' <= Down
    BY <2>1, OwedNat DEF Down
  <2> QED
    BY <1>1, <2>1, <2>2, <2>3
<1>4. ASSUME \/ \E e \in Sender, c \in Case, d \in Docs : Notify(e, c, d)
             \/ \E j \in Key : ImportResult(j) \/ WindowCloses(j)
             \/ RetentionSweep \/ \E c \in Case : PrunePacket(c)
             \/ WatchdogStep \/ KeeperStepOnRows \/ Tick \/ UNCHANGED vars
             \/ Serve \/ ReportInterrupted
      PROVE  Covered(k)
  <2>1. UNCHANGED <<phase, slot, step, accepted, stops, claims, joining, queue, resuming>>
    BY <1>4 DEF Notify, ImportResult, WindowCloses, RetentionSweep, PrunePacket, WatchdogStep,
       WatchdogList, WatchdogFail, WatchdogReport, KeeperStepOnRows, KeeperSnapshot, KeeperWake,
       KeeperBeat, KeeperTouch, Tick, KeeperAlarm, Serve, ReportInterrupted, vars, intakeVars,
       processVars, cartographVars
  <2>2. UNCHANGED <<loopPc, loopTask>> \/ loopPc' = "checked"
    BY <1>4 DEF Notify, ImportResult, WindowCloses, RetentionSweep, PrunePacket, WatchdogStep,
       WatchdogList, WatchdogFail, WatchdogReport, KeeperStepOnRows, KeeperSnapshot,
       KeeperBeat, Tick, Serve, ReportInterrupted, vars, processVars
  <2>3. up' = up \/ up' = "up"
    BY <1>4 DEF Notify, ImportResult, WindowCloses, RetentionSweep, PrunePacket, WatchdogStep,
       WatchdogList, WatchdogFail, WatchdogReport, KeeperStepOnRows, KeeperSnapshot,
       KeeperBeat, Tick, Serve, ReportInterrupted, vars
  <2>4. LineCount(k)' <= LineCount(k)
    BY <2>1, <2>2, LineStays DEF LoopHolds
  <2>5. Down' <= Down
    BY <2>3, OwedNat DEF Down
  <2> QED
    BY <1>1, <2>1, <2>4, <2>5
<1>5. ASSUME NEW j \in claims, ClaimInterrupted(j) \/ FailInterrupted(j) PROVE Covered(k)
  <2>1. /\ UNCHANGED <<phase, slot, step, accepted, stops, up>> /\ claims' = claims \ {j}
    BY <1>5 DEF ClaimInterrupted, FailInterrupted, intakeVars, cartographVars
  <2>2. WorkersAt(Undelivered, k)' = WorkersAt(Undelivered, k)
    BY <2>1, WorkersStay
  <2>3. Down' = Down /\ Claimed(k) = Claimed(k)' + (IF k = j THEN 1 ELSE 0)
    BY <2>1 DEF Down, Claimed
  <2>4. LineCount(k)' <= LineCount(k) + (IF k = j THEN 1 ELSE 0)
    <3>1. CASE ClaimInterrupted(j)
      BY <3>1, ClaimedLine
    <3>2. CASE FailInterrupted(j)
      <4>1. UNCHANGED <<joining, queue, resuming, loopPc, loopTask>>
        BY <3>2 DEF FailInterrupted, intakeVars
      <4>2. LineCount(k)' <= LineCount(k)
        BY <4>1, LineStays DEF LoopHolds
      <4> QED
        BY <4>2, OwedNat
    <3> QED
      BY <1>5, <3>1, <3>2
  <2> QED
    BY <1>0, <2>1, <2>2, <2>3, <2>4, OwedNat DEF Covered, Owed
<1>6. ASSUME Restart PROVE Covered(k)
  <2>1. /\ UNCHANGED <<phase, slot, step, accepted, stops, joining, queue, resuming, loopPc, loopTask>>
        /\ up = "down" /\ up' = "boot"
    BY <1>6 DEF Restart, intakeVars, cartographVars
  <2>2. WorkersAt(Undelivered, k)' = WorkersAt(Undelivered, k) /\ LineCount(k)' <= LineCount(k)
    BY <2>1, WorkersStay, LineStays DEF LoopHolds
  <2>3. Down = 1 /\ Down' = 0
    BY <2>1 DEF Down
  <2> QED
    BY <1>0, <2>1, <2>2, <2>3, OwedNat DEF Covered, Owed
<1>7. ASSUME BeginShutdown \/ Stop PROVE Covered(k)
  <2>0. Cardinality(Places(<<>>, k)) = 0
    <3>1. Places(<<>>, k) = {}
      BY DEF Places
    <3> QED
      BY <3>1, FS_EmptySet
  <2>1. CASE BeginShutdown
    <3>1. /\ queue' = <<>> /\ up' # "down"
          /\ UNCHANGED <<joining, resuming, phase, slot, step, loopPc, loopTask, claims, accepted, stops>>
      BY <2>1 DEF BeginShutdown, Shutdown, processVars, cartographVars
    <3>2. /\ Cardinality(Places(queue, k)) \in Nat /\ Cardinality(Places(resuming, k)) \in Nat
          /\ Cardinality(JoinersOf(joining, k)) \in Nat
      BY PlacesFinite, JoinersFinite DEF TypeOK, IntakeTypeOK
    <3>3. LineCount(k)' <= LineCount(k)
      BY <2>0, <3>1, <3>2 DEF LineCount, LoopHolds
    <3>4. Down' <= Down
      BY <3>1, OwedNat DEF Down
    <3> QED
      BY <1>1, <3>1, <3>3, <3>4
  <2>2. CASE Stop
    <3>1. /\ queue' = <<>> /\ resuming' = <<>> /\ loopPc' = "idle" /\ claims' = {}
          /\ \A s \in Submitter : joining'[s] = NoTask
          /\ \A w \in Worker : phase'[w] = "idle"
          /\ accepted' = accepted /\ stops' = stops + 1
      BY <2>2 DEF Stop, IntakeReset, cartographVars
    <3>2. JoinersOf(joining', k) = {} /\ WorkersAt(Undelivered, k)' = {} /\ ~LoopHolds(k)'
      BY <3>1 DEF JoinersOf, WorkersAt, LoopHolds
    <3>3. Cardinality(JoinersOf(joining', k)) = 0 /\ Cardinality(WorkersAt(Undelivered, k)') = 0
      BY <3>2, FS_EmptySet
    <3>4. LineCount(k)' = 0
      BY <2>0, <3>1, <3>2, <3>3 DEF LineCount
    <3>5. Claimed(k)' = 0
      BY <3>1 DEF Claimed
    <3>6. /\ delivered'[k] + Owed(k)' + Down' = delivered[k] + Down'
          /\ accepted'[k] + stops' = accepted[k] + (stops + 1)
      BY <1>0, <3>1, <3>3, <3>4, <3>5, OwedNat DEF Owed
    <3>7. Owed(k) \in Nat
      BY OwedNat DEF Owed
    <3> QED
      BY <3>6, <3>7, OwedNat DEF Covered
  <2> QED
    BY <1>7, <2>1, <2>2
<1> QED
  BY <1>2, <1>3, <1>4, <1>5, <1>6, <1>7 DEF Next, StartStep

(* Cartograph receives one result per accepted notification at most, and   *)
(* one more each time the process stops (integration.py, receive_case;     *)
(* resume.py: a case interrupted after its delivery is audited again).     *)
THEOREM ResultsAccounted == SafetySpec => []ResultsAreAccountedFor
<1>1. Init => ResultsInv
  <2> SUFFICES ASSUME Init PROVE ResultsInv
    OBVIOUS
  <2>1. TypeOK
    BY InitType
  <2>2. ASSUME NEW k \in Key PROVE delivered[k] + Owed(k) + Down <= accepted[k] + stops
    <3>1. /\ JoinersOf(joining, k) = {} /\ Places(queue, k) = {} /\ Places(resuming, k) = {}
          /\ WorkersAt(Undelivered, k) = {} /\ ~LoopHolds(k)
      BY DEF Init, IntakeInit, JoinersOf, Places, WorkersAt, LoopHolds
    <3>2. LineCount(k) = 0 /\ Cardinality(WorkersAt(Undelivered, k)) = 0
      BY <3>1, FS_EmptySet DEF LineCount
    <3>3. Claimed(k) = 0 /\ Down = 0
      BY DEF Claimed, Down, Init
    <3>4. delivered[k] = 0 /\ accepted[k] = 0 /\ stops = 0
      BY DEF Init
    <3> QED
      BY <3>2, <3>3, <3>4 DEF Owed
  <2> QED
    BY <2>1, <2>2 DEF ResultsInv
<1>2. ResultsInv /\ [Next]_vars => ResultsInv'
  <2> SUFFICES ASSUME ResultsInv, [Next]_vars PROVE ResultsInv'
    OBVIOUS
  <2>1. TypeOK /\ TypeOK'
    BY StepType DEF ResultsInv
  <2>2. ASSUME NEW k \in Key
        PROVE  delivered'[k] + Owed(k)' + Down' <= accepted'[k] + stops'
    <3>1. Covered(k)
      BY <2>1, AuditCovered, OthersCovered
    <3>2. delivered[k] + Owed(k) + Down <= accepted[k] + stops
      BY DEF ResultsInv
    <3> QED
      BY <2>1, <3>1, <3>2, OwedNat DEF Covered, Owed
  <2> QED
    BY <2>1, <2>2 DEF ResultsInv
<1>3. ResultsInv => ResultsAreAccountedFor
  <2> SUFFICES ASSUME ResultsInv, NEW k \in Key PROVE delivered[k] <= accepted[k] + stops
    BY DEF ResultsAreAccountedFor
  <2>1. /\ LineCount(k) \in Nat /\ Cardinality(WorkersAt(Undelivered, k)) \in Nat
        /\ Claimed(k) \in 0..1 /\ Down \in 0..1
    <3>1. LineCount(k) \in Nat /\ Cardinality(WorkersAt(Undelivered, k)) \in Nat
      BY CountNow DEF ResultsInv
    <3>2. Claimed(k) \in 0..1 /\ Down \in 0..1
      BY DEF Claimed, Down
    <3> QED
      BY <3>1, <3>2
  <2>2. delivered[k] \in Nat /\ accepted[k] \in Nat /\ stops \in Nat
    BY DEF ResultsInv, TypeOK
  <2>3. delivered[k] + Owed(k) + Down <= accepted[k] + stops
    BY DEF ResultsInv
  <2> QED
    BY <2>1, <2>2, <2>3 DEF Owed
<1> QED
  BY <1>1, <1>2, <1>3, PTL DEF SafetySpec
-----------------------------------------------------------------------------
(* A failure is known: Cartograph has heard of it, or somebody is about to *)
(* tell it. The watchdog and the start name one row at a time.             *)
Failed(k) == rows[k].state = "extraction_failed"

Reports(w, k) ==
  phase[w] = "running" /\ step[w] \in {"report", "reportAndClean"} /\ Job(slot[w]) = k

Known(k) == "failure" \in heard[k] \/ k \in blamed \/ \E w \in Worker : Reports(w, k)

FailureInv ==
  /\ TypeOK
  /\ \A j, k \in blamed : j = k
  /\ stops = 0 /\ ~NetworkFails => \A k \in DefaultKeys : Failed(k) => Known(k)

LEMMA DefaultKeyName ==
  ASSUME NEW k \in DefaultKeys
  PROVE  k \in Key /\ BareKey(k[2]) = k /\ PrefixEnv(k) = DefaultEnv
  BY EnvAssumption DEF DefaultKeys, BareKey, Key, JobKey, PrefixEnv

(* Only the marks of a failed extraction make a row a failed one.          *)
LEMMA OthersFail ==
  ASSUME NEW tbl \in Table, NEW k \in Key, NEW j
  PROVE  /\ \/ Touch(tbl, j)[k].state = "extraction_failed"
            \/ CloseWindow(tbl, j)[k].state = "extraction_failed"
            \/ MarkExtracting(tbl, j)[k].state = "extraction_failed"
            \/ MarkExtracted(tbl, j)[k].state = "extraction_failed"
            \/ MarkComparisonFailed(tbl, j)[k].state = "extraction_failed"
            \/ MarkDone(tbl, j)[k].state = "extraction_failed"
            \/ Aged(tbl)[k].state = "extraction_failed"
            \/ \E d : RecordRequest(tbl, j, d)[k].state = "extraction_failed"
            \/ \E old : DeleteRows(tbl, old)[k].state = "extraction_failed"
            \/ MarkExtractionFailed(tbl, j)[k].state = "extraction_failed" /\ j # k
           => tbl[k].state = "extraction_failed"
<1>1. ASSUME \/ Touch(tbl, j)[k].state = "extraction_failed"
             \/ CloseWindow(tbl, j)[k].state = "extraction_failed"
             \/ MarkDone(tbl, j)[k].state = "extraction_failed"
             \/ Aged(tbl)[k].state = "extraction_failed"
             \/ \E d : RecordRequest(tbl, j, d)[k].state = "extraction_failed"
             \/ \E old : DeleteRows(tbl, old)[k].state = "extraction_failed"
      PROVE  tbl[k].state = "extraction_failed"
  BY <1>1 DEF Touch, CloseWindow, MarkDone, Aged, RecordRequest, DeleteRows, NoRow, Table, Row
<1>2. ASSUME \/ MarkExtracting(tbl, j)[k].state = "extraction_failed"
             \/ MarkExtracted(tbl, j)[k].state = "extraction_failed"
             \/ MarkComparisonFailed(tbl, j)[k].state = "extraction_failed"
             \/ MarkExtractionFailed(tbl, j)[k].state = "extraction_failed" /\ j # k
      PROVE  tbl[k].state = "extraction_failed"
  BY <1>2 DEF MarkExtracting, MarkExtracted, MarkComparisonFailed, MarkExtractionFailed, SetState,
     Table, Row
<1> QED
  BY <1>1, <1>2

(* A step that forgets nothing, and fails only rows that are then known.   *)
LEMMA FailureKept ==
  ASSUME FailureInv, TypeOK', stops' = stops, \A j, k \in blamed' : j = k,
         \A k \in DefaultKeys : Failed(k)' =>
           \/ Known(k)'
           \/ /\ Failed(k)
              /\ heard'[k] = heard[k] /\ (k \in blamed => k \in blamed')
              /\ \A w \in Worker : Reports(w, k) => Reports(w, k)'
  PROVE  FailureInv'
<1>1. ASSUME stops = 0, ~NetworkFails, NEW k \in DefaultKeys, Failed(k)' PROVE Known(k)'
  <2>1. CASE Known(k)'
    BY <2>1
  <2>2. CASE /\ Failed(k)
             /\ heard'[k] = heard[k] /\ (k \in blamed => k \in blamed')
             /\ \A w \in Worker : Reports(w, k) => Reports(w, k)'
    <3>1. Known(k)
      BY <1>1, <2>2 DEF FailureInv
    <3> QED
      BY <2>2, <3>1 DEF Known
  <2> QED
    BY <1>1, <2>1, <2>2
<1>2. stops' = 0 /\ ~NetworkFails => \A k \in DefaultKeys : Failed(k)' => Known(k)'
  BY <1>1
<1> QED
  BY <1>2 DEF FailureInv, DefaultKeys

(* A failure notice, when the network carries it, is heard.                *)
LEMMA NoticeHeard ==
  ASSUME TypeOK, ~NetworkFails, DefaultEnv \in Configured, NEW k \in DefaultKeys, NoticeSent(k)
  PROVE  "failure" \in heard'[k]
<1>1. heard' = [heard EXCEPT ![k] = heard[k] \cup {"failure"}]
  BY DefaultKeyName DEF NoticeSent
<1> QED
  BY <1>1, DefaultKeyName DEF TypeOK

LEMMA NoticeKeeps ==
  ASSUME TypeOK, NEW j, NoticeSent(j), NEW k \in Key, "failure" \in heard[k]
  PROVE  "failure" \in heard'[k]
<1>1. heard' = heard \/ heard' = [heard EXCEPT ![j] = heard[j] \cup {"failure"}]
  BY DEF NoticeSent
<1> QED
  BY <1>1 DEF TypeOK

LEMMA AuditFailure ==
  ASSUME FailureInv, TypeOK', NEW w \in Worker, AuditStep(w) \/ Heartbeat(w),
         DefaultEnv \in Configured
  PROVE  FailureInv'
<1>0. /\ TypeOK /\ rows \in Table /\ stops' = stops /\ blamed' = blamed
      /\ \A j, k \in blamed : j = k
      /\ step \in [Worker -> Steps] /\ heard \in [Key -> SUBSET {"result", "failure"}]
  BY DEF FailureInv, TypeOK, AuditStep, Heartbeat, TakeCase, BeginCase, LeaveCase, StartAudit,
     Fetch, FallBack, DocumentsUnavailable, PagesRead, RetryExtraction, ExtractionFails, Extract,
     DeliveryNotConfigured, Post, DeliveryRaised, DeliveryRejected, DeliveryAccepted,
     DeliveryRecorded, Unexpected, UnexpectedMarked, Report, RemoveWorkDir, RestOfAudit,
     processVars
<1>1. CASE TakeCase(w) \/ BeginCase(w) \/ LeaveCase(w)
  <2>1. rows' = rows /\ heard' = heard
    BY <1>1 DEF TakeCase, BeginCase, LeaveCase, diskVars, cartographVars
  <2>2. \A v \in Worker : \A k : Reports(v, k) => Reports(v, k)'
    BY <1>0, <1>1 DEF TakeCase, Take, BeginCase, Begin, LeaveCase, Leave, At, Goto, Reports,
       processVars, TypeOK, IntakeTypeOK
  <2> QED
    BY <1>0, <2>1, <2>2, FailureKept DEF Failed
<1>2. CASE \/ DocumentsUnavailable(w) \/ ExtractionFails(w) \/ UnexpectedMarked(w)
  <2>1. /\ UNCHANGED <<phase, slot, heard>> /\ phase[w] = "running"
        /\ step'[w] \in {"report", "reportAndClean"}
        /\ \A v \in Worker : v # w => step'[v] = step[v]
    BY <1>0, <1>2 DEF DocumentsUnavailable, ExtractionFails, UnexpectedMarked, At, Goto,
       RestOfAudit, intakeVars
  <2>2. \A v \in Worker : \A k : Reports(v, k) => Reports(v, k)'
    BY <2>1 DEF Reports
  <2>3. Reports(w, Job(slot[w]))'
    BY <2>1 DEF Reports
  <2>4. \A k \in DefaultKeys : Failed(k)' => Failed(k) \/ k = Job(slot[w])
    <3>1. \/ rows' = MarkExtractionFailed(rows, Job(slot[w]))
          \/ rows' = MarkComparisonFailed(rows, Job(slot[w]))
      BY <1>2 DEF DocumentsUnavailable, ExtractionFails, UnexpectedMarked
    <3> QED
      BY <1>0, <3>1, OthersFail, DefaultKeyName DEF Failed
  <2> QED
    BY <1>0, <2>1, <2>2, <2>3, <2>4, FailureKept DEF Known
<1>3. CASE \/ StartAudit(w) \/ Heartbeat(w) \/ RetryExtraction(w) \/ Extract(w)
           \/ DeliveryNotConfigured(w) \/ DeliveryRaised(w) \/ DeliveryRecorded(w)
           \/ DeliveryRejected(w) \/ DeliveryAccepted(w) \/ Unexpected(w)
           \/ Fetch(w) \/ FallBack(w) \/ PagesRead(w) \/ RemoveWorkDir(w)
  <2>1. /\ UNCHANGED <<phase, slot, heard>>
        /\ step[w] \notin {"report", "reportAndClean"}
        /\ \A v \in Worker : v # w => step'[v] = step[v]
    BY <1>0, <1>3 DEF StartAudit, Heartbeat, RetryExtraction, Extract, DeliveryNotConfigured,
       DeliveryRaised, DeliveryRecorded, DeliveryRejected, DeliveryAccepted, Unexpected, LiveSteps,
       Fetch, FallBack, PagesRead, RemoveWorkDir, At, Goto, RestOfAudit, intakeVars
  <2>2. \A v \in Worker : \A k : Reports(v, k) => Reports(v, k)'
    BY <2>1 DEF Reports
  <2>3. \A k \in DefaultKeys : Failed(k)' => Failed(k)
    <3>1. \/ rows' = rows
          \/ \E j : \/ rows' = Touch(rows, j) \/ rows' = MarkExtracting(rows, j)
                    \/ rows' = MarkExtracted(rows, j) \/ rows' = MarkComparisonFailed(rows, j)
                    \/ rows' = MarkDone(rows, j)
      BY <1>3 DEF StartAudit, Heartbeat, RetryExtraction, Extract, DeliveryNotConfigured,
         DeliveryRaised, DeliveryRecorded, RecordDelivery, DeliveryRejected, DeliveryAccepted,
         Unexpected, Fetch, FallBack, PagesRead, RemoveWorkDir, diskVars
    <3> QED
      BY <1>0, <3>1, OthersFail, DefaultKeyName DEF Failed
  <2> QED
    BY <1>0, <2>1, <2>2, <2>3, FailureKept
<1>4. CASE Post(w)
  <2>1. /\ UNCHANGED <<phase, slot, rows>>
        /\ step[w] \notin {"report", "reportAndClean"}
        /\ \A v \in Worker : v # w => step'[v] = step[v]
    BY <1>0, <1>4 DEF Post, At, Goto, RestOfAudit, intakeVars, diskVars
  <2>2. \A v \in Worker : \A k : Reports(v, k) => Reports(v, k)'
    BY <2>1 DEF Reports
  <2>3. \A k \in Key : "failure" \in heard[k] => "failure" \in heard'[k]
    <3>1. heard' = heard \/ heard' = [heard EXCEPT ![Job(slot[w])] = @ \cup {"result"}]
      BY <1>4 DEF Post, ResultReceived
    <3> QED
      BY <1>0, <3>1
  <2>4. \A k \in DefaultKeys : Known(k) => Known(k)'
    BY <1>0, <2>2, <2>3, DefaultKeyName DEF Known
  <2>5. stops' = 0 /\ ~NetworkFails => \A k \in DefaultKeys : Failed(k)' => Known(k)'
    BY <1>0, <2>1, <2>4 DEF FailureInv, Failed
  <2> QED
    BY <1>0, <2>5 DEF FailureInv, DefaultKeys
<1>5. CASE Report(w)
  <2>1. /\ UNCHANGED <<phase, slot, rows>> /\ NoticeSent(Job(slot[w]))
        /\ \A v \in Worker : v # w => step'[v] = step[v]
    BY <1>0, <1>5 DEF Report, At, Goto, RestOfAudit, intakeVars, diskVars
  <2>2. \A v \in Worker : \A k : v # w /\ Reports(v, k) => Reports(v, k)'
    BY <2>1 DEF Reports
  <2>3. \A k \in Key : "failure" \in heard[k] => "failure" \in heard'[k]
    BY <1>0, <2>1, NoticeKeeps
  <2>4. ASSUME ~NetworkFails, NEW k \in DefaultKeys, Known(k) PROVE Known(k)'
    <3>1. CASE Reports(w, k)
      <4>1. k = Job(slot[w])
        BY <3>1 DEF Reports
      <4> QED
        BY <1>0, <2>1, <2>4, <4>1, NoticeHeard DEF Known
    <3>2. CASE ~Reports(w, k)
      BY <1>0, <2>2, <2>3, <2>4, <3>2, DefaultKeyName DEF Known
    <3> QED
      BY <3>1, <3>2
  <2>5. stops' = 0 /\ ~NetworkFails => \A k \in DefaultKeys : Failed(k)' => Known(k)'
    BY <1>0, <2>1, <2>4 DEF FailureInv, Failed
  <2> QED
    BY <1>0, <2>5 DEF FailureInv, DefaultKeys
<1> QED
  BY <1>1, <1>2, <1>3, <1>4, <1>5 DEF AuditStep

LEMMA OthersFailure ==
  ASSUME FailureInv, TypeOK', [Next]_vars, DefaultEnv \in Configured,
         \A w \in Worker : ~AuditStep(w) /\ ~Heartbeat(w)
  PROVE  FailureInv'
<1>0. /\ TypeOK /\ rows \in Table /\ stops \in Nat
      /\ \A j, k \in blamed : j = k
      /\ heard \in [Key -> SUBSET {"result", "failure"}]
  BY DEF FailureInv, TypeOK
<1>1. ASSUME UNCHANGED <<phase, slot, step, stops, heard>>,
             blamed' = blamed,
             \A k \in DefaultKeys : Failed(k)' => Failed(k)
      PROVE  FailureInv'
  <2>1. \A v \in Worker : \A k : Reports(v, k) => Reports(v, k)'
    BY <1>1 DEF Reports
  <2> QED
    BY <1>0, <1>1, <2>1, FailureKept
<1>2. ASSUME LoopStep PROVE FailureInv'
  <2>1. UNCHANGED <<phase, slot, step, stops, blamed>>
    BY <1>2 DEF LoopStep, ClaimDuplicate, ClaimCase, KeepRequest, HandlerRaises, LoopJoin,
       LoopEnqueue, Join, Enqueue, intakeVars
  <2>2. CASE ClaimCase
    <3>1. /\ rows' = UpsertPending(rows, Job(loopTask), sent) /\ ~IsOwned(rows, Job(loopTask))
          /\ heard' = [heard EXCEPT ![Job(loopTask)] = {}]
      BY <2>2 DEF ClaimCase
    <3>2. ASSUME NEW k \in DefaultKeys, Failed(k)' PROVE Failed(k) /\ heard'[k] = heard[k]
      <4>1. k # Job(loopTask)
        BY <1>0, <3>1, <3>2, DefaultKeyName DEF UpsertPending, Failed, Table
      <4>2. rows'[k] = rows[k]
        BY <1>0, <3>1, <4>1, DefaultKeyName, UpsertKept
      <4> QED
        BY <1>0, <3>1, <3>2, <4>1, <4>2, DefaultKeyName DEF Failed
    <3>3. \A v \in Worker : \A k : Reports(v, k) => Reports(v, k)'
      BY <2>1 DEF Reports
    <3> QED
      BY <1>0, <2>1, <3>2, <3>3, FailureKept
  <2>3. CASE ~ClaimCase
    <3>1. /\ heard' = heard
          /\ rows' = rows \/ \E d : rows' = RecordRequest(rows, Job(loopTask), d)
      BY <1>2, <2>3 DEF LoopStep, ClaimDuplicate, KeepRequest, HandlerRaises, LoopJoin,
         LoopEnqueue, diskVars, cartographVars
    <3>2. ASSUME NEW k \in DefaultKeys, Failed(k)' PROVE Failed(k)
      <4>1. CASE rows' = rows
        BY <3>2, <4>1 DEF Failed
      <4>2. CASE rows' # rows
        <5>1. PICK d : rows' = RecordRequest(rows, Job(loopTask), d)
          BY <3>1, <4>2
        <5>2. k \in Key /\ RecordRequest(rows, Job(loopTask), d)[k].state = "extraction_failed"
          BY <3>2, <5>1, DefaultKeyName DEF Failed
        <5>3. rows[k].state = "extraction_failed"
          BY <1>0, <5>2 DEF RecordRequest, NoRow, Table, Row
        <5> QED
          BY <5>3 DEF Failed
      <4> QED
        BY <4>1, <4>2
    <3> QED
      BY <1>1, <2>1, <3>1, <3>2
  <2> QED
    BY <2>2, <2>3
<1>3. ASSUME \/ \E e \in Sender, c \in Case, d \in Docs : Notify(e, c, d)
             \/ \E j \in Key : ImportResult(j) \/ WindowCloses(j)
             \/ RetentionSweep \/ \E c \in Case : PrunePacket(c)
             \/ WatchdogList \/ KeeperStepOnRows \/ Tick \/ UNCHANGED vars
             \/ Serve \/ Restart \/ BeginShutdown \/ ResumeStep
             \/ \E j \in claims : ClaimInterrupted(j)
      PROVE  FailureInv'
  <2>1. UNCHANGED <<phase, slot, step, stops, heard, blamed>>
    BY <1>3 DEF Notify, ImportResult, WindowCloses, RetentionSweep, PrunePacket, WatchdogList,
       KeeperStepOnRows, KeeperSnapshot, KeeperWake, KeeperBeat, KeeperTouch, Tick, KeeperAlarm,
       Serve, Restart, BeginShutdown, Shutdown, ResumeStep, ResumeWakes, Reopen, ResumeJoin,
       ResumeEnqueue, ResumeRefused, Join, Enqueue, Refuse, ClaimInterrupted, vars, intakeVars,
       processVars, cartographVars
  <2>2. \/ rows' = rows \/ rows' = Aged(rows) \/ \E old : rows' = DeleteRows(rows, old)
        \/ \E j : rows' = Touch(rows, j) \/ rows' = CloseWindow(rows, j)
    <3>1. CASE RetentionSweep \/ Tick
      BY <3>1 DEF RetentionSweep, Tick
    <3>2. CASE ~(RetentionSweep \/ Tick)
      BY <1>3, <3>2 DEF Notify, ImportResult, WindowCloses, PrunePacket, WatchdogList,
         KeeperStepOnRows, KeeperSnapshot, KeeperBeat, Serve, Restart, BeginShutdown, ResumeStep,
         ResumeWakes, Reopen, ResumeJoin, ResumeEnqueue, ResumeRefused, ClaimInterrupted,
         RecordImportResult, vars, diskVars
    <3> QED
      BY <3>1, <3>2
  <2>3. \A k \in DefaultKeys : Failed(k)' => Failed(k)
    BY <1>0, <2>2, OthersFail, DefaultKeyName DEF Failed
  <2> QED
    BY <1>1, <2>1, <2>3
<1>4. ASSUME NEW j, WatchdogFail(j) \/ FailInterrupted(j) PROVE FailureInv'
  <2>1. /\ UNCHANGED <<phase, slot, step, stops, heard>> /\ blamed = {} /\ blamed' = {j}
        /\ rows' = MarkExtractionFailed(rows, j)
    BY <1>4 DEF WatchdogFail, FailInterrupted, intakeVars, cartographVars
  <2>2. \A k \in DefaultKeys : Failed(k)' => Failed(k) \/ k = j
    BY <1>0, <2>1, OthersFail, DefaultKeyName DEF Failed
  <2>3. \A v \in Worker : \A k : Reports(v, k) => Reports(v, k)'
    BY <2>1 DEF Reports
  <2> QED
    BY <1>0, <2>1, <2>2, <2>3, FailureKept DEF Known
<1>5. ASSUME WatchdogReport \/ ReportInterrupted PROVE FailureInv'
  <2>1. /\ UNCHANGED <<phase, slot, step, stops, rows>> /\ blamed' = {}
        /\ \E j \in blamed : NoticeSent(j) \/ NoticeSent(BareKey(j[2]))
    BY <1>5 DEF WatchdogReport, ReportInterrupted, intakeVars, diskVars
  <2>2. PICK j \in blamed : NoticeSent(j) \/ NoticeSent(BareKey(j[2]))
    BY <2>1
  <2>3. \A k \in Key : "failure" \in heard[k] => "failure" \in heard'[k]
    BY <1>0, <2>2, NoticeKeeps
  <2>4. ASSUME ~NetworkFails, NEW k \in DefaultKeys, Known(k) PROVE Known(k)'
    <3>1. CASE k \in blamed
      <4>1. NoticeSent(k)
        BY <1>0, <2>2, <3>1, DefaultKeyName
      <4> QED
        BY <1>0, <2>4, <4>1, NoticeHeard DEF Known
    <3>2. CASE k \notin blamed
      BY <2>1, <2>3, <2>4, <3>2, DefaultKeyName DEF Known, Reports
    <3> QED
      BY <3>1, <3>2
  <2>5. stops' = 0 /\ ~NetworkFails => \A k \in DefaultKeys : Failed(k)' => Known(k)'
    BY <2>1, <2>4 DEF FailureInv, Failed
  <2> QED
    BY <2>1, <2>5 DEF FailureInv, DefaultKeys
<1>6. ASSUME Stop PROVE FailureInv'
  <2>1. stops' = stops + 1 /\ blamed' = {}
    BY <1>6 DEF Stop
  <2> QED
    BY <1>0, <2>1 DEF FailureInv
<1> QED
  BY <1>2, <1>3, <1>4, <1>5, <1>6 DEF Next, WatchdogStep, StartStep

(* While the process has not stopped and the network carries every call,   *)
(* Cartograph hears of every extraction that failed in the default         *)
(* environment - whoever failed it: the audit, an exception nobody         *)
(* expected, or the watchdog (README.md: a case never stops silently).     *)
THEOREM FailuresReported ==
  ASSUME DefaultEnv \in Configured
  PROVE  SafetySpec => []ExtractionFailureIsReported
<1>1. Init => FailureInv
  BY InitType, DefaultKeyName DEF Init, FailureInv, Failed, NoRow
<1>2. FailureInv /\ [Next]_vars => FailureInv'
  <2> SUFFICES ASSUME FailureInv, [Next]_vars PROVE FailureInv'
    OBVIOUS
  <2>1. TypeOK'
    BY StepType DEF FailureInv
  <2> QED
    BY <2>1, AuditFailure, OthersFailure
<1>3. FailureInv => ExtractionFailureIsReported
  BY DEF FailureInv, ExtractionFailureIsReported, Failed, Known, Reports
<1> QED
  BY <1>1, <1>2, <1>3, PTL DEF SafetySpec
=============================================================================
