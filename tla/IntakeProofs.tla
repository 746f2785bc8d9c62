---------------------------- MODULE IntakeProofs ----------------------------
(***************************************************************************)
(* What is proved of the intake, for any number of workers and submitters  *)
(* and any cases: its types, that the heartbeat covers the line, that      *)
(* nothing leaves the line unaudited, and that it is a bounded FIFO line.  *)
(***************************************************************************)
EXTENDS Intake, TLAPS, SequenceTheorems, FiniteSetTheorems, FunctionTheorems

(* A task's label is an environment and a case.                            *)
LEMMA LabelType == \A t \in Task : Label(t) \in Env \X Case
  BY DEF Task, Label

LEMMA NotifiedTaskType ==
  ASSUME NEW e \in Env, NEW c \in Case, NEW d \in Docs
  PROVE  /\ NotifiedTask(e, c, d) \in Task
         /\ Label(NotifiedTask(e, c, d)) = <<e, c>>
  BY DEF Task, Label, NotifiedTask

LEMMA CrewOfWorkers ==
  ASSUME IntakeTypeOK
  PROVE  crew \subseteq Worker
  BY WorkerAssumption DEF IntakeTypeOK, FirstCrew

-----------------------------------------------------------------------------
(* Each operation of the intake keeps the types; the engine's proof cites  *)
(* these for the steps that use them.                                      *)
LEMMA JoinType ==
  ASSUME IntakeTypeOK, NEW s \in Submitter, NEW t \in Task, Join(s, t)
  PROVE  IntakeTypeOK'
  BY LabelType DEF IntakeTypeOK, Join

LEMMA SubmitterType ==
  ASSUME IntakeTypeOK, NEW s \in Submitter, Enqueue(s) \/ Refuse(s)
  PROVE  IntakeTypeOK'
<1>1. ASSUME Enqueue(s) PROVE IntakeTypeOK'
  <2>1. joining[s] \in Task
    BY <1>1 DEF IntakeTypeOK, Enqueue
  <2> QED
    BY <1>1, <2>1, AppendProperties DEF IntakeTypeOK, Enqueue
<1>2. ASSUME Refuse(s) PROVE IntakeTypeOK'
  BY <1>2 DEF IntakeTypeOK, Refuse
<1> QED
  BY <1>1, <1>2

LEMMA TakeType ==
  ASSUME IntakeTypeOK, NEW w \in Worker, Take(w)
  PROVE  IntakeTypeOK'
<1>1. Head(queue) \in Task /\ Tail(queue) \in Seq(Task)
  BY HeadTailProperties DEF IntakeTypeOK, Take
<1>2. Head(queue) # NoTask
  BY <1>1, NoTaskAssumption
<1> QED
  BY <1>1, <1>2 DEF IntakeTypeOK, Take

LEMMA BeginType ==
  ASSUME IntakeTypeOK, NEW w \in Worker, Begin(w)
  PROVE  IntakeTypeOK'
<1>1. slot[w] \in Task
  BY DEF IntakeTypeOK, Begin
<1>2. Label(slot[w]) \in Env \X Case
  BY <1>1, LabelType
<1> QED
  BY <1>2 DEF IntakeTypeOK, Begin

LEMMA LeaveType ==
  ASSUME IntakeTypeOK, NEW w \in Worker, Leave(w)
  PROVE  IntakeTypeOK'
  BY DEF IntakeTypeOK, Leave

LEMMA KeeperType ==
  ASSUME IntakeTypeOK, KeeperAlarm \/ KeeperWake \/ \E l \in beats : KeeperTouch(l)
  PROVE  IntakeTypeOK'
  BY DEF IntakeTypeOK, KeeperAlarm, KeeperWake, KeeperTouch

LEMMA ShutdownType ==
  ASSUME IntakeTypeOK, Shutdown
  PROVE  IntakeTypeOK'
<1>1. << >> \in Seq(Task)
  BY EmptySeq
<1> QED
  BY <1>1 DEF IntakeTypeOK, Shutdown

LEMMA ResetType ==
  ASSUME IntakeReset
  PROVE  IntakeTypeOK'
<1>1. << >> \in Seq(Task)
  BY EmptySeq
<1> QED
  BY <1>1 DEF IntakeTypeOK, IntakeReset

LEMMA ReopenType ==
  ASSUME IntakeTypeOK, Reopen
  PROVE  IntakeTypeOK'
  BY DEF IntakeTypeOK, Reopen

LEMMA IntakeInitType ==
  ASSUME IntakeInit
  PROVE  IntakeTypeOK
<1>1. << >> \in Seq(Task)
  BY EmptySeq
<1> QED
  BY <1>1 DEF IntakeTypeOK, IntakeInit

LEMMA IntakeStutterType ==
  ASSUME IntakeTypeOK, UNCHANGED intakeVars
  PROVE  IntakeTypeOK'
  BY DEF IntakeTypeOK, intakeVars

LEMMA IntakeStepType ==
  ASSUME IntakeTypeOK, [IntakeNext]_intakeVars
  PROVE  IntakeTypeOK'
<1>1. ASSUME NEW s \in Submitter, Submit(s) PROVE IntakeTypeOK'
  <2>1. PICK e \in Env, c \in Case, d \in Docs : Join(s, NotifiedTask(e, c, d))
    BY <1>1 DEF Submit
  <2> QED
    BY <2>1, NotifiedTaskType, JoinType
<1>2. ASSUME NEW s \in Submitter, Enqueue(s) \/ Refuse(s) PROVE IntakeTypeOK'
  BY <1>2, SubmitterType
<1>3. ASSUME NEW w \in Worker, WorkerStep(w) PROVE IntakeTypeOK'
  BY <1>3, TakeType, BeginType, LeaveType DEF WorkerStep
<1>4. ASSUME KeeperAlarm \/ KeeperStep PROVE IntakeTypeOK'
  BY <1>4, KeeperType DEF KeeperStep
<1>5. ASSUME Shutdown PROVE IntakeTypeOK'
  BY <1>5, ShutdownType
<1>6. ASSUME UNCHANGED intakeVars PROVE IntakeTypeOK'
  BY <1>6, IntakeStutterType
<1> QED
  BY <1>1, <1>2, <1>3, <1>4, <1>5, <1>6 DEF IntakeNext

(* The intake's state always has its type.                                 *)
THEOREM IntakeTypes == IntakeSafetySpec => []IntakeTypeOK
<1>1. IntakeInit => IntakeTypeOK
  BY IntakeInitType
<1>2. IntakeTypeOK /\ [IntakeNext]_intakeVars => IntakeTypeOK'
  BY IntakeStepType
<1> QED
  BY <1>1, <1>2, PTL DEF IntakeSafetySpec

-----------------------------------------------------------------------------
(* The strengthening of HeartbeatCoversLine: no two pending cases have one *)
(* label, so removing the label of the case that begins removes no other   *)
(* case's heartbeat.                                                       *)
JoiningPending(s) == joining[s] # NoTask

PendingDistinct ==
  /\ \A s, r \in Submitter :
       JoiningPending(s) /\ JoiningPending(r) /\ s # r => Label(joining[s]) # Label(joining[r])
  /\ \A i, j \in DOMAIN queue : i # j => Label(queue[i]) # Label(queue[j])
  /\ \A v, w \in crew :
       phase[v] = "taken" /\ phase[w] = "taken" /\ v # w => Label(slot[v]) # Label(slot[w])
  /\ \A s \in Submitter, i \in DOMAIN queue :
       JoiningPending(s) => Label(joining[s]) # Label(queue[i])
  /\ \A s \in Submitter, w \in crew :
       JoiningPending(s) /\ phase[w] = "taken" => Label(joining[s]) # Label(slot[w])
  /\ \A i \in DOMAIN queue, w \in crew :
       phase[w] = "taken" => Label(queue[i]) # Label(slot[w])

HeartbeatInv == IntakeTypeOK /\ PendingDistinct /\ HeartbeatCoversLine

(* Where a pending label is.                                               *)
LEMMA PendingLabel ==
  ASSUME NEW l
  PROVE  l \in PendingLabels <=>
           \/ \E s \in Submitter : JoiningPending(s) /\ l = Label(joining[s])
           \/ \E i \in DOMAIN queue : l = Label(queue[i])
           \/ \E w \in crew : phase[w] = "taken" /\ l = Label(slot[w])
  BY DEF PendingLabels, PendingTasks, JoiningPending

LEMMA NextPendingLabel ==
  ASSUME NEW l
  PROVE  l \in PendingLabels' <=>
           \/ \E s \in Submitter : JoiningPending(s)' /\ l = Label(joining'[s])
           \/ \E i \in DOMAIN queue' : l = Label(queue'[i])
           \/ \E w \in crew' : phase'[w] = "taken" /\ l = Label(slot'[w])
  BY DEF PendingLabels, PendingTasks, JoiningPending, Label

(* What each step does to the pending labels and their distinctness.       *)
LEMMA JoinPending ==
  ASSUME HeartbeatInv, NEW s \in Submitter, NEW t \in Task, Label(t) \notin PendingLabels,
         Join(s, t)
  PROVE  HeartbeatInv'
<1>1. IntakeTypeOK'
  BY JoinType DEF HeartbeatInv
<1>2. /\ joining' = [joining EXCEPT ![s] = t] /\ joining[s] = NoTask /\ t # NoTask
      /\ queue' = queue /\ slot' = slot /\ phase' = phase /\ stopped' = stopped /\ crew' = crew
      /\ joining \in [Submitter -> Task \cup {NoTask}]
  BY NoTaskAssumption DEF Join, HeartbeatInv, IntakeTypeOK
<1>3. \A l : l \in PendingLabels' <=> l \in PendingLabels \/ l = Label(t)
  BY <1>2, PendingLabel, NextPendingLabel DEF JoiningPending
<1>4. HeartbeatCoversLine'
  BY <1>2, <1>3 DEF HeartbeatInv, HeartbeatCoversLine, Join
<1>5. PendingDistinct'
  <2>1. \A r \in Submitter : JoiningPending(r) => Label(joining[r]) # Label(t)
    BY PendingLabel
  <2>2. \A i \in DOMAIN queue : Label(queue[i]) # Label(t)
    BY PendingLabel
  <2>3. \A w \in crew : phase[w] = "taken" => Label(slot[w]) # Label(t)
    BY PendingLabel
  <2> QED
    BY <1>2, <2>1, <2>2, <2>3 DEF HeartbeatInv, PendingDistinct, JoiningPending, Label
<1> QED
  BY <1>1, <1>4, <1>5 DEF HeartbeatInv

LEMMA EnqueuePending ==
  ASSUME HeartbeatInv, NEW s \in Submitter, Enqueue(s)
  PROVE  HeartbeatInv'
<1>1. IntakeTypeOK'
  BY SubmitterType DEF HeartbeatInv
<1>2. /\ joining' = [joining EXCEPT ![s] = NoTask] /\ JoiningPending(s)
      /\ slot' = slot /\ phase' = phase /\ stopped' = stopped /\ crew' = crew /\ waiting' = waiting
      /\ joining \in [Submitter -> Task \cup {NoTask}] /\ queue \in Seq(Task)
      /\ queue' = Append(queue, joining[s]) /\ joining[s] \in Task
  BY DEF Enqueue, HeartbeatInv, IntakeTypeOK, JoiningPending
<1>3. /\ DOMAIN queue = 1..Len(queue) /\ DOMAIN queue' = 1..(Len(queue) + 1)
      /\ \A i \in DOMAIN queue : queue'[i] = queue[i]
      /\ queue'[Len(queue) + 1] = joining[s]
      /\ Len(queue) \in Nat
  BY <1>2, AppendProperties, LenProperties
<1>4. \A i \in DOMAIN queue' : i \in DOMAIN queue \/ i = Len(queue) + 1
  BY <1>3
<1>5. \A l : l \in PendingLabels' <=> l \in PendingLabels
  <2> SUFFICES ASSUME NEW l PROVE l \in PendingLabels' <=> l \in PendingLabels
    OBVIOUS
  <2>1. ASSUME l \in PendingLabels' PROVE l \in PendingLabels
    BY <1>2, <1>3, <1>4, <2>1, PendingLabel, NextPendingLabel DEF JoiningPending
  <2>2. ASSUME l \in PendingLabels PROVE l \in PendingLabels'
    <3>1. CASE l = Label(joining[s])
      <4>1. Len(queue) + 1 \in DOMAIN queue'
        BY <1>3
      <4> QED
        BY <1>3, <3>1, <4>1, NextPendingLabel
    <3>2. CASE \E r \in Submitter : JoiningPending(r) /\ r # s /\ l = Label(joining[r])
      BY <1>2, <3>2, NextPendingLabel DEF JoiningPending
    <3>3. CASE \E i \in DOMAIN queue : l = Label(queue[i])
      <4>1. PICK i \in DOMAIN queue : l = Label(queue[i])
        BY <3>3
      <4>2. i \in DOMAIN queue' /\ l = Label(queue'[i])
        BY <1>3, <4>1
      <4> QED
        BY <4>2, NextPendingLabel
    <3>4. CASE \E w \in crew : phase[w] = "taken" /\ l = Label(slot[w])
      BY <1>2, <3>4, NextPendingLabel
    <3> QED
      BY <2>2, <3>1, <3>2, <3>3, <3>4, PendingLabel
  <2> QED
    BY <2>1, <2>2
<1>6. HeartbeatCoversLine'
  BY <1>2, <1>5 DEF HeartbeatInv, HeartbeatCoversLine
<1>7. PendingDistinct'
  BY <1>2, <1>3, <1>4 DEF HeartbeatInv, PendingDistinct, JoiningPending, Label
<1> QED
  BY <1>1, <1>6, <1>7 DEF HeartbeatInv

LEMMA TakePending ==
  ASSUME HeartbeatInv, NEW w \in Worker, Take(w)
  PROVE  HeartbeatInv'
<1>1. IntakeTypeOK'
  BY TakeType DEF HeartbeatInv
<1>2. /\ slot' = [slot EXCEPT ![w] = Head(queue)] /\ phase' = [phase EXCEPT ![w] = "taken"]
      /\ phase[w] = "idle" /\ queue # << >> /\ queue' = Tail(queue) /\ queue \in Seq(Task)
      /\ joining' = joining /\ stopped' = stopped /\ crew' = crew /\ waiting' = waiting
      /\ slot \in [Worker -> Task \cup {NoTask}] /\ w \in crew /\ crew \subseteq Worker
      /\ phase \in [Worker -> {"idle", "taken", "running"}]
  BY CrewOfWorkers DEF Take, HeartbeatInv, IntakeTypeOK
<1>3. /\ DOMAIN queue = 1..Len(queue) /\ DOMAIN queue' = 1..(Len(queue) - 1)
      /\ \A i \in DOMAIN queue' : queue'[i] = queue[i + 1]
      /\ Head(queue) = queue[1]
      /\ Len(queue) \in Nat /\ Len(queue) # 0
  BY <1>2, HeadTailProperties, LenProperties, EmptySeq
<1>4. /\ 1 \in DOMAIN queue
      /\ \A i \in DOMAIN queue' : i + 1 \in DOMAIN queue /\ i + 1 # 1
      /\ \A i, j \in DOMAIN queue' : i # j => i + 1 # j + 1
      /\ \A i \in DOMAIN queue : i = 1 \/ (i - 1 \in DOMAIN queue' /\ (i - 1) + 1 = i)
  BY <1>3
<1>5. \A l : l \in PendingLabels' <=> l \in PendingLabels
  <2> SUFFICES ASSUME NEW l PROVE l \in PendingLabels' <=> l \in PendingLabels
    OBVIOUS
  <2>1. ASSUME NEW i \in DOMAIN queue', l = Label(queue'[i]) PROVE l \in PendingLabels
    BY <1>3, <1>4, <2>1, PendingLabel
  <2>2. ASSUME NEW v \in crew, phase'[v] = "taken", l = Label(slot'[v])
        PROVE  l \in PendingLabels
    <3>1. CASE v = w
      BY <1>2, <1>3, <1>4, <2>2, <3>1, PendingLabel
    <3>2. CASE v # w
      BY <1>2, <2>2, <3>2, PendingLabel
    <3> QED
      BY <3>1, <3>2
  <2>3. ASSUME NEW i \in DOMAIN queue, l = Label(queue[i]) PROVE l \in PendingLabels'
    <3>1. CASE i = 1
      <4>1. phase'[w] = "taken" /\ slot'[w] = queue[1] /\ w \in crew'
        BY <1>2, <1>3
      <4> QED
        BY <2>3, <3>1, <4>1, NextPendingLabel
    <3>2. CASE i # 1
      <4>1. i - 1 \in DOMAIN queue' /\ queue'[i - 1] = queue[i]
        BY <1>3, <1>4, <3>2
      <4> QED
        BY <2>3, <4>1, NextPendingLabel
    <3> QED
      BY <3>1, <3>2
  <2>4. ASSUME NEW v \in crew, phase[v] = "taken", l = Label(slot[v])
        PROVE  l \in PendingLabels'
    BY <1>2, <2>4, NextPendingLabel
  <2>5. \A s \in Submitter : JoiningPending(s)' <=> JoiningPending(s)
    BY <1>2 DEF JoiningPending
  <2> QED
    BY <1>2, <2>1, <2>2, <2>3, <2>4, <2>5, PendingLabel, NextPendingLabel
<1>6. HeartbeatCoversLine'
  BY <1>2, <1>5 DEF HeartbeatInv, HeartbeatCoversLine
<1>7. \A v \in crew :
        phase'[v] = "taken" => \/ v = w /\ slot'[v] = queue[1]
                               \/ v # w /\ phase[v] = "taken" /\ slot'[v] = slot[v]
  BY <1>2, <1>3
<1>8. \A i, j \in DOMAIN queue' : i # j => Label(queue'[i]) # Label(queue'[j])
  BY <1>3, <1>4 DEF HeartbeatInv, PendingDistinct
<1>9. \A v, x \in crew :
        phase'[v] = "taken" /\ phase'[x] = "taken" /\ v # x => Label(slot'[v]) # Label(slot'[x])
  BY <1>4, <1>7 DEF HeartbeatInv, PendingDistinct
<1>10. \A s \in Submitter, i \in DOMAIN queue' :
         JoiningPending(s) => Label(joining[s]) # Label(queue'[i])
  BY <1>3, <1>4 DEF HeartbeatInv, PendingDistinct
<1>11. \A s \in Submitter, v \in crew :
         JoiningPending(s) /\ phase'[v] = "taken" => Label(joining[s]) # Label(slot'[v])
  BY <1>4, <1>7 DEF HeartbeatInv, PendingDistinct
<1>12. \A i \in DOMAIN queue', v \in crew :
         phase'[v] = "taken" => Label(queue'[i]) # Label(slot'[v])
  BY <1>3, <1>4, <1>7 DEF HeartbeatInv, PendingDistinct
<1>13. PendingDistinct'
  BY <1>2, <1>8, <1>9, <1>10, <1>11, <1>12
     DEF HeartbeatInv, PendingDistinct, JoiningPending, Label
<1> QED
  BY <1>1, <1>6, <1>13 DEF HeartbeatInv

LEMMA BeginPending ==
  ASSUME HeartbeatInv, NEW w \in Worker, Begin(w)
  PROVE  HeartbeatInv'
<1>1. IntakeTypeOK'
  BY BeginType DEF HeartbeatInv
<1>2. /\ phase' = [phase EXCEPT ![w] = "running"] /\ phase[w] = "taken"
      /\ waiting' = IF w \in crew THEN waiting \ {Label(slot[w])} ELSE waiting
      /\ joining' = joining /\ queue' = queue /\ slot' = slot /\ stopped' = stopped
      /\ crew' = crew /\ crew \subseteq Worker
      /\ phase \in [Worker -> {"idle", "taken", "running"}]
  BY CrewOfWorkers DEF Begin, HeartbeatInv, IntakeTypeOK
<1>3. \A v \in crew : phase'[v] = "taken" <=> phase[v] = "taken" /\ v # w
  BY <1>2
<1>4. PendingDistinct'
  BY <1>2, <1>3 DEF HeartbeatInv, PendingDistinct, JoiningPending, Label
<1>5. \A s \in Submitter : JoiningPending(s)' <=> JoiningPending(s)
  BY <1>2 DEF JoiningPending
<1>6. CASE w \in crew
  <2>1. \A l : l \in PendingLabels' <=> l \in PendingLabels /\ l # Label(slot[w])
    <3> SUFFICES ASSUME NEW l
                 PROVE  l \in PendingLabels' <=> l \in PendingLabels /\ l # Label(slot[w])
      OBVIOUS
    <3>1. \A s \in Submitter : JoiningPending(s) => Label(joining[s]) # Label(slot[w])
      BY <1>2, <1>6 DEF HeartbeatInv, PendingDistinct
    <3>2. \A i \in DOMAIN queue : Label(queue[i]) # Label(slot[w])
      BY <1>2, <1>6 DEF HeartbeatInv, PendingDistinct
    <3>3. \A v \in crew : phase[v] = "taken" /\ v # w => Label(slot[v]) # Label(slot[w])
      BY <1>2, <1>6 DEF HeartbeatInv, PendingDistinct
    <3> QED
      BY <1>2, <1>3, <1>5, <1>6, <3>1, <3>2, <3>3, PendingLabel, NextPendingLabel
  <2>2. HeartbeatCoversLine'
    BY <1>2, <1>6, <2>1 DEF HeartbeatInv, HeartbeatCoversLine
  <2> QED
    BY <1>1, <1>4, <2>2 DEF HeartbeatInv
<1>7. CASE w \notin crew
  <2>1. \A v \in crew : phase'[v] = "taken" <=> phase[v] = "taken"
    BY <1>3, <1>7
  <2>2. \A l : l \in PendingLabels' <=> l \in PendingLabels
    BY <1>2, <1>5, <2>1, PendingLabel, NextPendingLabel
  <2>3. HeartbeatCoversLine'
    BY <1>2, <1>7, <2>2 DEF HeartbeatInv, HeartbeatCoversLine
  <2> QED
    BY <1>1, <1>4, <2>3 DEF HeartbeatInv
<1> QED
  BY <1>6, <1>7

(* The steps that pass no case on: a worker that leaves, a refused submit, *)
(* the keeper, the shutdown.                                               *)
LEMMA LeavePending ==
  ASSUME HeartbeatInv, NEW w \in Worker, Leave(w)
  PROVE  HeartbeatInv'
<1>1. IntakeTypeOK'
  BY LeaveType DEF HeartbeatInv
<1>2. /\ phase' = [phase EXCEPT ![w] = "idle"] /\ slot' = [slot EXCEPT ![w] = NoTask]
      /\ phase[w] = "running" /\ waiting' = waiting /\ stopped' = stopped /\ crew' = crew
      /\ joining' = joining /\ queue' = queue /\ crew \subseteq Worker
      /\ phase \in [Worker -> {"idle", "taken", "running"}]
      /\ slot \in [Worker -> Task \cup {NoTask}]
  BY CrewOfWorkers DEF Leave, HeartbeatInv, IntakeTypeOK
<1>3. \A v \in crew : (phase'[v] = "taken") <=> (phase[v] = "taken")
  BY <1>2
<1>4. \A v \in crew : phase[v] = "taken" => slot'[v] = slot[v]
  BY <1>2
<1>5. \A s \in Submitter : JoiningPending(s)' <=> JoiningPending(s)
  BY <1>2 DEF JoiningPending
<1>6. \A l : l \in PendingLabels' <=> l \in PendingLabels
  BY <1>2, <1>3, <1>4, <1>5, PendingLabel, NextPendingLabel
<1>7. HeartbeatCoversLine'
  BY <1>2, <1>6 DEF HeartbeatInv, HeartbeatCoversLine
<1>8. PendingDistinct'
  BY <1>2, <1>3, <1>4 DEF HeartbeatInv, PendingDistinct, JoiningPending, Label
<1> QED
  BY <1>1, <1>7, <1>8 DEF HeartbeatInv

LEMMA ClosedPending ==
  ASSUME HeartbeatInv, Shutdown \/ \E s \in Submitter : Refuse(s)
  PROVE  HeartbeatInv'
<1>1. IntakeTypeOK' /\ stopped'
  <2>1. CASE Shutdown
    BY <2>1, ShutdownType DEF HeartbeatInv, Shutdown
  <2>2. ASSUME NEW s \in Submitter, Refuse(s) PROVE IntakeTypeOK' /\ stopped'
    BY <2>2, SubmitterType DEF HeartbeatInv, Refuse, IntakeTypeOK
  <2> QED
    BY <2>1, <2>2
<1>2. HeartbeatCoversLine'
  BY <1>1 DEF HeartbeatCoversLine
<1>3. PendingDistinct'
  <2>1. CASE Shutdown
    BY <2>1 DEF Shutdown, HeartbeatInv, PendingDistinct, JoiningPending, Label
  <2>2. CASE \E s \in Submitter : Refuse(s)
    BY <2>2 DEF Refuse, HeartbeatInv, IntakeTypeOK, PendingDistinct, JoiningPending, Label
  <2> QED
    BY <2>1, <2>2
<1> QED
  BY <1>1, <1>2, <1>3 DEF HeartbeatInv

LEMMA QuietPending ==
  ASSUME HeartbeatInv, KeeperAlarm \/ KeeperStep \/ UNCHANGED intakeVars
  PROVE  HeartbeatInv'
<1>1. IntakeTypeOK'
  BY KeeperType, IntakeStutterType DEF HeartbeatInv, KeeperStep
<1>2. UNCHANGED <<joining, queue, slot, phase, waiting, stopped, crew>>
  BY DEF KeeperAlarm, KeeperStep, KeeperWake, KeeperTouch, intakeVars
<1>3. HeartbeatCoversLine' /\ PendingDistinct'
  BY <1>2 DEF HeartbeatInv, HeartbeatCoversLine, PendingDistinct, PendingLabels, PendingTasks,
              JoiningPending, Label
<1> QED
  BY <1>1, <1>3 DEF HeartbeatInv

(* While the intake is open, the labels the keeper beats for are exactly   *)
(* those of the cases no worker has begun (intake.py: a waiting row's      *)
(* heartbeat is kept).                                                     *)
THEOREM HeartbeatCovers == IntakeSafetySpec => []HeartbeatCoversLine
<1>1. IntakeInit => HeartbeatInv
  <2> SUFFICES ASSUME IntakeInit PROVE HeartbeatInv
    OBVIOUS
  <2>1. IntakeTypeOK
    BY IntakeInitType
  <2>2. \A w \in crew : phase[w] = "idle"
    BY <2>1, CrewOfWorkers DEF IntakeInit
  <2>3. PendingDistinct
    BY <2>2 DEF IntakeInit, PendingDistinct, JoiningPending
  <2>4. HeartbeatCoversLine
    BY <2>2 DEF IntakeInit, HeartbeatCoversLine, PendingLabels, PendingTasks
  <2> QED
    BY <2>1, <2>3, <2>4 DEF HeartbeatInv
<1>2. HeartbeatInv /\ [IntakeNext]_intakeVars => HeartbeatInv'
  <2> SUFFICES ASSUME HeartbeatInv, [IntakeNext]_intakeVars PROVE HeartbeatInv'
    OBVIOUS
  <2>1. ASSUME NEW s \in Submitter, Submit(s) PROVE HeartbeatInv'
    <3>1. PICK e \in Env, c \in Case, d \in Docs :
            <<e, c>> \notin PendingLabels /\ Join(s, NotifiedTask(e, c, d))
      BY <2>1 DEF Submit
    <3> QED
      BY <3>1, NotifiedTaskType, JoinPending
  <2>2. ASSUME NEW s \in Submitter, Enqueue(s) PROVE HeartbeatInv'
    BY <2>2, EnqueuePending
  <2>3. ASSUME NEW s \in Submitter, Refuse(s) PROVE HeartbeatInv'
    BY <2>3, ClosedPending
  <2>4. ASSUME NEW w \in Worker, WorkerStep(w) PROVE HeartbeatInv'
    BY <2>4, TakePending, BeginPending, LeavePending DEF WorkerStep
  <2>5. ASSUME Shutdown PROVE HeartbeatInv'
    BY <2>5, ClosedPending
  <2>6. ASSUME KeeperAlarm \/ KeeperStep \/ UNCHANGED intakeVars PROVE HeartbeatInv'
    BY <2>6, QuietPending
  <2> QED
    BY <2>1, <2>2, <2>3, <2>4, <2>5, <2>6 DEF IntakeNext
<1>3. HeartbeatInv => HeartbeatCoversLine
  BY DEF HeartbeatInv
<1> QED
  BY <1>1, <1>2, <1>3, PTL DEF IntakeSafetySpec

-----------------------------------------------------------------------------
(* Where a pending case is, before and after a step.                       *)
LEMMA PendingTask ==
  ASSUME NEW t
  PROVE  t \in PendingTasks <=>
           \/ \E s \in Submitter : JoiningPending(s) /\ t = joining[s]
           \/ \E i \in DOMAIN queue : t = queue[i]
           \/ \E w \in crew : phase[w] = "taken" /\ t = slot[w]
  BY DEF PendingTasks, JoiningPending

LEMMA NextPendingTask ==
  ASSUME NEW t
  PROVE  t \in PendingTasks' <=>
           \/ \E s \in Submitter : joining'[s] # NoTask /\ t = joining'[s]
           \/ \E i \in DOMAIN queue' : t = queue'[i]
           \/ \E w \in crew' : phase'[w] = "taken" /\ t = slot'[w]
  BY DEF PendingTasks

\* A step that leaves the line as it is, or adds a joining case to it.
LEMMA LineKept ==
  ASSUME IntakeTypeOK,
         \A s \in Submitter : JoiningPending(s) => joining'[s] = joining[s],
         queue' = queue, crew' = crew,
         \A w \in Worker : phase[w] = "taken" => phase'[w] = "taken" /\ slot'[w] = slot[w],
         NEW t \in PendingTasks
  PROVE  t \in PendingTasks'
<1>1. CASE \E s \in Submitter : JoiningPending(s) /\ t = joining[s]
  BY <1>1, NextPendingTask DEF JoiningPending
<1>2. CASE \E i \in DOMAIN queue : t = queue[i]
  BY <1>2, NextPendingTask
<1>3. CASE \E w \in crew : phase[w] = "taken" /\ t = slot[w]
  BY <1>3, CrewOfWorkers, NextPendingTask
<1> QED
  BY <1>1, <1>2, <1>3, PendingTask

LEMMA EnqueuedKept ==
  ASSUME IntakeTypeOK, NEW s \in Submitter, Enqueue(s), NEW t \in PendingTasks
  PROVE  t \in PendingTasks'
<1>1. /\ joining' = [joining EXCEPT ![s] = NoTask] /\ phase' = phase /\ slot' = slot /\ crew' = crew
      /\ joining \in [Submitter -> Task \cup {NoTask}] /\ queue \in Seq(Task)
      /\ queue' = Append(queue, joining[s]) /\ joining[s] \in Task
  BY DEF Enqueue, IntakeTypeOK
<1>2. /\ DOMAIN queue' = 1..(Len(queue) + 1) /\ queue'[Len(queue) + 1] = joining[s]
      /\ \A i \in DOMAIN queue : i \in DOMAIN queue' /\ queue'[i] = queue[i]
      /\ Len(queue) + 1 \in DOMAIN queue'
  BY <1>1, AppendProperties, LenProperties
<1>3. CASE \E r \in Submitter : JoiningPending(r) /\ t = joining[r]
  <2>1. PICK r \in Submitter : JoiningPending(r) /\ t = joining[r]
    BY <1>3
  <2>2. CASE r = s
    BY <1>2, <2>1, <2>2, NextPendingTask
  <2>3. CASE r # s
    BY <1>1, <2>1, <2>3, NextPendingTask DEF JoiningPending
  <2> QED
    BY <2>2, <2>3
<1>4. CASE \E i \in DOMAIN queue : t = queue[i]
  BY <1>2, <1>4, NextPendingTask
<1>5. CASE \E w \in crew : phase[w] = "taken" /\ t = slot[w]
  BY <1>1, <1>5, NextPendingTask
<1> QED
  BY <1>3, <1>4, <1>5, PendingTask

LEMMA TakenKept ==
  ASSUME IntakeTypeOK, NEW w \in Worker, Take(w), NEW t \in PendingTasks
  PROVE  t \in PendingTasks'
<1>1. /\ slot' = [slot EXCEPT ![w] = Head(queue)] /\ phase' = [phase EXCEPT ![w] = "taken"]
      /\ phase[w] = "idle" /\ queue # << >> /\ queue' = Tail(queue) /\ queue \in Seq(Task)
      /\ joining' = joining /\ crew' = crew /\ w \in crew /\ crew \subseteq Worker
      /\ slot \in [Worker -> Task \cup {NoTask}]
      /\ phase \in [Worker -> {"idle", "taken", "running"}]
  BY CrewOfWorkers DEF Take, IntakeTypeOK
<1>2. /\ DOMAIN queue = 1..Len(queue) /\ DOMAIN queue' = 1..(Len(queue) - 1)
      /\ \A i \in DOMAIN queue' : queue'[i] = queue[i + 1]
      /\ Head(queue) = queue[1] /\ Len(queue) \in Nat
  BY <1>1, HeadTailProperties, LenProperties, EmptySeq
<1>3. CASE \E s \in Submitter : JoiningPending(s) /\ t = joining[s]
  BY <1>1, <1>3, NextPendingTask DEF JoiningPending
<1>4. CASE \E i \in DOMAIN queue : t = queue[i]
  <2>1. PICK i \in DOMAIN queue : t = queue[i]
    BY <1>4
  <2>2. CASE i = 1
    <3>1. w \in crew' /\ phase'[w] = "taken" /\ t = slot'[w]
      BY <1>1, <1>2, <2>1, <2>2
    <3> QED
      BY <3>1, NextPendingTask
  <2>3. CASE i # 1
    <3>1. i - 1 \in DOMAIN queue' /\ (i - 1) + 1 = i
      BY <1>2, <2>1, <2>3
    <3>2. queue'[i - 1] = t
      BY <1>2, <2>1, <3>1
    <3> QED
      BY <3>1, <3>2, NextPendingTask
  <2> QED
    BY <2>2, <2>3
<1>5. CASE \E v \in crew : phase[v] = "taken" /\ t = slot[v]
  <2>1. PICK v \in crew : phase[v] = "taken" /\ t = slot[v]
    BY <1>5
  <2>2. v \in crew' /\ phase'[v] = "taken" /\ t = slot'[v]
    BY <1>1, <2>1
  <2> QED
    BY <2>2, NextPendingTask
<1> QED
  BY <1>3, <1>4, <1>5, PendingTask

LEMMA BegunKept ==
  ASSUME IntakeTypeOK, NEW w \in Worker, Begin(w), NEW t \in PendingTasks
  PROVE  t \in PendingTasks' \/ (slot[w] = t /\ phase[w] = "taken" /\ phase'[w] = "running")
<1>1. /\ phase' = [phase EXCEPT ![w] = "running"] /\ phase[w] = "taken"
      /\ joining' = joining /\ queue' = queue /\ slot' = slot
      /\ crew' = crew /\ crew \subseteq Worker
      /\ phase \in [Worker -> {"idle", "taken", "running"}]
  BY CrewOfWorkers DEF Begin, IntakeTypeOK
<1>2. CASE \E s \in Submitter : JoiningPending(s) /\ t = joining[s]
  BY <1>1, <1>2, NextPendingTask DEF JoiningPending
<1>3. CASE \E i \in DOMAIN queue : t = queue[i]
  BY <1>1, <1>3, NextPendingTask
<1>4. CASE \E v \in crew : phase[v] = "taken" /\ t = slot[v]
  <2>1. PICK v \in crew : phase[v] = "taken" /\ t = slot[v]
    BY <1>4
  <2>2. CASE v = w
    BY <1>1, <2>1, <2>2
  <2>3. CASE v # w
    <3>1. v \in crew' /\ phase'[v] = "taken" /\ t = slot'[v]
      BY <1>1, <2>1, <2>3
    <3> QED
      BY <3>1, NextPendingTask
  <2> QED
    BY <2>2, <2>3
<1> QED
  BY <1>2, <1>3, <1>4, PendingTask

(* A case that joined is somewhere on its way to a worker until one begins *)
(* it: no hand-over between the table, the pool's queue and the threads    *)
(* drops it, whatever the interleaving - only the shutdown does            *)
(* (intake.py: submit, _audit and shutdown).                               *)
THEOREM NothingIsDropped == IntakeSafetySpec => NothingLeavesTheLineUnaudited
<1> DEFINE Passed(t) == \/ t \in PendingTasks'
                        \/ stopped'
                        \/ \E w \in Worker :
                             slot[w] = t /\ phase[w] = "taken" /\ phase'[w] = "running"
           NoneDropped == \A t \in PendingTasks : Passed(t)
<1>1. IntakeTypeOK /\ IntakeNext => NoneDropped
  <2> SUFFICES ASSUME IntakeTypeOK, IntakeNext, NEW t \in PendingTasks PROVE Passed(t)
    OBVIOUS
  <2>1. ASSUME NEW s \in Submitter, Submit(s) PROVE Passed(t)
    <3>1. /\ \E u : joining' = [joining EXCEPT ![s] = u]
          /\ joining[s] = NoTask /\ UNCHANGED <<queue, crew, phase, slot>>
      BY <2>1 DEF Submit, Join
    <3>2. \A r \in Submitter : JoiningPending(r) => joining'[r] = joining[r]
      BY <3>1 DEF JoiningPending, IntakeTypeOK
    <3> QED
      BY <3>1, <3>2, LineKept
  <2>2. ASSUME NEW s \in Submitter, Enqueue(s) PROVE Passed(t)
    BY <2>2, EnqueuedKept
  <2>3. ASSUME Shutdown \/ \E s \in Submitter : Refuse(s) PROVE Passed(t)
    BY <2>3 DEF Shutdown, Refuse
  <2>4. ASSUME NEW w \in Worker, Take(w) PROVE Passed(t)
    BY <2>4, TakenKept
  <2>5. ASSUME NEW w \in Worker, Begin(w) PROVE Passed(t)
    BY <2>5, BegunKept
  <2>6. ASSUME NEW w \in Worker, Leave(w) PROVE Passed(t)
    <3>1. /\ phase' = [phase EXCEPT ![w] = "idle"] /\ phase[w] = "running"
          /\ slot' = [slot EXCEPT ![w] = NoTask] /\ UNCHANGED <<queue, crew, joining>>
      BY <2>6 DEF Leave
    <3>2. \A v \in Worker : phase[v] = "taken" => phase'[v] = "taken" /\ slot'[v] = slot[v]
      BY <3>1 DEF IntakeTypeOK
    <3> QED
      BY <3>1, <3>2, LineKept
  <2>7. ASSUME KeeperAlarm \/ KeeperStep PROVE Passed(t)
    <3>1. UNCHANGED <<joining, queue, crew, slot, phase>>
      BY <2>7 DEF KeeperAlarm, KeeperStep, KeeperWake, KeeperTouch
    <3> QED
      BY <3>1, LineKept
  <2> QED
    BY <2>1, <2>2, <2>3, <2>4, <2>5, <2>6, <2>7 DEF IntakeNext, WorkerStep
<1>2. IntakeTypeOK /\ [IntakeNext]_intakeVars => [NoneDropped]_intakeVars
  BY <1>1
<1> HIDE DEF NoneDropped
<1>3. IntakeTypeOK /\ [IntakeNext]_intakeVars => IntakeTypeOK'
  BY IntakeStepType
<1> QED
  BY <1>2, <1>3, IntakeInitType, PTL
     DEF IntakeSafetySpec, NothingLeavesTheLineUnaudited, NoneDropped

-----------------------------------------------------------------------------
(* What the bounded line sees of the workers: the cases the threads of the *)
(* pool hold. The intake on its own keeps the pool it started with. A      *)
(* thread that is idle leaves room for one more case.                      *)
Busy == {slot[w] : w \in {w \in FirstCrew : phase[w] # "idle"}}

LEMMA RoomForOne ==
  ASSUME NEW w \in FirstCrew, phase[w] = "idle"
  PROVE  Cardinality(Busy) < Cardinality(FirstCrew)
<1> DEFINE B == {v \in FirstCrew : phase[v] # "idle"}
           held == [v \in B |-> slot[v]]
<1>1. IsFiniteSet(FirstCrew) /\ Cardinality(FirstCrew) \in Nat
  <2>1. FirstCrew \in SUBSET Worker
    BY DEF FirstCrew
  <2> QED
    BY <2>1, WorkerAssumption, FS_Subset, FS_CardinalityType
<1>2. /\ IsFiniteSet(FirstCrew \ {w})
      /\ Cardinality(FirstCrew \ {w}) = Cardinality(FirstCrew) - 1
  BY <1>1, FS_RemoveElement
<1>3. B \in SUBSET (FirstCrew \ {w})
  OBVIOUS
<1>4. IsFiniteSet(B) /\ Cardinality(B) <= Cardinality(FirstCrew) - 1
  BY <1>2, <1>3, FS_Subset
<1>5. held \in Surjection(B, Busy)
  <2>1. held \in [B -> Busy] /\ \A x \in Busy : \E v \in B : held[v] = x
    BY DEF Busy
  <2> QED
    BY <2>1, Fun_IsSurj
<1> HIDE DEF B, held
<1>6. IsFiniteSet(Busy) /\ Cardinality(Busy) <= Cardinality(B)
  BY <1>4, <1>5, FS_Surjection
<1>7. Cardinality(Busy) \in Nat /\ Cardinality(B) \in Nat
  BY <1>4, <1>6, FS_CardinalityType
<1> QED
  BY <1>1, <1>4, <1>6, <1>7

LEMMA TakeStarts ==
  ASSUME IntakeTypeOK, crew = FirstCrew, NEW w \in Worker, Take(w)
  PROVE  Line!Start
<1>1. /\ slot' = [slot EXCEPT ![w] = Head(queue)] /\ phase' = [phase EXCEPT ![w] = "taken"]
      /\ phase[w] = "idle" /\ queue # << >> /\ queue' = Tail(queue) /\ stopped' = stopped
      /\ slot \in [Worker -> Task \cup {NoTask}]
      /\ phase \in [Worker -> {"idle", "taken", "running"}]
      /\ w \in FirstCrew /\ FirstCrew \subseteq Worker
  BY DEF Take, IntakeTypeOK, FirstCrew
<1>2. Busy' = Busy \cup {Head(queue)}
  <2>1. \A v \in FirstCrew : phase'[v] # "idle" <=> v = w \/ phase[v] # "idle"
    BY <1>1
  <2>2. slot'[w] = Head(queue) /\ \A v \in FirstCrew : v # w => slot'[v] = slot[v]
    BY <1>1
  <2>3. ASSUME NEW x \in Busy' PROVE x \in Busy \cup {Head(queue)}
    BY <2>1, <2>2 DEF Busy
  <2>4. Head(queue) \in Busy'
    BY <1>1, <2>1, <2>2 DEF Busy
  <2>5. ASSUME NEW x \in Busy PROVE x \in Busy'
    BY <1>1, <2>1, <2>2 DEF Busy
  <2> QED
    BY <2>3, <2>4, <2>5
<1>3. Cardinality(Busy) < Cardinality(FirstCrew)
  BY <1>1, RoomForOne
<1>4. Line!Cardinality(Busy) = Cardinality(Busy)
  BY DEF Line!Cardinality, Cardinality
<1> QED
  BY <1>1, <1>2, <1>3, <1>4 DEF Line!Start, Busy

LEMMA LeaveFinishes ==
  ASSUME IntakeTypeOK, NEW w \in Worker, Leave(w)
  PROVE  UNCHANGED Line!lineVars \/ \E x \in Task : Line!Finish(x)
<1>1. /\ slot' = [slot EXCEPT ![w] = NoTask] /\ phase' = [phase EXCEPT ![w] = "idle"]
      /\ phase[w] = "running" /\ queue' = queue /\ stopped' = stopped
      /\ slot \in [Worker -> Task \cup {NoTask}] /\ slot[w] \in Task
      /\ phase \in [Worker -> {"idle", "taken", "running"}]
      /\ FirstCrew \subseteq Worker
  BY DEF Leave, IntakeTypeOK, FirstCrew
<1>2. /\ \A v \in FirstCrew : phase'[v] # "idle" <=> v # w /\ phase[v] # "idle"
      /\ \A v \in FirstCrew : v # w => slot'[v] = slot[v]
  BY <1>1
<1>3. \A x \in Busy' : x \in Busy
  BY <1>2 DEF Busy
<1>4. \A x \in Busy : x \in Busy' \/ (x = slot[w] /\ w \in FirstCrew)
  BY <1>2 DEF Busy
<1>5. CASE w \notin FirstCrew \/ slot[w] \in Busy'
  <2>1. Busy' = Busy
    BY <1>3, <1>4, <1>5
  <2> QED
    BY <1>1, <2>1 DEF Line!lineVars, Busy
<1>6. CASE w \in FirstCrew /\ slot[w] \notin Busy'
  <2>1. Busy' = Busy \ {slot[w]}
    BY <1>3, <1>4, <1>6
  <2>2. slot[w] \in Busy
    BY <1>1, <1>6 DEF Busy
  <2>3. Line!Finish(slot[w])
    BY <1>1, <2>1, <2>2 DEF Line!Finish, Busy
  <2>4. slot[w] \in Task
    BY <1>1
  <2>5. \E x \in Task : Line!Finish(x)
    BY <2>3, <2>4 DEF Line!Finish
  <2> QED
    BY <2>5
<1> QED
  BY <1>5, <1>6

(* The pool, its tables and the keeper are a bounded FIFO line: cases are  *)
(* begun in the order they arrived, at most one per worker, and the line   *)
(* empties only when it closes (intake.py's docstring).                    *)
THEOREM LineImplemented == IntakeSafetySpec => ImplementsLine
<1> DEFINE LineInv == IntakeTypeOK /\ crew = FirstCrew
<1>1. IntakeInit => LineInv /\ Line!LineInit
  <2> SUFFICES ASSUME IntakeInit PROVE LineInv /\ Line!LineInit
    OBVIOUS
  <2>1. \A w \in FirstCrew : phase[w] = "idle"
    BY DEF IntakeInit, FirstCrew
  <2> QED
    BY <2>1, IntakeInitType DEF IntakeInit, Line!LineInit
<1>2. LineInv /\ [IntakeNext]_intakeVars => LineInv'
  <2>1. [IntakeNext]_intakeVars => crew' = crew
    BY DEF IntakeNext, Submit, Join, Enqueue, Refuse, WorkerStep, Take, Begin, Leave,
           KeeperAlarm, KeeperStep, KeeperWake, KeeperTouch, Shutdown, intakeVars
  <2> QED
    BY <2>1, IntakeStepType
<1>3. LineInv /\ [IntakeNext]_intakeVars => [Line!LineNext]_Line!lineVars
  <2> SUFFICES ASSUME LineInv, [IntakeNext]_intakeVars
               PROVE  [Line!LineNext]_Line!lineVars
    OBVIOUS
  <2>1. ASSUME UNCHANGED <<queue, slot, phase, stopped>> PROVE UNCHANGED Line!lineVars
    BY <2>1 DEF Line!lineVars
  <2>2. ASSUME NEW s \in Submitter, Submit(s) \/ Refuse(s) PROVE UNCHANGED Line!lineVars
    BY <2>1, <2>2 DEF Submit, Join, Refuse
  <2>3. ASSUME NEW s \in Submitter, Enqueue(s) PROVE Line!LineNext
    <3>1. joining[s] \in Task
      BY <2>3 DEF Enqueue, IntakeTypeOK
    <3>2. Line!Arrive(joining[s])
      BY <2>3 DEF Enqueue, Line!Arrive
    <3> QED
      BY <3>1, <3>2 DEF Line!LineNext
  <2>4. ASSUME NEW w \in Worker, Take(w) PROVE Line!LineNext
    BY <2>4, TakeStarts DEF Line!LineNext
  <2>5. ASSUME NEW w \in Worker, Begin(w) PROVE UNCHANGED Line!lineVars
    <3>1. /\ phase' = [phase EXCEPT ![w] = "running"] /\ phase[w] = "taken"
          /\ UNCHANGED <<queue, slot, stopped>> /\ FirstCrew \subseteq Worker
      BY <2>5 DEF Begin, FirstCrew
    <3>2. \A v \in FirstCrew : phase'[v] # "idle" <=> phase[v] # "idle"
      BY <3>1 DEF IntakeTypeOK
    <3>3. Busy' = Busy
      BY <3>1, <3>2 DEF Busy
    <3> QED
      BY <3>1, <3>3 DEF Line!lineVars, Busy
  <2>6. ASSUME NEW w \in Worker, Leave(w) PROVE [Line!LineNext]_Line!lineVars
    BY <2>6, LeaveFinishes DEF Line!LineNext
  <2>7. ASSUME KeeperAlarm \/ KeeperStep \/ UNCHANGED intakeVars PROVE UNCHANGED Line!lineVars
    BY <2>1, <2>7 DEF KeeperAlarm, KeeperStep, KeeperWake, KeeperTouch, intakeVars
  <2>8. ASSUME Shutdown PROVE Line!LineNext
    BY <2>8 DEF Shutdown, Line!Close, Line!LineNext
  <2> QED
    BY <2>2, <2>3, <2>4, <2>5, <2>6, <2>7, <2>8 DEF IntakeNext, WorkerStep
<1> HIDE DEF LineInv
<1> QED
  BY <1>1, <1>2, <1>3, PTL DEF IntakeSafetySpec, ImplementsLine, Line!LineSpec
=============================================================================
