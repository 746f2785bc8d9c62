------------------------------- MODULE Intake -------------------------------
(***************************************************************************)
(* The line a notified case waits in (app/services/cartograph/intake.py):  *)
(* a thread pool of `workers` threads fed from a FIFO queue, the `waiting` *)
(* and `running` tables kept beside it under a lock, and the keeper thread *)
(* that touches the row of every waiting case.                             *)
(*                                                                         *)
(* The tables and the pool are separate pieces of state and each call      *)
(* changes them in separate steps: submit() enters the case in `waiting`   *)
(* under the lock and hands it to the pool after releasing it; a worker    *)
(* takes it from the pool before it moves it from `waiting` to `running`.  *)
(* The keeper copies `waiting` under the lock and touches the rows after   *)
(* releasing it.                                                           *)
(***************************************************************************)
EXTENDS Cases, Naturals, Sequences, FiniteSets

CONSTANTS
  Worker,      \* the threads that audit
  Relief,      \* those of the pool made after a shutdown (see Reopen)
  Submitter,   \* the threads that call submit: the event loop and resume
  NoTask

ASSUME NoTaskAssumption == NoTask \notin Task
ASSUME WorkerAssumption == IsFiniteSet(Worker) /\ Relief \subseteq Worker

\* The threads of the pool the process starts with (audit_pipeline_concurrency).
FirstCrew == Worker \ Relief

VARIABLES
  joining,     \* per submitter: the case entered in `waiting`, not yet in the pool
  queue,       \* the pool's queue
  crew,        \* the threads of the pool in use
  slot,        \* per worker: the case it holds
  phase,       \* per worker: "idle", "taken" from the pool, or "running"
  waiting,     \* labels in self._waiting
  running,     \* labels in self._running
  keeperPc,    \* the keeper thread: "asleep", "awake" (its wait timed out), "beating"
  beats,       \* labels the keeper has copied and not yet touched
  stopped      \* self._stop is set and the pool is shut down

intakeVars == <<joining, queue, crew, slot, phase, waiting, running, keeperPc, beats, stopped>>

IntakeInit ==
  /\ joining = [s \in Submitter |-> NoTask]
  /\ queue = <<>>
  /\ crew = FirstCrew
  /\ slot = [w \in Worker |-> NoTask]
  /\ phase = [w \in Worker |-> "idle"]
  /\ waiting = {}
  /\ running = {}
  /\ keeperPc = "asleep"
  /\ beats = {}
  /\ stopped = FALSE

(* A new process starts with an intake of its own.                         *)
IntakeReset ==
  /\ joining' = [s \in Submitter |-> NoTask]
  /\ queue' = <<>>
  /\ crew' = FirstCrew
  /\ slot' = [w \in Worker |-> NoTask]
  /\ phase' = [w \in Worker |-> "idle"]
  /\ waiting' = {}
  /\ running' = {}
  /\ keeperPc' = "asleep"
  /\ beats' = {}
  /\ stopped' = FALSE

-----------------------------------------------------------------------------
(* submit(): the part under the lock, then the call of pool.submit, which  *)
(* raises once the pool is shut down.                                      *)
Join(s, t) ==
  /\ joining[s] = NoTask
  /\ joining' = [joining EXCEPT ![s] = t]
  /\ waiting' = waiting \cup {Label(t)}
  /\ UNCHANGED <<queue, crew, slot, phase, running, keeperPc, beats, stopped>>

\* Mutant: the newest case goes to the head of the queue.
EnqueueFirst(s) ==
  /\ joining[s] # NoTask
  /\ ~stopped
  /\ queue' = <<joining[s]>> \o queue
  /\ joining' = [joining EXCEPT ![s] = NoTask]
  /\ UNCHANGED <<crew, slot, phase, waiting, running, keeperPc, beats, stopped>>

Enqueue(s) ==
  /\ joining[s] # NoTask
  /\ ~stopped
  /\ queue' = Append(queue, joining[s])
  /\ joining' = [joining EXCEPT ![s] = NoTask]
  /\ UNCHANGED <<crew, slot, phase, waiting, running, keeperPc, beats, stopped>>

Refuse(s) ==
  /\ joining[s] # NoTask
  /\ stopped
  /\ joining' = [joining EXCEPT ![s] = NoTask]
  /\ UNCHANGED <<queue, crew, slot, phase, waiting, running, keeperPc, beats, stopped>>

\* Mutant: a stack for a queue, the newest case is taken first.
TakeNewest(w) ==
  /\ w \in crew /\ phase[w] = "idle"
  /\ queue # <<>>
  /\ slot' = [slot EXCEPT ![w] = queue[Len(queue)]]
  /\ phase' = [phase EXCEPT ![w] = "taken"]
  /\ queue' = SubSeq(queue, 1, Len(queue) - 1)
  /\ UNCHANGED <<joining, crew, waiting, running, keeperPc, beats, stopped>>

\* Mutant: a case whose label another thread is still running is dropped.
TakeUnlessRunning(w) ==
  /\ w \in crew /\ phase[w] = "idle"
  /\ queue # <<>>
  /\ IF Label(Head(queue)) \in running
     THEN UNCHANGED <<slot, phase>>
     ELSE /\ slot' = [slot EXCEPT ![w] = Head(queue)]
          /\ phase' = [phase EXCEPT ![w] = "taken"]
  /\ queue' = Tail(queue)
  /\ UNCHANGED <<joining, crew, waiting, running, keeperPc, beats, stopped>>

(* A pool thread takes the oldest case, and _audit moves it from one table *)
(* to the other; after the audit, `finally` drops it from `running`. The   *)
(* tables are those of the intake in use: a thread of an earlier pool      *)
(* moves its case between tables nobody reads any more.                    *)
Take(w) ==
  /\ w \in crew /\ phase[w] = "idle"
  /\ queue # <<>>
  /\ slot' = [slot EXCEPT ![w] = Head(queue)]
  /\ phase' = [phase EXCEPT ![w] = "taken"]
  /\ queue' = Tail(queue)
  /\ UNCHANGED <<joining, crew, waiting, running, keeperPc, beats, stopped>>

\* Mutant: a case that begins is left in `waiting`.
BeginStillWaiting(w) ==
  /\ phase[w] = "taken"
  /\ phase' = [phase EXCEPT ![w] = "running"]
  /\ running' = running \cup {Label(slot[w])}
  /\ UNCHANGED <<joining, queue, crew, slot, waiting, keeperPc, beats, stopped>>

Begin(w) ==
  /\ phase[w] = "taken"
  /\ phase' = [phase EXCEPT ![w] = "running"]
  /\ waiting' = IF w \in crew THEN waiting \ {Label(slot[w])} ELSE waiting
  /\ running' = IF w \in crew THEN running \cup {Label(slot[w])} ELSE running
  /\ UNCHANGED <<joining, queue, crew, slot, keeperPc, beats, stopped>>

\* Mutant: an idle worker keeps the case it has ended.
LeaveHolding(w) ==
  /\ phase[w] = "running"
  /\ phase' = [phase EXCEPT ![w] = "idle"]
  /\ running' = running \ {Label(slot[w])}
  /\ UNCHANGED <<joining, queue, crew, slot, waiting, keeperPc, beats, stopped>>

Leave(w) ==
  /\ phase[w] = "running"
  /\ phase' = [phase EXCEPT ![w] = "idle"]
  /\ slot' = [slot EXCEPT ![w] = NoTask]
  /\ running' = IF w \in crew THEN running \ {Label(slot[w])} ELSE running
  /\ UNCHANGED <<joining, queue, crew, waiting, keeperPc, beats, stopped>>

-----------------------------------------------------------------------------
(* The keeper: its wait times out, it copies the waiting labels under the  *)
(* lock, and touches them one by one. What a touch does to a row is the    *)
(* job store's. Once _stop is set the wait returns at once and the thread  *)
(* ends, after the touches it had begun.                                   *)
KeeperAlarm ==
  /\ keeperPc = "asleep"
  /\ ~stopped
  /\ keeperPc' = "awake"
  /\ UNCHANGED <<joining, queue, crew, slot, phase, waiting, running, beats, stopped>>

KeeperWake ==
  /\ keeperPc = "awake"
  /\ keeperPc' = IF waiting = {} THEN "asleep" ELSE "beating"
  /\ beats' = waiting
  /\ UNCHANGED <<joining, queue, crew, slot, phase, waiting, running, stopped>>

KeeperTouch(l) ==
  /\ l \in beats
  /\ beats' = beats \ {l}
  /\ keeperPc' = IF beats = {l} THEN "asleep" ELSE "beating"
  /\ UNCHANGED <<joining, queue, crew, slot, phase, waiting, running, stopped>>

(* shutdown(): cancel_futures empties the pool's queue, the running cases  *)
(* are left to finish, and nobody clears the tables.                       *)
Shutdown ==
  /\ ~stopped
  /\ stopped' = TRUE
  /\ queue' = <<>>
  /\ UNCHANGED <<joining, crew, slot, phase, waiting, running, keeperPc, beats>>

(* get_intake() after shutdown_intake(): the process has no intake, so     *)
(* another is made, with a pool, tables and a keeper of its own, beside    *)
(* the audits the first pool's threads are still at. The first keeper's    *)
(* copy of its own table, if one is due, reads nothing made here and is    *)
(* taken before; the touches it has begun go on.                           *)
Reopen ==
  /\ stopped /\ keeperPc # "awake"
  /\ stopped' = FALSE
  /\ crew' = Relief
  /\ waiting' = {} /\ running' = {}
  /\ UNCHANGED <<joining, queue, slot, phase, keeperPc, beats>>

-----------------------------------------------------------------------------
(* The cases that have joined and that no worker has begun.                *)
PendingTasks ==
  {joining[s] : s \in {s \in Submitter : joining[s] # NoTask}}
    \cup {queue[i] : i \in DOMAIN queue}
    \cup {slot[w] : w \in {w \in crew : phase[w] = "taken"}}

PendingLabels == {Label(t) : t \in PendingTasks}

(* The intake on its own. Its callers submit a case only while the job     *)
(* store has no other audit of it under way, so never one whose label is   *)
(* pending; an audit that has recorded its end may still be running.       *)
Submit(s) ==
  \E e \in Env, c \in Case, d \in Docs :
    /\ <<e, c>> \notin PendingLabels
    /\ Join(s, NotifiedTask(e, c, d))

WorkerStep(w) == Take(w) \/ Begin(w) \/ Leave(w)

KeeperStep == KeeperWake \/ \E l \in beats : KeeperTouch(l)

IntakeNext ==
  \/ \E s \in Submitter : Submit(s) \/ Enqueue(s) \/ Refuse(s)
  \/ \E w \in Worker : WorkerStep(w)
  \/ KeeperAlarm \/ KeeperStep \/ Shutdown

(* The threads keep running; an audit ends (every call it makes times      *)
(* out). Nobody has to submit, and nothing has to shut the intake down.    *)
IntakeFairness ==
  /\ \A s \in Submitter : WF_intakeVars(Enqueue(s))
  /\ \A w \in Worker : WF_intakeVars(Take(w)) /\ WF_intakeVars(Begin(w)) /\ WF_intakeVars(Leave(w))

IntakeSafetySpec == IntakeInit /\ [][IntakeNext]_intakeVars
IntakeSpec == IntakeSafetySpec /\ IntakeFairness

-----------------------------------------------------------------------------
(* The types of the pool, the tables and the keeper.                       *)
IntakeTypeOK ==
  /\ joining \in [Submitter -> Task \cup {NoTask}]
  /\ queue \in Seq(Task)
  /\ crew \in {FirstCrew, Relief}
  /\ slot \in [Worker -> Task \cup {NoTask}]
  /\ phase \in [Worker -> {"idle", "taken", "running"}]
  /\ \A w \in Worker : phase[w] = "idle" <=> slot[w] = NoTask
  /\ waiting \subseteq Env \X Case
  /\ running \subseteq Env \X Case
  /\ keeperPc \in {"asleep", "awake", "beating"}
  /\ beats \subseteq Env \X Case
  /\ stopped \in BOOLEAN

(* The heartbeat covers the line exactly: while the intake is open, the    *)
(* labels the keeper would copy are those of the cases no worker has begun *)
(* - no case waits without a heartbeat (the watchdog would fail it), and   *)
(* no heartbeat outlives its case (it would keep a dead row owned for      *)
(* ever).                                                                  *)
HeartbeatCoversLine == ~stopped => waiting = PendingLabels

(* A case leaves the line only into the hands of a worker: it is never     *)
(* dropped between the table, the pool's queue and the thread, except by   *)
(* the shutdown.                                                           *)
NothingLeavesTheLineUnaudited ==
  [][\A t \in PendingTasks :
        \/ t \in PendingTasks'
        \/ stopped'
        \/ \E w \in Worker : slot[w] = t /\ phase[w] = "taken" /\ phase'[w] = "running"]_intakeVars

(* A case that has joined is audited, or the intake is shut down.          *)
EveryCaseIsBegun ==
  \A l \in Env \X Case : l \in PendingLabels ~> (l \notin PendingLabels \/ stopped)

(* The intake implements the bounded FIFO line its docstring promises.     *)
Line == INSTANCE BoundedLine WITH
  Item <- Task, Bound <- Cardinality(FirstCrew),
  line <- queue, closed <- stopped,
  busy <- {slot[w] : w \in {w \in FirstCrew : phase[w] # "idle"}}

ImplementsLine == Line!LineSpec
=============================================================================
