---------------------------- MODULE AuditEngine -----------------------------
(***************************************************************************)
(* The engine process: the event loop that receives notifications          *)
(* (routers/integration.py), the intake and its workers, each running      *)
(* audit_case (cartograph/tasks.py), the maintenance thread                *)
(* (cartograph/maintenance.py), and the resume path at start               *)
(* (cartograph/resume.py), all over one job store that survives the        *)
(* process. Cartograph is the environment: it notifies, receives results   *)
(* and failure notices, and reports imports.                               *)
(*                                                                         *)
(* One action is one transaction of the job store, one critical section of *)
(* the intake's lock, or one outbound call; between any two of them the    *)
(* other threads may move and the process may die.                         *)
(***************************************************************************)
EXTENDS Intake, JobStore

CONSTANTS
  Configured,    \* environments with an ingest URL and secret
  Attempts,      \* cartograph_extract_attempts
  Sender,        \* environments that notify (bounds the instance)
  MaxNotify,     \* how many notifications Cartograph sends (bounds the instance)
  MaxStops,      \* how often the process stops (bounds the instance)
  NetworkFails,  \* TRUE: a call to Cartograph may raise, or its answer be lost
  OddRequests,   \* TRUE: a notification may carry checklist rows the handler trips over
  QuietBound,    \* ticks a running audit may go without touching its row
  WaitBound      \* ticks the row of a case in the pool's queue may reach

ASSUME EngineAssumption ==
  /\ Configured \subseteq Env
  /\ Sender \subseteq Env
  /\ Attempts \in Nat \ {0}
  /\ MaxNotify \in Nat
  /\ MaxStops \in Nat
  /\ NetworkFails \in BOOLEAN /\ OddRequests \in BOOLEAN
  /\ QuietBound \in Nat
  /\ WaitBound \in Nat
  /\ Submitter = {"loop", "resume"}

VARIABLES
  up,          \* the process: "down", "boot" (lifespan startup), "up", "stopping"
  rows,        \* the job store
  kept,        \* per case reference: the newest packet under output_dir/pdfs
  loopPc,      \* the notification handler: what it has done so far
  loopTask,    \* the call of enqueue_case it is preparing
  claims,      \* at start: interrupted rows still to be claimed
  resuming,    \* the resume thread: calls still to be submitted
  resumePc,    \* the resume thread: "idle", in its "delay", or "submitting"
  step,        \* per worker: where audit_case is
  packet,      \* per worker: the packet it reads
  tries,       \* per worker: the extraction attempt
  todo,        \* the watchdog: rows of its list still to be failed
  blamed,      \* the watchdog, or the start: the row failed and not yet reported
  imports,     \* jobs whose import Cartograph has yet to report
  sent,        \* notifications sent so far
  stops,       \* times the process has stopped
  accepted,    \* per job: notifications accepted for audit
  delivered,   \* per job: results Cartograph has received
  heard,       \* per job: what Cartograph has received since the last acceptance
  wanted       \* per job: the documents the last accepted notification named

processVars == <<loopPc, loopTask, claims, resuming, resumePc, step, packet, tries, todo, blamed>>
cartographVars == <<imports, sent, accepted, delivered, heard, wanted>>
diskVars == <<rows, kept>>
vars == <<intakeVars, processVars, cartographVars, diskVars, up, stops>>

PrefixEnv(k) == IF k[1] = NoPrefix THEN DefaultEnv ELSE k[1]

Init ==
  /\ IntakeInit
  /\ loopPc = "idle" /\ loopTask = NoTask
  /\ claims = {} /\ resuming = <<>> /\ resumePc = "idle"
  /\ step = [w \in Worker |-> "none"]
  /\ packet = [w \in Worker |-> NoPacket]
  /\ tries = [w \in Worker |-> 0]
  /\ todo = {} /\ blamed = {}
  /\ up = "up"
  /\ rows = [k \in Key |-> NoRow]
  /\ kept = [c \in Case |-> NoPacket]
  /\ imports = {} /\ sent = 0 /\ stops = 0
  /\ accepted = [k \in Key |-> 0]
  /\ delivered = [k \in Key |-> 0]
  /\ heard = [k \in Key |-> {}]
  /\ wanted = [k \in Key |-> NoDocs]

-----------------------------------------------------------------------------
(* receive_case, on the event loop: one notification at a time, since the  *)
(* handler never suspends between its calls of the store.                  *)
Notify(e, c, d) ==
  /\ up = "up" /\ loopPc = "idle"
  /\ sent < MaxNotify
  /\ sent' = sent + 1
  /\ IF RepeatOfDelivered(rows[JobKey(e, c)], d)
     THEN UNCHANGED <<loopPc, loopTask>>                 \* already_delivered
     ELSE loopPc' = "checked" /\ loopTask' = NotifiedTask(e, c, d)
  /\ UNCHANGED <<intakeVars, diskVars, up, stops, claims, resuming, resumePc,
                 step, packet, tries, todo, blamed, imports, accepted,
                 delivered, heard, wanted>>

ClaimDuplicate ==
  /\ loopPc = "checked"
  /\ IsOwned(rows, Job(loopTask))                        \* already_in_progress
  /\ loopPc' = "idle" /\ loopTask' = NoTask
  /\ UNCHANGED <<intakeVars, diskVars, cartographVars, up, stops, claims,
                 resuming, resumePc, step, packet, tries, todo, blamed>>

ClaimCase ==
  /\ loopPc = "checked"
  /\ ~IsOwned(rows, Job(loopTask))
  /\ LET k == Job(loopTask) IN
       /\ rows' = UpsertPending(rows, k, sent)
       /\ accepted' = [accepted EXCEPT ![k] = @ + 1]
       /\ heard' = [heard EXCEPT ![k] = {}]
       /\ wanted' = [wanted EXCEPT ![k] = loopTask.docs]
  /\ loopPc' = "claimed"
  /\ UNCHANGED <<intakeVars, kept, up, stops, loopTask, claims, resuming,
                 resumePc, step, packet, tries, todo, blamed, imports, sent,
                 delivered>>

(* A failure to record the request is logged and the audit goes on.        *)
KeepRequest ==
  /\ loopPc = "claimed"
  /\ \/ rows' = RecordRequest(rows, Job(loopTask), loopTask.docs)
     \/ UNCHANGED rows
  /\ loopPc' = "recorded"
  /\ UNCHANGED <<intakeVars, cartographVars, kept, up, stops, loopTask, claims,
                 resuming, resumePc, step, packet, tries, todo, blamed>>

(* normalise_rows raises on rows of a shape it does not expect (an id that *)
(* is no scalar): the handler ends with an error, the row stays claimed,   *)
(* and nobody is to audit it.                                              *)
HandlerRaises ==
  /\ OddRequests
  /\ loopPc = "claimed"
  /\ loopPc' = "idle" /\ loopTask' = NoTask
  /\ UNCHANGED <<intakeVars, diskVars, cartographVars, up, stops, claims, resuming,
                 resumePc, step, packet, tries, todo, blamed>>

LoopJoin ==
  /\ loopPc = "recorded"
  /\ Join("loop", loopTask)
  /\ loopPc' = "joined" /\ loopTask' = NoTask
  /\ UNCHANGED <<diskVars, cartographVars, up, stops, claims, resuming,
                 resumePc, step, packet, tries, todo, blamed>>

LoopEnqueue ==
  /\ loopPc = "joined"
  /\ Enqueue("loop")
  /\ loopPc' = "idle"
  /\ UNCHANGED <<diskVars, cartographVars, up, stops, loopTask, claims,
                 resuming, resumePc, step, packet, tries, todo, blamed>>

(* cartograph_import_result, which stamps updated_at.                      *)
ImportResult(k) ==
  /\ up = "up" /\ loopPc = "idle"
  /\ k \in imports
  /\ imports' = imports \ {k}
  /\ rows' = RecordImportResult(rows, k)
  /\ UNCHANGED <<intakeVars, processVars, kept, up, stops, sent, accepted,
                 delivered, heard, wanted>>

-----------------------------------------------------------------------------
(* The outbound calls. A failure notice for key k, or a result, reaches    *)
(* Cartograph or does not; post_failure never raises.                      *)
NoticeSent(k) ==
  \/ /\ PrefixEnv(k) \in Configured
     /\ heard' = [heard EXCEPT ![k] = @ \cup {"failure"}]
  \/ /\ PrefixEnv(k) \notin Configured \/ NetworkFails
     /\ UNCHANGED heard

(* Where an audit stands between the claim of the job and the mark that    *)
(* ends it.                                                                *)
LiveSteps ==
  {"start", "fetch", "read", "extract", "deliver", "accepted", "rejected", "raised",
   "toDone", "toFailed", "brokeEarly", "brokeLate"}

(* audit_case on worker w.                                                 *)
At(w, s) == phase[w] = "running" /\ step[w] = s

Goto(w, s) == step' = [step EXCEPT ![w] = s]

\* What no step of an audit changes, beside the rows and the packets on disk.
RestOfAudit == <<intakeVars, up, stops, loopPc, loopTask, claims, resuming, resumePc, todo, blamed, sent,
                 accepted, wanted>>

TakeCase(w) ==
  /\ Take(w)
  /\ UNCHANGED <<processVars, diskVars, cartographVars, up, stops>>

BeginCase(w) ==
  /\ Begin(w)
  /\ Goto(w, "start")
  /\ tries' = [tries EXCEPT ![w] = 1]
  /\ UNCHANGED <<loopPc, loopTask, claims, resuming, resumePc, packet, todo,
                 blamed, diskVars, cartographVars, up, stops>>

StartAudit(w) ==
  /\ At(w, "start")
  /\ rows' = MarkExtracting(rows, Job(slot[w]))
  /\ Goto(w, "fetch")
  /\ UNCHANGED <<RestOfAudit, kept, packet, tries, imports, delivered, heard>>

(* The packet is fetched and, best effort, kept under the case reference.  *)
Fetch(w) ==
  /\ At(w, "fetch")
  /\ LET p == [env |-> slot[w].env, docs |-> slot[w].docs] IN
       /\ packet' = [packet EXCEPT ![w] = p]
       /\ kept' \in {kept, [kept EXCEPT ![slot[w].case] = p]}
  /\ Goto(w, "read")
  /\ UNCHANGED <<RestOfAudit, rows, tries, imports, delivered, heard>>

(* The links have expired: the packet found at start stands in, if it is   *)
(* still on disk, or the audit has failed.                                 *)
FallBack(w) ==
  /\ At(w, "fetch")
  /\ slot[w].packet # NoPacket
  /\ packet' = [packet EXCEPT ![w] = slot[w].packet]
  /\ Goto(w, "read")
  /\ UNCHANGED <<RestOfAudit, diskVars, tries, imports, delivered, heard>>

\* Mutant: the failure is marked and Cartograph is not told.
DocumentsSilentlyUnavailable(w) ==
  /\ At(w, "fetch")
  /\ rows' = MarkExtractionFailed(rows, Job(slot[w]))
  /\ Goto(w, "end")
  /\ UNCHANGED <<RestOfAudit, kept, packet, tries, imports, delivered, heard>>

DocumentsUnavailable(w) ==
  /\ At(w, "fetch")
  /\ rows' = MarkExtractionFailed(rows, Job(slot[w]))
  /\ Goto(w, "report")
  /\ UNCHANGED <<RestOfAudit, kept, packet, tries, imports, delivered, heard>>

(* process_pdf_full in the work directory of the case reference: the pages *)
(* are read with a heartbeat, the extraction pipeline runs without one.    *)
Heartbeat(w) ==
  /\ At(w, "read")
  /\ rows' = Touch(rows, Job(slot[w]))
  /\ rows' # rows
  /\ UNCHANGED <<RestOfAudit, kept, step, packet, tries, imports, delivered,
                 heard>>

PagesRead(w) ==
  /\ At(w, "read")
  /\ Goto(w, "extract")
  /\ UNCHANGED <<RestOfAudit, diskVars, packet, tries, imports, delivered,
                 heard>>

RetryExtraction(w) ==
  /\ At(w, "read") \/ At(w, "extract")
  /\ tries[w] < Attempts
  /\ tries' = [tries EXCEPT ![w] = @ + 1]
  /\ rows' = Touch(rows, Job(slot[w]))
  /\ Goto(w, "read")
  /\ UNCHANGED <<RestOfAudit, kept, packet, imports, delivered, heard>>

ExtractionFails(w) ==
  /\ At(w, "read") \/ At(w, "extract")
  /\ rows' = MarkExtractionFailed(rows, Job(slot[w]))
  /\ Goto(w, "reportAndClean")
  /\ UNCHANGED <<RestOfAudit, kept, packet, tries, imports, delivered, heard>>

Extract(w) ==
  /\ At(w, "extract")
  /\ rows' = MarkExtracted(rows, Job(slot[w]))
  /\ Goto(w, "deliver")
  /\ UNCHANGED <<RestOfAudit, kept, packet, tries, imports, delivered, heard>>

(* Delivery. The result may be received and the call still raise.          *)
DeliveryNotConfigured(w) ==
  /\ At(w, "deliver")
  /\ slot[w].env \notin Configured
  /\ rows' = MarkComparisonFailed(rows, BareKey(slot[w].case))
  /\ Goto(w, "end")
  /\ UNCHANGED <<RestOfAudit, kept, packet, tries, imports, delivered, heard>>

ResultReceived(w) ==
  LET k == Job(slot[w]) IN
    /\ delivered' = [delivered EXCEPT ![k] = @ + 1]
    /\ heard' = [heard EXCEPT ![k] = @ \cup {"result"}]
    /\ imports' = imports \cup {k}

Post(w) ==
  /\ At(w, "deliver")
  /\ slot[w].env \in Configured
  /\ \/ ResultReceived(w) /\ Goto(w, "accepted")
     \/ UNCHANGED <<imports, delivered, heard>> /\ Goto(w, "rejected")
     \/ /\ NetworkFails
        /\ ResultReceived(w) \/ UNCHANGED <<imports, delivered, heard>>
        /\ Goto(w, "raised")
  /\ UNCHANGED <<RestOfAudit, diskVars, packet, tries>>

\* Mutant: a delivery whose call raised is made again.
DeliveryRetried(w) ==
  /\ At(w, "raised")
  /\ Goto(w, "deliver")
  /\ UNCHANGED <<RestOfAudit, diskVars, packet, tries, imports, delivered,
                 heard>>

DeliveryRaised(w) ==
  /\ At(w, "raised")
  /\ rows' = MarkComparisonFailed(rows, Job(slot[w]))
  /\ Goto(w, "end")
  /\ UNCHANGED <<RestOfAudit, kept, packet, tries, imports, delivered, heard>>

(* The answer is recorded on the job, and in a second transaction the      *)
(* outcome is marked, on the bare case reference.                          *)
DeliveryRecorded(w) ==
  /\ At(w, "accepted") \/ At(w, "rejected")
  /\ rows' = RecordDelivery(rows, Job(slot[w]))
  /\ Goto(w, IF step[w] = "accepted" THEN "toDone" ELSE "toFailed")
  /\ UNCHANGED <<RestOfAudit, kept, packet, tries, imports, delivered, heard>>

\* Mutant: the row is marked done whatever the answer was.
DeliveryRejectedIsDone(w) ==
  /\ At(w, "toFailed")
  /\ rows' = MarkDone(rows, BareKey(slot[w].case))
  /\ Goto(w, "end")
  /\ UNCHANGED <<RestOfAudit, kept, packet, tries, imports, delivered, heard>>

DeliveryRejected(w) ==
  /\ At(w, "toFailed")
  /\ rows' = MarkComparisonFailed(rows, BareKey(slot[w].case))
  /\ Goto(w, "end")
  /\ UNCHANGED <<RestOfAudit, kept, packet, tries, imports, delivered, heard>>

DeliveryAccepted(w) ==
  /\ At(w, "toDone")
  /\ rows' = MarkDone(rows, BareKey(slot[w].case))
  /\ Goto(w, "end")
  /\ UNCHANGED <<RestOfAudit, kept, packet, tries, imports, delivered, heard>>

(* The wrapper, for an exception nobody expected: anywhere but in the try  *)
(* blocks around the extraction and the delivery call, and in the wrapper  *)
(* itself. It reads the row, and marks it in a second transaction.         *)
Guarded == {"read", "raised", "brokeEarly", "brokeLate"}

Unexpected(w) ==
  /\ \E s \in LiveSteps \ Guarded : At(w, s)
  /\ Goto(w, IF rows[Job(slot[w])].state \in {"absent", "pending", "queued", "extracting"}
             THEN "brokeEarly" ELSE "brokeLate")
  /\ UNCHANGED <<RestOfAudit, diskVars, packet, tries, imports, delivered, heard>>

UnexpectedMarked(w) ==
  /\ At(w, "brokeEarly") \/ At(w, "brokeLate")
  /\ LET k == Job(slot[w]) IN
       rows' = IF step[w] = "brokeEarly"
               THEN MarkExtractionFailed(rows, k) ELSE MarkComparisonFailed(rows, k)
  /\ Goto(w, "report")
  /\ UNCHANGED <<RestOfAudit, kept, packet, tries, imports, delivered, heard>>

Report(w) ==
  /\ At(w, "report") \/ At(w, "reportAndClean")
  /\ NoticeSent(Job(slot[w]))
  /\ Goto(w, IF step[w] = "report" THEN "end" ELSE "clean")
  /\ UNCHANGED <<RestOfAudit, diskVars, packet, tries, imports, delivered>>

RemoveWorkDir(w) ==
  /\ At(w, "clean")
  /\ Goto(w, "end")
  /\ UNCHANGED <<RestOfAudit, diskVars, packet, tries, imports, delivered,
                 heard>>

LeaveCase(w) ==
  /\ At(w, "end")
  /\ Leave(w)
  /\ Goto(w, "none")
  /\ packet' = [packet EXCEPT ![w] = NoPacket]
  /\ tries' = [tries EXCEPT ![w] = 0]
  /\ UNCHANGED <<loopPc, loopTask, claims, resuming, resumePc, todo, blamed,
                 diskVars, cartographVars, up, stops>>

-----------------------------------------------------------------------------
(* The maintenance thread: retention deletes, the watchdog lists the       *)
(* wedged rows and then fails and reports them one by one. The list does   *)
(* not carry the environment, so the report goes to the default one.       *)
SweepIdle == up = "up" /\ todo = {} /\ blamed = {}

RetentionSweep ==
  /\ SweepIdle
  /\ \E old \in (SUBSET Expired(rows)) \ {{}} : rows' = DeleteRows(rows, old)
  /\ UNCHANGED <<intakeVars, processVars, cartographVars, kept, up, stops>>

PrunePacket(c) ==
  /\ SweepIdle
  /\ kept[c] # NoPacket
  /\ kept' = [kept EXCEPT ![c] = NoPacket]
  /\ UNCHANGED <<intakeVars, processVars, cartographVars, rows, up, stops>>

WatchdogList ==
  /\ SweepIdle
  /\ Wedged(rows) # {}
  /\ todo' = Wedged(rows)
  /\ UNCHANGED <<intakeVars, cartographVars, diskVars, up, stops, loopPc,
                 loopTask, claims, resuming, resumePc, step, packet, tries,
                 blamed>>

WatchdogFail(k) ==
  /\ k \in todo /\ blamed = {}
  /\ rows' = MarkExtractionFailed(rows, k)
  /\ todo' = todo \ {k}
  /\ blamed' = {k}
  /\ UNCHANGED <<intakeVars, cartographVars, kept, up, stops, loopPc, loopTask,
                 claims, resuming, resumePc, step, packet, tries>>

WatchdogReport ==
  /\ up # "boot"
  /\ \E k \in blamed : NoticeSent(BareKey(k[2]))
  /\ blamed' = {}
  /\ UNCHANGED <<intakeVars, diskVars, up, stops, loopPc, loopTask, claims,
                 resuming, resumePc, step, packet, tries, todo, imports, sent,
                 accepted, delivered, wanted>>

-----------------------------------------------------------------------------
(* The process stops: at once (a crash, a kill), or after a shutdown that  *)
(* empties the line and lets the running audits go on for a while. What    *)
(* is on disk stays.                                                       *)
BeginShutdown ==
  /\ up = "up" /\ loopPc = "idle" /\ stops < MaxStops
  /\ up' = "stopping"
  /\ Shutdown
  /\ UNCHANGED <<processVars, cartographVars, diskVars, stops>>

Stop ==
  /\ up # "down" /\ stops < MaxStops
  /\ up' = "down"
  /\ stops' = stops + 1
  /\ IntakeReset
  /\ loopPc' = "idle" /\ loopTask' = NoTask
  /\ claims' = {} /\ resuming' = <<>> /\ resumePc' = "idle"
  /\ step' = [w \in Worker |-> "none"]
  /\ packet' = [w \in Worker |-> NoPacket]
  /\ tries' = [w \in Worker |-> 0]
  /\ todo' = {} /\ blamed' = {}
  /\ UNCHANGED <<cartographVars, diskVars>>

(* The next start: the rows some worker owned are claimed, oldest first,   *)
(* before the server answers and before the maintenance thread runs.       *)
Restart ==
  /\ up = "down"
  /\ up' = "boot"
  /\ claims' = {k \in Key : IsOwned(rows, k)}
  /\ UNCHANGED <<intakeVars, cartographVars, diskVars, stops, loopPc, loopTask,
                 resuming, resumePc, step, packet, tries, todo, blamed>>

Oldest(k) == k \in claims /\ \A j \in claims : rows[k].created <= rows[j].created

\* Mutant: a claimed row is not touched, so the watchdog may have it first.
ClaimUntouched(k) ==
  /\ up = "boot" /\ blamed = {} /\ Oldest(k)
  /\ rows[k].docs # NoDocs
  /\ resuming' = Append(resuming, [env |-> PrefixEnv(k), case |-> k[2],
                                   docs |-> rows[k].docs, packet |-> kept[k[2]]])
  /\ claims' = claims \ {k}
  /\ UNCHANGED <<intakeVars, cartographVars, diskVars, up, stops, loopPc,
                 loopTask, resumePc, step, packet, tries, todo, blamed>>

ClaimInterrupted(k) ==
  /\ up = "boot" /\ blamed = {} /\ Oldest(k)
  /\ rows[k].docs # NoDocs
  /\ rows' = Touch(rows, k)
  /\ resuming' = Append(resuming, [env |-> PrefixEnv(k), case |-> k[2],
                                   docs |-> rows[k].docs, packet |-> kept[k[2]]])
  /\ claims' = claims \ {k}
  /\ UNCHANGED <<intakeVars, cartographVars, kept, up, stops, loopPc, loopTask,
                 resumePc, step, packet, tries, todo, blamed>>

\* Mutant: a row that cannot be run again is reported and stays owned.
FailUnmarked(k) ==
  /\ up = "boot" /\ blamed = {} /\ Oldest(k)
  /\ rows[k].docs = NoDocs
  /\ claims' = claims \ {k}
  /\ blamed' = {k}
  /\ UNCHANGED <<intakeVars, cartographVars, diskVars, up, stops, loopPc,
                 loopTask, resuming, resumePc, step, packet, tries, todo>>

FailInterrupted(k) ==
  /\ up = "boot" /\ blamed = {} /\ Oldest(k)
  /\ rows[k].docs = NoDocs
  /\ rows' = MarkExtractionFailed(rows, k)
  /\ claims' = claims \ {k}
  /\ blamed' = {k}
  /\ UNCHANGED <<intakeVars, cartographVars, kept, up, stops, loopPc, loopTask,
                 resuming, resumePc, step, packet, tries, todo>>

ReportInterrupted ==
  /\ up = "boot"
  /\ \E k \in blamed : NoticeSent(k)
  /\ blamed' = {}
  /\ UNCHANGED <<intakeVars, diskVars, up, stops, loopPc, loopTask, claims,
                 resuming, resumePc, step, packet, tries, todo, imports, sent,
                 accepted, delivered, wanted>>

(* The server answers, and the resume thread, if a row was claimed, starts *)
(* with its delay.                                                         *)
Serve ==
  /\ up = "boot" /\ claims = {} /\ blamed = {}
  /\ up' = "up"
  /\ resumePc' = IF resuming = <<>> THEN "idle" ELSE "delay"
  /\ UNCHANGED <<intakeVars, cartographVars, diskVars, stops, loopPc, loopTask, claims,
                 resuming, step, packet, tries, todo, blamed>>

(* After the delay it asks for the intake: the one that serves or, when    *)
(* the process is stopping meanwhile, a new one.                           *)
ResumeWakes ==
  /\ resumePc = "delay"
  /\ IF stopped THEN Reopen ELSE UNCHANGED intakeVars
  /\ resumePc' = "submitting"
  /\ UNCHANGED <<cartographVars, diskVars, up, stops, loopPc, loopTask, claims, resuming,
                 step, packet, tries, todo, blamed>>

ResumeJoin ==
  /\ resumePc = "submitting" /\ resuming # <<>>
  /\ Join("resume", Head(resuming))
  /\ resuming' = Tail(resuming)
  /\ UNCHANGED <<diskVars, cartographVars, up, stops, loopPc, loopTask, claims, resumePc,
                 step, packet, tries, todo, blamed>>

ResumeEnqueue ==
  /\ Enqueue("resume")
  /\ resumePc' = IF resuming = <<>> THEN "idle" ELSE resumePc
  /\ UNCHANGED <<diskVars, cartographVars, up, stops, loopPc, loopTask, claims, resuming,
                 step, packet, tries, todo, blamed>>

(* The pool it was given has been shut down: submit raises and ends the    *)
(* thread.                                                                 *)
ResumeRefused ==
  /\ Refuse("resume")
  /\ resuming' = <<>> /\ resumePc' = "idle"
  /\ UNCHANGED <<diskVars, cartographVars, up, stops, loopPc, loopTask, claims, step,
                 packet, tries, todo, blamed>>

-----------------------------------------------------------------------------
(* The intake's keeper over the store: it touches rows by label.           *)
KeeperSnapshot ==
  /\ KeeperWake
  /\ UNCHANGED <<processVars, diskVars, cartographVars, up, stops>>

\* Mutant: a keeper that beats and touches no row.
KeeperBeatsNothing(l) ==
  /\ KeeperTouch(l)
  /\ UNCHANGED <<processVars, cartographVars, diskVars, up, stops>>

KeeperBeat(l) ==
  /\ KeeperTouch(l)
  /\ rows' = Touch(rows, l)
  /\ UNCHANGED <<processVars, cartographVars, kept, up, stops>>

(* A tick is one period of the keeper (a minute): in it the keeper makes   *)
(* one pass, a handler or a start finishes, a worker begins what it took,  *)
(* and resume submits what it claimed (ten seconds). QuietBound and        *)
(* WaitBound say how long a running audit and a case in the pool's queue   *)
(* may leave their row untouched; the code bounds neither, so an instance  *)
(* that sets one below Stale makes an assumption about the packets.        *)
TimeMayPass ==
  /\ keeperPc = "asleep" \/ stopped
  /\ loopPc = "idle" /\ up # "boot"
  /\ resuming = <<>> /\ \A s \in Submitter : joining[s] = NoTask
  /\ \A w \in Worker : phase[w] # "taken"
  /\ \A w \in Worker : phase[w] = "running" /\ step[w] \in LiveSteps
                         => rows[Job(slot[w])].age < QuietBound
  /\ \A i \in DOMAIN queue : rows[Job(queue[i])].age < WaitBound

Tick ==
  /\ TimeMayPass
  /\ rows' = Aged(rows)
  /\ IF up = "down" \/ stopped THEN UNCHANGED intakeVars ELSE KeeperAlarm
  /\ UNCHANGED <<processVars, cartographVars, kept, up, stops>>

WindowCloses(k) ==
  /\ rows[k].recent
  /\ rows' = CloseWindow(rows, k)
  /\ UNCHANGED <<intakeVars, processVars, cartographVars, kept, up, stops>>

-----------------------------------------------------------------------------
LoopStep ==
  \/ ClaimDuplicate \/ ClaimCase \/ KeepRequest \/ HandlerRaises
  \/ LoopJoin \/ LoopEnqueue

AuditStep(w) ==
  \/ TakeCase(w) \/ BeginCase(w) \/ StartAudit(w)
  \/ Fetch(w) \/ FallBack(w) \/ DocumentsUnavailable(w)
  \/ PagesRead(w) \/ RetryExtraction(w) \/ ExtractionFails(w) \/ Extract(w)
  \/ DeliveryNotConfigured(w) \/ Post(w)
  \/ DeliveryRaised(w) \/ DeliveryRecorded(w)
  \/ DeliveryRejected(w) \/ DeliveryAccepted(w)
  \/ Unexpected(w) \/ UnexpectedMarked(w)
  \/ Report(w) \/ RemoveWorkDir(w) \/ LeaveCase(w)

WatchdogStep == WatchdogList \/ WatchdogReport \/ \E k \in todo : WatchdogFail(k)

StartStep ==
  \/ Restart \/ Serve \/ ReportInterrupted
  \/ \E k \in claims : ClaimInterrupted(k) \/ FailInterrupted(k)

ResumeStep == ResumeWakes \/ ResumeJoin \/ ResumeEnqueue \/ ResumeRefused

KeeperStepOnRows == KeeperSnapshot \/ \E l \in beats : KeeperBeat(l)

Next ==
  \/ \E e \in Sender, c \in Case, d \in Docs : Notify(e, c, d)
  \/ LoopStep
  \/ \E w \in Worker : AuditStep(w) \/ Heartbeat(w)
  \/ WatchdogStep \/ RetentionSweep
  \/ \E c \in Case : PrunePacket(c)
  \/ BeginShutdown \/ Stop \/ StartStep \/ ResumeStep \/ KeeperStepOnRows \/ Tick
  \/ \E k \in Key : ImportResult(k) \/ WindowCloses(k)

SafetySpec == Init /\ [][Next]_vars

(* Every thread of the process keeps running, every call returns, the      *)
(* supervisor starts the engine again, a stopping process ends, and time   *)
(* passes. Nothing makes Cartograph call, a process stop, a heartbeat come *)
(* or a sweep delete.                                                      *)
Fairness ==
  /\ WF_vars(LoopStep)
  /\ \A w \in Worker : WF_vars(AuditStep(w))
  /\ WF_vars(WatchdogStep)
  /\ WF_vars(StartStep)
  /\ WF_vars(ResumeStep)
  /\ WF_vars(KeeperStepOnRows)
  /\ WF_vars(Tick)
  /\ WF_vars(up = "stopping" /\ Stop)

Spec == SafetySpec /\ Fairness
=============================================================================
