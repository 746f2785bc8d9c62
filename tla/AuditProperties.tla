-------------------------- MODULE AuditProperties ---------------------------
(***************************************************************************)
(* What should be true of the engine, and what its documentation says of   *)
(* it. Which of these holds under which assumptions is what the runs and   *)
(* the theorems show.                                                      *)
(***************************************************************************)
EXTENDS AuditEngine

LoopPcs == {"idle", "checked", "claimed", "recorded", "joined"}

Steps == LiveSteps \cup {"none", "report", "reportAndClean", "clean", "end"}

(* The types of the process's state, the job store and the ghosts.         *)
TypeOK ==
  /\ IntakeTypeOK
  /\ up \in {"down", "boot", "up", "stopping"}
  /\ rows \in Table
  /\ kept \in [Case -> Packet \cup {NoPacket}]
  /\ loopPc \in LoopPcs
  /\ loopTask \in Task \cup {NoTask}
  /\ loopPc \in {"checked", "claimed", "recorded"} <=> loopTask # NoTask
  /\ claims \subseteq Key
  /\ resuming \in Seq(Task)
  /\ resumePc \in {"idle", "delay", "submitting"}
  /\ step \in [Worker -> Steps]
  /\ packet \in [Worker -> Packet \cup {NoPacket}]
  /\ tries \in [Worker -> Nat]
  /\ todo \subseteq Key
  /\ blamed \subseteq Key
  /\ imports \subseteq Key
  /\ sent \in Nat /\ stops \in Nat
  /\ accepted \in [Key -> Nat]
  /\ delivered \in [Key -> Nat]
  /\ heard \in [Key -> SUBSET {"result", "failure"}]
  /\ wanted \in [Key -> Docs \cup {NoDocs}]

-----------------------------------------------------------------------------
(* Who holds a job: the handler between the claim and the line, the line,  *)
(* the resume thread, or a worker up to the mark that ends the audit.      *)
LoopHolds(k) == loopPc \in {"claimed", "recorded"} /\ Job(loopTask) = k

JoiningHolds(s, k) == joining[s] # NoTask /\ Job(joining[s]) = k

QueueHolds(i, k) == Job(queue[i]) = k

ResumeHolds(i, k) == Job(resuming[i]) = k

WorkerHolds(w, k) ==
  /\ phase[w] = "taken" \/ (phase[w] = "running" /\ step[w] \in LiveSteps)
  /\ Job(slot[w]) = k

Held(k) ==
  \/ LoopHolds(k)
  \/ \E s \in Submitter : JoiningHolds(s, k)
  \/ \E i \in DOMAIN queue : QueueHolds(i, k)
  \/ \E i \in DOMAIN resuming : ResumeHolds(i, k)
  \/ \E w \in Worker : WorkerHolds(w, k)

HolderCount(k) ==
  (IF LoopHolds(k) THEN 1 ELSE 0)
    + Cardinality({s \in Submitter : JoiningHolds(s, k)})
    + Cardinality({i \in DOMAIN queue : QueueHolds(i, k)})
    + Cardinality({i \in DOMAIN resuming : ResumeHolds(i, k)})
    + Cardinality({w \in Worker : WorkerHolds(w, k)})

DefaultKeys == {BareKey(c) : c \in Case}

(* The watchdog's patience exceeds what an audit leaves its row untouched, *)
(* and what a case waits in the pool's queue: in a named environment the   *)
(* keeper's minute, in the default one, whose rows its labels miss, the    *)
(* whole wait. The code sets the patience and bounds neither of the others.*)
PatientWatchdog ==
  /\ QuietBound < Stale
  /\ \/ Sender \subseteq {DefaultEnv} /\ WaitBound < Stale
     \/ DefaultEnv \notin Sender /\ Stale > 1

-----------------------------------------------------------------------------
(* A case costs one audit at a time: no second audit of a job is queued,   *)
(* resumed or run while one is (upsert_pending's dedupe, the watchdog that *)
(* must not release it early, and the claim at start together).            *)
OneAuditPerJob == \A k \in Key : HolderCount(k) <= 1

(* No row of the default environment is stranded: while the process        *)
(* serves, every owned row is held by somebody who will end it, and at     *)
(* start by the claim - through failures, exceptions, the watchdog and     *)
(* restarts (audit_case's docstring: a row left "extracting" makes every   *)
(* re-notification a duplicate).                                           *)
OwnedIsHeld ==
  up \in {"boot", "up"} =>
    \A k \in DefaultKeys : IsOwned(rows, k) => k \in claims \/ Held(k)

(* Cartograph receives no result it did not ask for: one per accepted      *)
(* notification, and at most one more each time the process stops between  *)
(* the delivery and the mark.                                              *)
ResultsAreAccountedFor == \A k \in Key : delivered[k] <= accepted[k] + stops

(* The watchdog fails no row that somebody holds (config.py on             *)
(* audit_watchdog_seconds: a slow packet is never mistaken for a dead one).*)
WatchdogSparesTheLiving ==
  [][\A k \in todo : k \notin todo' /\ up' # "down" => ~Held(k)]_vars

(* An extraction that failed is an extraction Cartograph has heard of,     *)
(* once nobody is left to report it: while the process has not stopped and *)
(* the network carries every call (README.md: a case never stops silently).*)
ExtractionFailureIsReported ==
  stops = 0 /\ ~NetworkFails =>
    \A k \in DefaultKeys :
      rows[k].state = "extraction_failed" =>
        \/ "failure" \in heard[k]
        \/ k \in blamed
        \/ \E w \in Worker :
             phase[w] = "running" /\ step[w] \in {"report", "reportAndClean"} /\ Job(slot[w]) = k

(* A row that some worker owns does not stay owned for ever: the audit     *)
(* ends, or the watchdog notices, or the next start runs it again - so a   *)
(* re-notification is eventually let through.                              *)
OwnedRowsSettle == \A k \in Key : IsOwned(rows, k) ~> ~IsOwned(rows, k)

(* The engine implements the lifecycle its README promises.                *)
Status(s) ==
  CASE s = "queued" -> "waiting"
    [] s = "extracting" -> "auditing"
    [] s = "extracted" -> "delivering"
    [] s \in {"extraction_failed", "comparison_failed"} -> "failed"
    [] OTHER -> s

Lifecycle == INSTANCE JobLifecycle WITH
  Id <- Key,
  status <- [k \in Key |-> Status(rows[k].state)],
  answered <- [k \in Key |-> "result" \in heard[k]]

ImplementsLifecycle == Lifecycle!LifeSpec
=============================================================================
