---------------------------- MODULE AuditClaims -----------------------------
(***************************************************************************)
(* Sentences of the repository's documentation and comments that the code  *)
(* does not keep, each as a property a run refutes. README.md, "Findings", *)
(* tells each counterexample.                                              *)
(***************************************************************************)
EXTENDS AuditProperties

(* README.md, "Job lifecycle": `done` means delivered to Cartograph, and   *)
(* environments.py: a staging run never collides with the prod run of the  *)
(* same reference. (mark_done is given the bare case reference: the        *)
(* staging run's mark hits the default row, and its own stays extracted.)  *)
DoneWasDelivered == \A k \in Key : rows[k].state = "done" => delivered[k] > 0

\* A worker whose audit is using the work directory of its case reference.
Extracting(w) == phase[w] = "running" /\ step[w] \in {"read", "extract"}

(* tasks.py: per-job work dir, which concurrent extractions must not share *)
(* (page images and texts are named by page number only). (A failed audit  *)
(* marks the row, which lets a new notification in, tells Cartograph, and  *)
(* only then deletes the directory of the case reference.)                 *)
WorkDirIsNotDeletedUnderAnAudit ==
  [][\A v, w \in Worker :
        step[v] = "clean" /\ step'[v] # "clean" /\ v # w /\ Extracting(w) => slot[w].case # slot[v].case]_vars

(* routers/integration.py: a retry of a delivered case costs one audit,    *)
(* not two. (The row is read before it is marked done, and claimed after.) *)
RepeatCostsOneAudit ==
  [][\A k \in Key :
        loopPc = "checked" /\ loopPc' = "claimed" /\ Job(loopTask) = k
          => ~RepeatOfDelivered(rows[k], loopTask.docs)]_vars

(* resume.py: what is run again is the request as received. (It is read    *)
(* from the row, where the claim leaves the request of the notification    *)
(* before until record_request replaces it.)                               *)
ResumeRunsTheLastRequest ==
  \A i \in DOMAIN resuming : resuming[i].docs = wanted[Job(resuming[i])]

(* tasks.py: the kept packet that stands in for expired links is the one   *)
(* they pointed at. (It is the newest kept for the case reference, of      *)
(* whatever request and environment.)                                      *)
FallbackIsTheRequestsPacket ==
  \A w \in Worker :
    Extracting(w) => packet[w] = [env |-> slot[w].env, docs |-> slot[w].docs]
=============================================================================
