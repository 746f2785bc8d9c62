---------------------------- MODULE JobLifecycle ----------------------------
(***************************************************************************)
(* What the engine promises of one job, as README.md's "Job lifecycle"     *)
(* tells it: an accepted case waits, is audited, has its result delivered  *)
(* or fails; a case under way is never accepted a second time; a case is   *)
(* done only when Cartograph has its result; only an ended case is         *)
(* forgotten. An audit interrupted by a restart starts over.               *)
(***************************************************************************)
CONSTANT Id

VARIABLES
  status,     \* per job
  answered    \* per job: Cartograph has a result for the last acceptance

jobVars == <<status, answered>>

UnderWay == {"waiting", "auditing", "delivering"}

Ended == {"done", "failed"}

LifeInit ==
  /\ status = [k \in Id |-> "absent"]
  /\ answered = [k \in Id |-> FALSE]

Become(k, s) == status' = [status EXCEPT ![k] = s]

Accept(k) ==
  /\ status[k] \notin UnderWay
  /\ Become(k, "waiting")
  /\ answered' = [answered EXCEPT ![k] = FALSE]

Start(k) == status[k] \in UnderWay /\ Become(k, "auditing") /\ UNCHANGED answered

Complete(k) == status[k] = "auditing" /\ Become(k, "delivering") /\ UNCHANGED answered

Receive(k) ==
  /\ status[k] = "delivering"
  /\ answered' = [answered EXCEPT ![k] = TRUE]
  /\ UNCHANGED status

Finish(k) ==
  /\ status[k] = "delivering" /\ answered[k]
  /\ Become(k, "done")
  /\ UNCHANGED answered

Fail(k) == status[k] \in UnderWay /\ Become(k, "failed") /\ UNCHANGED answered

Forget(K) ==
  /\ \A k \in K : status[k] \in Ended
  /\ status' = [k \in Id |-> IF k \in K THEN "absent" ELSE status[k]]
  /\ UNCHANGED answered

LifeNext ==
  \/ \E k \in Id : Accept(k) \/ Start(k) \/ Complete(k) \/ Receive(k) \/ Finish(k) \/ Fail(k)
  \/ \E K \in SUBSET Id : Forget(K)

LifeSpec == LifeInit /\ [][LifeNext]_jobVars
=============================================================================
