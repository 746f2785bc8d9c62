------------------------------ MODULE JobStore ------------------------------
(***************************************************************************)
(* The table of audit jobs (app/services/audit/job_store.py): what each    *)
(* operation makes of it, as an operator on the table. Every operation is  *)
(* one transaction, so the callers use it in one step.                     *)
(*                                                                         *)
(* A row keeps its state; the stored request (`cartograph_request`, as the *)
(* documents it names); `created_at`, as the number of the notification    *)
(* that created it; the age of `updated_at` in ticks of the model's clock, *)
(* up to Stale, the watchdog's patience; and whether `completed_at` is     *)
(* within the repost window. A key without a row is in state "absent".     *)
(* Extraction, findings, confidence, error, delivery and import texts are  *)
(* written by the same statements and are not told apart.                  *)
(***************************************************************************)
EXTENDS Cases, Naturals

CONSTANT Stale     \* audit_watchdog_seconds, in ticks

ASSUME StaleAssumption == Stale \in Nat \ {0}

OwnedStates == {"queued", "extracting", "extracted", "comparing"}

TerminalStates == {"done", "extraction_failed", "comparison_failed", "mulesoft_timeout"}

(* "pending", "comparing" and "mulesoft_timeout" are retired: only rows    *)
(* older than the code have them.                                          *)
State == OwnedStates \cup TerminalStates \cup {"pending"}

\* Mutant: a delivery that never ends is not looked for.
WedgeProneBeforeDelivery == {"queued", "extracting"}

WedgeProneStates == {"queued", "extracting", "extracted"}

Row == [state : State \cup {"absent"}, docs : Docs \cup {NoDocs}, created : Nat,
        age : 0..Stale, recent : BOOLEAN]

NoRow == [state |-> "absent", docs |-> NoDocs, created |-> 0, age |-> 0, recent |-> FALSE]

Table == [Key -> Row]

Present(tbl, k) == k \in Key /\ tbl[k].state # "absent"

\* Mutant: a case is let in again while it is delivered.
OwnedUntilExtracted(tbl, k) ==
  Present(tbl, k) /\ tbl[k].state \in OwnedStates \ {"extracted"}

IsOwned(tbl, k) == Present(tbl, k) /\ tbl[k].state \in OwnedStates

IsTerminal(tbl, k) == Present(tbl, k) /\ tbl[k].state \in TerminalStates

(* An UPDATE ... WHERE case_id = ? that matches no row changes nothing.    *)
SetState(tbl, k, s) ==
  IF Present(tbl, k) THEN [tbl EXCEPT ![k].state = s, ![k].age = 0] ELSE tbl

Touch(tbl, k) ==
  IF Present(tbl, k) THEN [tbl EXCEPT ![k].age = 0] ELSE tbl

(* A case some worker owns is left as it is; otherwise the row is created  *)
(* or reset, claimed. The reset clears the results and completed_at and    *)
(* leaves created_at and the stored request as they were.                  *)
UpsertPending(tbl, k, now) ==
  IF IsOwned(tbl, k) THEN tbl
  ELSE [tbl EXCEPT ![k] =
          [state |-> "queued", docs |-> tbl[k].docs, age |-> 0, recent |-> FALSE,
           created |-> IF Present(tbl, k) THEN tbl[k].created ELSE now]]

\* Mutant: a state the table does not know.
MarkRunning(tbl, k) == SetState(tbl, k, "running")

MarkExtracting(tbl, k) == SetState(tbl, k, "extracting")

MarkExtracted(tbl, k) == SetState(tbl, k, "extracted")

MarkExtractionFailed(tbl, k) == SetState(tbl, k, "extraction_failed")

MarkComparisonFailed(tbl, k) == SetState(tbl, k, "comparison_failed")

MarkDone(tbl, k) ==
  IF Present(tbl, k)
  THEN [tbl EXCEPT ![k].state = "done", ![k].age = 0, ![k].recent = TRUE]
  ELSE tbl

RecordRequest(tbl, k, d) ==
  IF Present(tbl, k) THEN [tbl EXCEPT ![k].docs = d, ![k].age = 0] ELSE tbl

RecordDelivery(tbl, k) == Touch(tbl, k)

RecordImportResult(tbl, k) == Touch(tbl, k)

\* Mutant: the watchdog is a tick early.
WedgedEarly(tbl) == {k \in Key : tbl[k].state \in WedgeProneStates /\ tbl[k].age + 1 >= Stale}

(* The rows the watchdog takes for those of a dead worker.                 *)
Wedged(tbl) == {k \in Key : tbl[k].state \in WedgeProneStates /\ tbl[k].age = Stale}

(* What the retention sweep may delete: terminal rows, the youngest a day  *)
(* old, which in ticks is at least the watchdog's patience.                *)
DeleteRows(tbl, old) == [k \in Key |-> IF k \in old THEN NoRow ELSE tbl[k]]

Expired(tbl) == {k \in Key : IsTerminal(tbl, k) /\ tbl[k].age = Stale}

(* A tick of the clock ages every row.                                     *)
Aged(tbl) ==
  [k \in Key |-> IF tbl[k].state # "absent" /\ tbl[k].age < Stale
                 THEN [tbl[k] EXCEPT !.age = @ + 1] ELSE tbl[k]]

(* The repost window of a delivered case closes.                           *)
CloseWindow(tbl, k) == [tbl EXCEPT ![k].recent = FALSE]

(* The notification repeats the one already audited: the row is done, was  *)
(* delivered within the window, and its stored request named the same      *)
(* documents.                                                              *)
RepeatOfDelivered(row, d) == row.state = "done" /\ row.recent /\ row.docs = d
=============================================================================
