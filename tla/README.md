# IDP engine: specification, model checking and proofs

IDP is one FastAPI process that audits certification packets for Cartograph: a
notification is accepted, the case waits in a bounded line, a worker fetches and reads
the packet, extracts it and posts the result back. This directory specifies two things:
the engine, in which threads, a persistent job store, an unreliable peer and restarts meet;
and the long sequences of passes that turn pages into records and records into answers,
where the order of the passes and the retries of the model calls decide what is delivered.
Both are checked with TLC, and the main invariants are proved with TLAPS. Paths below are
relative to `src/` (or `src/app/services/` where only a file is named).

Contents: 1 the system, 2 the modules, 3 the runs, 4 bounds, 5 fairness, 6 findings,
7 proofs, 8 what is only model-checked and what is not modelled, 9 the plan.

---

## 1. The system

### Components, their state and operations

| Component | Code | State | Operations |
|---|---|---|---|
| Job store | `app/services/audit/job_store.py` | SQLite table `audit_jobs`: one row per job key (state, stored request, `created_at`, `updated_at`, results) and `finding_feedback` | `upsert_pending`, `mark_*`, `touch`, `record_*`, `get`, `list_*`, `delete_terminal_older_than` - each one transaction under one lock |
| Intake | `app/services/cartograph/intake.py` | pool queue, `_waiting`, `_running`, keeper thread | `submit`, `_audit`, `_keep_alive`, `shutdown` |
| Notification handler | `app/routers/integration.py` | none of its own | `receive_case`, `cartograph_import_result`, `cartograph_findings_feedback` |
| Audit worker | `app/services/cartograph/tasks.py` | local to the call; packets under `output/pdfs`, a work directory | `audit_case` (wrapper) and `_audit_case` |
| Resume | `app/services/cartograph/resume.py` | list of claimed rows | `claim_interrupted_cases`, `run_interrupted_cases` |
| Maintenance | `app/services/cartograph/maintenance.py` | the watchdog's list | retention, output and watchdog sweeps |
| Environments | `app/services/cartograph/environments.py` | settings | `identify`, `job_key`, `is_configured` |
| Outbound client | `app/services/cartograph/client.py` | none | `post_extraction`, `post_failure` |
| Lifespan, supervisor | `app/main.py`, `scripts/engine.sh` | process up or down | start order, graceful stop, restart |
| Page reading | `app/services/pdf_service.py`, `ocr_service.py` | per page: image, text, score, flags; the vision queue | OCR tiers, rotation probe, text layer, vision reads |
| Model calls | `llm_service.py`, `extractor.py` (`_run_per_group`) | the reads of a section under way | second ask, API retries, reader pools, typed failures |
| Classification | `two_pass_classifier.py`, `doc_taxonomy.py` | the groups of pages | complete, split, order, relabel, demote |
| Extraction | `extractor.py`, `text_sanitizer.py` | records of a document, stubs, declared lines, accounts | reads and re-reads, provenance, unification, reconciliation |
| Income list | `pipeline.py` | income records and stubs of the case | nine passes that fill, merge, rename and drop them |
| Income calculation | `income_calculator.py`, `hours_resolver.py` | the rows of one source | six methods in evidence order, audit rows |
| Identity and names | `name_reconciler.py`, `identity.py`, `pipeline.py` | members, clusters of spellings | cluster, rename, dedupe, resolve numbers and dates |
| Links | `app/services/cartograph/manifest.py` | claims on held rows | members, then records |
| Feedback | `app/routers/integration.py`, `audit/job_store.py` | `finding_feedback` | batches of verdicts, re-sends |
| Rules and scores | `validation.py`, `cross_doc_validator.py`, `completeness.py`, `field_scorer.py`, ... | none (pure) | findings, scores |
| Payload | `app/services/cartograph/adapter.py`, `checklist.py`, `documents.py` | none (pure but for the downloads) | packet assembly, payload, checklist matches |

`PROJECT.json` lists every component with its modules or the reason it has none.

### How they interact

The event loop claims a row and submits the case to the intake; an intake worker runs
`audit_case`, which marks the row as it goes; the keeper and the audits touch rows so
that the watchdog leaves them alone; the watchdog fails rows nobody touches; the
retention sweep deletes ended ones; at start the resume path claims the rows the last
process owned. All of them meet in the job store, and *whether a row is owned* decides
whether a re-notification is accepted. Each store call is atomic. The program takes no
transaction across two of them, so every pair of consecutive calls is a place where
another thread can run or the process can die.

Inside one audit the interaction is a sequence: pages are read (`process_pdf`), grouped
(`two_pass_classifier`), each document is read by the model (`extractor`), the sections are
reconciled with each other and with the certification (`extractor`, `pipeline`), members
and names are settled, income is calculated, and the payload's records are linked to the
rows Cartograph already holds. The passes share mutable lists of records; none of them
knows what the others assume.

### What is hard, and what correctness means

- one audit of a job at a time, through duplicates, restarts and the watchdog;
- an owned row always has somebody who will end it, and ends;
- the watchdog fails dead audits and spares live ones;
- Cartograph hears of every failure and gets no result it did not ask for;
- `done` means delivered; a job moves only along the documented lifecycle;
- the line is FIFO, bounded, drops nothing, and its heartbeat covers exactly it;
- what a restart runs again is the last request, on its own packet;
- the text of a page was read off its image and a doubtful one was questioned;
- a delivered case has read every document, and no amount is one its pages do not print;
- an income, an account or a member is counted once: not lost, not doubled, not joined
  with another's;
- a figure that counts is the income, in whatever basis the documents state it;
- the value of the certification stands, and values that disagree leave a finding;
- a held row goes to the best claim, and a reviewer's accepted verdict stands.

`PROJECT.json` lists each hazard at its line, with the properties that cover it or the
reason none does yet.

---

## 2. The modules

```
  Cases            names: environments, cases, requests, packets, job keys, labels
    |-- Intake     the line, its pool, tables and keeper     -- implements --> BoundedLine
    |-- JobStore   every operation on the table of rows
          |-- AuditEngine      all threads over one store, crashes and restarts
                |-- AuditProperties   what should hold       -- implements --> JobLifecycle
                      |-- AuditClaims      documented sentences the code breaks
                      |     |-- MCAudit      the engine for TLC
                      |-- AuditProofs (with IntakeProofs)   types; no row is stranded
                            |-- HolderProofs                one audit at a time
                                  |-- CartographProofs      results and failure notices
                                  |-- LifecycleProofs       the engine refines JobLifecycle
  MCIntake         the intake for TLC

  PageReading, ModelCalls              Records      helpers of the record passes
        |                                |-- DocumentReading, PayStubs, Grouping
        |                                |-- IncomeRecords, IncomeCalculation, Declarations,
        |                                |   Assets, Household, Manifest      (and Feedback)
        |                                |-- OrderLemmas      least, foremost, sorted positions
  MCReading, ReadingProofs    extend PageReading, ModelCalls, DocumentReading, PayStubs, Grouping
  MCRecords                   extends the record modules and Feedback for TLC
  RecordProofs                extends IncomeRecords, Assets, Household, Manifest, Feedback
```

The algorithm modules take their inputs from CONSTANTS (packets, documents, households,
what a model call may answer) and give each pass of the code an action, so that a pass
that runs too early or twice shows. `MCReading` and `MCRecords` choose a part of the case
at the start of a behaviour (`part`) and let that component run by itself: the parts do
not share state in the model, because each begins from any input the one before could
have left, and two MC modules keep the inputs of related parts in one place.

**Cases** separates the two names the code uses for a case: `JobKey` (the job store: bare
reference in the default environment, `<env>:<ref>` elsewhere) and `Label` (the line:
always with the environment). Documents are abstracted to a member of `Docs`; two
requests with the same member are those `_document_keys` finds equal. A packet is the
request and environment it was fetched for.

**Intake** has one action per critical section: `Join` (the locked part of `submit`) and
`Enqueue` or `Refuse` (`pool.submit`), `Take` (the pool thread), `Begin` and `Leave` (the
locked parts of `_audit`), `KeeperAlarm`, `KeeperWake`, `KeeperTouch` (`_keep_alive`) and
`Shutdown`. The pool's queue and the `_waiting` table are different variables because
the code updates them at different times. `crew` is the pool in use: the workers
`FirstCrew` until a shutdown has closed their pool, and `Relief` once a late `get_intake` has
made a second intake (`Reopen`), since `shutdown_intake` leaves none behind.

**JobStore** gives each operation as an operator from table to table. `updated_at` is an
age in ticks up to `Stale` (the watchdog's patience); `created_at` is the number of the
notification that created the row; `completed_at` is whether the repost window is open.
An update of a key without a row changes nothing, as in SQL - several findings rest on
this.

**AuditEngine** composes them. `loopPc` is the handler's program counter (one handler at
a time: `receive_case` does not suspend between its store calls, since the body it
awaits is already cached by the signature check). `step[w]` is where `audit_case` stands
on worker `w`; the actions from `StartAudit` to `LeaveCase` are its store calls and
outbound calls in source order, with every early return. A delivery is recorded
(`DeliveryRecorded`) one transaction before the row is marked (`DeliveryAccepted`,
`DeliveryRejected`); the wrapper's `except` reads the row (`Unexpected`) one transaction before
it marks it (`UnexpectedMarked`). `HandlerRaises` is the handler failing between the claim and
the line on checklist rows it cannot read, where `OddRequests` lets a notification carry them.
The resume thread is `ResumeWakes`, `ResumeJoin`, `ResumeEnqueue`, `ResumeRefused`: if it wakes from its
delay while the process stops, it gets a second intake and begins what it claimed. The maintenance thread is `RetentionSweep`, `PrunePacket`, `WatchdogList`,
`WatchdogFail`, `WatchdogReport`. `Stop` is a crash or the end of a shutdown: it resets
all process state and leaves `rows` and `kept` (the disk). `Restart`, `ClaimInterrupted`,
`FailInterrupted`, `ReportInterrupted` and `Serve` are the lifespan's start in order.
The last six variables are history: what Cartograph accepted, received and heard.

`Tick` is one keeper period. `TimeMayPass` says what the code's own timers guarantee
within one (the keeper's pass, a handler, resume's ten-second delay) and two bounds the
code does *not* guarantee: `QuietBound`, how long a running audit leaves its row
untouched, and `WaitBound`, the same for a case in the queue. Runs that set them below
`Stale` assume something about packets; runs that set them above assume nothing.

**AuditProperties** defines `Held(k)`, who will end job `k`: the handler that claimed it,
the line, the resume thread or a worker before its final mark. The ownership properties
relate `rows` to it. `Lifecycle` maps rows and what Cartograph heard onto **JobLifecycle**.

**PageReading** (`process_pdf`). One action per phase and page: `JudgeLayers`, `OcrPage`,
`ProbePage`, `SecondTierPage`, `QueuePage`, `LayerPage`, `VisionPage`, `WritePages`. A text is
the sequence of readers it came from; a read carries its length class, its score in
twentieths if it has one (a read without a score is not queued by score), its flags, what the
tests on the text would find, and the images it was read from. The vision read is given the
colour render where one was kept, which the probe does not turn; `vision` records which image it
was shown, and the text that results was read from that one. OCR services and the model answer
anything in `OcrRead` and `VisionLen`.

**ModelCalls** (`llm_service`, `_run_per_group`, `run_with_retry`). The documents of a
section are read by a pool; each call may meet a busy API, a refusal, an answer cut off or
not JSON; the second ask, the cancelled rest of a failed section, the retry of the whole
case. `answers` is what each section is left with. `FailsTheCase` names the sections whose failure the code does not swallow.

**Grouping** (`two_pass_classifier`, `pipeline`). The model's groups made whole, in the
code's order: `BuildGroups`, `SplitGroup`, `OrderCertifications`, `RelabelGroup`,
`DemoteHudOnly`, `PromotePrior`, `DemoteSuperseded`. The passes that walk the list take a
group at a time from `pending`; a group's pages are a set, since the code keeps them sorted.

**DocumentReading** (`extract_income` for one document). A page is the set of figures it
prints; the model may answer any records, figures it invents included. The actions are the
read, the retry for amounts, the drop of unpaid benefits, the second read, the fixed letter
wording, the page images and the read after them.

**PayStubs** (`_unify_paystub_sources`, `_repair_paystub_ytd`). Near-identical names are a
relation that is not transitive, as `SequenceMatcher` is not; a job is the least set of
stubs that holds one and every stub tied to one in it, which is what the code's union-find
computes. `RepairYtd` repairs one figure at a time, in the code's order.

**IncomeRecords** (`run_extraction_pipeline`, steps 3b to 3f). Nine passes over one list,
one action each. Where the code sorts a group and folds the rest into its first, the model
names the `Foremost` by the same rank and what is `FirstSaid` of each field in that order.
**IncomeCalculation** (`calculate_all_methods`): `TryMethod` takes the
methods in order, `AuditYearToDate` adds the audit rows. **Declarations**
(`_reconcile_income` and what stands around it): `about` records which income a line is
really about; it is history that no guard reads. A line whose annual figure is above the
ceiling loses its period, in the table too (`Plausible`), and a stated zero is a figure. **Assets** (`extract_assets`,
`_deduplicate_assets`): each pass takes the records of `unread` one by one and makes `built`
of them. **Household** (`reconcile_names`, `_deduplicate_household_members`,
`resolve_identities`). **Manifest** (`link_payload`): claims are awarded one by one, best
first. **Feedback** (`cartograph_findings_feedback`, `record_findings_feedback`): one case per
transaction, a failure between two, re-sends in any order.

---

## 3. The runs

Deadlock is checked in every run: the clock, the sweeps and restarts always leave a step,
and each sequence of passes ends in a step that changes nothing.

| Run | Instance | Distinct states | Shows |
|---|---|---|---|
| `intake_line` | intake alone; 3 cases, 2 workers, 2 submitters | 42,606 | types; `HeartbeatCoversLine`; `NothingLeavesTheLineUnaudited`; `EveryCaseIsBegun` (liveness); the intake implements `BoundedLine` |
| `default_environment` | 1 environment, 1 case, 3 notifications, 2 workers, 1 stop; notifications the handler trips over; a held row is never untouched for the patience | 1,921,073 | types; `OneAuditPerJob`; `ExtractionFailureIsReported`; `WatchdogSparesTheLiving`; the engine implements `JobLifecycle` |
| `named_environment` | a staging case beside the default environment; waits without bound, 2 attempts, 2 stops, a second intake at shutdown | 2,269,561 | `OneAuditPerJob`, `WatchdogSparesTheLiving`: where the label is the key, the keeper's heartbeat does protect the line |
| `slow_packets` | no bound on untouched rows; calls and answers lost | 4,602,924 | `OwnedIsHeld`, `ResultsAreAccountedFor` survive a watchdog that fails live audits |
| `rows_settle` | both environments, delivery not configured for staging, fairness, 2 stops, a second intake, notifications the handler trips over | 200,305 | `OwnedRowsSettle` (liveness): no row stays owned for ever |
| `case_reading` | two pages and ten OCR answers, one without a score and one cut off among them; three documents, two readers; three pages in up to three groups; two-page documents; three stubs | 3,992,640 | types; `TextIsOfTheImage`, `DoubtfulPagesAreReadAgain`, `ReliableTextIsNotShortened`; `FinishedAuditHasReadEverything`; `ACertificationIsRead`, `EveryPageIsInOneGroup`; `AmountsAreOnTheirPages`; `StubsOfOneJobRunOn` |
| `case_records` | up to three income records and two stubs; 8 methods' evidence at four frequencies; two records against two lines; two statements, two lines; up to three members; two members against two rows; three batches sent twice | 1,768,806 | `VerifiedIncomeSurvives`, `OneRecordPerSource`, `OrphanStubsHaveARecord`, `CollapseDropsNoFigureSilently`; `CountedFigureIsTheIncome`; `VerifiedIncomeIsNotDeclaredBeside`; `NoAccountIsCountedTwice`; `MembersAreNeverJoined`, `ConflictingIdentitiesAreReported`, `TheCertificationsValueStands`; `RowsGoToTheBetterClaim`; `AcceptedVerdictsStand` |
| `done_was_delivered`, `repeat_audited_twice`, `stale_request_resumed`, `wrong_packet_audited`, `work_dir_deleted` | the engine | - | one documented sentence each, refuted (section 6) |

Every property of a passing run is broken by a plausible defect of the code: the
operators commented "Mutant:" stand before the definition they replace, and
`PROJECT.json` pairs each with the property that then fails.

In every engine run but `slow_packets` there are rows for the watchdog to fail, so that the
properties about it are put to the test: those a raising handler left behind
(`default_environment`, `named_environment`, `rows_settle`) and the staging rows whose audit
marked the bare reference (`named_environment`, `rows_settle`). In `slow_packets` it fails the
rows of live audits. That the work directory is one audit's own is nowhere claimed:
`work_dir_deleted` shows it is not.

---

## 4. Bounds, and why they are enough

- *Workers* 2: the smallest number at which two audits interleave. The workers of the first
  pool are interchangeable (`Symmetry` over `FirstCrew` and `Docs`; not used where liveness is
  checked). `Relief`, the pool made after a shutdown, is one more worker in `named_environment`,
  one of the two in `rows_settle`, and empty where the run is not about it.
- *Cases*: 1 in the engine. Cases with different references share no row, packet or
  directory; they share only the line and the workers, which `intake_line` covers with
  three. Two *environments* of one case are what does share state, and have their runs.
- `MaxNotify` 2 or 3: a case, its duplicate, and a re-notification after it ended.
- `MaxStops` 1, and 2 in `named_environment` and `rows_settle` (a recovery interrupted): every
  step is a stopping point; the state after a restart differs from a first start only in `rows`
  and `kept`, which any state before the stop can have.
- `Stale` 2 ticks: the least at which "touched last tick" and "untouched for the
  patience" differ; 1 in `slow_packets`, where the watchdog need not tell them apart.
  `QuietBound` and `WaitBound` are 1 (held rows are touched in time) or more than `Stale` (never
  binding: ages stop at `Stale`).
- `Attempts` 2 in `named_environment`, 1 elsewhere: an audit may fail at either attempt.
- `OddRequests` in `default_environment`, `named_environment` and `rows_settle`.
- An actual keeper period is at most a quarter of the patience (`get_intake`), the
  retention window a multiple of it, so both fit the same coarse clock.

For the sequences of passes the inputs are small and chosen for the cases the passes tell
apart; every module states its abstraction at its head and `MCReading` and `MCRecords`
list the inputs with a comment each.

- *Pages* 2: no page's text depends on another's except in `ScannerLayerFile`, which needs
  two garbled layers. Each OCR answer that takes a different branch of the gates is there.
- *Calls*: 3 documents and 2 readers, so one document waits while one fails; `MaxAttempts` 2.
- *Groups*: 3 pages are the least in which a split leaves a page to either side.
- *Documents* 2 pages and 2 positive figures; *stubs* 3, since joining is pairwise and not
  transitive.
- *Incomes* 3 records: two that merge and a third that competes; 2 stubs. Two members share
  a surname and one has two spellings.
- *Figures*: one source, true pay known to the model (`truth`) and stated at one of four
  frequencies; the property allows 10 % because rounding and a month short are in the code.
- *Form*: with its total read or not, so that a line above the ceiling (400,000 a year) comes
  through. `about` gives each line and record the income it is really about. Two restrictions
  are assumptions about the form, not about the code: no two lines are about one income, and
  a benefit is understated only where the member has not the other benefit (within 2 % of
  the other's figure the code cannot tell them apart).
- *Accounts*, *family*, *links*, *verdicts*: two of what is compared, and a third where a
  third can come between.

The theorems of section 7 have none of these bounds.

---

## 5. Fairness

`Spec` (used by `rows_settle`) adds weak fairness to the handler, each worker, the
watchdog, the start, resume, the keeper, the clock, and the end of a begun shutdown:
threads are scheduled and every call they make returns, because the code bounds it (HTTP
timeouts in `documents.py`, `ocr_service.py` and `client.py`, bounded retries in
`llm_service.py` and `run_with_retry`, SQLite's busy timeout), and `scripts/engine.sh`
starts a dead engine again. Nothing is assumed of Cartograph (it need not notify, accept
or report), of heartbeats, of deletions, or of crashes. `AuditStep(w)` is fair as a
whole, not branch by branch, so an audit may always fail. `IntakeSpec` is the same for
the intake alone; there a running audit ends because each of its calls does. The sequences
of passes are checked for safety only: each pass runs once and ends, and their runs reach
the last step (deadlock is checked) without a liveness property.

---

## 6. Findings

Counterexamples are the ones TLC prints for the run named. Doc lines are quoted in
`PROJECT.json`.

With a run:

1. `done_was_delivered`. `tasks.py:300`, `:323` and `:338` mark the outcome under
   `case_ref`, not the job key. A staging audit marks the prod row of the same reference;
   its own row stays `extracted` until the watchdog fails it.
2. `repeat_audited_twice`. The repeat check reads the row before the audit marks it done
   and the claim comes after, so a delivered case is audited again.
3. `stale_request_resumed`. A stop (or a failed write) between the claim and
   `record_request` leaves the earlier request on the row; the next start runs that one.
4. `wrong_packet_audited`. The fallback is the newest packet kept for the reference, of
   whatever request or environment.
5. `work_dir_deleted`. A failed audit's row lets the next audit in before the failed
   one deletes the work directory they share.

Met while modelling, without a run (`PROJECT.json` has line, quotation and explanation):

- *Engine*: the keeper touches labels, so a default-environment case in the queue has no
  heartbeat; the work directory is named without the environment; a failed delivery is
  marked and not reported; the watchdog's notice goes to the default environment and its
  list is stale when it acts on it; the heartbeat covers page reading only; resume order is
  by first notification; a resume thread that wakes during a shutdown is given a second
  intake and begins cases in the stopping process; a checklist row the handler cannot read
  raises after the row was claimed, and nobody holds the job until the watchdog fails it.
- *Reading*: the vision merge is pasted twice; vision sees the colour render the probe does
  not turn (the one exception `TextIsOfTheImage` names); a second tier that reads nothing replaces a text of score 0; the page recovery
  takes a truncated transcript; a stub's re-read may bring back non-wage records; an
  amount retry may bring back $0.00; the relabelling by title runs after the order by date.
- *Calls*: every exception of a section is retried as if transient; declared income and
  assets come back empty when their call fails; the vision JSON call has one attempt for
  both kinds of second ask.
- *Incomes*: a record without a source takes a stub of a namesake by surname; the duplicate
  pass drops a second declared amount in silence; an SSI only a second form states is
  folded into Social Security; a short ledger counts as a year; semi-monthly dates around
  February read as bi-weekly; a source declared by name may be marked undeclared; a stub
  without a source takes the first Work Number employer; an AR-SC case whose verified
  amount is in a payment history is replaced by the certification's total; a household-level
  record of $0.00 is kept before one with an amount; a ledger that names nobody keeps its
  place and never takes the member's name; a dropped copy's payment history goes with it.
- *Accounts and people*: the single-account rule and the twin pass join accounts of different
  numbers; records are renamed to the first cluster, not the closest name; members of one
  first word and surname share their claims; the surname correction runs after the dedupe.
- *Feedback*: the counts answered include rows that were skipped.

Where a passing property comes near one of these, the inputs of the run leave that case out
and its comment says so; none of the properties is stated around a finding silently.

---

## 7. Proofs

All parameters are arbitrary: any finite set of workers, any environments, cases and
document lists, any bound on notifications and stops, any pages, documents, groups, stubs,
records, names and likenesses, and any answers. Assumptions: the named `ASSUME`s, which TLC
evaluates in the runs:

- `Cases`, `Intake`, `JobStore`, `AuditEngine`: the default environment is one of the
  environments, sentinel values are not real ones, there is at least one worker, the
  submitters are the event loop and the resume thread;
- `PageReading`, `ModelCalls`, `DocumentReading`: a packet has at least one page, an OCR or
  model answer has the fields the code reads, every section that calls the model has an
  output budget;
- `Grouping`: the groups are what the model may answer and it calls only certifications
  previous, as the prompt asks (a finding says what the code does otherwise); the type of an
  unclassified page is no certification form;
- `PayStubs`, `Assets`, `Household`, `Manifest`, `Feedback`, `IncomeRecords`: the inputs have
  the fields of the code's schemas (`StubAssumption`, `StatementAssumption`,
  `PacketAssumption`, `PayloadAssumption`, `BodyAssumption`, `ExtractionAssumption`); a name's
  length is a natural number; the value for "none" is not a row; a household-level income
  type is support or assistance, never a wage (`extractor.py`); a person's canonical spelling
  is a spelling.

### The engine: which theorem needs what

| Theorem | States | Beyond the `ASSUME`s it needs |
|---|---|---|
| `EngineTypes` | `TypeOK` | nothing |
| `NoRowIsStranded` | `OwnedIsHeld` | `~OddRequests` |
| `ResultsAccounted` | `ResultsAreAccountedFor` | nothing |
| `FailuresReported` | `ExtractionFailureIsReported` | `DefaultEnv \in Configured` |
| `OneAuditHolds`, `WatchdogIsSparing`, `EngineHeartbeat` | `OneAuditPerJob`, `WatchdogSparesTheLiving`, `HeartbeatCoversLine` | `PatientWatchdog` |
| `LifecycleImplemented` | `ImplementsLifecycle` | `PatientWatchdog` |
| `IntakeTypes`, `HeartbeatCovers`, `NothingIsDropped`, `LineImplemented` | the intake alone | nothing |

The hypotheses are conditions on a deployment, and each is there because the statement is
false without it: TLC finds a counterexample when `MCSlow.cfg` is asked for `OneAuditPerJob`,
when `MCStaging.cfg` gets both senders, when `MCDefault.cfg` is asked for
`ExtractionFailureIsReported` with nothing configured, and when it is asked for `OwnedIsHeld`.
The passing runs satisfy them.

- `PatientWatchdog` (`AuditProperties`) has two parts. *Time*: the watchdog's patience
  exceeds what an audit leaves its row untouched (`QuietBound < Stale`), and what a case
  waits in the queue. The last is needed only in the default environment, where the
  keeper's labels miss the rows (`WaitBound < Stale`); elsewhere one keeper period is
  enough (`1 < Stale`). The code sets the patience and bounds neither of the others, so a
  watchdog that fails a live audit is a real behaviour: `slow_packets` runs it, and there a
  job can have two audits. *Sides*: the environments that notify are either the default one or
  all others. `tasks.py` marks outcomes under the bare reference (finding 1), so an audit
  of a named environment ends a row of the default one that another audit may hold.
  `default_environment` satisfies the first form, `named_environment` the second.
- `~OddRequests` for the rows: a handler that raises between the claim and the line leaves its
  row owned with nobody to end it (a finding). The watchdog ends such a row, which
  `rows_settle` checks; the other theorems do not need the hypothesis.
- `DefaultEnv \in Configured` for the failure notices: to an environment without a base URL
  the client sends nothing.

**IntakeProofs.** `IntakeTypes` is inductive as it stands. `HeartbeatCovers`
(`~stopped => waiting = PendingLabels`) is not: `Begin` removes a *label* from the table,
so two pending cases with one label would lose a heartbeat. `HeartbeatInv` adds
`PendingDistinct`: no two cases in joining, queue or taken slots share a label - which the
callers guarantee by submitting only what they have claimed. Each action is one lemma.
`NothingIsDropped` follows action by action: a pending case is handed from `joining` to the
queue to a slot and stays pending at each hand-over. `LineImplemented` is the step
simulation of `BoundedLine`: `Enqueue` is `Arrive`, `Take` is `Start`, `Leave` is `Finish`,
`Shutdown` is `Close`, and every other step (the keeper's, `Join`, `Refuse`, `Begin`) leaves the
line as it was; that `Start` finds fewer than `Cardinality(Worker)` cases busy is a count of
slots (`Busy`, a set, never has more members than there are busy slots).

**AuditProofs.** `EngineTypes` lifts the store operations' type lemmas over the actions.
`NoRowIsStranded` proves `OwnedIsHeld` from `StrandedInv`: types, `stopped` only while
stopping, and `OwnedIsHeld` itself. The argument has two lemmas, `HoldersStay` and
`HoldersKeep`: a step that neither makes a row owned nor lets go of it keeps the
invariant; the other steps each hand the job to the next holder (`ClaimCase` to the
handler, `LoopJoin`, `LoopEnqueue`, `Take` and `Begin` along the line, `Restart` to the claims,
`ClaimInterrupted` to the resume thread) or end the row in the same transaction. The
proof uses no time bound, so it holds although the watchdog may fail live audits; it is
about keys of the default environment, since finding 1 makes it false elsewhere, and about
notifications the handler can read.

**HolderProofs** counts who holds a job. "At most one holder" is not inductive: that a
second notification is refused depends on the row being owned, that the row stays owned
depends on the watchdog leaving it alone, and that depends on its age. `WatchInv` states
these together for every key (`KeyInv`): at most one holder; a held row is owned *and younger
than the patience*; what is claimed at start or listed by the watchdog is owned and held by
nobody. To this it adds where the process stands (`ProcessInv`), that the second pool is there
only in a stopping process and was empty when it came (`PoolInv`), that only senders have rows,
and for named environments `LineFresh`: a row that waits is as old as the ticks since the
keeper's last pass, which is why the keeper's heartbeat is enough there. Every step is
shown to be, for each key, one of a few moves (`KeyStep`: same, taken, ended, released,
listed, aged, dropped), and one lemma shows that each move keeps `KeyInv`, so the counting
of holders is done once. `EngineHeartbeat` shows that the engine's threads do meet what the
intake's specification asks of its callers.

**CartographProofs.** `ResultsInv` is a debt that never exceeds its credit: results
delivered, plus the audits still owed one (in the line, before delivery at a worker, or
claimed at start), plus one while the process is down, are at most the notifications
accepted plus the stops. It needs no bound on time: a case the watchdog fails can be
accepted again, and that raises the credit too. `FailureInv` says who knows of each failed
row while there has been no stop: Cartograph, the watchdog that has just failed it, or the
worker about to report it.

**LifecycleProofs** shows that every step of the engine is a step of `JobLifecycle` or a
stutter. `LifeInv` adds to `WatchInv` that no row is in a retired state, and for each worker
how its place in the audit, its row's state and Cartograph's answer go together
(`AuditRow`). Each action then moves no job (`NoneMoves`), one job by one of the abstract
moves (`OneMoves`), or forgets ended ones (`Forgotten`, the retention sweep).

### Reading (`ReadingProofs`)

*Pages*, for any number of pages and any answers. `PageInv` adds to the types that,
while the first tier is under way, the pages it has done carry the image they were read
from, and afterwards all pages do; each later phase either replaces a read by one of the
page's current image or replaces image and read together. The vision phase alone may be shown
another image, the colour render beside a turned page, and then `vision` says so. `PageTypes` and
`TextMatchesImage` follow, with that exception. `ReliableTextStays` needs that a merge never makes a reliable
read unreliable (`MergeIsNoShorter`), because the code runs the merge a second time with
the lengths of before the first. `DoubtfulPagesReadAgain` is about four phases: `DoubtInv`
says that a page the gates have passed is cleared, queued or (from then on) of the PDF's own
text, and that a page the vision phase has passed was asked about if it was doubtful. The
lemma it rests on, `TwiceMergedOrNoBetter`, says that the two merges leave either a text
with the vision read in it, or the read exactly as it was and a transcript no better.

*Model calls*, for any number of documents, readers, sections and attempts.
`EverythingIsRead` needs the order of the reads: `ReadsInOrder` says that the reads not begun
(or called off) come after all the others, and that one is called off only behind a failed
read whose predecessors were all answered. So when nothing is under way and the walk over
the results meets no failure, there is none: the first failed read would have been met
(`AllAnswered`), and the section keeps the answer of every document.

*One document*, for any document, figures and answers. `AmountsArePrintedOnTheirPages`:
pages only gain figures, every list the model returns passes `OnlyPrinted` before it joins
the document's records, and a recovered amount passes it again (`ReadFromHolds`,
`RecoveredHolds`).

*Groups*, for any pages and any answer. Each pass takes a group from the list and puts in its
place groups that share its pages out, so a page that was in exactly one group stays in
exactly one (`PagesInOneGroup`). `CertificationRead` rests on `PriorsArePromoted`: until the
last pass a suffix means a prior certification, and after the promotion a packet that has one
has a current one too, whatever the passes before it split, swapped or relabelled. The last
pass sets a form aside only for one that starts before it and is itself not set aside, so one
of the current ones is still read.

*Stubs*, for any number and any likeness of names. A job is a least closed set, so stubs tied
by any chain of evidence are of one job and take one name (`StubsRunOn`). For the figures, the
invariant is about every pair of which one is repaired: the later of two stubs of a year is
never below the earlier. A repair compares a stub with all others, repaired or not, which is
what makes this hold whatever the order.

### Records (`RecordProofs`, on the lemmas of `OrderLemmas`)

`OrderLemmas` has what a sort does to positions: a non-empty set of naturals has a least
member, a set in a strict order has a foremost one, which stays foremost among fewer, and a
sorted list holds each of its members, once. Counting the members ahead of a position stands
in for the induction over the list.

*Household.* `MembersStayApart`: the roster's names are mentioned before all others, so a
cluster begun by another name holds none of them, and one begun by a listed name takes no
other listed one. `ConflictsReported`: the copies of a member are folded richest first, so two that
differ on a field were met one behind the other, and the field the kept record has is one of
them. `CertificationStands`: the claims on a value are ranked by document first.

*Links.* `BetterClaimsWin`: claims are awarded best first, so those decided come before all
that are left; a link is a decided claim's, and a decided claim that was not awarded lost one
of its sides to a decided claim at least as good.

*Verdicts.* `VerdictsStand`: the verdict rows of the table are exactly the last verdicts
received on each finding of each case. A case is one transaction, so a failure between two
cases leaves that true, and a batch sent again only repeats what was received.

*Accounts.* `AccountsCountedOnce`: the pass by account number leaves no two records of one
account. The pass over misread numbers comes after it and changes records, and what it has
built and what is still unread must stay apart from each other: a twin keeps its owner, type
and value and takes a number only from a record that was apart from all the others.

*Incomes.* `IncomeInv` says what each pass may rely on. A stub either had a record when
extraction ended, or has from step 3c on one of its own: verified, a wage, of its member and
source. Renaming changes both alike; resolving copies keeps a record of every (member, source,
type), verified if one was; wages are not merged; a declared group's keeper is declared, so
collapsing drops no verified record. That gives `OrphansKeepTheirRecord`, because a record
with a stub's own source and member takes it. Once copies are resolved every (member, source,
type) is there once, and a merge that gives its keeper a payer's name folds away what else of
its group has that name (`EachSourceOnce`). `NoFigureSilentlyDropped`
is about one step: a keeper is kept, so the line that restates a dropped one is in the new list.

`VerifiedIncomeOutlasts` has an invariant of its own, `SurvivalInv`. Until the copies are
resolved the list is the one extraction gave, renamed, with wages behind it. After that each
household-level record *comes from* one extraction gave: it has its type, payer, history and
member, and an amount if that one had. `MergeSpares` then shows what a merge can cost a
verified income. The keeper is the record with the longest dated history, whatever its
amount, its member or its payer, so the property lets the amount go only if some record of
the type had none, the member only if one named nobody, and the payer only if one had no
dated history or no payer's name; each of the three does happen (section 6). For every income
that is not household-level none of this applies, and it survives as it was verified.

---

## 8. What is not proved, and not modelled

Only model-checked:

- the liveness properties `EveryCaseIsBegun` and `OwnedRowsSettle`: liveness under fairness
  and `ENABLED` are out of the prover's reach;
- `CountedFigureIsTheIncome`: the evidence is related to the true income by sums over
  sequences of payments, and what a sum over a sequence is needs an induction over the
  sequence, which none of the installed provers can instantiate. That evidence and income
  agree at all is a property of the run's inputs (`truth`);
- `VerifiedIncomeIsNotDeclaredBeside`: it holds under conditions on the form (`about`) that
  the run's inputs satisfy one by one and that have no short general statement: how near two
  incomes of one member may be before the code takes one for the other.

Neither proved nor claimed: one audit per job, and what follows from it, with environments on
both sides of the default or a watchdog less patient than an audit is quiet. There it is
false, and the engine keeps only `OwnedIsHeld`, `ResultsAreAccountedFor` and
`ExtractionFailureIsReported`, which are proved for every watchdog. That a work directory
belongs to one audit is not claimed either: two environments of one reference share it, and an
ended audit deletes the next one's (finding 5).

Abstracted or left out of the engine model:

- a job store call that itself raises (a locked database), except `record_request`, whose
  failure the code swallows, and a call inside an audit, which `Unexpected` covers when the
  wrapper's own mark succeeds;
- rows of retired states and of the Salesforce source, and the migrations;
- the outcome texts, confidence, extraction and payload;
- `output_sweep` on result files and work directories;
- which errors `is_retryable_error` calls transient: any failure may be retried or not;
- signature verification and request parsing.

Left out of the passes:

- text: regular expressions, spelling distances and parsed figures are CONSTANTS (relations
  and percentages between model values); what a test on a text would find is part of the
  input;
- prompts, and with them the identity, household, questionnaire and student extractors;
- the wording, codes and addressees of findings, where no property is about them;
- overtime in the income calculation, hyphenated and particle surnames, disposed assets;
- image arithmetic (deskew, crop, contrast) and the OCR services.

Not modelled at all: packet assembly and downloads, the payload adapter, checklist matching,
signing, the validators and their findings, field scoring, the questionnaire parsers, the
health endpoint and the offline tools. They keep no state between calls and are pure
translations or lists of independent rules: a model of one would repeat its tables. Their
order and retries, where there are any, are in the modules above.

---

## 9. Plan

1. *Done.* The engine: Cases, JobStore, Intake, AuditEngine; BoundedLine, JobLifecycle.
2. *Done.* Reading: PageReading, ModelCalls, Grouping, DocumentReading, PayStubs.
3. *Done.* Records: IncomeRecords, IncomeCalculation, Declarations, Assets, Household,
   Manifest, Feedback.
4. Files on disk: packets with their sizes and ages, work directories, the output sweep,
   as a refinement of `kept` in the engine, with the work directory an object of its own.
5. The packet's assembly (attachments skipped, page spans) and the finding keys and their
   dedupe, which later feedback refers to.
6. *Done.* Proofs of the engine's and the intake's safety properties and refinements, of the
   pages, one document and the model calls.
7. *Done.* Proofs of the groups, the stubs, the household, the links, the verdicts, the
   accounts and the incomes.
8. The declarations: the conditions on a form under which no line is attached to another
   income, as a named hypothesis, so that `VerifiedIncomeIsNotDeclaredBeside` can be proved
   from it.
