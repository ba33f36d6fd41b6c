# Verification of Proofbound

Proofbound drives AI workers through a change to a software project: an owner gives a goal, workers
write requirements, challenge them, implement and review, and a coordinator adjudicates. What the
program itself promises is mechanical: paid launches are counted once, nothing is accepted on a
review older than the code, implementation only starts under authority that was earned, and a process
killed anywhere leaves files from which the run can go on. Those promises depend on many processes
and files, and on the order in which they change; they are what these modules are about.

The program is the Python under `src/scripts/`; `src/evals/` holds the experiments the project bases its
claims on, whose drivers are programs of the same kind: they buy, stop, resume, retain and grade. The
parts below are named after their files.

## 1. The system

| part | files | state it keeps | operations | what makes it correct |
|---|---|---|---|---|
| operator workflow | `pb_workflow.py`, `_receipts.py`, `_workflow_boundary.py` | `run-config.json`, `receipts/`, `delivery/`, contract files | `start`, `status`, `continue`, `admit`, `decide`, `resolve-owner`, `revise`, `finish`, `recover`, the `authorize-*` commands, `verify-delivery` | decisions are honoured; what is accepted and delivered is what was reviewed; what `status` proposes can be done |
| run state | `dsd_state.py`, `check_state.py` | `state.json`: per task its contract, current attempt, acceptance, admission | `preflight-attempt`, `bind-attempt`, `bind-contract`, `accept-task`, archiving and supersession | an accepted review is newer than every write; a superseded attempt is over |
| launch supervision | `_supervision.py` | `supervision/active.json`, `<token>.result.json`, the run lock | `launch`, `wait`, `supervise`, `diagnose`, `recover` | one supervisor per run; waiters return; recovery acts alone |
| supervised launch | `_supervised_launch.py` | the supervisor's memory | `_launch`, `_adopt`: admit, reserve, start the launcher, watch, sweep, classify | each slot classified once, and truthfully |
| launch ledger | `_launch_budget.py` | `launch-ledger.json` | `admit`, `reserve`, `classify`, `spend` | the ceiling and the spending limit hold; nothing is counted twice or lost |
| attempt teardown | `_attempt_teardown.py` | none (the process table) | ownership, sweep | a classified attempt runs nothing |
| attempt launcher | `dsd_attempt.py`, `wait_worker.py` | an event directory per attempt | `launch`, `wait`, `gate`, `interpret` | a reservation is bound, or blocks |
| worker monitor | `run_worker.py` | reservation, `attempt.json`, `terminal.json`, scope | reserve, detach, run, stop at the deadline, freeze the scope, record the end | the end and the scope recorded cover every write |
| evidence gate, scope snapshots | `evidence_gate.py`, `scope_snapshot.py`, `_review_purpose.py`, `_roles.py`, `_artifact_identity.py` | gates, baselines | `gate`, `capture`, `compare` | a clean gate is of an attempt that stayed in its scope |
| authority | `pb_ledger.py`, `_change_graph.py`, `pb_graph.py`, `_freeze.py`, `pb_freeze.py`, `_consistency.py`, `pb_consistency.py`, `_execution.py`, `pb_execution.py`, `_dag.py`, `_contract.py` | `ledger.json`, the graph, freezes, consistency records, admissions | `record`, `withdraw`, `derive`, `authorize`, `admit` | no implementation without a candidate that was reviewed part by part and as a whole |
| PR handoff | `_pr_handoff.py`, `_pr_candidate.py`, `_pr_github.py` | verification records, a handoff directory (`plan.json`, `authorizations.json`, `publication.json`), a branch, a draft PR | `verify-delivery`, `prepare-pr`, `authorize-pr`, `publish-pr`, `pr-status` | only verified bytes are published, once, over nobody's work |
| context checkpoints | `context_checkpoint.py` | `compactions/<n>/`, `LATEST`, the checkpoint fields of `state.json` | the hooks before and after a compaction, `prepare`, `rehydrate`, `verify`, `finish` | a resumed run has a whole, verified checkpoint |
| profiles, pricing, usage | `_worker_profile*.py`, `_worker_pricing.py`, `_usage_events.py` | the session database, read only | sums, gaps, prices | a sum called complete is all of it |
| bounded series | `evals/_mlr_series.py`, `_mlr_boundary.py`, `pb_mlr.py`, `_repeat.py` | the record of a series, a view per attempt | run, resume, stop, tear down | each slot buys one trajectory |
| qualification | `evals/_qualify.py`, `pb_qualify.py`, `_compare.py` | a frozen plan, `live.json`, retained copies, `result.json` | `plan`, `authorize`, `prepare-live`, `replay`, `grade`, `inspect`, comparison | what is graded is what was reviewed and is told apart afterwards |
| authority slice package | `evals/authority_slice/_live.py`, `_package.py` | a run, its package and manifest | prepare, admit, launch, check, finalize, clean up, verify, qualify | a package only qualifies a run that delivered |
| context attribution | `evals/_mlr_context.py`, `_lineage.py` | what a session has delivered so far | the precedence table, item by item | source is charged when it was reached, and stays charged |
| harness attempts and hooks | `native_worker_attempt.py`, `claude_worker_rewake.py` | attempts run inside a harness | reserve, finish, wake | as the attempt launcher |
| toolchain and executor | `_toolchain.py`, `_package_manager.py`, `_executor_startup.py`, `_rules_snapshot.py`, `prepare_worker_rules.py`, `_workspace.py` | prepared files and digests | prepare, verify | a launch runs what was prepared |
| rendering; installers and repository checks | `render_*.py`, `report_surface.py`; `install_*.py`, `check_docs_refs.py`, ... | none | | |
| other evaluations and demos | `evals/pb_eval.py`, `pb_craft.py`, ..., `demo/` | | | earlier experiments, run once each |

How they interact. `continue` asks `status` what is due, which derives it from `state.json`, gates and
receipts; a launch goes through the run lock to a detached supervisor, which reserves a slot in the
ledger and starts `dsd_attempt.py launch`, which starts `run_worker.py`, which detaches a monitor, which
runs the executor. Every process talks to the others through files, process ids and the flock; none
of them waits for a reply that a crash could take away. The records of authority are read and
written by short commands, and passed from one to the next as digests. `publish-pr` and its retries meet
only in `publication.json` and on GitHub, which others change as well. The hooks of a harness find their
run through `state.json`. The evaluations drive runs through the same commands and read what they leave:
the launch ledger, the attempts' directories and the executor's session database, which is written by a
process none of them controls.

What is hard. Processes outlive the commands that started them; two commands may run at once; a
supervisor, launcher or monitor may be killed between any two writes; `ps` may fail; the wall clock is
compared at two precisions; a request derived from a file is used after waiting for a lock; `decide`
and `finish` run the project's own check between looking at the project and acting on what they saw;
a command writes several files and may be killed, or refused, after the first; GitHub's answer may be
lost; a session database lacks rows of the calls it bills; evidence is judged long after the run it came
from has been changed or deleted. `PROJECT.json` lists
these hazards one by one, at their lines, with the properties that cover them.

## 2. The modules

| module | models | depends on |
|---|---|---|
| `LaunchSupervision` | callers, run lock, supervision record, supervisors, launcher/monitor/worker processes, launch ledger | |
| `LaunchSlots` | what the launch ledger promises: slots reserved one at a time, under the ceiling, classified once | |
| `MCLaunchSupervision` | TLC instances of `LaunchSupervision`, with symmetry | `LaunchSupervision` |
| `LaunchSupervisionProofs`, `LaunchProcessProofs` | theorems about them: supervisors and the ledger; processes and classification | `LaunchSupervision`, which instantiates `LaunchSlots` |
| `TaskAcceptance` | one task: overlapping launches, monitors, `state.json`, gates, supersession, acceptance | |
| `TaskAcceptanceProofs` | theorems about it | `TaskAcceptance` |
| `OperatorWorkflow` | the three tasks from goal to delivery, decisions, contracts, authority, deliveries | |
| `OperatorWorkflowProofs` | theorems about it | `OperatorWorkflow` |
| `ArtifactAuthority` | ledger, graph, freezes, consistency records and admissions of several artifacts that depend on each other | |
| `PullRequestHandoff` | from a sealed delivery to a draft pull request | |
| `RecordsAndHandoffProofs` | theorems about the last two | both |
| `LaunchSpend` | what a run has spent, what can be known of it, admission and the watch of an attempt | |
| `ContextCheckpoint` | checkpoints of several runs, sessions and harnesses | |
| `ContextAttribution` | the origin of every part of a worker's transcript | |
| `SessionProofs` | theorems about the last three | all three |
| `BoundedSeries` | the driver of a paid series, killed and resumed | |
| `Qualification` | plans, runs, copies, grades and inspection | |
| `ToolContinuation` | whether a call went on after its tool, read off rows | |
| `QualificationProofs` | theorems about the last two | both |
| `QualificationComparison` | what two qualification results support when compared | |
| `SlicePackage` | a rehearsed run, its evidence package and what is said of it | |
| `EvaluationRunProofs` | theorems about series, comparison and slice | those three |
| `MCRecordsAndHandoff`, `MCSessions`, `MCEvaluationRuns`, `MCQualifications` | TLC instances of the ten above | two or three of them each |

The models of a run meet at the launch. `LaunchSupervision` shows how one launch is supervised and
counted, whatever it runs. `TaskAcceptance` takes a launch apart differently, into what it writes to the
project and when, to see whether a review is newer than every write. `OperatorWorkflow` takes a launch
as one step to start and one to end, uses "a review is current while the project equals its baseline"
as `assert_review_current` does, and follows what is done with the accepted reviews. `LaunchSpend` takes
the slot as given, since `LaunchSupervision` shows that slots are reserved one at a time, and opens what a
slot cost; `ArtifactAuthority` opens the records of authority, of which `OperatorWorkflow` has the one
member a run's graph starts with; `PullRequestHandoff` starts where `OperatorWorkflow` ends, at a sealed
delivery, and takes from it that a patch was accepted. Each of the others is a program of its own.

The four MC modules at the end put two or three components into one TLC run each. The components share
no variable, and the variable `component`, chosen at the start, says which of them a behaviour is of: the
runs check each component alone, as ten runs would.

### LaunchSupervision

A caller of `continue` or `recover --apply` is `cpc/cseen/cplan` (where it is, the record it read, what it
derived or diagnosed); a supervisor is `spc/smem/swork` (where it is, its own copy of the ledger, its
slot); `lock` is the flock, `active` and `result` are the files of `supervision/`, `ledger` the file
every supervisor overwrites from its copy; `launcher/helper/monitor/worker` are the processes of an
attempt, `reserved`, `terminal` and `current` its evidence. Each action is one write, one read that is
used later, or one wait: `TakeLaunchLock`, `AttachOrRefuse`, `SpawnLaunch`, `RecordSpawn` are `launch` and
`_spawn`; `TakeRecoverLock` ... `UnlinkLost` are `recover` by the verdicts of `diagnose`; `SeeRecord` ...
`UnlinkRecord` are `supervise`, `_launch`, `_adopt` and `_close`. `Lose` kills a supervisor at the points the
code's own fault injection names, `CallerDies` a caller, `HostRestart` everything.

### TaskAcceptance

The project is counted in writes (`tree`); an attempt has its launcher's `stage`, its baseline, the
contract it was launched under and the times its files hold. `Preflight`, `Capture`, `ReserveAttempt`, `Detach`,
`BindLaunched` are the steps of `dsd_attempt.py launch`; `StartWorker` ... `WriteTerminal` those of `child_run`;
`Archive`, `BindAttempt`, `BindContract`, `Accept` are in `dsd_state.py`, and `Mutating`, `Boundary` and `Fresh` are
the three questions `accept-task` asks. Commands that write `state.json` are one step each, because the
program assumes one intentional writer per checkout (`CHANGELOG.md:56`); a launch is not.

### OperatorWorkflow

`Due`, `ProposesBind`, `ProposesLaunch`, `Adjudicates`, ... are what `status` derives; each command is one or more
actions guarded by them. Where a command writes twice the second write is an action of its own and
`command` holds what is left to do: contract file then binding (`PrepareContract`, `BindConsistency`,
`Admit`), receipt then launch (`DecideRepair`, `LaunchRepair` or `RepairRefused`), binding then receipt
(`Revise`, `RecordRevision`), directory then manifest (`FinishAccepted`, `Seal`). `Die` kills the command in
between. `admit` may come at any time, as in the code. The project has two parts, `requirements.md`
and the rest; `Edit` changes either between commands; `LoseRecord` removes a consistency record, which
status then asks to be made again. `judged` is a history variable: the texts whose review was accepted.

What it abstracts. A run's graph has one member without dependencies (`start` writes it), so the
candidate of a text is that text. Freezes, which repeat what the ledger says, the receipts of accepting
decisions, on which nothing is decided, and spending, which is one of the reasons of `RepairRefused`, are
left out. The text of a revision's contract is not kept: a `revise` killed after writing its contract
file is taken to be repeated with the same reason. The integrity gate is what a completed attempt
changed, against what its role and contract allow. Edits and losses happen between commands, not within
one. `RepairCycles` is 1 because `start` writes 1.

### ArtifactAuthority

`file` is the project, `ledger`, `graph`, `freezes`, `consistency` and `admissions` are the files of authority, `task` and
`gate` the accepted tasks a record may rest on and what is left of their gates. `Record` and `Withdraw` read
the ledger and leave in `pending` what `ReplaceLedger` writes some steps later, whole, as the commands do,
which may run beside each other and be killed. `DeriveStates` is `derive_states` over the dependencies, as a
recursive function; `Evaluate` is the graph's verdict with its findings by member; `Compare`, `CompareCommand`
and `Lookup` answer what the freeze and consistency commands print; `AuthorizeFindings` is `authorize`'s list.
`Edit`, `DeclareGraph`, `LoseRun` and `ChangeGate` are what happens to the files meanwhile.

Abstracted: a digest stands for what it is taken of; texts are canonical (line endings folded); a
freeze's file and its layout; an artifact outside the project.

### PullRequestHandoff

A patch is named by the delivery whose manifest seals it, so a delivery is altered when `patch[d]` is
not `d`. `VerifyRead` and `VerifyApply` are the two moments `verify-delivery` looks at the bytes, `PrepareCheck` and
`PrepareBuild` those of `prepare-pr`; the bytes may change in between. A publisher is at one of the points
where `publish-pr` has written its record or has an answer of GitHub in hand: `Start`, `Inspect` (account,
repository, base, branch, pull requests), `FirstWrite`, `LookFirst`, `Push`, `Reread`, `CreateDraft`, `LookAgain`. `Killed` stops it
anywhere; a push or a create may take effect or not, and its answer is not believed. The `Tamper...` and `Change...` actions
and `MoveBase` are others: files of a delivery or a handoff, the account and repository, the base, the
branch, the pull requests.

Abstracted: which requirement a failing verification failed on, and a patch that fails it, which is a
delivery whose check answers no; the events `pushed` and `create-intended`, between which nothing is done;
the content of the body, which is intact or not. `push_new_branch` says it pushes "to a branch that does
not exist yet" (`_pr_github.py:166-171`); its command, a push without force, also advances a branch that is
still at the baseline, and the model has the command.

### LaunchSpend

`sessions` and `parts` are the rows of the executor's database in the order of their rowids, `price` what each
call really cost. `StartCall` and `FinishCall` are the executor's: a call may end recorded in full, without its
finish reason, with zeros, without counts or without a time, and may never be finished. `Spend` reads the
rows back as `spend` does: `CostRows`, `Reconciled`, `LifecycleGaps` and `TelemetryGaps` are its conditions, `Unbilled` the
other of its two accounts. `Admits` is `admit`; `AuthorizeCheck` and `AuthorizeWrite` are the two halves of the
`authorize-*` commands, between which a first slot may be reserved; `Check` is one look of `AttemptWatch` with its
rules. `Spoil` makes a terminal record unreadable, and `LateLaunch` lets a launcher outlive a slot that was
classified as never reached, as the run `supervision_lost_launcher` shows it can.

Abstracted: tokens and rates, one price per call; the time windows of a rate, a call with an unusable
time being a kind of report.

### ContextCheckpoint

`Prepare`, `WriteManifest`, `WriteLatest`, `WriteState` are the writes of `prepare` in their order, for the session
whose hook or command it is; `Killed` ends it between any two. `MarkCompacting`, `PostCompact`, `Rehydrate`, `Verify`
and `Finish` are the other commands and hooks. `ChooseRun` is `choose_run` with its preferences. `WriteState` writes
the whole state as it was read. `Edit` changes the texts whose digests are compared.

Abstracted: the texts; a manifest is the version it recorded, and a missing manifest is a directory that
is `Empty`. After a killed `prepare`, `PostCompact` may set `rehydration-required` for a checkpoint whose paths
`state.json` never got; `Verify` looks at the latest checkpoint and not at the state's, so that the run
can go on from it, and the model has it so.

### BoundedSeries

The driver keeps nothing that it has not written, so the record (`rows`) is one variable and a kill is
`Kill`, at any point. `OfferSlot` ... `RecordOutcome` are one turn of `run_bounded_series`: refuse or offer a slot, build
its view, preflight, launch, and an end: `TimeOut`, `Fail`, `FailGrading`, `Succeed` or an interrupt. `StopAttempt`
is the teardown, by the shapes of `NamesTheView` and the pids recorded. `Resume` is the decision a started
driver makes from the record. `ChangeExecutor`, `LeaveCopy` and `Clear` are the host.

Abstracted: what is wrong with a completed attempt is a set of faults, and costs are units.

### Qualification, ToolContinuation, QualificationComparison

`world` holds what a plan is frozen against, `plans` the plan files, `trialRuns` what the graders read of a
run, `evidence` the retained copies, `result` the result file. `command` is the `prepare-live`, `replay` or `grade` under
way, which handles trial by trial and may be killed between two. A coordinator drives the runs
(`LaunchAttempt`, `Write`, `EndAttempt`, `Classify`, `GateAttempt`, `Decide`, `RefuseAdmission`), also while they are
graded. `GradeChallenge`, `GradeDispatch` and `GradeRecovery` are the graders, `Inspect` what `inspect` says of a
retained copy. The verdict on a delivery is of the project's file, not of the sealed bytes, as in the
code. `inspect` calls the instrument changed only when the suite is. A `grade` killed midway leaves its
copies, and every later `grade` refuses; the model has it so.

`ToolContinuation` is the grader of the fourth case, over rows: a session's calls start, run a tool and
finish for a reason, rows get lost, and `Continuation` and `Outcome` decide. `QualificationComparison` builds two
results trial by trial and compares them with `ObservedConfiguration`, `Effective` and `CompareQualification`; `used` is
what the runs really used.

Abstracted: the parsing of a review into findings, which is one of the outcomes in `ReviewReports`; the
world changes other than the suite's only before a run is driven, because nothing reads it later.

### SlicePackage

`slice` is the rehearsed run, `trace` its session database, `package` what `Export` left of it: the files that are
present, their digests and their content. `Attribution` is how usage is charged to attempts, `Preserve` and
`Finalize` the exit paths, `CleanUp` the deletion, and `Checks` with `Required` and `Qualified` the verification
and the qualification, check by check. `Tamper` alters or removes a file of a package once the run's own
data is gone; the manifest is trusted, as the code does.

Met and modelled as they are: the requirements packaged are the project's at export, not those
reviewed; "at least an implementation and an independent review" counts launches and not roles;
`safe_to_clean_up` is true though a session database could not be read (`_live.py:495-535`), and
`CleanupLosesNothingSilently` shows that the package then says so.

### ContextAttribution

A text is the set of its lines and a line one of seven kinds the recognisers tell apart. Each action is
one item of a transcript (`ReadFile`, `WriteFile`, `RunCommand`, `RedirectCommand`, `Search`, `Say`, `Patch`) and the
whole of what the walk does with it: the evidence in the order of the precedence table, the origin of
each component and of the item, and what the session remembers: the files commands wrote, the
components and the source lines delivered. `reached` and `charged` are history.

Met and modelled as they are: a listing of source files is remembered, and its lines later echo as
source; an edit or a redirect loses the ancestry of a file; ties between echoes are settled by the
alphabet. Left out: bytes, and their multiplication by the calls that carried them.

## 3. What the runs show

Passing runs, with the distinct states TLC finds where the number says something:

| run | instance | shows |
|---|---|---|
| `supervision_lossy` | 2 callers, 2 launches, ceiling 2; supervisors lost at any point, sweeps may fail | `TypeOK`, `OneSupervisor`, `RecoveryAloneActs`; the ledger implements `LaunchSlots` |
| `supervision_clean_loss` | 2 callers, 3 launches; sweeps succeed, no supervisor lost while a launcher prepares | classifications are true (`PreExecutorIsTrue`, `ClassifiedMeansStopped`), one executor at a time (`OneWorker`) |
| `supervision_live` | 1 caller, 2 launches, supervisors lost anywhere, fairness | `CallerReturns`, `SupervisionEnds`, `LockReleased` |
| `acceptance` | a writer and a reviewer, overlapping, both superseding, launchers killed, 2 contracts, 2 writes, 3 ticks | `ReviewSawEveryWrite`, `SupersessionIsFinal` |
| `workflow` | 2 texts, 5 launches, 2 requirement revisions, 2 receipts, 1 edit or loss, commands killed | `AuthorityWasEarned`, `AdmissionIsFixed`, `AcceptedAsReviewed`, `DeliveredAsReviewed`, `DecisionsAreHonoured` |
| `records_and_handoff` (653,404) | authority: 3 artifacts, 2 of them in the change, 2 graphs, 2 texts, 2 tasks, 2 commands, 3 writes, 1 edit, 1 gate changed. Handoff: 1 delivery and 1 edited patch, 2 handoffs, 2 publishers, 1 branch, 2 verifications, 2 starts, 1 change by others, 2 pull requests | `ValidMeansGroundHolds`, `EquivalentMeansUntouched`, `AdmissionIsEarned`; `PublishedWasVerified`, `NoSecondPull`, `PublishedIsThePlan`, `NothingOverwritten` |
| `sessions` (2.33 million) | spending: 2 slots, 2 model calls, limits of 3 and 0, 1 damaged record, late launchers. Checkpoints: 2 runs of 2 sessions of 1 harness, 2 directories, 1 edit. Attribution: sessions of 3 parts, texts of 2 lines | `CompleteMeansAll`, `AdmittedWithinBudget`; `ResumedIsValid`, `CheckpointsKept`; `ChargedMeansReached`, `ReplayKeepsHistory` |
| `evaluation_runs` (2.58 million) | series: 2 slots of 2 attempts, 3 runs of the driver, a budget of 1, 1 change of the host. Slice: 2 launches, 1 altered file. Comparison: 2 results of 2 cases, 2 trials each, 1 deviation | `OneTrajectoryPerSlot`, `StoppedMeansQuiet`; `QualifiedWasDelivered`, `AttributedIsTrue`, `CleanupLosesNothingSilently`; `AttributableIsTrue` |
| `qualifications` (1.34 million) | 1 plan: a dispatch, a challenge, a tool loop with a challenge, or a recovery; up to 3 attempts, 1 step after a copy, 1 change of the world. Sessions of 3 calls, 1 row lost | `FirstAttemptWasReviewed`, `MeasuredIsGradeable`, `InspectTells`; `PassedMeansContinued` |

Why the bounds are enough. Two callers are what it takes for one to decide on what the other has
changed; two tokens make a launch and its recovery or its rival, three a rival of both; a ceiling of
two slots is one to lose and one to reserve after it. One writer and one reviewer overlap in every
order; the third tick separates any two of the three times that are compared. Five launches are
exactly a straight path to delivery (author, reflector, consistency reflector, implementer,
reviewer) or a revision with a second candidate, its consistency review and its admission; two
receipts are a request and its answer, or a repair and its revision.

Three artifacts make a chain that leaves the change, and three writes a record, a record against it and
a withdrawal beside them. Two publishers of two plans of one branch are the least that can race, and
one that is killed and started again is the second start. A change by others may come anywhere, but
once: what needs two of them is not covered. Two slots and two calls are one attempt to spend and one
to be admitted on what it spent, or two calls of one session. A checkpoint is made again over one made
before it; the second run, which takes no checkpoints, is there to be chosen by mistake. Three parts
are a text, its copy elsewhere and the copy's echo. A driver is killed, resumed, killed in the second
attempt and resumed. Three attempts are an implementation, its review and a repair. The properties
proved in section 5 hold for every value of these bounds.

`CHECK_DEADLOCK FALSE` is set where the system may stop: a launch ceiling is spent, the bounds are
reached, a run is delivered, a series has stopped, a package has been judged.

Fairness (`LiveSpec` of `LaunchSupervision` only): a supervisor that runs goes on (`WF` of its steps), the polls of an
adopting supervisor each test the host deadline (`SF` of `StopWatching`: its guard is true at every poll), a
waiting caller keeps polling, and the section under the run lock contains no wait. No fairness is
assumed of workers, launchers, new commands, or of anything that fails; the other modules state none,
because their programs wait for nothing but a command that somebody may give.

Violations, each the disagreement of the code with a sentence of the repository (`findings` in
`PROJECT.json` quotes it):

| run | what happens |
|---|---|
| `supervision_lost_launcher` | a supervisor is killed while its launcher prepares; the launcher's command line does not name what the sweep looks for, recovery classifies the slot as never having reached the executor, and the launcher then starts it |
| `acceptance_lost_scope` | the project could not be compared when a writer ended; the gate writes an empty scope, and the writer counts as having changed nothing |
| `slice_unaccepted` | the package of a run in which the parent accepted nothing qualifies: `_check_reported` (`_package.py:1098`) reports the acceptance as `ok` whenever there is a `state.json`, where `_package.py:1380` and `pb-handoff-2-protocol.md:57` ask for one that was recorded |

Further disagreements were met. Their properties are kept in the modules, with what breaks them; no run
is spent on them:

| property | broken in | what happens |
|---|---|---|
| `ReservesWhatWasDerived` | `supervision_lossy`, nothing need fail | a caller that derived its request before another caller's launch gets the lock after it, and launches the old request again |
| `ReviewFollowsSupersession` | `acceptance` with two ticks to the second | a review reserved in the second in which a writer is set aside, but before it, counts as reserved after it |
| `IncompleteBlocksRelaunch` | `acceptance`, one launch at a time, nothing superseded | a launcher killed before `bind-attempt` leaves an unfinished attempt that blocks no relaunch |
| `ProposedReviseIsAllowed` | `workflow` | a repair is decided, its launch refused; `status` asks for a revision for good, and an admitted implementation cannot be revised |
| `ProposedBindIsAllowed` | `workflow` | a contract file is written, its binding refused or killed, and the requirements revised; the next bind is proposed under the same file name and always fails |
| `UnknownOutcomeBlocks` | `sessions`, an unbilled run | a terminal record that cannot be read becomes `{"unreadable": true}` (`_launch_budget.py:54-56`), which counts as an end (`:213-215` says it must not); `CompleteMeansAll` shows that no spend is lost by it |
| `RepeatedCallReturnsPull` | `records_and_handoff`, three starts | the base branch moves after the draft was published; a repeated `publish-pr` records `blocked` (`_pr_handoff.py:434`) where `docs/operator-guide.md:357` has it return the draft |
| `LeakStaysStopped` | `evaluation_runs` | a series that stopped on a leak is resumed past it: the condition is not among those recomputed from the record (`_mlr_series.py:494-499`) |
| `ContractChargesNoSource` | `sessions` | in the arm without source, text that looks like source and names one of the module's files is charged as source (`_mlr_context.py:673-675`), although nothing read it and `:687-690` says that content does not originate |
| `ControlledWasRecorded` | `evaluation_runs` | results whose runs recorded nothing compare as controlled (`_compare.py:445-447`) |

Three more behaviours no sentence contradicts clearly enough. `finish --into`, which
`docs/operator-guide.md:386` recommends after an interrupted seal, is refused while the interrupted
directory is there. `finish --outcome blocked` seals `run/delivery`, after which a run that is accepted
later is reported `complete` with the unaccepted patch. And a `grade` that is killed can never be
repeated, because the copies it made are in its way.

## 4. Mutants

Every property of every passing run has an operator in its module, named in `PROJECT.json` and marked
`Mutant:` or described beside the definition it changes, that alters one definition as a plausible bug
would: the lock not taken, only the monitor stopped in a sweep, freshness asked of the current attempt
only, the project not compared again after its check, a ledger whose dependencies are compared by name,
a push with force, a draft looked for among the open ones only, zeros taken for a price, a manifest
overwritten, an interrupted attempt swept by its recorded pids, a repair counted only once it is gated.
Each makes its property fail in the instance above.

## 5. What is proved

| module | theorem | assumes |
|---|---|---|
| `LaunchSupervisionProofs` | `TypeCorrect` | |
| | `AtMostOneSupervisor`, `ReaderNeverSeesNeither`, `RecoveryActsAlone`, `OneUnresolvedSlot`, `CeilingHolds`, `LedgerImplementsSlots` | the start time of every supervisor was read |
| `LaunchProcessProofs` | `PreExecutorFailureIsTrue`, `AtMostOneWorker`, `ClassifiedAttemptsStopped`, `AttemptsAreCountedOnce` | the same, every sweep succeeds, and no supervisor is lost while its launcher prepares |
| `TaskAcceptanceProofs` | `TaskTypeCorrect` | |
| | `AcceptanceInvariant`, `SupersededIsOver`, `AcceptedReviewSawEveryWrite` | workers end with their monitors, comparisons succeed, supersessions as exact as reservations |
| `OperatorWorkflowProofs` | `WorkflowTypeCorrect`, `WorkflowInvariant`, `AuthorityEarned`, `AdmittedForGood`, `AcceptedWasReviewed`, `DeliveredWasReviewed`, `DecisionsHonoured`, `ProposedBindAuthorized` | |
| `RecordsAndHandoffProofs` | authority: `AuthorityInvariant`, `ValidRecordsHold`, `EquivalentFreezesAreUntouched`, `AdmissionsAreEarned` | |
| | publication: `PublicationInvariant`, `PublishedWasVerifiedAlways`, `OverwritesNothing`, `PullRequestInvariant`, `OnlyOnePullRequest`, `PublishedShowsThePlan` | |
| `SessionProofs` | checkpoints: `CheckpointInvariant`, `ResumedRunsAreValid`, `LatestNamesAManifest`, `ManifestsAreKept` | |
| | attribution: `ContextInvariant`, `SourceIsChargedWhenReached`, `ReplaysAreCharged` | |
| | spending: `SpendInvariant`, `CompleteSpendIsReal`, `AdmissionsFitTheBudget` | |
| `EvaluationRunProofs` | series: `SeriesInvariant`, `SlotsAreBoughtOnce`, `StoppedAttemptsAreQuiet` | |
| | comparison: `ComparisonInvariant`, `AttributionIsRight` | |
| | slice: `SliceInvariant`, `QualifiedPackagesWereDelivered`, `AttributedUsageIsNamed`, `NothingIsLostSilently` | |
| `QualificationProofs` | `QualificationInvariant`, `FirstAttemptsWereReviewed`, `InspectionTells`, `MeasuredAreGradeable`, `PassedLoopsContinued` | |

Beside what the table names they assume what the modules say of their constants, and hold for any
number of callers, supervisors, attempts, artifacts, texts, publishers, branches, sessions, calls, slots
and any bounds. Every safety property of every passing run is a theorem; the assumptions of the second,
third and fifth row are those of the runs that check the same properties.
Proved and not run, because a stronger property is: `NeverNeither` (`ReaderNeverSeesNeither`),
`AtMostOneUnresolved` and `CeilingRespected` (`OneUnresolvedSlot`, `CeilingHolds`), `AttemptsCountedOnce`,
`ProposedBindIsAuthorized`, `LatestIsWhole`, and the inductive invariants themselves.

*Launch supervision.* `OneSupervisor` is not inductive: it says nothing of a caller that has decided and
not yet acted. `SupervisionInv` adds what ties the two together: the lock covers every decision; a
decision taken because no supervisor runs stays right until it is carried out, since whoever could
create one needs the lock; and a supervisor acts only while the record names it. It fails when `ps`
failed once while a supervisor was recorded (`SpawnPsMayFail`): the record then cannot match the process,
which is taken for gone. `LedgerInv` adds that whoever acts holds the ledger as it is on disk and knows
its one unresolved slot; the refinement of `LaunchSlots` follows step by step.

*Processes.* Nothing in the ledger says which reservation belongs to a slot that is not classified yet.
`ProcessInv` says that it need not: at most one reservation is unclaimed, and then a slot is unresolved
(`SlotsTell`), because a supervisor that launches knows the reservations there were before its own, one
that adopts or is about to classify knows the directory (`SupervisorTells`), a caller that recovers has
diagnosed what is still so (`CallerTells`), and an attempt's processes start and end in an order
(`InOrder`). A supervisor lost while its launcher may still reserve breaks it, and
`supervision_lost_launcher` shows the outcome; a sweep that fails leaves a classified attempt running.

*Acceptance.* `AcceptanceInv` follows an attempt from reservation to its end (`ProcessInv`), says why the
attempt `state.json` calls current cannot be set aside while it lives (`CurrentInv`, `SupersessionInv`), and
that a frozen scope shows a write (`ClockInv`). Its core is `BoundaryInv`: a review reserved after a
writer's end starts from that writer's writes, or its own gate is not clean, because the writes it
missed moved the project under it. The three assumptions are real. With two ticks to the second,
`acceptance` breaks `ReviewSawEveryWrite`: a review reserved in the second of a supersession, but before
it, counts as reserved after it. With a worker that outlives its monitor it breaks `SupersessionIsFinal`:
that worker writes after everything was compared. `acceptance_lost_scope` shows a comparison that failed.

*Workflow.* `WorkflowInv` has four parts. `AuthorityInv`: until the implementation is admitted, what is
recorded, in the ledger or as a consistency acceptance, was reviewed; and while an `admit` is between its
two writes in a run that is already admitted, its contract file names the candidate already admitted,
which is why `AdmissionIsFixed` survives an `admit` at any time. `BindingInv`: accepted tasks are bound, and a
contract that must name a candidate does. It is needed even for the types: a consistency record is of
what the contract names. `SealInv`: nothing writes to the project between `finish`'s last comparison and
its manifest, because `status` refuses while a supervisor runs and no launch starts within another
command. `DecisionInv`: once the owner was asked about a review, no later decision on it precedes the
answer, so that `pending_owner`, which looks at the latest decision only, misses no request.

*Publication.* Between `prepare-pr` and the push lie two more commands and any number of kills, and the
only thing that ties a commit on GitHub to a verification is the date it was built with. `PublicationInv`
says that every plan, authorized or in a publisher's hands, is good: its commit's date names a
verification that passed over its very tree and left it unchanged. A good plan stays good because
verification records are only added. A branch changes by Proofbound's hand in `Push` alone, where
`PushNewBranch` writes the plan's commit over nothing but the baseline.

*Pull requests.* That a publisher creates a draft only where none was is a question of what it looked
at and when. Numbers of pull requests only grow, so `PullRequestInv` can say of a publisher that has
decided to write that every pull request of its branch is younger than its own start: it looked at all
of them, and the actions of others that make one come later. What is published is shown because an open
pull request always shows what its branch holds (`PullsInv`), and stays so until somebody pushes.

*Authority.* `DeriveStates` and `Closure` are recursive over the dependencies. Their recursion is
unfolded by hand: the closure is the least set that is closed under dependencies (`ClosureIsLeast`), the
closures of an artifact's dependencies are smaller than its own because the ledger has no cycles
(`ClosuresShrink`), so the states exist and are what the equation says (`StatesExist`, `DeriveStatesIs`), by
the well-foundedness of the naturals. `AuthorityInv` keeps the ledger without cycles, what a killed command
may still write included, and every consistency record on a review of its candidate.

*Checkpoints.* A resumed run is valid because of two facts about other sessions' prepares. A prepare's
directory is its own: directories are a prefix of the numbers, and each is made by the prepare that
counted it, so no manifest is written twice (`DirectoryInv`, `PrefixInv`). And whatever the state names is
whole, also in the copy a prepare has read and will write back (`NamedInv`), so that neither a stale
write nor a hook that sets the status alone leaves a resumed run without its checkpoint.

*Series.* `SeriesInv` says that a slot whose launcher was entered has a row that tells it, in flight or
concluded; a resumed driver then skips the slot or stops, whatever was lost with the process. `StopInv`
says that an attempt reports nothing of its stop until it is over, so that what it reports is never of
processes that were started since.

*Spending.* `SpendInv` ties the rows to the calls: each call has a start and at most one finish, with its
cost, and there is no call without a session. Where starts and finishes agree by message and no usage is
missing, the finishes name every call exactly once; `SumsAgree` says that two sums over finite sets with
the same terms are equal, in whatever order the recursion takes them up (`AnyTermFirst`), for any number of
calls. Everything else `spend` looks at only makes it more reluctant to call a figure complete.

*Attribution.* `ContextInv` has two halves. While nothing reached the module's source, no artifact,
component or line is remembered as source (`CleanInv`); and while every line of the source was charged as
source, all that is remembered of such lines says source (`HistoryInv`). Each item of a transcript keeps
both, through the choice among echoes, which is of the most frequent origin and, among those, the first
in rank.

*Slice.* `SliceInv` follows a package from its export: its digests are those of the run's own files, the
gate's always and all of them once nothing that it names runs, and its content equals its digests until
the run's data is gone and somebody may alter it. What a package that is found intact says was then true
of the run.

*Comparison.* A trial recorded of a field what it used, or nothing (`ComparisonInv`), and what nobody
recorded counts as differing: a difference attributed to one field leaves every other equal on every run.

*Qualification.* The grade looks at the first attempt after a repair may have replaced it. `QualificationInv`
says why it still can: after a review come reviewers and fixers only, so that without a fixer the
artifact is the one first seen, in the run and in each copy taken of it (`Reviewed`), and a command handles
only runs that were started (`CommandInv`). A measured trial of a result is the grade of such a copy
(`Measures`).

*Continuation.* What `RetainRows` keeps was recorded, so a pass, which names a session and two of its calls,
names calls that really ended as the rows say; no invariant over several steps is needed.

*Only model-checked.* Liveness (`CallerReturns`, `SupervisionEnds`, `LockReleased`): the prover has no rules for
fairness and `ENABLED`. And the violations.

Two things proofs corrected in the models. A `CASE` whose guards overlap takes any of the values, which TLC,
taking the first, does not show; the alternatives of `Spend` and `Check` now exclude each other, as the order
of the code's tests does. And the constants' assumptions say what the operators need of them: `Artifact` is finite and `InScope` part of
it, and no marker for "nothing" is a record.

## 6. What is not modelled, and the plan

Next, in this order:

1. Proofs: `ReviewSawEveryWrite` at any `TicksPerSecond` when launches do not overlap, and with it which of
   the three assumptions on acceptance are needed for which of its parts; `OneSupervisor` and
   `RecoveryAloneActs` for the tokens whose start time was read, whatever happened to others.
2. An abstract specification of acceptance and of the workflow, as `LaunchSlots` is one of the ledger, shown
   to be implemented by `TaskAcceptance` and `OperatorWorkflow`.
3. The sweep of `_attempt_teardown.py` process by process instead of one step, with a worker between its start
   and `attempt.json` (`run_worker.py:466`), which removes an assumption of the two process models.
4. `native_worker_attempt.py`, an alternative to the supervised path.

Left out for good: text (rendering, reports, checkpoint contents), tables and the validation of settings
(profiles, prices), digests of prepared files (toolchain, executor, rules), which are each checked
before a slot is reserved and are one choice to refuse here; installers and repository checks; the
earlier evaluations and the demos, whose drivers keep no state between commands; the isolation of the
worker's process, which is the operating system's.
