# Formal models of self-improve

`self-improve` reads the transcripts of coding agents, finds incidents in them, mines learnings, and
proposes edits to the operator's instruction files (`CLAUDE.md`, `AGENTS.md`, skills). The operator
reviews the proposals in a dashboard; a worker writes the approved ones into plain files or onto a
delivery branch of a git repository; other workers spend model calls on jobs the operator asks for.
One SQLite database holds all decisions. The program promises that no decision is lost, doubled or
overridden and no paid call repeated, although every process may die at any instruction and the
operator edits the same files with an editor and with git, without any lock.

This directory models the parts that carry that promise: **delivery** of approved edits, **instruction
operations** (automatic edits and rollbacks), **model jobs** and the **gate's verdicts**, the **nightly
pipeline** with its incremental **scan**, the **LLM runner** with the processes it starts, and the
**installation of the worker services**. TLC checks them on small instances; TLAPS proves, for all
instances, every safety property of these runs and that delivery implements its abstract promise. Source paths below are relative to the repository (`src/self_improve/...`, `docs/...`);
`PROJECT.json` names every source line a definition stands for.

Contents: [files](#files) · [inventory](#inventory-of-the-system) · [delivery](#delivery) ·
[operations](#instruction-operations) · [jobs](#model-jobs) · [nightly](#scan-and-nightly-runs) ·
[runner](#llm-runner) · [services](#worker-services) · [runs](#runs) · [fairness](#fairness) · [findings](#where-code-and-documents-disagree) ·
[proofs](#proofs) · [not modelled](#what-the-models-leave-out) · [plan](#plan)

## Files

| File | What it is |
|---|---|
| `Destinations.tla` | plain files and git delivery branches: read, prepare, observe, publish; the operator's editor and git |
| `ReviewedWrite.tla` | the abstract promise of delivery, without workers, locks, crashes or records |
| `Delivery.tla` | commands, targets, rejections and the delivery worker; EXTENDS `Destinations`; its properties and inductive invariant |
| `DestinationsProofs.tla` | TLAPS lemmas about `Destinations`, for whoever writes there |
| `DeliveryProofs.tla` | TLAPS proofs about `Delivery`, with its refinement of `ReviewedWrite` |
| `Operations.tla` | automatic application and rollback, beside an abstract reviewed command; EXTENDS `Destinations` |
| `OperationsProofs.tla` | TLAPS proofs about `Operations` |
| `Jobs.tla` | model jobs, their journal, the job worker and the order of the evaluation gate; properties and inductive invariant |
| `JobsProofs.tla` | TLAPS proofs about `Jobs` |
| `Verdicts.tla` | the gate's verdict tables as operators, with the theorems about them |
| `Scan.tla` | transcripts that grow and the scan of one file, in one transaction |
| `Nightly.tla` | run records and the reaper, mining, and the draft worker beside them; EXTENDS `Scan` |
| `NightlyProofs.tla` | TLAPS proofs about `Nightly` |
| `Provider.tla` | one call of a provider CLI: caller, guard, CLI and tools as processes with signals |
| `Runner.tla` | the ladder of one logical call: picks, waits, retries; EXTENDS `Provider` |
| `RunnerProofs.tla` | TLAPS proofs about `Runner` and `Provider` |
| `Services.tla` | installing, replacing and removing a worker service |
| `ServicesProofs.tla` | TLAPS proofs about `Services` |
| `MC*.tla` | constants of the small instances; each `.cfg` is one run |

Definitions whose comment begins with *Faulty variant* are what a plausible bug would look like (a
dropped guard, a swapped order). Nothing in a specification refers to them; each is paired with a
property in `PROJECT.json` ("mutants") that TLC finds violated once the variant takes the place of
the real definition. That shows that the property can see the bug it is meant for.

To check: `tlc -config delivery_files.cfg MCDelivery.tla` and so on (`PROJECT.json` names the module of
each `.cfg`); `tlapm DeliveryProofs.tla`, and the same for `DestinationsProofs`, `OperationsProofs`, `JobsProofs`,
`NightlyProofs`, `RunnerProofs`, `ServicesProofs` and `Verdicts`.

## Inventory of the system

### Processes and what they share

* the **web process** (dashboard) records decisions and controls, one `BEGIN IMMEDIATE` transaction
  each; it never writes an instruction file and never calls a model;
* the **delivery worker** (`worker.py`, a launchd service) and the nightly run execute commands under
  one file lock, `instruction-write.lock`;
* the **job worker** (`job_worker.py`, a launchd service) executes paid jobs under `model-jobs.lock`;
* the **nightly pipeline** (`pipeline.py`, scheduled) scans, mines, clusters, proposes, evaluates and,
  where policy allows it, applies;
* the **operator** uses the CLI, an editor and git at any time.

They share the database (SQLite, WAL), the instruction files and repositories, and the run-state
directory (locks, snapshots). There are no messages: a process learns what another did by reading a
table. "A callback" is always a synchronous call, and concurrency is between processes.

### Components

State, operations, what is hard, and what makes the component correct. M = modelled, P = partly,
– = not yet or not at all; the reason is in `PROJECT.json`.

| Component | State | Operations | Hard behaviour | Correct when | |
|---|---|---|---|---|---|
| Destinations and prepared writes (`destinations.py`, `apply.py`) | file contents; repository HEAD, branch, objects; `checkpoint_json.delivery` | read, prepare (build a commit object), observe, publish | the operator changes the same places with no lock; a merge, a squash or a deleted branch hides a commit | a prepared write is recognised whatever happened to it; a ref moves only from the expected value | M |
| Delivery of approved edits (`commands.py`, `apply.py`) | `commands`, `command_targets`, `command_members`, `proposals.status` | approve, reject, retry, cancel; claim, prepare, observe, publish, acknowledge, finish | crash between the write and the transaction that records it; controls while a worker is at a target | one write per approval; acknowledged means live, cancelled means not live; every command comes to rest | P |
| Rejections (`rejections.py`) | `rejection_members`, `proposals.decision_scope` | record, suppress | a rejection races an approved or prepared edit | a rejected edit is not written afterwards | P |
| Model jobs (`jobs.py`, `job_worker.py`, `*_jobs.py`) | `commands`, `model_jobs` (the frozen plan), `job_budgets`, `job_steps`, `job_calls`, `job_evaluations` | preview, submit, cancel, resume; claim, step, call, complete, persist | crash between a paid call and its record; sources change under a long job | no call paid twice; result saved once; nothing spent or saved after a cancellation | P |
| Evaluation gate (`evals/regression.py`, `harness.py`) | scenario specs, arm trials, verdicts | specify, two arms of trials, vote | a trial that cannot be recorded; replay half-way; budget of the last trial | evidence kept once per scenario; verdict from the recorded evidence only | P |
| Evaluation history (`eval_history.py`) | append-only rows | append, read evidence | – | rows are never rewritten | – |
| Instruction operations and rollback (`operations.py`, `rollback.py`, `apply.py`) | `instruction_operations`, reapplications, resolutions | apply automatically, roll back, reapply, resolve | policy or proposal changes between preparation and resumption; a rollback races a newer command | one application per authority; a rollback undoes exactly one application | P |
| Execution policy (`execution_policy.py`) | configuration, kill switch | may this proposal be applied automatically | changed between decision and write | automatic writes only under a policy in force | P |
| State store (`store.py`, `state_upgrade.py`) | the SQLite schema | transactions, migrations, backups | upgrade with workers running | a transaction is all or nothing | P |
| Run records and reaper (`run_liveness.py`, `pipeline.py`) | `runs`, owner process identity | start, own, finish, reap | a reused pid; the reaper races the owner | only a dead owner's run is abandoned, and it is | P |
| Nightly pipeline (`pipeline.py`, `stage_accounting.py`) | stage rows, queue counts | the chain of stages | one stage fails, the rest still run; accounting | inputs = handled + deferred + failed in each stage | P |
| Transcript sources and scan (`sources/`, `scan.py`) | `sessions`, offsets, digests, incidents | incremental scan of growing files | truncation, replacement, partial last line, append during a read | an observation is recorded once and none is skipped | P |
| Incident detection (`filter_incidents.py`) | none | pattern match over events | – | pure | – |
| Mining (`miner.py`) | `learnings`, `mining_history` | mine, deduplicate | deferred incidents when a budget ends | an incident is mined or still pending, not both | P |
| Clustering and contradictions (`cluster.py`, `contradictions.py`) | merges, families, contradictions | merge, split, flag | merges chain; a rejection follows a family | closure of merges is transitive | – |
| Routing and proposals (`routing.py`, `propose.py`) | `proposals` | route, draft, combine edits | edits against one file must compose | a combined edit equals its parts in order | – |
| LLM runner (`llm.py`) | budgets, breakers, processes | call with retries, fall back between providers | timeouts, orphans, a breaker opening in flight | the budget bounds calls across retries and providers | P |
| Evaluations outside the gate (`evals/ab.py`, ...) | report files | batch experiments | – | – | – |
| Rebuild and data boundary (`rebuild.py`, `data_boundary.py`) | everything derived | export, wipe, rebuild | transcripts grow meanwhile; export is outside the transaction | authored data survives a wipe | – |
| Redaction, rendering, search | none | text functions, read-only queries | – | pure | – |
| Instruction inventory and rule evidence | append-only evidence | scan, revise, judge | – | idempotent under its key | – |
| Dashboard (`dashboard/`) | none of its own | records commands; read models | a stale page submits an old preview | a request refers to what was shown | P |
| Reports | none | formatting | – | – | – |
| Services and deployment (`worker_services.py`, `launchd.py`, `ops/`) | plists, launchd registrations, deploy lock | install, replace, restore, deploy | a half-replaced service; a deployment during a nightly run | what a call reports is so; no file changes under a running worker | P |
| Command line and configuration | files | parse, validate | – | – | – |

The hazards, each at its line and with the properties that cover it, are in `PROJECT.json`
("hazards"); those without a property say why, most because their module is still in the plan.

## Delivery

### How the state corresponds

| Model | Code |
|---|---|
| `cmdState`, `cancelReq` | `commands.state`, `commands.cancel_requested` |
| `rowState[<<c, d>>]`, `members`, `preview` | a `command_targets` row, its `command_members`, the before-content in `review_preview` |
| `delivery[r]` | `checkpoint_json.delivery`: before and after content; base, existing branch and commit for git |
| `pstatus`, `rejLesson`, `rejTarget` | `proposals.status`; `rejection_members` of the two scopes |
| `writeLock` | `instruction-write.lock` (`delivery_lock.py`); the system frees it when its holder dies |
| `txn` | the `BEGIN IMMEDIATE` of `_deliver_command_target` that is open around the write |
| `pc`, `job`, `todo`, `cur`, `failAs` | where a worker is in `execute_next_command`, its command, its remaining targets, the target in hand, and the state to record for a failed target |
| `file`, `log`, `head`, `branch`, `checkedOut` | the world outside: file contents, commits, HEAD, the delivery ref, whether a working copy has it out |
| `published`, `disturbed` | history variables: rows the program has put in place; destinations changed by hand since the last write there |

A content is a version of the operator's own text and the set of proposals whose edits it holds. That
is exactly what reading, combining and comparing hashes can distinguish; the words cannot matter.

### Actions

The web process: `Approve` (submit_command), `RejectTarget`, `RejectLesson` (rejections.record),
`RetryDelivery`, `CancelDelivery` (submit_control). Each is one transaction and therefore needs
`txn = NoWorker`: while a worker holds the write transaction, no request commits. This guard carries
`WriteHasAuthority`.

The worker: `Claim` takes the lock and the oldest running, else queued, command with its open rows;
`StartTarget`; `PrepareRefused`, `PrepareWithdrawn`, `PrepareDelivery`; then, in the write transaction,
`ObserveDelivered` (a previous pass wrote it), `ObserveWithdrawn` (drop it), `ObserveRefused`,
`ObserveUnwritten`; `Publish` or `RefMoved`; `Acknowledge`; `RecordFailure` for an exception at a
target; `Finish` writes the command's state from its rows and frees the lock. `TargetError` is an
exception of the system (I/O, git) at any place, `Crash` the death of the process at any place:
transactions are undone, what is in a file or a ref stays. A crash between `Publish` and
`Acknowledge` is the case the protocol exists for.

The operator (in `Destinations`): editing a file, committing on HEAD or on the delivery branch, merging
or squashing the branch, deleting it, checking it out. These are marked external in the map: they
model tools outside the repository, as the code's own observation function distinguishes them.

### What delivery promises

`ReviewedWrite` says it without a worker: a row is approved, then live, then acknowledged, or it is
dropped; it is written again, acknowledged without a write, or dropped after one only if the operator
changed the place by hand; rows that share a file or a branch are live one at a time. `KeepsPromise`
states that `Delivery` implements this, with a row's phase computed from `rowState` and `published`. The
promise contains that a cancelled row left nothing behind and that no second write follows a crash. The
excuse about hand changes is not a convenience: `_observe_prepared_write` documents that after a
squash and a later hand edit nothing can tell whether the edit is live.

Around it: `OneUnreconciledPerResource` (why reconciling one prepared write can trust what it reads),
`ApprovalHasOneRow`, `RestingCommandHasNoOpenRow` (controls racing the end of a pass), `OutcomesStand`,
`WriteHasAuthority`, `AcknowledgedIsLive`, `BranchKeepsItsCommits`, and the liveness property `CommandsSettle`.

## Instruction operations

`Operations` models `operations.py`, `rollback.py` and their half of `apply.py`. An operation is a durable
record, `op[o]`: its kind, its proposal, the application it undoes, its state, its prepared write and its
two cancellation fields (`cancelReq` is the flag, `cancelled` the reconciled record). `apps` is the list of
`applied` events of all proposals, `pstatus`, `evalOf` and `createdAt` are the proposal's status, its
evaluation and the policy revision it was built under, `policy` the execution policy of its class.

The web process and the run change the ground under an operation: `BuildProposal`, `Regate`, `RunEnds`,
`SetClassPolicy`, `RejectLesson`, `UndoElsewhere`, `ApproveEdit`, `RequestRollback` (a dashboard preview, which
replaces an older unwritten intent of another content or base commit), `SubmitRollback`, `RetryOperation`, `CancelOperation`. A writer (the
worker, the nightly run, the command line) runs `AutoPrepare` or `AutoHold`, `ClaimOperation`, `ResumeNamed` or
`RollbackNow`, then prepares, observes, publishes and acknowledges as in `Delivery`, under the same lock.
The reviewed command is the rival that shares the resource: three steps (`PrepareRow`, `DeliverRow`,
`DropRow`) stand for what `Delivery` models in detail.

Properties: `AutomaticWriteHasAuthority` (authority at the instant of the write, after every resumption),
`RollbackUndoesItsApplication` (never a later application with the same content), `OutcomeIsTrue`,
`StatusMatchesEvents`, `CancellationIsTried`, `OneOpenWritePerResource` (across both kinds of writers), the
liveness property `OperationsSettle`, and `OperationsReadable`, which the code breaks (see below).

## Model jobs

### How the state corresponds

| Model | Code |
|---|---|
| `cmdState`, `cancelReq`, `outdated` | the job's `commands` row; `outdated` is `error_code = JobRuntimeChanged` |
| `frozen`, `planCode` | source revision and `runtime_revision` in the frozen plan (`model_jobs.plan_json`, or the table of the job's kind) |
| `stepState`, `calls`, `evaluated` | `job_steps`, `job_calls`, `job_evaluations` |
| `published` | how often a job saved its draft, or its evaluation history row |
| `revision`, `status` | the revision (hash) of the incident or proposal, and whether it is pending, gated or decided |
| `code` | the revision of the code and prompts on disk |
| `lock`, `pc`, `job`, `pos`, `outcome` | `model-jobs.lock`; the worker's place in `run_once` and the journal, its job, its step, the verdict it is about to record |

A step is `<<scenario, n>>`: `n = 0` is the one generation, `1..Trials` the arm without the rule,
`Trials+1..2*Trials` the arm with it. Drafts (`mine_incident`, `propose_recovery`,
`resolve_rollback`) have the single step `<<1, 0>>`. An answer is usable or not, a trial detected the
mistake or not; the gate stops a scenario early when the arm without the rule shows too few failures
to be evidence (`MinFailures`). A generated specification that only a model could grade ends the gate without
a verdict before its first trial (harness.py:304).

### Actions

`Submit`, `CancelJob`, `ResumeJob` are the web process; `ChangeSubject` is anybody else who changes
or decides the same incident or proposal; `Upgrade` is a deployment. The worker: `ClaimCancelled`,
`ClaimOutdated`, `Claim`; `ReplayStep`, `ReplayFailure`, `InterruptedStep`, `ChangedStep`, `StartStep` are
the branches of `Journal.step`; `CheckSource` re-reads the source before a call; `Reserve` records the
call, `Answer` is the provider, `CompleteStep` and `FailStep` record the step; `RecordScenario` is
`record_eval`; `PublishDraft`, `PublishRefused` and `FinishEvaluation` are the last transactions;
`PauseCancelled` is `Journal.inspect` seeing a cancellation; `RecordStop` stores what stopped the job.
`StepError`, `GateRefused`, `PublishError` are failures of the system; `Crash` may happen at every place.

The point of the design is that a started step whose call may have been sent is never entered again:
after a crash it is `InterruptedStep`, which blocks the job for the operator, and not a second payment. The
price, a paid answer that is lost, is accepted by the code and visible in the model.

Properties: `PaidOnce`, `CompletedOnce`, `IncidentHandledOnce`, `EvidenceOncePerScenario`,
`CancelStopsSpending`, `CancelledDraftIsNotSaved`, `DecisionStands`, and the liveness property `JobsSettle`.

### The verdicts

`Verdicts` holds what the counts decide: `ScenarioVerdict` of the two arms of trials (`gate`,
`with_arm_verdict`), and `MajorityVerdict` of one outcome per scenario. They have no state, so nothing is
run; the module's theorems hold for every number of trials and scenarios. `FailHasEvidence` needs the
bounds `Config` checks (`minPasses` at most the trials). `OneScenarioDecidesNothing` shows a bar of the kind
the comment at `config.py:320` calls a configuration error, one that can never be met: with
`eval_scenarios = 1`, which `Config` accepts, no rule passes and none is condemned. When every scenario
fails in generation the gate raises instead of deciding; that case is in `Jobs`.

## Scan and nightly runs

### How the state corresponds

| Model | Code |
|---|---|
| `content`, `mtime` | a transcript's terminated lines and modification time; the assistant appends, replaces or cuts it |
| `session` | the `sessions` row: resume offset, size, modification time |
| `incident`, `errors`, `measured` | `incidents`, `error_fingerprints.count_in_session`, the active projection in `scan_lines` |
| `stat`, `todo`, `file`, `read`, `pc` | where a run is in `scan_all`: what `discover()` saw, the files left, the file in hand, what it read of the session and the file |
| `run`, `judged` | `runs` rows with status and recorded process; the rows a reaper found dead, as it read them |
| `queue`, `receipts`, `links` | the incidents a run has taken, `queue_processing`, `incident_learnings` |
| `draftOf`, `wpc` | the draft job's incident, the worker processes that take its run over |

`Discover`, `SkipUnchanged`, `ReadSession`, `Parse`, `Publish` and `FailFile` are the scan; `Publish` is the one
transaction in which checkpoint, incidents, counts and projection move. Nothing but that transaction's
write lock keeps two runs, or a run and `MarkForRescan`, apart. `Judge` and `Begin` are
`finalize_stale_runs` and the run's own row; `TakeQueue`, `Dismiss` and `Learn` are mining; `Finish`,
`Interrupt` and `Crash` end a run. The handler of `run_pipeline` commits what an interrupt leaves pending
(`LeavesPending`): part of a transcript (`HalfPublished`), which `scan_all` rolls back for an `Exception` only;
of an answer nothing, for `_persist_mine_payload` rolls back whatever is raised. `RequestDraft`, `StartWorker`, `TakeJob`, `SaveDraft`,
`RefuseDraft` and `WorkerDies` are the job worker on an incident that a run may mine at the same time.

Lines are numbered in the order they are written and have a kind: a signal that makes an incident, an
error that is counted, or one that cannot be parsed, which fails the file.

Properties: `IncidentOncePerLine`, `ConsumedIsDetected`, `LeftQueueWithOneReceipt`, `MinedHasLearning`,
`LiveRunIsNotAbandoned`, and `InterruptedIsDetected`, which the code breaks. `ConsumedIsDetected` is stated of
two runs, which is what two starts of the pipeline give. With three, one of which fails half way, a
projection can be behind its checkpoint until the next scan, which the failure forces; with four an
error count can lose a line. Signals, the part mining depends on, are covered for any number of runs; the
[proofs](#nightly) say what exactly more than two runs have to avoid.

## LLM runner

`Provider` is one attempt (`_run_provider`, `_supervise`): the caller starts a guard in a session of its own,
the guard starts the CLI and reports its exit on a pipe, tools are further processes of the group. `place`,
`inner` and `raising` say where the caller is and whether an exception is on its way out; `report` is the
pipe. `Interrupt` is a signal turned into an exception at any step, `CallerKilled` and `GuardLost` are deaths.
On a timeout the caller sends SIGTERM, waits, then SIGKILL, then reaps (`Reap`), collects the output and
returns (`Return`); a guard whose caller is gone ends the group by itself. An exception out of `_supervise`
leads to the clean-up of `_run_provider`, unless the guard is reaped (`Escape`, llm.py:498): a signal between
`Reap` and `Return` is what that test is for, and without it `KillsInOrder` is violated.

`Runner` is the ladder above it: `StartCall` takes one unit of the budget, `AskRouter` and `Reject` search for an
account that can run the call, `WaitForPolicy` waits once, `Invoke` starts an attempt, `AttemptAgain` repeats it
after a lost credential (once), `PickAgain` asks for another account after a quota failure (once), and
`Finalize` writes the `llm_calls` row.

Properties: `OnlyFitAccountServes`, `FinishedCallLeavesNothing`, `KillsInOrder`, and the liveness property
`CallsEnd`. The router is taken to honour exclusions, so the loop's backstop cap is unreachable and left out. When
the guard is lost and the caller dies too, or is interrupted again in its clean-up, nobody is left to
end the CLI; `CallsEnd` and `KillsInOrder` exclude exactly that.

## Worker services

`Services` is `worker_services.manage`: `plist` is the service file, `loaded` and `stopping` what launchd has
registered and whether a booted-out worker is still stopping, `backups` the definitions saved beside it;
`pc`, `wanted`, `old`, `registered` and `handling` are the locals of a call. Each launchctl command is a step of
its own and can fail with or without effect. `Gone` is the worker that finally stops, `Login` a restart that
loads the files it finds, `Interrupt` a Ctrl-C or a kill, which no except block sees.

`ReportIsTrue`: at the end of a call the file and the registration are what its message says, and a prior
definition that is not back is in the file or in a backup. `ReplacedOnlyWhenGone`: no file is changed under
a registered worker. An interrupted call reports nothing and repairs nothing: after one between bootout and
bootstrap the worker stays down until the next login or call. Two calls at once are not modelled; nothing in
the code keeps them apart, and each would judge a registration the other is changing.


## Runs

Times are with two TLC workers on an idle machine; beside other runs they can double. Every run sets
`CHECK_DEADLOCK FALSE`: the system really may rest, when every command is finished and nobody asks for
anything more. That nothing gets stuck before is what `CommandsSettle`, `JobsSettle`, `OperationsSettle` and
`CallsEnd` say.

| Run | Instance | What it shows |
|---|---|---|
| `delivery_files` (~75 s) | 3 proposals of one lesson for 2 files, 2 commands, 2 interchangeable workers, 1 text, 1 operator step, 1 fault, 1 retry | approvals, rows and decisions stay consistent through every control and crash; `IndInv` of the proof; delivery implements `ReviewedWrite` |
| `delivery_merges` (~95 s) | 1 proposal on one delivery branch, 2 texts, 4 operator steps, 1 fault | the same through every short history of commit, merge, squash, delete and checkout; no write drops commits; the command settles |
| `delivery_unseen_edit` | 2 proposals for one file, 1 operator step, no fault | a finding, see below |
| `ops` (~120 s, 511,000 states) | 1 proposal for a file, 2 operations, 1 reviewed command, 1 re-evaluation, 1 event, 1 operator step | an automatic write is still allowed when it happens, a rollback undoes its own application, what is recorded is true, the queue drains |
| `ops_pair` (~60 s, 925,000 states) | 2 proposals for 2 paths on one branch, 1 operation, 1 operator step | an operation and a command never have two open writes for one resource |
| `ops_records` | 2 operations, no event | a finding |
| `jobs_drafts` (~105 s, 2.3 million states) | 2 mining jobs for one incident, a resolution, 2 interchangeable workers, 2 faults, 1 resume, 1 change, 1 upgrade | drafts are saved once, never after a cancellation; two jobs never both handle one incident |
| `jobs_gate` (~95 s, 590,000 states) | a gate of 2 scenarios of 1 trial per arm, a recovery for the same proposal, 2 faults, 1 resume, 1 change | payment, evidence and decisions through replays; every job comes to rest |
| `nightly` (~55 s, 771,000 states) | 1 transcript, 2 runs, 2 worker processes, 2 writes, 1 fault, 1 rescan or reverification | incidents are stored once, mined once and not lost; no live run is abandoned |
| `scan_interrupted` | the same instance | a finding |
| `runner` (~35 s, 527,000 states) | 4 accounts (fit, fit, no sandbox, not allowed), 2 signals, 2 faults, 2 calls | only accounts that may serve a call do, every call ends, none of its processes outlives it |
| `services` (~1 s, 54,000 states) | 2 definitions and a foreign one, 4 calls, 6 faults | what a call reports is so; files change only under an absent worker |

### The bounds and why they are enough

* `MaxFaults` counts crashes and failing calls (in `Operations`, `MaxEvents` counts those, policy changes and
  retries together; in `Services`, also interrupts and logins), `MaxRetries` and `MaxResumes` the repeated
  controls, `MaxExternal` the operator's steps, `MaxChanges` and `MaxUpgrades` changes by others, `MaxEvals`
  repeated evaluations, `MaxWrites` changes of transcripts, `MaxCommands` rescans, `MaxSignals` the
  signals a caller receives, `MaxCalls` the calls of `manage`, `Cap` the budget of model calls. They are
  guards of those actions and nothing else; cancellations and rejections are bounded by themselves.
* One crash reaches every pair (place in the pass, next pass); two reach a crash during
  reconciliation itself. One retry reaches a requeued row; a second one meets no state the first did
  not, since a retry stores nothing but `queued`.
* Two commands suffice for every race over a file: the invariant relates at most two rows, and
  `OneOpenWrite` is proved for any number. Three proposals give one command with two targets, of which
  one fails, and two edits in one target.
* Four operator steps are the longest story the observation function tells apart: commit, merge or
  squash, delete, change by hand.
* Two operations of one proposal give an application and its rollback, or a rollback and the preview that
  replaces it. A third would need a second cycle of the same kind.
* Two scenarios are the least in which losing one leaves another, and in which a replay crosses a
  recorded scenario.
* Two writes of a transcript give a signal and an error, or an append and a truncation, before, between or
  during two scans. Two signals reach an interrupt in the clean-up of an interrupt; two faults reach the loss
  of caller and guard. Four calls of `manage` with six faults give an installation that fails, its
  failing restoration, and calls after it.
* Workers or runs are interchangeable where symmetry is declared (`delivery_files`, `jobs_drafts`, `nightly`);
  runs with a liveness property declare none.

## Fairness

In `Delivery`, `Jobs` and `Operations`, `FairSpec` adds weak fairness of "some worker takes a step" and nothing
for the operator, the web process, the faults or a particular worker. The code justifies it:
`worker.serve` and `job_worker.serve` poll for ever; launchd starts a service again that did not exit by itself in order (`KeepAlive`,
`launchd.py:252`); the file lock is freed by the system when its holder dies; a call of git or of a
provider ends at the latest by its timeout. Faults are bounded, so the assumption is that the
system fails finitely often, not that it never fails. What fairness cannot give is named among the
hazards: an exception that `execute_next_command` does not catch ends the process each time it is
met, and a service that meets it on every start makes no progress. `OperationsSettle` for that reason
excuses a queue that holds a record the program refuses to read.

`Runner` has weak fairness of the ladder's own steps, of the caller and of the guard: all three run
under deadlines of their own (the attempt's timeout, the grace period between SIGTERM and SIGKILL, the single
wait for policy). Signals, deaths and the provider itself have none: a CLI may run until it is killed.

`Nightly` and `Services` state safety only. A nightly run is started by a schedule, and nothing forces an
interrupted installation to be repeated.

## Where code and documents disagree

Three disagreements have a run that shows them.

**`delivery_unseen_edit`.** `docs/WORKFLOW.md:49` says that unknown or conflicting content blocks.
For a plain file the worker compares the content (`apply.py:1010`) and then renames a new file over it
(`apply.py:261`), which compares nothing. An edit saved in between is overwritten and the program's
record does not show it. The window is short, no crash is needed. Git destinations are not exposed:
`update-ref` names the expected old value (`RefMoved` in the model). `BranchKeepsItsCommits` states the
positive half.

**`ops_records`.** `rollback.py:270` says that no prepared write means the intent never reached publication,
and replaces its checkpoint by a cancellation, whatever its state. A worker that is executing the
intent holds its own copy and stores its outcome over the cancellation. `operation_status` refuses the row
that results, and since each later delivery reads all operations, each one raises.

**`scan_interrupted`.** `scan.py:45` says that a half-persisted file never advances its resume offset.
A KeyboardInterrupt inside the file's transaction passes `scan_all`'s `except Exception` (`scan.py:416`), and
`run_pipeline` commits while it records the outcome (`pipeline.py:1127`). The session row of the file is
committed without its incidents, and no later scan reads those lines.

Others were met while modelling and have no run:

* `jobs.py:28` says that a queued request cannot silently adopt changed execution code or prompts. The
  revision is compared once, at the claim (`job_worker.py:142`), prompts are read from disk later, and a
  deployment restarts no worker (`docs/DEPLOYMENT.md:154`). A job claimed just before an upgrade generates with
  the new prompt. Mining jobs are not affected: their prompt is frozen in the plan.
* `llm.py:866` says that a call that passes the budget check inserts one row. A guard that fails to
  start its provider, and an interrupt, leave none.
* `llm.py:681` gives a fleet that cannot run a sandboxed trial an outcome of its own. When the router answers
  with no winner at all, the call ends as `quota_exhausted` instead.
* `scan.py:547` says that a clean tail cannot clear errors in an unread prefix. A session in status `error` that
  is resumed counts as one that was not `partial`, so a partial prefix scanned before the failure is cleared.
* `run-nightly.sh:16` names one race of the lock directory. Two starts that find the same dead holder can also
  both remove and take it, the second removing the first one's. A run started by hand takes no lock.
* `config.py:320` calls a bar that can never be met a configuration error; `eval_scenarios = 1` is accepted
  and is one (theorem `OneScenarioDecidesNothing`).

## Proofs

All proof modules are checked to the last leaf by TLAPS 1.4.5. They hold for every set of proposals,
destinations, commands, operations, jobs, runs, accounts, workers and definitions and every value of the
bounds, under the assumptions the modules name, which TLC evaluates in every run:

* `DestsAssumption`: git destinations are destinations, a file is its own resource, a branch is not a
  file, there is some text;
* `DeliveryAssumption`: commands are numbers and there is one, every proposal has a destination, `NoWorker` and
  `None` are not values of what they stand in for;
* `OperationsAssumption`: operations are numbered from 1 and finitely many, `NoWriter` and `None` as above;
* `JobsAssumption`: jobs are numbers with an action and a subject, at least one scenario and one trial,
  `MinFailures` between 1 and the trials (`config.py:326` checks this);
* `ScanAssumption`, `NightlyAssumption`, `NoneIsNoRow`: finitely many transcripts, runs and workers, which are
  different things, and `None` is no row;
* `ProviderAssumption`, `RunnerAssumption`: `None` is no outcome and no account, the special accounts are accounts;
* `ServicesAssumption`: `None` and `Foreign` are no definitions of this configuration.

Where they speak of bounds, they say that these are numbers. Every inductive invariant below was an
invariant of TLC on the small instances before it was proved.

### Destinations

`DestinationsProofs` holds what `Delivery` and `Operations` need to know of the world they share, as lemmas about
the operator's steps and the program's publications. A prepared write *stands* in its place (`Stands`) when
the place reads as the record's after-content exactly if the write has happened, and an unpublished
commit is in nobody's history. Each step of the operator (an edit, a commit, a merge, a squash, a deletion, a
checkout) is `ByHand`: it keeps this or marks the place as disturbed. A publication leaves every other place as
it was (`SamePlace`). `TrueRecord` is what a record must say of its commit for that.

One attempt failed for a good reason. The model took the deletion of a merged delivery branch to change
nothing. But a file can be committed on HEAD after the merge, which changes no place while the branch
exists; deleting the branch then makes HEAD the content, and the edit may be gone. `DeleteBranch` now disturbs
every path whose content at the branch differs from that at HEAD, merged or not.

### Delivery

`OneOpenWrite` (`Spec => []OneUnreconciledPerResource`) is not inductive by itself. `IndInv` adds:

* `TypeOK`;
* `RefsExist` and `RecordsExist`: HEAD, branches and the bases and commits in prepared records name
  commits that exist, so that reading a destination gives a content;
* `WorkerPlaces`: a worker is busy exactly when it holds the lock, so that only one is; it has an
  existing command and, where its place needs it, a target and a prepared record;
* `OpenRows`: the rows a worker still has to do are not finished behind its back, and a command
  that does not exist has no rows. Without the first, an acknowledged row could be prepared again;
  without the second, an approval could open a row that already has a record.

The argument for the one interesting step, `PrepareDelivery`: it is refused when another unreconciled row
shares the resource, so the record it adds is the only one; every other step either adds no
record or moves a row towards `Finished`, and no step moves a row out of it. There is one lemma per
kind of step; `NextIndInv` combines them.

`DecisionInv` adds what becomes of a decision. `Hands`: the command of a busy worker is running and the rows it
still has to do are claimable, since a control moves only stopped rows. `Writing`: the transaction around
a write spans it, so no decision commits between the last look and the write, and the authority looked at
then is in force at the write. `Placed`: an undecided proposal is in no open or completed row, an
approved one in exactly one open row, an applied one in exactly one completed row. The steps are first
told apart by what they do to rows and decisions (`WorkerEffects`, `WebEffects`), which leaves a handful of
cases instead of two dozen actions. `ApprovalsHaveOneRow`, `RestingCommandsAreDone`, `WritesHaveAuthority` and
`OutcomesAreFinal` follow.

`PromiseInv` adds the places. `InPlace`: while a prepared write is open and no hand was there, the place holds
the after-content exactly if this program has put it there, and an unpublished commit is in nobody's
history. `Recorded` and `Chosen` say that a record is a real change that adds its members; `Doing` that a
worker about to write has not written, and one about to acknowledge has. From it, what a worker observes
after a crash is what happened (`SeenIsWritten`, `UnseenIsUnwritten`), and then `CompletedRowsAreLive`,
`BranchKeepsCommits` and `DeliveryKeepsPromise`.

`DeliveryKeepsPromise` (`Spec => KeepsPromise`) is the refinement. The phase of a row is computed from its state
and `published`; each kind of step is shown to be the step of `ReviewedWrite` that its effect on the phases
names, or to change none: an approval asks for all rows of a command at once, a publication makes a row live
or, where a hand was, writes it again, an observation acknowledges, a refusal or a withdrawal drops.

### Operations

Three inductive invariants, each resting on the one before.

* `IndInv`: types; records that fit their kind, with true descriptions of their prepared writes (`Records`,
  `RowRecords`); operations numbered in the order of their creation; what a busy writer has in hand (`Hands`);
  and `OneOpen`, that at most one prepared write is open on a file or branch, counted over both kinds of
  writers. The order of creation is what makes the number of a new operation unused. From it `TypesHold`, `CancellationsAreTried`, `OneOpenWrite`.
* `StatusInv`: one automatic edit per proposal, closed once the proposal is applied or rolled back; a row
  under way is the operator's decision. From it `StatusesMatchEvents`, by cases on which step appends an
  event or sets a status.
* `PlaceInv`: `Placed`, the open write stands in its place as in delivery; `Reasoned`, a writer that is about to
  write may (`MayWrite` was read in the transaction that is still open), and one about to acknowledge has
  written or found a hand. From it `AutomaticWritesHaveAuthority`, `RollbacksUndoTheirApplication`, `OutcomesAreTrue`.

The interesting case of `OutcomesAreTrue` is a cancellation: it closes an operation only after an observation
that proves the place untouched, and `Placed` turns that into "was not published, or a hand was there".

### Jobs

`StepsPayOnce` and `ResultsSavedOnce` need from `IndInv`:

* `WorkerPlaces`: only the lock holder is busy, its job is `running`, and a worker about to reserve a
  call is at a started step with no call yet; a worker past it is at a started step;
* `CallsHaveSteps`: a call belongs to a step on record. `StartStep` enters only steps that are not on
  record, so it enters none that has spent its call. This is the heart of `PaidOnce`.

`CompletedOnce` follows because the two transactions that save also complete, from `running`, where
`published` is 0, and no action leaves `completed`. The action properties `CancellationStopsSpending`,
`DecisionsStand` and `CancelledDraftsUnsaved` use `TypeOK` and `WorkerPlaces` at the one kind of step that could
break each, `CallsStep`, `DecisionsStep` and `DraftsStep` showing that no other can.

`IncidentsHandledOnce` rests on `Revisions`: a plan froze a revision its subject has had, and a job that saved
its draft has moved the subject past it; so a second job with the same frozen revision finds it changed in
the transaction in which it would save. `EvidenceBeforeVerdict` rests on `GateInv`: a worker in a gate has
settled every scenario before the one it is at (its specification failed, or its result is kept), and it
goes to the end with a verdict only if some result is kept. A replay passes over settled scenarios
without storing, so each keeps one result.

### Nightly

`TypesInv` is the type invariant with `Places`: which file and which rows a run or worker has where it is in the
code. On it rest, independently of one another:

* `IncidentsAreOnce`, from `OneIncident` (the same without counting): the look for an incident of *any* status and
  its insertion are one transaction;
* `LearningsAreLinked`: the transaction of a miner sets the status and the link, and a rescan that would drop an
  incident with a link is refused as a whole;
* `ReceiptsAddUp`, from `Fresh`: a run that has still to publish a transcript has stored none of its incidents, so
  none it stores later has a receipt already; and no interrupt leaves a status without its receipt;
* `LiveRunsAreKept`, from `DeadStayDead`: a row names a process that was started, so one that was found dead is dead
  for good; and the reaper updates the rows as it judged them, so one that was taken over is not touched;
* `SignalsAreDetected`, from `Checkpoints`: the checkpoint of a transcript that only grows, the copy a run
  resumes from, and what the run read behind that copy cover no signal without an incident. The proof needs no
  order between runs, since incidents are looked for and never replaced.

Errors and measured lines are replaced, so they do need one. `ConsumedWithoutRaces` proves the whole of
`ConsumedIsDetected` for any number of runs as long as `FirstReadsRace` holds: no two runs have a transcript at hand
at once of which one of them had found lines consumed. `TwoRunsLoseNothing` discharges that condition for two
runs: whoever consumed those lines is done with the transcript (`Stored`), so a third run is needed
(`RaceTakesThree`). With three, TLC finds `ConsumedIsDetected` violated.

### Runner

`ProviderInv` says what is true of the guard and its group at every place of the caller, with and without an
exception on its way out: in a call the guard exists, and it is reaped exactly while the call returns; a
report, read or not, is of a CLI that no longer runs; a guard error comes after the SIGKILL (`KilledFirst`);
what precedes a SIGKILL is a SIGTERM, an exception or the report (`TermedFirst`). `CallsLeaveNothing` and `CliIsToldFirst` follow. `LadderInv` counts the
attempts by what allowed each (the pick, a second pick after a quota failure, one credential retry), which
bounds them by three, and keeps the pick fit and unspent from the judgement to the last attempt on it;
`FitAccountServes` follows.

### Services

`manage` decides by what it read and observed several commands ago. `IInv` adds to `TypeOK` the fact `Progress`,
which says what each place of a call may still rely on: until the call writes, the file is the one it
read; where it is about to write, unlink or restore, launchd has no registration; from `bootstrap` on the
replacement is in place, and in `rebootstrap` the old file is back. `ReportsAreTrue` follows because only few steps
end a call (`StepTells`), and `FilesOutliveWorkers` because the three steps that touch the file are at those
places. The interesting steps are the failures between them, after which `Absent` and `Abort` choose by
`handling` where to go on.

### Verdicts

`PassHasEvidence`, `FailHasEvidence`, `PassIsMajority`, `OnlyPassesHelp` and `OneScenarioDecidesNothing` are facts about two
functions of counts, by case analysis and linear arithmetic, for any number of trials and scenarios.
`OnlyPassesHelp` is the monotonicity a reader of the table would expect: one more outcome that is not a pass
never turns a verdict into a pass.

### Only model-checked

* Liveness (`CommandsSettle`, `JobsSettle`, `OperationsSettle`, `CallsEnd`): the prover has no rule for fairness and
  ENABLED.
* The three properties the code breaks: each has a counterexample, not a proof.
* `TypeOK` and `IndInv` of `Jobs` and `IInv` of `Services` are the other way round: proved, not invariants of a run.
* Facts by induction over data (what a chain of merges or a fold over edits yields) and everything that
  needs RECURSIVE operators are out of this prover's reach; the models avoid both by taking an edit as a set
  element and a history as a set of ancestors.

## What the models leave out

* **Delivery**: proposals that come from resolutions, recoveries and reapplications; the snapshots
  repository (written beside a delivery and read by rollback only); checkpoints of the wrong shape, which mean a
  damaged database. A repeated request finds its own command; the model has it once. `LessonOf` stands
  for a lesson's family through merges.
* **Line endings and the patch algebra.** An edit is a set element: present or absent.
  `combine_edits` either applies or is refused in a preview; in delivery the preview is the before-content.
* **Operations**: cohorts of equal edits, resolutions and reapplications, a repeated `apply_proposal`, files
  that do not exist, the history of policies.
* **Jobs**: the run row of a gate or recovery (that of a draft is in `Nightly`) and so the block for one that
  cannot be read (job_worker.py:154-167), the sandbox, retries within a
  call. `Journal.reserve`'s branch for a retained call is unreachable: it needs a second entry into a
  step with a call, which `PaidOnce` and `CallsHaveSteps` exclude. Damaged plans are a defect outside the protocol.
* **Scan and nightly**: denylists, tails without a newline, deleted transcripts, revisions of measured lines, the
  promotion of repeated errors, Codex rollouts; clustering, proposing and gating within a run and their
  accounting; dry and review-only runs; run rows without a recorded process.
* **Runner**: what is parsed out of an envelope, which pool of the budget a stage uses, processes that leave the
  provider's group, the router itself.
* **Services**: two calls of `manage` at once, the `status` action, the nightly agent of `launchd.py`, the deploy
  script and `run.lock`.
* Incident detection, clustering, routing, rendering, redaction, search, reports, read models: pure functions of
  text or numbers, with no state to explore. Rebuild and evaluation history are append-only or started by
  hand and come last in the plan.

## Plan

Done: `Destinations`, `ReviewedWrite`, `Delivery`, `Operations`, `Jobs`, `Verdicts`, `Scan`, `Nightly`, `Provider`, `Runner`,
`Services`, and the proofs of every safety property their runs check.

To prove next: that `Jobs` implements an abstract job, *asked, paid at most once, saved or refused*, still to be
stated; the reviewed row of `Operations` as an abstraction of `Delivery`, which would join the two proofs of
one open write per place; the race condition of `ConsumedWithoutRaces` as a lock the scan could take.

To model next: the lock shared by deployment and the nightly script; `Rebuild` and what it must export first;
the closure of a lesson's family under merges, shared by rejection and mining; the algebra of
`combine_edits` and `reverse_applied_change` over bounded inputs; the stages of a run with their accounting.
