-------------------------------- MODULE Jobs --------------------------------
(***************************************************************************)
(* Model jobs: paid work the operator asks for from the dashboard          *)
(* (jobs.py) and a worker executes step by step under a journal            *)
(* (job_worker.py).  A step is recorded as started before it may spend a   *)
(* call, a call is recorded as started before the provider is asked, and   *)
(* a job that is claimed again replays what is recorded.  The worker may   *)
(* die anywhere; the operator cancels, resumes and decides about the same  *)
(* proposals meanwhile; an upgrade may replace the code on disk.           *)
(*                                                                         *)
(* Four kinds of job: three generate one draft with one call               *)
(* (mine_incident, propose_recovery, resolve_rollback); regenerate_eval    *)
(* runs a gate of several scenarios, each a specification and two arms of  *)
(* trials.  What a call answers is abstracted to what the control tells    *)
(* apart: a usable answer or not, a trial that showed the mistake or not.  *)
(***************************************************************************)
EXTENDS Naturals, FiniteSets

CONSTANTS
    Jobs,          \* command identifiers; a smaller one was created earlier
    Kind,          \* job -> its action
    Subjects,      \* the incidents or proposals that jobs are about
    SubjectOf,     \* job -> its subject
    Scenarios,     \* cfg.eval_scenarios
    Trials,        \* cfg.eval_trials, per arm
    MinFailures,   \* cfg.gate_without_min_failures
    Workers, NoWorker, None,
    MaxFaults,     \* BOUND: crashes and failing calls of the system
    MaxResumes,    \* BOUND: resume controls
    MaxChanges,    \* BOUND: changes of subjects by others
    MaxUpgrades    \* BOUND: upgrades of the code on disk

Kinds == {"mine_incident", "propose_recovery", "resolve_rollback", "regenerate_eval"}

ASSUME JobsAssumption ==
    /\ Jobs \subseteq Nat
    /\ Kind \in [Jobs -> Kinds]
    /\ SubjectOf \in [Jobs -> Subjects]
    /\ Scenarios \in Nat \ {0} /\ Trials \in Nat \ {0}
    /\ MinFailures \in 1..Trials
    /\ NoWorker \notin Workers
    /\ None \notin Jobs /\ None \notin {"failed", "blocked", "cancelled"}
    /\ {MaxFaults, MaxResumes, MaxChanges, MaxUpgrades} \subseteq Nat

VARIABLES
    cmdState,    \* commands.state, "none" before the job exists
    cancelReq,   \* commands.cancel_requested
    outdated,    \* error_code is JobRuntimeChanged
    frozen,      \* source revision in the frozen plan
    planCode,    \* runtime_revision in the frozen plan
    stepState,   \* job_steps.state; a completed trial keeps what it showed
    calls,       \* job_calls rows of each step
    evaluated,   \* job_evaluations rows of each scenario
    published,   \* drafts, or evaluation history rows, that the job saved
    revision,    \* current revision of each subject
    status,      \* what is decided about it: pending, gated or decided
    code,        \* runtime_revision of the code on disk
    lock,        \* holder of model-jobs.lock
    pc, job, pos, outcome,   \* a worker's place, job, step and verdict on it
    faults, resumes, changes

jobVars == <<cmdState, cancelReq, outdated, frozen, planCode>>
journalVars == <<stepState, calls, evaluated>>
subjectVars == <<revision, status>>
workerVars == <<lock, pc, job, pos, outcome>>
boundVars == <<faults, resumes, changes>>
vars == <<jobVars, journalVars, published, subjectVars, code, workerVars,
          boundVars>>

-----------------------------------------------------------------------------
Claimable == {"queued", "running"}
Stopped == {"failed", "blocked"}
Finished == {"completed", "cancelled"}
JobStates == {"none"} \cup Claimable \cup Stopped \cup Finished

Gate(j) == Kind[j] = "regenerate_eval"

\* A step: its scenario, and 0 for the generation, 1..Trials for the arm
\* without the rule, Trials+1..2*Trials for the arm with it.
Steps == (1..Scenarios) \X (0..2 * Trials)
First == <<1, 0>>
Generation(n) == n[2] = 0

\* A completed step; "detected" is a trial that showed the mistake, "ungraded"
\* a specification for which only a model could grade the trials.
Done == {"completed", "detected", "ungraded"}
Results(j, n) ==
    CASE Generation(n) /\ ~Gate(j) -> {"completed"}
      [] Generation(n) /\ Gate(j)  -> {"completed", "ungraded"}
      [] ~Generation(n)            -> {"completed", "detected"}
StepStates == {"none", "started", "failed"} \cup Done

\* Where a worker can be in its attempt, and what it may yet record of it.
Places == {"idle", "step", "check", "call", "provider", "answered", "failing",
           "record", "publish", "stopping"}
Verdicts == Stopped \cup {"cancelled", None}

\* jobs.status: the calls a job has used, and the pool it was granted
\* (gate_calls_needed for a gate, one call for a draft).
Used(j) == Cardinality({n \in Steps : calls[j][n] > 0})
Budget(j) == IF Gate(j) THEN Scenarios * (1 + 2 * Trials) ELSE 1

Unfinished(j) == \E n \in Steps : stepState[j][n] \in {"started", "failed"}
CanRetry(j) == /\ cmdState[j] \in Stopped
               /\ ~cancelReq[j]
               /\ ~Unfinished(j)
               /\ ~outdated[j]
CanCancel(j) == cmdState[j] \in Claimable \cup Stopped /\ ~cancelReq[j]

\* _unchanged, and the revision check of an evaluation's finish.
SourceUnchanged(j) == revision[SubjectOf[j]] = frozen[j]
Decided(j) == status[SubjectOf[j]] = "decided"

-----------------------------------------------------------------------------
\* The web process: each request is one write transaction.

\* A fresh preview freezes the source revision and the code revision.  A
\* draft is previewed only for a subject that nothing has decided yet.
Submit(j) ==
    /\ cmdState[j] = "none"
    /\ \A i \in Jobs : i < j => cmdState[i] # "none"
    /\ Kind[j] \in {"mine_incident", "propose_recovery"} => ~Decided(j)
    /\ cmdState' = [cmdState EXCEPT ![j] = "queued"]
    /\ frozen' = [frozen EXCEPT ![j] = revision[SubjectOf[j]]]
    /\ planCode' = [planCode EXCEPT ![j] = code]
    /\ UNCHANGED <<cancelReq, outdated, journalVars, published, subjectVars,
                   code, workerVars, boundVars>>

CancelJob(j) ==
    /\ CanCancel(j)
    /\ cancelReq' = [cancelReq EXCEPT ![j] = TRUE]
    /\ cmdState' = [cmdState EXCEPT ![j] = IF @ = "running" THEN @ ELSE "cancelled"]
    /\ outdated' = [outdated EXCEPT ![j] = FALSE]
    /\ UNCHANGED <<frozen, planCode, journalVars, published, subjectVars,
                   code, workerVars, boundVars>>

ResumeJob(j) ==
    /\ CanRetry(j)
    /\ resumes < MaxResumes
    /\ resumes' = resumes + 1
    /\ cmdState' = [cmdState EXCEPT ![j] = "queued"]
    /\ UNCHANGED <<cancelReq, outdated, frozen, planCode, journalVars,
                   published, subjectVars, code, workerVars, faults, changes>>

\* The operator, or the nightly pipeline, changes or decides a subject.
ChangeSubject(s) ==
    /\ changes < MaxChanges
    /\ changes' = changes + 1
    /\ revision' = [revision EXCEPT ![s] = @ + 1]
    /\ \/ UNCHANGED status
       \/ status' = [status EXCEPT ![s] = "decided"]
    /\ UNCHANGED <<jobVars, journalVars, published, code, workerVars, faults,
                   resumes>>

\* A deployment replaces code and prompts while workers run.
Upgrade ==
    /\ code < MaxUpgrades
    /\ code' = code + 1
    /\ UNCHANGED <<jobVars, journalVars, published, subjectVars, workerVars,
                   boundVars>>

Others ==
    \/ \E j \in Jobs : Submit(j) \/ CancelJob(j) \/ ResumeJob(j)
    \/ \E s \in Subjects : ChangeSubject(s)
    \/ Upgrade

-----------------------------------------------------------------------------
\* The worker: run_once under model-jobs.lock.

Goto(w, place) == pc' = [pc EXCEPT ![w] = place]

Leave(w) ==
    /\ lock' = NoWorker
    /\ Goto(w, "idle")
    /\ job' = [job EXCEPT ![w] = None]
    /\ pos' = [pos EXCEPT ![w] = First]
    /\ outcome' = [outcome EXCEPT ![w] = None]

\* (Faulty variant: the state it stands for is forgotten.)
StopUnnamed(w, state) ==
    /\ Goto(w, "stopping")
    /\ UNCHANGED <<lock, job, pos, outcome>>

\* An exception on its way out of the attempt, with the state it stands for.
Stop(w, state) ==
    /\ Goto(w, "stopping")
    /\ outcome' = [outcome EXCEPT ![w] = state]
    /\ UNCHANGED <<lock, job, pos>>

\* Faulty variant: a job that asked for cancellation is not picked up again.
OldestUncancelled(j) ==
    /\ cmdState[j] \in Claimable /\ ~cancelReq[j]
    /\ \A i \in Jobs : cmdState[i] \in Claimable /\ ~cancelReq[i] => j <= i

NextJob(j) ==
    /\ cmdState[j] \in Claimable
    /\ \A i \in Jobs : cmdState[i] \in Claimable => j <= i

\* A job that was cancelled while running ends; one planned for other code
\* blocks for good; any other starts, or starts again, from its first step.
ClaimCancelled(w) ==
    /\ lock = NoWorker
    /\ \E j \in Jobs :
        /\ NextJob(j) /\ cancelReq[j]
        /\ cmdState' = [cmdState EXCEPT ![j] = "cancelled"]
    /\ UNCHANGED <<cancelReq, outdated, frozen, planCode, journalVars,
                   published, subjectVars, code, workerVars, boundVars>>

ClaimOutdated(w) ==
    /\ lock = NoWorker
    /\ \E j \in Jobs :
        /\ NextJob(j) /\ ~cancelReq[j] /\ planCode[j] # code
        /\ cmdState' = [cmdState EXCEPT ![j] = "blocked"]
        /\ outdated' = [outdated EXCEPT ![j] = TRUE]
    /\ UNCHANGED <<cancelReq, frozen, planCode, journalVars, published,
                   subjectVars, code, workerVars, boundVars>>

Claim(w) ==
    /\ lock = NoWorker
    /\ \E j \in Jobs :
        /\ NextJob(j) /\ ~cancelReq[j] /\ planCode[j] = code
        /\ cmdState' = [cmdState EXCEPT ![j] = "running"]
        /\ job' = [job EXCEPT ![w] = j]
    /\ lock' = w
    /\ pos' = [pos EXCEPT ![w] = First]
    /\ Goto(w, "step")
    /\ UNCHANGED <<cancelReq, outdated, frozen, planCode, journalVars,
                   published, subjectVars, code, outcome, boundVars>>

-----------------------------------------------------------------------------
\* Journal.step and Journal.reserve.

Detections(j, s, states) ==
    Cardinality({i \in 1..Trials : states[j][<<s, i>>] = "detected"})

\* The arm without the rule showed the mistake often enough to go on.
MistakeShown(j, s, states) == Detections(j, s, states) >= MinFailures

\* The arm with the rule runs only when the other one showed the mistake.
ScenarioEnds(j, n, states) ==
    \/ n[2] = 2 * Trials
    \/ n[2] = Trials /\ ~MistakeShown(j, n[1], states)

To(w, place, n) ==
    /\ Goto(w, place)
    /\ pos' = [pos EXCEPT ![w] = n]
    /\ UNCHANGED <<lock, job, outcome>>

NextScenario(w, n) ==
    IF n[1] = Scenarios THEN To(w, "publish", n)
    ELSE To(w, "step", <<n[1] + 1, 0>>)

\* The gate gives up: it finishes without a verdict.
GiveUp(w) ==
    /\ Goto(w, "publish")
    /\ outcome' = [outcome EXCEPT ![w] = "failed"]
    /\ UNCHANGED <<lock, job, pos>>

\* After a completed step: a draft is ready, a scenario ends or goes on.  No
\* gate has a model to grade with, and run_trials refuses such a specification.
AfterSuccess(w, j, n, states) ==
    LET ungraded == states[j][n] = "ungraded"
        ends == ScenarioEnds(j, n, states)
    IN  CASE ~Gate(j) -> To(w, "publish", n)
          [] Gate(j) /\ ungraded -> GiveUp(w)
          [] Gate(j) /\ ~ungraded /\ ends -> To(w, "record", n)
          [] Gate(j) /\ ~ungraded /\ ~ends -> To(w, "step", <<n[1], n[2] + 1>>)

NoScenarioRan(j, n, states) ==
    n[1] = Scenarios /\ \A s \in 1..Scenarios : states[j][<<s, 0>>] = "failed"

\* A known failure, first met or replayed: it ends a draft; it costs a gate
\* one scenario when a specification failed, the verdict when a trial did or
\* no scenario is left.
AfterFailure(w, j, n, states) ==
    CASE ~Gate(j) -> Stop(w, "failed")
      [] Gate(j) /\ (~Generation(n) \/ NoScenarioRan(j, n, states)) -> GiveUp(w)
      [] Gate(j) /\ Generation(n) /\ ~NoScenarioRan(j, n, states) -> NextScenario(w, n)

\* inspect refuses: a cancellation was recorded.  A step that had started
\* stays so.
PauseCancelled(w) ==
    /\ pc[w] \in {"step", "call"}
    /\ cancelReq[job[w]]
    /\ Stop(w, "cancelled")
    /\ UNCHANGED <<jobVars, journalVars, published, subjectVars, code, boundVars>>

AtStep(w, states) ==
    /\ pc[w] = "step"
    /\ ~cancelReq[job[w]]
    /\ stepState[job[w]][pos[w]] \in states

ReplayStep(w) ==
    /\ AtStep(w, Done)
    /\ AfterSuccess(w, job[w], pos[w], stepState)
    /\ UNCHANGED <<jobVars, journalVars, published, subjectVars, code, boundVars>>

ReplayFailure(w) ==
    /\ AtStep(w, {"failed"})
    /\ AfterFailure(w, job[w], pos[w], stepState)
    /\ UNCHANGED <<jobVars, journalVars, published, subjectVars, code, boundVars>>

\* Faulty variant: an interrupted step is simply done again.
RepeatStep(w) ==
    /\ AtStep(w, {"started"})
    /\ Goto(w, "call")
    /\ UNCHANGED <<jobVars, journalVars, published, subjectVars, code,
                   lock, job, pos, outcome, boundVars>>

InterruptedStep(w) ==
    /\ AtStep(w, {"started"})
    /\ Stop(w, "blocked")
    /\ UNCHANGED <<jobVars, journalVars, published, subjectVars, code, boundVars>>

\* A recorded step whose inputs name the prompt cannot be replayed when the
\* prompt on disk is another one: an upgrade since the claim may have changed
\* it.  The recorded step ran with the code that was planned for.
PromptInInputs(j) == Kind[j] \in {"propose_recovery", "resolve_rollback"}

ChangedStep(w) ==
    /\ AtStep(w, StepStates \ {"none"})
    /\ PromptInInputs(job[w]) /\ code # planCode[job[w]]
    /\ Stop(w, "blocked")
    /\ UNCHANGED <<jobVars, journalVars, published, subjectVars, code, boundVars>>

SetStep(w, state) ==
    stepState' = [stepState EXCEPT ![job[w]][pos[w]] = state]

\* A draft checks its source once more before it spends its call; the
\* resolution of a rollback does not.
ChecksSource(j) == Kind[j] \in {"mine_incident", "propose_recovery"}

StartStep(w) ==
    /\ AtStep(w, {"none"})
    /\ SetStep(w, "started")
    /\ Goto(w, IF ChecksSource(job[w]) THEN "check" ELSE "call")
    /\ UNCHANGED <<jobVars, calls, evaluated, published, subjectVars, code,
                   lock, job, pos, outcome, boundVars>>

CheckSource(w) ==
    /\ pc[w] = "check"
    /\ Goto(w, IF SourceUnchanged(job[w]) THEN "call" ELSE "failing")
    /\ UNCHANGED <<jobVars, journalVars, published, subjectVars, code,
                   lock, job, pos, outcome, boundVars>>

\* The reservation commits before the provider is asked.  Its refusal of a
\* second call in one step is left out: a step is entered at most once, as
\* PaidOnce shows.
ReserveCall(w) ==
    /\ IF Used(job[w]) < Budget(job[w])
       THEN /\ calls' = [calls EXCEPT ![job[w]][pos[w]] = @ + 1]
            /\ Goto(w, "provider")
       ELSE /\ Goto(w, "failing")
            /\ UNCHANGED calls
    /\ UNCHANGED <<jobVars, stepState, evaluated, published, subjectVars, code,
                   lock, job, pos, outcome, boundVars>>

\* (Faulty variant: only the beginning of the step looks for a cancellation.)
ReserveUninspected(w) == pc[w] = "call" /\ ReserveCall(w)
Reserve(w) == pc[w] = "call" /\ ~cancelReq[job[w]] /\ ReserveCall(w)

\* The provider answers (or the call times out), and the answer is recorded:
\* usable or not for a generation; a trial always gives some outcome.
Answer(w) ==
    /\ pc[w] = "provider"
    /\ \/ Goto(w, "answered")
       \/ Generation(pos[w]) /\ Goto(w, "failing")
    /\ UNCHANGED <<jobVars, journalVars, published, subjectVars, code,
                   lock, job, pos, outcome, boundVars>>

\* A disk or a subprocess fails inside a step, before or after its call.
StepError(w) ==
    /\ pc[w] \in {"call", "answered"}
    /\ faults < MaxFaults
    /\ faults' = faults + 1
    /\ Goto(w, "failing")
    /\ UNCHANGED <<jobVars, journalVars, published, subjectVars, code,
                   lock, job, pos, outcome, resumes, changes>>

CompleteStep(w) ==
    /\ pc[w] = "answered"
    /\ \E result \in Results(job[w], pos[w]) :
        LET states == [stepState EXCEPT ![job[w]][pos[w]] = result]
        IN  /\ stepState' = states
            /\ AfterSuccess(w, job[w], pos[w], states)
    /\ UNCHANGED <<jobVars, calls, evaluated, published, subjectVars, code,
                   boundVars>>

FailStep(w) ==
    /\ pc[w] = "failing"
    /\ LET states == [stepState EXCEPT ![job[w]][pos[w]] = "failed"]
       IN  /\ stepState' = states
           /\ AfterFailure(w, job[w], pos[w], states)
    /\ UNCHANGED <<jobVars, calls, evaluated, published, subjectVars, code,
                   boundVars>>

\* The sandbox check before the first scenario fails.
GateRefused(w) ==
    /\ AtStep(w, StepStates)
    /\ Gate(job[w]) /\ pos[w] = First
    /\ faults < MaxFaults
    /\ faults' = faults + 1
    /\ GiveUp(w)
    /\ UNCHANGED <<jobVars, journalVars, published, subjectVars, code,
                   resumes, changes>>

\* Faulty variant: a replay records the scenario's evidence again.
RecordAgain(w) ==
    /\ pc[w] = "record"
    /\ evaluated' = [evaluated EXCEPT ![job[w]][pos[w][1]] = @ + 1]
    /\ NextScenario(w, pos[w])
    /\ UNCHANGED <<jobVars, stepState, calls, published, subjectVars, code,
                   boundVars>>

\* record_eval: the scenario's result is kept once, whoever replays it.
RecordScenario(w) ==
    /\ pc[w] = "record"
    /\ evaluated' = [evaluated EXCEPT ![job[w]][pos[w][1]] = 1]
    /\ NextScenario(w, pos[w])
    /\ UNCHANGED <<jobVars, stepState, calls, published, subjectVars, code,
                   boundVars>>

-----------------------------------------------------------------------------
\* The end of an attempt.

SetState(w, state) ==
    /\ cmdState' = [cmdState EXCEPT ![job[w]] = state]
    /\ outdated' = [outdated EXCEPT ![job[w]] = FALSE]
    /\ UNCHANGED <<cancelReq, frozen, planCode>>

\* What publishing a draft does to its subject: mining handles the incident,
\* a recovery may supersede the proposals it replaces, a resolution adds one.
Consumes(j) ==
    CASE Kind[j] = "mine_incident"    -> {TRUE}
      [] Kind[j] = "propose_recovery" -> BOOLEAN
      [] OTHER                        -> {FALSE}

SaveDraft(w) ==
    /\ published' = [published EXCEPT ![job[w]] = @ + 1]
    /\ \E consumed \in Consumes(job[w]) :
        /\ revision' = [revision EXCEPT ![SubjectOf[job[w]]] =
                            IF consumed THEN @ + 1 ELSE @]
        /\ status' = [status EXCEPT ![SubjectOf[job[w]]] =
                            IF consumed THEN "decided" ELSE @]

AtDraft(w) == pc[w] = "publish" /\ ~Gate(job[w])

\* Faulty variants: without the second inspection, without the second look
\* at the source, or saved before the job is marked completed.
PublishUninspected(w) ==
    /\ AtDraft(w)
    /\ SourceUnchanged(job[w])
    /\ SaveDraft(w)
    /\ SetState(w, "completed")
    /\ Leave(w)
    /\ UNCHANGED <<journalVars, code, boundVars>>
PublishUnchecked(w) ==
    /\ AtDraft(w) /\ ~cancelReq[job[w]]
    /\ SaveDraft(w)
    /\ SetState(w, "completed")
    /\ Leave(w)
    /\ UNCHANGED <<journalVars, code, boundVars>>
PublishApart(w) ==
    /\ AtDraft(w) /\ ~cancelReq[job[w]] /\ SourceUnchanged(job[w])
    /\ \/ SaveDraft(w) /\ SetState(w, "completed") /\ Leave(w)
       \/ SaveDraft(w) /\ SetState(w, "running") /\ Leave(w)
    /\ UNCHANGED <<journalVars, code, boundVars>>

\* One transaction: the draft and the completed state.
PublishDraft(w) ==
    /\ AtDraft(w) /\ ~cancelReq[job[w]] /\ SourceUnchanged(job[w])
    /\ SaveDraft(w)
    /\ SetState(w, "completed")
    /\ Leave(w)
    /\ UNCHANGED <<journalVars, code, boundVars>>

\* It is rolled back whole: cancelled, source changed, or a failed write.
PublishRefused(w) ==
    /\ AtDraft(w)
    /\ cancelReq[job[w]] \/ ~SourceUnchanged(job[w])
    /\ Stop(w, IF cancelReq[job[w]] THEN "cancelled" ELSE "failed")
    /\ UNCHANGED <<jobVars, journalVars, published, subjectVars, code, boundVars>>

PublishError(w) ==
    /\ pc[w] = "publish"
    /\ faults < MaxFaults
    /\ faults' = faults + 1
    /\ Stop(w, "failed")
    /\ UNCHANGED <<jobVars, journalVars, published, subjectVars, code,
                   resumes, changes>>

\* Faulty variant: the verdict goes to the proposal whatever happened to it.
VerdictCountsAlways(j) == TRUE

\* The verdict changes the proposal only if it is still the one evaluated.
VerdictCounts(j) == SourceUnchanged(j) /\ ~Decided(j)

\* Faulty variant: the verdict is saved before the job is marked completed.
FinishApart(w) ==
    /\ pc[w] = "publish" /\ Gate(job[w])
    /\ published' = [published EXCEPT ![job[w]] = @ + 1]
    /\ \/ SetState(w, "completed") \/ SetState(w, "running")
    /\ Leave(w)
    /\ UNCHANGED <<journalVars, subjectVars, code, boundVars>>

\* _run_evaluation's last transaction; it does not refuse a cancelled job
\* whose gate has finished.
FinishEvaluation(w) ==
    LET j == job[w]
        verdict == outcome[w] = None
    IN  /\ pc[w] = "publish" /\ Gate(j)
        /\ published' = [published EXCEPT ![j] = IF verdict THEN @ + 1 ELSE @]
        /\ IF verdict /\ VerdictCounts(j)
           THEN /\ status' = [status EXCEPT ![SubjectOf[j]] = "gated"]
                /\ revision' = [revision EXCEPT ![SubjectOf[j]] = @ + 1]
           ELSE UNCHANGED subjectVars
        /\ SetState(w, CASE verdict -> "completed"
                         [] ~verdict /\ cancelReq[j] -> "cancelled"
                         [] OTHER -> "failed")
        /\ Leave(w)
        /\ UNCHANGED <<journalVars, code, boundVars>>

RecordStop(w) ==
    /\ pc[w] = "stopping"
    /\ SetState(w, outcome[w])
    /\ Leave(w)
    /\ UNCHANGED <<journalVars, published, subjectVars, code, boundVars>>

\* The process dies; what is committed stays, an answer not recorded is lost.
Crash(w) ==
    /\ pc[w] # "idle"
    /\ faults < MaxFaults
    /\ faults' = faults + 1
    /\ Leave(w)
    /\ UNCHANGED <<jobVars, journalVars, published, subjectVars, code,
                   resumes, changes>>

Work(w) ==
    \/ ClaimCancelled(w) \/ ClaimOutdated(w) \/ Claim(w)
    \/ PauseCancelled(w) \/ ReplayStep(w) \/ ReplayFailure(w)
    \/ InterruptedStep(w) \/ ChangedStep(w) \/ StartStep(w)
    \/ CheckSource(w) \/ Reserve(w)
    \/ Answer(w) \/ CompleteStep(w) \/ FailStep(w) \/ RecordScenario(w)
    \/ PublishDraft(w) \/ PublishRefused(w) \/ FinishEvaluation(w)
    \/ RecordStop(w)

Faults(w) == StepError(w) \/ GateRefused(w) \/ PublishError(w) \/ Crash(w)

Init ==
    /\ cmdState = [j \in Jobs |-> "none"]
    /\ cancelReq = [j \in Jobs |-> FALSE]
    /\ outdated = [j \in Jobs |-> FALSE]
    /\ frozen = [j \in Jobs |-> 0]
    /\ planCode = [j \in Jobs |-> 0]
    /\ stepState = [j \in Jobs |-> [n \in Steps |-> "none"]]
    /\ calls = [j \in Jobs |-> [n \in Steps |-> 0]]
    /\ evaluated = [j \in Jobs |-> [s \in 1..Scenarios |-> 0]]
    /\ published = [j \in Jobs |-> 0]
    /\ revision = [s \in Subjects |-> 0]
    /\ status = [s \in Subjects |-> "pending"]
    /\ code = 0
    /\ lock = NoWorker
    /\ pc = [w \in Workers |-> "idle"]
    /\ job = [w \in Workers |-> None]
    /\ pos = [w \in Workers |-> First]
    /\ outcome = [w \in Workers |-> None]
    /\ faults = 0 /\ resumes = 0 /\ changes = 0

Next == Others \/ \E w \in Workers : Work(w) \/ Faults(w)

Spec == Init /\ [][Next]_vars

\* Some worker keeps polling (serve, restarted by launchd), and a provider
\* call ends, if only by its timeout.
FairSpec == Spec /\ WF_vars(\E w \in Workers : Work(w))

-----------------------------------------------------------------------------
\* Every variable has its type.
TypeOK ==
    /\ cmdState \in [Jobs -> JobStates]
    /\ cancelReq \in [Jobs -> BOOLEAN]
    /\ outdated \in [Jobs -> BOOLEAN]
    /\ frozen \in [Jobs -> Nat]
    /\ planCode \in [Jobs -> Nat]
    /\ stepState \in [Jobs -> [Steps -> StepStates]]
    /\ calls \in [Jobs -> [Steps -> Nat]]
    /\ evaluated \in [Jobs -> [1..Scenarios -> Nat]]
    /\ published \in [Jobs -> Nat]
    /\ revision \in [Subjects -> Nat]
    /\ status \in [Subjects -> {"pending", "gated", "decided"}]
    /\ code \in Nat
    /\ lock \in Workers \cup {NoWorker}
    /\ pc \in [Workers -> Places]
    /\ job \in [Workers -> Jobs \cup {None}]
    /\ pos \in [Workers -> Steps]
    /\ outcome \in [Workers -> Verdicts]
    /\ faults \in Nat /\ resumes \in Nat /\ changes \in Nat

\* No step pays for a second call, whatever crashes, replays and resumes
\* happen, so the frozen budget is never renewed (Journal.step, reserve).
PaidOnce == \A j \in Jobs, n \in Steps : calls[j][n] <= 1

\* A job is completed exactly when its result was saved, and it is saved
\* once: no crash between the result and the state, and no replay, loses or
\* doubles it (run_once's last transaction, _run_evaluation).
CompletedOnce ==
    \A j \in Jobs : published[j] = IF cmdState[j] = "completed" THEN 1 ELSE 0

\* Two mining jobs never both handle one revision of an incident, however
\* late the second one's source changed under it (_unchanged in persist).
IncidentHandledOnce ==
    \A i, j \in Jobs :
        /\ Kind[i] = "mine_incident" /\ Kind[j] = "mine_incident"
        /\ SubjectOf[i] = SubjectOf[j] /\ frozen[i] = frozen[j]
        /\ published[i] > 0 /\ published[j] > 0
        => i = j

\* The gate keeps one result per scenario, and keeps it before it saves a
\* verdict: a completed evaluation has evidence (record_eval).
EvidenceOncePerScenario ==
    \A j \in Jobs :
        /\ \A s \in 1..Scenarios : evaluated[j][s] <= 1
        /\ Gate(j) /\ published[j] > 0 => \E s \in 1..Scenarios : evaluated[j][s] = 1

\* Once a cancellation is recorded the job starts no further call, across
\* the worker's whole attempt and every later one (Journal.inspect).
CancelStopsSpending ==
    [][\A j \in Jobs : cancelReq[j] => calls'[j] = calls[j]]_vars

\* Nor does a cancelled draft reach the review queue, though its answer is
\* already paid for and recorded.
CancelledDraftIsNotSaved ==
    [][\A j \in Jobs : cancelReq[j] /\ ~Gate(j) => published'[j] = published[j]]_vars

\* A decision stands: no job that finishes late puts a decided subject back
\* under review (DECIDED_STATUSES in _run_evaluation).
DecisionStands ==
    [][\A s \in Subjects : status[s] = "decided" => status'[s] = "decided"]_vars

\* Every job the worker can claim comes to rest: done, cancelled, or stopped
\* for the operator to look at (run_once, serve).
JobsSettle ==
    \A j \in Jobs : cmdState[j] \in Claimable ~> cmdState[j] \in Stopped \cup Finished

-----------------------------------------------------------------------------
\* What makes PaidOnce and CompletedOnce inductive: a busy worker holds the
\* lock and has a running job; a step about to spend its call is on record
\* and has spent none; a call has a step.
WorkerPlaces ==
    \A w \in Workers :
        /\ pc[w] # "idle" <=> lock = w
        /\ pc[w] # "idle" => job[w] \in Jobs /\ cmdState[job[w]] = "running"
        /\ pc[w] \in {"check", "call"} => calls[job[w]][pos[w]] = 0
        /\ pc[w] \in {"check", "call", "provider", "answered", "failing"} =>
               stepState[job[w]][pos[w]] = "started"
        /\ pc[w] = "stopping" => outcome[w] # None

CallsHaveSteps ==
    \A j \in Jobs, n \in Steps :
        calls[j][n] > 0 => stepState[j][n] # "none"

IndInv == TypeOK /\ WorkerPlaces /\ CallsHaveSteps /\ PaidOnce /\ CompletedOnce
=============================================================================
