----------------------------- MODULE JobsProofs -----------------------------
(***************************************************************************)
(* Proofs about Jobs, for every set of jobs, subjects and workers, every   *)
(* number of scenarios and trials: the types, that a step pays for at most *)
(* one call, that a job is completed exactly when it saved its result      *)
(* once, and three promises about what a step may never do.  Then, from    *)
(* the revisions a plan freezes, that one incident is mined once; and,     *)
(* from what a worker in a gate has passed by, that a verdict has its      *)
(* evidence and each scenario keeps it once.                               *)
(***************************************************************************)
EXTENDS Jobs, TLAPS

-----------------------------------------------------------------------------
\* Lemmas about steps and places.

\* The parts of a step.
LEMMA StepParts ==
  ASSUME NEW n \in Steps
  PROVE  n[1] \in 1..Scenarios /\ n[2] \in 0..2 * Trials
  BY DEF Steps

\* A step from its parts.
LEMMA StepOf ==
  ASSUME NEW s \in 1..Scenarios, NEW k \in 0..2 * Trials
  PROVE  <<s, k>> \in Steps
  BY DEF Steps

\* Every attempt begins at a step.
LEMMA FirstType == First \in Steps
  BY JobsAssumption DEF First, Steps

\* A busy worker holds the lock alone, and has a running job that has saved
\* nothing.
LEMMA BusyJob ==
  ASSUME IndInv, NEW w \in Workers, pc[w] # "idle"
  PROVE  /\ lock = w
         /\ job[w] \in Jobs /\ cmdState[job[w]] = "running"
         /\ pos[w] \in Steps /\ SubjectOf[job[w]] \in Subjects
         /\ published[job[w]] = 0
         /\ \A v \in Workers : v # w => pc[v] = "idle"
  <1>1. /\ lock = w /\ job[w] \in Jobs /\ cmdState[job[w]] = "running"
        /\ \A v \in Workers : v # w => pc[v] = "idle"
    BY DEF IndInv, WorkerPlaces
  <1>2. pos[w] \in Steps /\ SubjectOf[job[w]] \in Subjects
    BY <1>1, JobsAssumption DEF IndInv, TypeOK
  <1>3. published[job[w]] = 0
    BY <1>1 DEF IndInv, CompletedOnce
  <1> QED
    BY <1>1, <1>2, <1>3

\* A busy worker goes to another place with its job and lock.
LEMMA PlaceStep ==
  ASSUME IndInv, NEW w \in Workers, pc[w] # "idle",
         NEW p \in Places \ {"idle"}, Goto(w, p),
         UNCHANGED <<lock, job, cmdState>>,
         p \in {"check", "call"} => calls'[job[w]][pos'[w]] = 0,
         p \in {"check", "call", "provider", "answered", "failing"} =>
             stepState'[job[w]][pos'[w]] = "started",
         p = "stopping" => outcome'[w] # None
  PROVE  WorkerPlaces' /\ pc' \in [Workers -> Places]
  <1>1. pc \in [Workers -> Places]
    BY DEF IndInv, TypeOK
  <1>2. pc'[w] = p /\ \A v \in Workers : v # w => pc'[v] = "idle"
    BY <1>1, BusyJob DEF Goto
  <1>3. pc' \in [Workers -> Places]
    BY <1>1 DEF Goto
  <1>4. lock' = w /\ job'[w] = job[w] /\ job[w] \in Jobs /\ cmdState'[job[w]] = "running"
    BY BusyJob
  <1> QED
    BY <1>2, <1>3, <1>4 DEF WorkerPlaces

\* A worker that leaves frees the lock, and every worker is idle.
LEMMA LeavingStep ==
  ASSUME IndInv, NEW w \in Workers, pc[w] # "idle", Leave(w)
  PROVE  /\ WorkerPlaces'
         /\ lock' \in Workers \cup {NoWorker} /\ pc' \in [Workers -> Places]
         /\ job' \in [Workers -> Jobs \cup {None}] /\ pos' \in [Workers -> Steps]
         /\ outcome' \in [Workers -> Verdicts]
  <1>1. TypeOK
    BY DEF IndInv
  <1>2. \A v \in Workers : pc'[v] = "idle"
    BY <1>1, BusyJob DEF Leave, Goto, TypeOK
  <1>3. WorkerPlaces'
    BY <1>2, JobsAssumption DEF WorkerPlaces, Leave
  <1>4. /\ lock' \in Workers \cup {NoWorker} /\ pc' \in [Workers -> Places]
        /\ job' \in [Workers -> Jobs \cup {None}]
        /\ outcome' \in [Workers -> Verdicts]
    BY <1>1 DEF Leave, Goto, TypeOK, Places, Verdicts
  <1>5. pos' \in [Workers -> Steps]
    BY <1>1, FirstType DEF Leave, TypeOK
  <1> QED
    BY <1>3, <1>4, <1>5

\* A turn of the attempt: on to another step, to its end or out of it.
Turn(w) ==
    /\ UNCHANGED <<lock, job>>
    /\ pos' \in [Workers -> Steps]
    /\ outcome' \in [Workers -> Verdicts]
    /\ \E p \in {"step", "record", "publish", "stopping"} :
        Goto(w, p) /\ (p = "stopping" => outcome'[w] # None)

\* An exception takes a worker out of the attempt with its verdict.
LEMMA StopTurn ==
  ASSUME TypeOK, NEW w \in Workers, NEW state \in Stopped \cup {"cancelled"},
         Stop(w, state)
  PROVE  Turn(w)
  <1>1. outcome' \in [Workers -> Verdicts] /\ outcome'[w] # None
    <2>1. state # None
      BY JobsAssumption DEF Stopped
    <2> QED
      BY <2>1 DEF Stop, TypeOK, Verdicts
  <1> QED
    BY <1>1 DEF Turn, Stop, TypeOK

\* A gate that gives up goes to its end.
LEMMA GiveUpTurn ==
  ASSUME TypeOK, NEW w \in Workers, GiveUp(w)
  PROVE  Turn(w)
  BY DEF Turn, GiveUp, TypeOK, Verdicts, Stopped

\* The scenario after a step's is a step, if there is one.
LEMMA NextScenarioTurn ==
  ASSUME TypeOK, NEW w \in Workers, NEW n \in Steps, NextScenario(w, n)
  PROVE  Turn(w)
  <1>1. n[1] \in 1..Scenarios /\ Scenarios \in Nat /\ Trials \in Nat
    BY StepParts, JobsAssumption
  <1>2. CASE n[1] = Scenarios
    <2>1. To(w, "publish", n)
      BY <1>2 DEF NextScenario
    <2> QED
      BY <2>1 DEF Turn, To, TypeOK
  <1>3. CASE n[1] # Scenarios
    <2>1. <<n[1] + 1, 0>> \in Steps
      BY <1>1, <1>3, StepOf
    <2>2. To(w, "step", <<n[1] + 1, 0>>)
      BY <1>3 DEF NextScenario
    <2> QED
      BY <2>1, <2>2 DEF Turn, To, TypeOK
  <1> QED
    BY <1>2, <1>3

\* What follows a completed step is a turn.
LEMMA SuccessTurn ==
  ASSUME TypeOK, NEW w \in Workers, NEW j \in Jobs, NEW n \in Steps, NEW states,
         AfterSuccess(w, j, n, states)
  PROVE  Turn(w)
  <1>1. CASE ~Gate(j)
    <2>1. To(w, "publish", n)
      BY <1>1 DEF AfterSuccess
    <2> QED
      BY <2>1 DEF Turn, To, TypeOK
  <1>2. CASE Gate(j) /\ states[j][n] # "ungraded" /\ ScenarioEnds(j, n, states)
    <2>1. To(w, "record", n)
      BY <1>2 DEF AfterSuccess
    <2> QED
      BY <2>1 DEF Turn, To, TypeOK
  <1>3. CASE Gate(j) /\ states[j][n] # "ungraded" /\ ~ScenarioEnds(j, n, states)
    <2>1. To(w, "step", <<n[1], n[2] + 1>>)
      BY <1>3 DEF AfterSuccess
    <2>2. n[2] # 2 * Trials
      BY <1>3 DEF ScenarioEnds
    <2>3. n[1] \in 1..Scenarios /\ n[2] + 1 \in 0..2 * Trials
      BY <2>2, StepParts, JobsAssumption
    <2>4. <<n[1], n[2] + 1>> \in Steps
      BY <2>3, StepOf
    <2> QED
      BY <2>1, <2>4 DEF Turn, To, TypeOK
  <1>4. CASE Gate(j) /\ states[j][n] = "ungraded"
    BY <1>4, GiveUpTurn DEF AfterSuccess
  <1> QED
    BY <1>1, <1>2, <1>3, <1>4

\* What follows a failed step is a turn.
LEMMA FailureTurn ==
  ASSUME TypeOK, NEW w \in Workers, NEW j \in Jobs, NEW n \in Steps, NEW states,
         AfterFailure(w, j, n, states)
  PROVE  Turn(w)
  <1>1. CASE ~Gate(j)
    BY <1>1, StopTurn DEF AfterFailure, Stopped
  <1>2. CASE Gate(j) /\ (~Generation(n) \/ NoScenarioRan(j, n, states))
    <2>1. GiveUp(w)
      BY <1>2 DEF AfterFailure
    <2> QED
      BY <2>1, GiveUpTurn
  <1>3. CASE Gate(j) /\ Generation(n) /\ ~NoScenarioRan(j, n, states)
    <2>1. NextScenario(w, n)
      BY <1>3 DEF AfterFailure
    <2> QED
      BY <2>1, NextScenarioTurn
  <1> QED
    BY <1>1, <1>2, <1>3

-----------------------------------------------------------------------------
\* One lemma per kind of step.

\* The initial state satisfies the invariant.
LEMMA InitIndInv == Init => IndInv
  <1> SUFFICES ASSUME Init PROVE IndInv
    OBVIOUS
  <1> USE JobsAssumption
  <1>1. TypeOK
    BY FirstType DEF Init, TypeOK, JobStates, StepStates, Places, Verdicts
  <1>2. WorkerPlaces
    BY DEF Init, WorkerPlaces
  <1>3. CallsHaveSteps /\ PaidOnce /\ CompletedOnce
    BY DEF Init, CallsHaveSteps, PaidOnce, CompletedOnce
  <1> QED
    BY <1>1, <1>2, <1>3 DEF IndInv

\* A step of nobody's attempt: it leaves the running jobs running and the
\* completed ones completed, and neither journal nor worker is touched.
LEMMA OutsideStep ==
  ASSUME IndInv, UNCHANGED <<journalVars, published, workerVars, boundVars>>,
         cmdState' \in [Jobs -> JobStates], cancelReq' \in [Jobs -> BOOLEAN],
         outdated' \in [Jobs -> BOOLEAN], frozen' \in [Jobs -> Nat],
         planCode' \in [Jobs -> Nat],
         UNCHANGED <<subjectVars, code>>,
         \A j \in Jobs : cmdState[j] = "running" /\ lock # NoWorker => cmdState'[j] = "running",
         \A j \in Jobs : cmdState'[j] = "completed" <=> cmdState[j] = "completed"
  PROVE  IndInv'
  <1>1. TypeOK /\ WorkerPlaces
    BY DEF IndInv
  <1>2. TypeOK'
    BY <1>1 DEF TypeOK, journalVars, workerVars, boundVars, subjectVars
  <1>3. WorkerPlaces'
    <2>1. /\ lock' = lock /\ pc' = pc /\ job' = job /\ pos' = pos /\ outcome' = outcome
          /\ calls' = calls /\ stepState' = stepState
      BY DEF journalVars, workerVars
    <2>2. ASSUME NEW v \in Workers, pc[v] # "idle"
          PROVE  cmdState'[job[v]] = "running"
      <3>1. job[v] \in Jobs /\ cmdState[job[v]] = "running" /\ lock # NoWorker
        BY <2>2, BusyJob, JobsAssumption
      <3> QED
        BY <3>1
    <2> QED
      BY <1>1, <2>1, <2>2 DEF WorkerPlaces
  <1>4. CallsHaveSteps' /\ PaidOnce' /\ CompletedOnce'
    BY DEF IndInv, CallsHaveSteps, PaidOnce, CompletedOnce, journalVars
  <1> QED
    BY <1>2, <1>3, <1>4 DEF IndInv

\* Requests of the operator, changes of a subject and upgrades.
LEMMA OthersStep ==
  ASSUME IndInv, Others
  PROVE  IndInv'
  <1>0. TypeOK /\ WorkerPlaces
    BY DEF IndInv
  <1>1. ASSUME NEW j \in Jobs, Submit(j)
        PROVE  IndInv'
    <2>1. revision[SubjectOf[j]] \in Nat /\ code \in Nat
      BY <1>0, JobsAssumption DEF TypeOK
    <2>2. /\ cmdState' \in [Jobs -> JobStates] /\ frozen' \in [Jobs -> Nat]
          /\ planCode' \in [Jobs -> Nat]
      BY <1>0, <1>1, <2>1 DEF Submit, TypeOK, JobStates, Claimable
    <2> QED
      BY <1>0, <1>1, <2>2, OutsideStep DEF Submit, TypeOK
  <1>2. ASSUME NEW j \in Jobs, CancelJob(j)
        PROVE  IndInv'
    <2>1. /\ cmdState' \in [Jobs -> JobStates] /\ cancelReq' \in [Jobs -> BOOLEAN]
          /\ outdated' \in [Jobs -> BOOLEAN]
      BY <1>0, <1>2 DEF CancelJob, TypeOK, JobStates, Finished
    <2>2. cmdState[j] # "completed"
      BY <1>2 DEF CancelJob, CanCancel, Claimable, Stopped
    <2> QED
      BY <1>0, <1>2, <2>1, <2>2, OutsideStep DEF CancelJob, TypeOK
  <1>3. ASSUME NEW j \in Jobs, ResumeJob(j)
        PROVE  IndInv'
    <2>1. cmdState[j] \notin {"running", "completed"}
      BY <1>3 DEF ResumeJob, CanRetry, Stopped
    <2>2. cmdState' \in [Jobs -> JobStates]
      BY <1>0, <1>3 DEF ResumeJob, TypeOK, JobStates, Claimable
    <2>3. TypeOK'
      BY <1>0, <1>3, <2>2 DEF ResumeJob, TypeOK, journalVars, workerVars, subjectVars
    <2>4. WorkerPlaces'
      BY <1>0, <1>3, <2>1 DEF ResumeJob, TypeOK, WorkerPlaces, journalVars, workerVars
    <2>5. CallsHaveSteps' /\ PaidOnce' /\ CompletedOnce'
      BY <1>0, <1>3, <2>1
      DEF ResumeJob, IndInv, TypeOK, CallsHaveSteps, PaidOnce, CompletedOnce, journalVars
    <2> QED
      BY <2>3, <2>4, <2>5 DEF IndInv
  <1>4. ASSUME NEW s \in Subjects, ChangeSubject(s)
        PROVE  IndInv'
    <2>1. TypeOK'
      BY <1>0, <1>4 DEF ChangeSubject, TypeOK, jobVars, journalVars, workerVars
    <2>2. WorkerPlaces'
      BY <1>0, <1>4 DEF ChangeSubject, WorkerPlaces, jobVars, journalVars, workerVars
    <2>3. CallsHaveSteps' /\ PaidOnce' /\ CompletedOnce'
      BY <1>4 DEF ChangeSubject, IndInv, CallsHaveSteps, PaidOnce, CompletedOnce,
                  jobVars, journalVars
    <2> QED
      BY <2>1, <2>2, <2>3 DEF IndInv
  <1>5. CASE Upgrade
    <2>1. TypeOK'
      BY <1>0, <1>5 DEF Upgrade, TypeOK, jobVars, journalVars, subjectVars, workerVars, boundVars
    <2>2. WorkerPlaces'
      BY <1>0, <1>5 DEF Upgrade, WorkerPlaces, jobVars, journalVars, workerVars
    <2>3. CallsHaveSteps' /\ PaidOnce' /\ CompletedOnce'
      BY <1>5 DEF Upgrade, IndInv, CallsHaveSteps, PaidOnce, CompletedOnce,
                  jobVars, journalVars
    <2> QED
      BY <2>1, <2>2, <2>3 DEF IndInv
  <1> QED
    BY <1>1, <1>2, <1>3, <1>4, <1>5 DEF Others

\* A worker claims the oldest job, or ends one that it may not run.
LEMMA ClaimStep ==
  ASSUME IndInv, NEW w \in Workers,
         ClaimCancelled(w) \/ ClaimOutdated(w) \/ Claim(w)
  PROVE  IndInv'
  <1>0. TypeOK /\ WorkerPlaces /\ lock = NoWorker
    BY DEF IndInv, ClaimCancelled, ClaimOutdated, Claim
  <1>1. CASE ClaimCancelled(w)
    <2>1. PICK j \in Jobs : NextJob(j) /\ cmdState' = [cmdState EXCEPT ![j] = "cancelled"]
      BY <1>1 DEF ClaimCancelled
    <2>2. cmdState[j] # "completed" /\ cmdState' \in [Jobs -> JobStates]
      BY <1>0, <2>1 DEF NextJob, Claimable, TypeOK, JobStates, Finished
    <2> QED
      BY <1>0, <1>1, <2>1, <2>2, OutsideStep DEF ClaimCancelled, TypeOK
  <1>2. CASE ClaimOutdated(w)
    <2>1. PICK j \in Jobs : /\ NextJob(j) /\ cmdState' = [cmdState EXCEPT ![j] = "blocked"]
                            /\ outdated' = [outdated EXCEPT ![j] = TRUE]
      BY <1>2 DEF ClaimOutdated
    <2>2. /\ cmdState[j] # "completed" /\ cmdState' \in [Jobs -> JobStates]
          /\ outdated' \in [Jobs -> BOOLEAN]
      BY <1>0, <2>1 DEF NextJob, Claimable, TypeOK, JobStates, Stopped
    <2> QED
      BY <1>0, <1>2, <2>1, <2>2, OutsideStep DEF ClaimOutdated, TypeOK
  <1>3. CASE Claim(w)
    <2>1. PICK j \in Jobs : /\ NextJob(j) /\ cmdState' = [cmdState EXCEPT ![j] = "running"]
                            /\ job' = [job EXCEPT ![w] = j]
      BY <1>3 DEF Claim
    <2>2. cmdState[j] # "completed" /\ cmdState' \in [Jobs -> JobStates]
          /\ cmdState'[j] = "running"
      BY <1>0, <2>1 DEF NextJob, Claimable, TypeOK, JobStates
    <2>3. \A v \in Workers : pc[v] = "idle"
      BY <1>0, JobsAssumption DEF WorkerPlaces
    <2>4. pc' \in [Workers -> Places] /\ pc'[w] = "step"
          /\ \A v \in Workers : v # w => pc'[v] = "idle"
      BY <1>0, <1>3, <2>3 DEF Claim, Goto, TypeOK, Places
    <2>5. pos' \in [Workers -> Steps] /\ job' \in [Workers -> Jobs \cup {None}]
          /\ job'[w] = j /\ lock' = w
      BY <1>0, <1>3, <2>1, FirstType DEF Claim, TypeOK
    <2>6. TypeOK'
      BY <1>0, <1>3, <2>2, <2>4, <2>5 DEF Claim, TypeOK, journalVars, subjectVars, boundVars
    <2>7. WorkerPlaces'
      BY <2>2, <2>4, <2>5 DEF WorkerPlaces
    <2>8. CallsHaveSteps' /\ PaidOnce' /\ CompletedOnce'
      BY <1>0, <1>3, <2>1, <2>2
      DEF Claim, IndInv, TypeOK, CallsHaveSteps, PaidOnce, CompletedOnce, journalVars
    <2> QED
      BY <2>6, <2>7, <2>8 DEF IndInv
  <1> QED
    BY <1>1, <1>2, <1>3

\* A turn that only moves the worker: replays, refusals, answers and errors.
LEMMA TurnStep ==
  ASSUME IndInv, NEW w \in Workers, pc[w] # "idle", Turn(w),
         UNCHANGED <<jobVars, journalVars, published, subjectVars, code>>,
         faults' \in Nat, UNCHANGED <<resumes, changes>>
  PROVE  IndInv'
  <1>0. TypeOK
    BY DEF IndInv
  <1>1. PICK p \in {"step", "record", "publish", "stopping"} :
            Goto(w, p) /\ (p = "stopping" => outcome'[w] # None)
    BY DEF Turn
  <1>2. /\ lock' = lock /\ job' = job /\ cmdState' = cmdState
        /\ p \in Places \ {"idle"} /\ p \notin {"check", "call", "provider", "answered", "failing"}
    BY DEF Turn, jobVars, Places
  <1>3. WorkerPlaces' /\ pc' \in [Workers -> Places]
    BY <1>1, <1>2, PlaceStep
  <1>4. TypeOK'
    BY <1>0, <1>3 DEF Turn, TypeOK, jobVars, journalVars, subjectVars
  <1>5. CallsHaveSteps' /\ PaidOnce' /\ CompletedOnce'
    BY DEF IndInv, CallsHaveSteps, PaidOnce, CompletedOnce, jobVars, journalVars
  <1> QED
    BY <1>3, <1>4, <1>5 DEF IndInv

\* Steps that leave the journal as it is.
LEMMA QuietStep ==
  ASSUME IndInv, NEW w \in Workers,
         \/ PauseCancelled(w) \/ ReplayStep(w) \/ ReplayFailure(w) \/ InterruptedStep(w)
         \/ ChangedStep(w)
         \/ GateRefused(w) \/ PublishRefused(w) \/ PublishError(w)
  PROVE  IndInv'
  <1>0. TypeOK
    BY DEF IndInv
  <1>1. pc[w] # "idle"
    BY DEF PauseCancelled, ReplayStep, ReplayFailure, InterruptedStep, ChangedStep, GateRefused,
           PublishRefused, PublishError, AtStep, AtDraft
  <1>2. job[w] \in Jobs /\ pos[w] \in Steps
    BY <1>1, BusyJob
  <1>3. Turn(w)
    BY <1>0, <1>2, StopTurn, GiveUpTurn, SuccessTurn, FailureTurn
    DEF PauseCancelled, ReplayStep, ReplayFailure, InterruptedStep, ChangedStep, GateRefused,
        PublishRefused, PublishError, Stopped
  <1>4. /\ UNCHANGED <<jobVars, journalVars, published, subjectVars, code, resumes, changes>>
        /\ faults' \in Nat
    BY <1>0 DEF PauseCancelled, ReplayStep, ReplayFailure, InterruptedStep, ChangedStep, GateRefused,
                PublishRefused, PublishError, boundVars, TypeOK
  <1> QED
    BY <1>1, <1>3, <1>4, TurnStep

\* Inside a step the worker goes on to check, call, wait, answer or fail.
LEMMA InsideStep ==
  ASSUME IndInv, NEW w \in Workers, CheckSource(w) \/ Answer(w) \/ StepError(w)
  PROVE  IndInv'
  <1>0. TypeOK /\ WorkerPlaces
    BY DEF IndInv
  <1>1. /\ pc[w] \in {"check", "call", "provider", "answered"} /\ pc[w] # "idle"
        /\ stepState[job[w]][pos[w]] = "started"
        /\ pc[w] = "check" => calls[job[w]][pos[w]] = 0
    BY <1>0 DEF CheckSource, Answer, StepError, WorkerPlaces
  <1>2. PICK p \in {"call", "answered", "failing"} :
            Goto(w, p) /\ (p = "call" => pc[w] = "check")
    BY DEF CheckSource, Answer, StepError
  <1>3. /\ UNCHANGED <<jobVars, journalVars, published, subjectVars, code, resumes,
                       changes, lock, job, pos, outcome>>
        /\ faults' \in Nat
    BY <1>0 DEF CheckSource, Answer, StepError, boundVars, TypeOK
  <1>4. WorkerPlaces' /\ pc' \in [Workers -> Places]
    <2>1. p \in Places \ {"idle"}
      BY DEF Places
    <2>2. /\ lock' = lock /\ job' = job /\ cmdState' = cmdState /\ pos' = pos
          /\ calls' = calls /\ stepState' = stepState
      BY <1>3 DEF jobVars, journalVars
    <2> QED
      BY <1>1, <1>2, <2>1, <2>2, PlaceStep
  <1>5. TypeOK'
    BY <1>0, <1>3, <1>4 DEF TypeOK, jobVars, journalVars, subjectVars
  <1>6. CallsHaveSteps' /\ PaidOnce' /\ CompletedOnce'
    BY <1>3 DEF IndInv, CallsHaveSteps, PaidOnce, CompletedOnce, jobVars, journalVars
  <1> QED
    BY <1>4, <1>5, <1>6 DEF IndInv

\* A step is put on record before it may spend its call.
LEMMA StartStepStep ==
  ASSUME IndInv, NEW w \in Workers, StartStep(w)
  PROVE  IndInv'
  <1> DEFINE j == job[w]
             n == pos[w]
  <1>0. TypeOK /\ pc[w] = "step" /\ stepState[j][n] = "none"
    BY DEF IndInv, StartStep, AtStep
  <1>1. j \in Jobs /\ n \in Steps
    BY <1>0, BusyJob
  <1>2. calls[j][n] = 0
    <2>1. calls[j][n] \in Nat
      BY <1>0, <1>1 DEF TypeOK
    <2> QED
      BY <1>0, <1>1, <2>1 DEF IndInv, CallsHaveSteps
  <1>3. PICK p \in {"check", "call"} : Goto(w, p)
    BY DEF StartStep
  <1>4. /\ stepState' = [stepState EXCEPT ![j][n] = "started"]
        /\ UNCHANGED <<jobVars, calls, evaluated, published, subjectVars, code,
                       lock, job, pos, outcome, boundVars>>
    BY DEF StartStep, SetStep
  <1>5. /\ stepState'[j][n] = "started"
        /\ stepState' \in [Jobs -> [Steps -> StepStates]]
        /\ \A i \in Jobs, m \in Steps : stepState'[i][m] = "none" => stepState[i][m] = "none"
    BY <1>0, <1>1, <1>4 DEF TypeOK, StepStates
  <1>6. WorkerPlaces' /\ pc' \in [Workers -> Places]
    <2>1. p \in Places \ {"idle"}
      BY DEF Places
    <2>2. /\ lock' = lock /\ job' = job /\ cmdState' = cmdState /\ pos' = pos
          /\ calls' = calls
      BY <1>4 DEF jobVars
    <2> QED
      BY <1>0, <1>2, <1>3, <1>5, <2>1, <2>2, PlaceStep
  <1>7. TypeOK'
    BY <1>0, <1>4, <1>5, <1>6 DEF TypeOK, jobVars, subjectVars, boundVars
  <1>8. CallsHaveSteps' /\ PaidOnce' /\ CompletedOnce'
    BY <1>4, <1>5 DEF IndInv, CallsHaveSteps, PaidOnce, CompletedOnce, jobVars
  <1> QED
    BY <1>6, <1>7, <1>8 DEF IndInv

\* The call is counted in a step that is on record and has made none.
LEMMA ReserveStep ==
  ASSUME IndInv, NEW w \in Workers, Reserve(w)
  PROVE  IndInv'
  <1> DEFINE j == job[w]
             n == pos[w]
  <1>0. TypeOK /\ pc[w] = "call" /\ ReserveCall(w)
    BY DEF IndInv, Reserve
  <1>1. j \in Jobs /\ n \in Steps
    BY <1>0, BusyJob
  <1>2. calls[j][n] = 0 /\ stepState[j][n] = "started"
    BY <1>0 DEF IndInv, WorkerPlaces
  <1>3. PICK p \in {"provider", "failing"} : Goto(w, p)
    BY <1>0 DEF ReserveCall
  <1>4. UNCHANGED <<jobVars, stepState, evaluated, published, subjectVars, code,
                    lock, job, pos, outcome, boundVars>>
    BY <1>0 DEF ReserveCall
  <1>5. calls' = calls \/ calls' = [calls EXCEPT ![j][n] = @ + 1]
    BY <1>0 DEF ReserveCall
  <1>6. /\ calls' \in [Jobs -> [Steps -> Nat]]
        /\ \A i \in Jobs, m \in Steps : calls'[i][m] = calls[i][m]
                                        \/ (i = j /\ m = n /\ calls'[i][m] = 1)
    <2>1. calls \in [Jobs -> [Steps -> Nat]]
      BY <1>0 DEF TypeOK
    <2>2. CASE calls' = calls
      BY <2>1, <2>2
    <2>3. CASE calls' = [calls EXCEPT ![j][n] = @ + 1]
      <3>1. calls' = [calls EXCEPT ![j] = [calls[j] EXCEPT ![n] = 1]]
        BY <1>1, <1>2, <2>1, <2>3
      <3> QED
        BY <1>1, <2>1, <3>1
    <2> QED
      BY <1>5, <2>2, <2>3
  <1>7. WorkerPlaces' /\ pc' \in [Workers -> Places]
    <2>1. p \in Places \ {"idle"} /\ p \notin {"check", "call", "stopping"}
      BY DEF Places
    <2>2. /\ lock' = lock /\ job' = job /\ cmdState' = cmdState /\ pos' = pos
          /\ stepState' = stepState
      BY <1>4 DEF jobVars
    <2> QED
      BY <1>0, <1>2, <1>3, <2>1, <2>2, PlaceStep
  <1>8. TypeOK'
    BY <1>0, <1>4, <1>6, <1>7 DEF TypeOK, jobVars, subjectVars, boundVars
  <1>9. CallsHaveSteps' /\ PaidOnce' /\ CompletedOnce'
    BY <1>2, <1>4, <1>6 DEF IndInv, CallsHaveSteps, PaidOnce, CompletedOnce, jobVars
  <1> QED
    BY <1>7, <1>8, <1>9 DEF IndInv

\* The end of a step, completed or failed.
LEMMA EndStepStep ==
  ASSUME IndInv, NEW w \in Workers, CompleteStep(w) \/ FailStep(w)
  PROVE  IndInv'
  <1> DEFINE j == job[w]
             n == pos[w]
  <1>0. TypeOK /\ pc[w] # "idle"
    BY DEF IndInv, CompleteStep, FailStep
  <1>1. j \in Jobs /\ n \in Steps
    BY <1>0, BusyJob
  <1>2. PICK result \in Done \cup {"failed"} :
            stepState' = [stepState EXCEPT ![j][n] = result]
    BY DEF CompleteStep, FailStep, Results, Done
  <1>3. Turn(w)
    BY <1>0, <1>1, SuccessTurn, FailureTurn DEF CompleteStep, FailStep
  <1>4. UNCHANGED <<jobVars, calls, evaluated, published, subjectVars, code, boundVars>>
    BY DEF CompleteStep, FailStep
  <1>5. /\ stepState' \in [Jobs -> [Steps -> StepStates]]
        /\ \A i \in Jobs, m \in Steps : stepState'[i][m] = "none" => stepState[i][m] = "none"
    BY <1>0, <1>1, <1>2 DEF TypeOK, StepStates, Done
  <1>6. PICK p \in {"step", "record", "publish", "stopping"} :
            Goto(w, p) /\ (p = "stopping" => outcome'[w] # None)
    BY <1>3 DEF Turn
  <1>7. WorkerPlaces' /\ pc' \in [Workers -> Places]
    <2>1. p \in Places \ {"idle"} /\ p \notin {"check", "call", "provider", "answered", "failing"}
      BY DEF Places
    <2>2. lock' = lock /\ job' = job /\ cmdState' = cmdState
      BY <1>3, <1>4 DEF Turn, jobVars
    <2> QED
      BY <1>0, <1>6, <2>1, <2>2, PlaceStep
  <1>8. TypeOK'
    BY <1>0, <1>3, <1>4, <1>5, <1>7 DEF Turn, TypeOK, jobVars, subjectVars, boundVars
  <1>9. CallsHaveSteps' /\ PaidOnce' /\ CompletedOnce'
    BY <1>4, <1>5 DEF IndInv, CallsHaveSteps, PaidOnce, CompletedOnce, jobVars
  <1> QED
    BY <1>7, <1>8, <1>9 DEF IndInv

\* A scenario's result is kept.
LEMMA RecordStep ==
  ASSUME IndInv, NEW w \in Workers, RecordScenario(w)
  PROVE  IndInv'
  <1>0. TypeOK /\ pc[w] # "idle"
    BY DEF IndInv, RecordScenario
  <1>1. job[w] \in Jobs /\ pos[w] \in Steps
    BY <1>0, BusyJob
  <1>2. Turn(w)
    BY <1>0, <1>1, NextScenarioTurn DEF RecordScenario
  <1>3. /\ UNCHANGED <<jobVars, stepState, calls, published, subjectVars, code, boundVars>>
        /\ evaluated' \in [Jobs -> [1..Scenarios -> Nat]]
    BY <1>0, <1>1, StepParts DEF RecordScenario, TypeOK
  <1>4. PICK p \in {"step", "record", "publish", "stopping"} :
            Goto(w, p) /\ (p = "stopping" => outcome'[w] # None)
    BY <1>2 DEF Turn
  <1>5. WorkerPlaces' /\ pc' \in [Workers -> Places]
    <2>1. p \in Places \ {"idle"} /\ p \notin {"check", "call", "provider", "answered", "failing"}
      BY DEF Places
    <2>2. lock' = lock /\ job' = job /\ cmdState' = cmdState
      BY <1>2, <1>3 DEF Turn, jobVars
    <2> QED
      BY <1>0, <1>4, <2>1, <2>2, PlaceStep
  <1>6. TypeOK'
    BY <1>0, <1>2, <1>3, <1>5 DEF Turn, TypeOK, jobVars, subjectVars, boundVars
  <1>7. CallsHaveSteps' /\ PaidOnce' /\ CompletedOnce'
    BY <1>3 DEF IndInv, CallsHaveSteps, PaidOnce, CompletedOnce, jobVars
  <1> QED
    BY <1>5, <1>6, <1>7 DEF IndInv

\* The end of an attempt with a state for the job: the result, if there is
\* one, is saved together with the completed state.
LEMMA EndingStep ==
  ASSUME IndInv, NEW w \in Workers, pc[w] # "idle", Leave(w),
         NEW state \in Claimable \cup Stopped \cup Finished, SetState(w, state),
         published' = [published EXCEPT ![job[w]] =
                           IF state = "completed" THEN @ + 1 ELSE @],
         revision' \in [Subjects -> Nat],
         status' \in [Subjects -> {"pending", "gated", "decided"}],
         UNCHANGED <<journalVars, code, boundVars>>
  PROVE  IndInv'
  <1>0. TypeOK /\ job[w] \in Jobs /\ published[job[w]] = 0
        /\ cmdState[job[w]] = "running"
    BY BusyJob DEF IndInv
  <1>1. /\ WorkerPlaces'
        /\ lock' \in Workers \cup {NoWorker} /\ pc' \in [Workers -> Places]
        /\ job' \in [Workers -> Jobs \cup {None}] /\ pos' \in [Workers -> Steps]
        /\ outcome' \in [Workers -> Verdicts]
    BY LeavingStep
  <1>2. /\ cmdState' = [cmdState EXCEPT ![job[w]] = state]
        /\ cmdState' \in [Jobs -> JobStates] /\ outdated' \in [Jobs -> BOOLEAN]
        /\ published' \in [Jobs -> Nat]
    BY <1>0 DEF SetState, TypeOK, JobStates
  <1>3. TypeOK'
    BY <1>0, <1>1, <1>2 DEF SetState, TypeOK, journalVars, boundVars
  <1>4. CompletedOnce'
    <2>1. ASSUME NEW i \in Jobs
          PROVE  published'[i] = IF cmdState'[i] = "completed" THEN 1 ELSE 0
      <3>1. CASE i = job[w]
        BY <1>0, <1>2, <3>1 DEF TypeOK
      <3>2. CASE i # job[w]
        BY <1>0, <1>2, <3>2 DEF TypeOK, IndInv, CompletedOnce
      <3> QED
        BY <3>1, <3>2
    <2> QED
      BY <2>1 DEF CompletedOnce
  <1>5. CallsHaveSteps' /\ PaidOnce'
    BY DEF IndInv, CallsHaveSteps, PaidOnce, journalVars
  <1> QED
    BY <1>1, <1>3, <1>4, <1>5 DEF IndInv

\* A draft, a verdict, or the state an exception stands for.
LEMMA FinishStep ==
  ASSUME IndInv, NEW w \in Workers,
         PublishDraft(w) \/ FinishEvaluation(w) \/ RecordStop(w)
  PROVE  IndInv'
  <1>0. TypeOK /\ pc[w] # "idle"
    BY DEF IndInv, PublishDraft, AtDraft, FinishEvaluation, RecordStop
  <1>1. job[w] \in Jobs /\ SubjectOf[job[w]] \in Subjects
    BY <1>0, BusyJob
  <1>2. CASE PublishDraft(w)
    <2>1. /\ revision' \in [Subjects -> Nat]
          /\ status' \in [Subjects -> {"pending", "gated", "decided"}]
      BY <1>0, <1>1, <1>2 DEF PublishDraft, SaveDraft, TypeOK
    <2> QED
      BY <1>0, <1>2, <2>1, EndingStep DEF PublishDraft, SaveDraft, Finished
  <1>3. CASE FinishEvaluation(w)
    <2>1. /\ revision' \in [Subjects -> Nat]
          /\ status' \in [Subjects -> {"pending", "gated", "decided"}]
      <3>1. \/ UNCHANGED subjectVars
            \/ /\ status' = [status EXCEPT ![SubjectOf[job[w]]] = "gated"]
               /\ revision' = [revision EXCEPT ![SubjectOf[job[w]]] = @ + 1]
        BY <1>3 DEF FinishEvaluation
      <3>2. /\ revision \in [Subjects -> Nat]
            /\ status \in [Subjects -> {"pending", "gated", "decided"}]
        BY <1>0 DEF TypeOK
      <3>3. CASE UNCHANGED subjectVars
        BY <3>2, <3>3 DEF subjectVars
      <3>4. CASE /\ status' = [status EXCEPT ![SubjectOf[job[w]]] = "gated"]
                 /\ revision' = [revision EXCEPT ![SubjectOf[job[w]]] = @ + 1]
        BY <1>1, <3>2, <3>4
      <3> QED
        BY <3>1, <3>3, <3>4
    <2> DEFINE state == IF outcome[w] = None THEN "completed"
                        ELSE IF cancelReq[job[w]] THEN "cancelled" ELSE "failed"
    <2>2. /\ SetState(w, state) /\ Leave(w)
          /\ UNCHANGED <<journalVars, code, boundVars>>
      BY <1>3 DEF FinishEvaluation
    <2>3. published' = [published EXCEPT ![job[w]] =
                            IF state = "completed" THEN @ + 1 ELSE @]
      BY <1>3 DEF FinishEvaluation
    <2>4. state \in Claimable \cup Stopped \cup Finished
      BY DEF Stopped, Finished
    <2> HIDE DEF state
    <2> QED
      BY <1>0, <2>1, <2>2, <2>3, <2>4, EndingStep
  <1>4. CASE RecordStop(w)
    <2>1. outcome[w] \in Stopped \cup {"cancelled"}
      BY <1>0, <1>4 DEF RecordStop, IndInv, WorkerPlaces, TypeOK, Verdicts
    <2>2. outcome[w] # "completed"
      BY <2>1 DEF Stopped
    <2>3. published' = [published EXCEPT ![job[w]] =
                            IF outcome[w] = "completed" THEN @ + 1 ELSE @]
      BY <1>0, <1>4, <2>2 DEF RecordStop, TypeOK
    <2>4. /\ revision' \in [Subjects -> Nat]
          /\ status' \in [Subjects -> {"pending", "gated", "decided"}]
      BY <1>0, <1>4 DEF RecordStop, subjectVars, TypeOK
    <2> QED
      BY <1>0, <1>4, <2>1, <2>3, <2>4, EndingStep DEF RecordStop, Finished
  <1> QED
    BY <1>2, <1>3, <1>4

\* A process that dies leaves the job running and the journal as it is.
LEMMA CrashStep ==
  ASSUME IndInv, NEW w \in Workers, Crash(w)
  PROVE  IndInv'
  <1>0. TypeOK /\ pc[w] # "idle"
    BY DEF IndInv, Crash
  <1>1. /\ WorkerPlaces'
        /\ lock' \in Workers \cup {NoWorker} /\ pc' \in [Workers -> Places]
        /\ job' \in [Workers -> Jobs \cup {None}] /\ pos' \in [Workers -> Steps]
        /\ outcome' \in [Workers -> Verdicts]
    BY <1>0, LeavingStep DEF Crash
  <1>2. TypeOK'
    BY <1>0, <1>1 DEF Crash, TypeOK, jobVars, journalVars, subjectVars
  <1>3. CallsHaveSteps' /\ PaidOnce' /\ CompletedOnce'
    BY DEF Crash, IndInv, CallsHaveSteps, PaidOnce, CompletedOnce, jobVars, journalVars
  <1> QED
    BY <1>1, <1>2, <1>3 DEF IndInv

-----------------------------------------------------------------------------
\* Every step keeps the inductive invariant.
LEMMA NextIndInv == IndInv /\ [Next]_vars => IndInv'
  <1> SUFFICES ASSUME IndInv, [Next]_vars PROVE IndInv'
    OBVIOUS
  <1>1. CASE Others
    BY <1>1, OthersStep
  <1>2. ASSUME NEW w \in Workers, Work(w)
        PROVE  IndInv'
    BY <1>2, ClaimStep, QuietStep, InsideStep, StartStepStep, ReserveStep, EndStepStep,
       RecordStep, FinishStep DEF Work
  <1>3. ASSUME NEW w \in Workers, Faults(w)
        PROVE  IndInv'
    BY <1>3, InsideStep, QuietStep, CrashStep DEF Faults
  <1>4. CASE UNCHANGED vars
    <2>1. TypeOK'
      BY <1>4 DEF IndInv, TypeOK, vars, jobVars, journalVars, subjectVars, workerVars, boundVars
    <2>2. WorkerPlaces'
      BY <1>4 DEF IndInv, WorkerPlaces, vars, jobVars, journalVars, workerVars
    <2>3. CallsHaveSteps' /\ PaidOnce' /\ CompletedOnce'
      BY <1>4 DEF IndInv, CallsHaveSteps, PaidOnce, CompletedOnce, vars, jobVars, journalVars
    <2> QED
      BY <2>1, <2>2, <2>3 DEF IndInv
  <1> QED
    BY <1>1, <1>2, <1>3, <1>4 DEF Next

\* Every behaviour keeps the inductive invariant: types, places, and the
\* journal in step with the calls it counted.
THEOREM IndInvHolds == Spec => []IndInv
  BY InitIndInv, NextIndInv, PTL DEF Spec

\* Every behaviour keeps the types of the tables and of the worker.
THEOREM TypesHold == Spec => []TypeOK
  <1>1. IndInv => TypeOK
    BY DEF IndInv
  <1> QED
    BY <1>1, IndInvHolds, PTL

\* No step of any job pays for a second call, however often the worker dies,
\* the job is resumed and the journal is replayed (Journal.step, reserve).
THEOREM StepsPayOnce == Spec => []PaidOnce
  <1>1. IndInv => PaidOnce
    BY DEF IndInv
  <1> QED
    BY <1>1, IndInvHolds, PTL

\* A job is completed exactly when its result was saved, once (run_once,
\* _run_evaluation).
THEOREM ResultsSavedOnce == Spec => []CompletedOnce
  <1>1. IndInv => CompletedOnce
    BY DEF IndInv
  <1> QED
    BY <1>1, IndInvHolds, PTL

-----------------------------------------------------------------------------
\* What a step may never do.

\* Only a reservation counts a call, and only for a job without a recorded
\* cancellation (Journal.inspect in reserve).
LEMMA CallsStep ==
  ASSUME TypeOK, [Next]_vars, NEW j \in Jobs, cancelReq[j]
  PROVE  calls'[j] = calls[j]
  <1>1. CASE Others
    BY <1>1 DEF Others, Submit, CancelJob, ResumeJob, ChangeSubject, Upgrade, journalVars
  <1>2. ASSUME NEW w \in Workers, Reserve(w)
        PROVE  calls'[j] = calls[j]
    <2>1. j # job[w]
      BY <1>2 DEF Reserve
    <2>2. calls' = calls \/ calls' = [calls EXCEPT ![job[w]][pos[w]] = @ + 1]
      BY <1>2 DEF Reserve, ReserveCall
    <2>3. calls \in [Jobs -> [Steps -> Nat]]
      BY DEF TypeOK
    <2> QED
      BY <2>1, <2>2, <2>3
  <1>3. ASSUME NEW w \in Workers, Work(w), ~Reserve(w)
        PROVE  calls' = calls
    BY <1>3 DEF Work, ClaimCancelled, ClaimOutdated, Claim, PauseCancelled, ReplayStep,
                ReplayFailure, InterruptedStep, ChangedStep, StartStep, CheckSource, Answer, CompleteStep,
                FailStep, RecordScenario, PublishDraft, PublishRefused, FinishEvaluation,
                RecordStop, journalVars
  <1>4. ASSUME NEW w \in Workers, Faults(w)
        PROVE  calls' = calls
    BY <1>4 DEF Faults, StepError, GateRefused, PublishError, Crash, journalVars
  <1>5. CASE UNCHANGED vars
    BY <1>5 DEF vars, journalVars
  <1> QED
    BY <1>1, <1>2, <1>3, <1>4, <1>5 DEF Next

\* A job with a recorded cancellation starts no further call, in this attempt
\* or in any later one (Journal.inspect).
THEOREM CancellationStopsSpending == Spec => CancelStopsSpending
  <1>1. TypeOK /\ [Next]_vars =>
            [\A j \in Jobs : cancelReq[j] => calls'[j] = calls[j]]_vars
    BY CallsStep
  <1> QED
    BY <1>1, TypesHold, PTL DEF Spec, CancelStopsSpending

\* Whoever changes what is decided about a subject, a decided one stays so.
LEMMA DecisionsStep ==
  ASSUME IndInv, [Next]_vars, NEW s \in Subjects, status[s] = "decided"
  PROVE  status'[s] = "decided"
  <1>0. status \in [Subjects -> {"pending", "gated", "decided"}]
    BY DEF IndInv, TypeOK
  <1>1. CASE Others
    BY <1>0, <1>1 DEF Others, Submit, CancelJob, ResumeJob, ChangeSubject, Upgrade, subjectVars
  <1>2. ASSUME NEW w \in Workers, PublishDraft(w)
        PROVE  status'[s] = "decided"
    BY <1>0, <1>2 DEF PublishDraft, SaveDraft
  <1>3. ASSUME NEW w \in Workers, FinishEvaluation(w)
        PROVE  status'[s] = "decided"
    <2>1. \/ status' = status
          \/ /\ status[SubjectOf[job[w]]] # "decided"
             /\ status' = [status EXCEPT ![SubjectOf[job[w]]] = "gated"]
      BY <1>3 DEF FinishEvaluation, VerdictCounts, Decided, subjectVars
    <2> QED
      BY <1>0, <2>1
  <1>4. ASSUME NEW w \in Workers, Work(w), ~PublishDraft(w), ~FinishEvaluation(w)
        PROVE  status' = status
    BY <1>4 DEF Work, ClaimCancelled, ClaimOutdated, Claim, PauseCancelled, ReplayStep,
                ReplayFailure, InterruptedStep, ChangedStep, StartStep, CheckSource, Reserve, ReserveCall,
                Answer, CompleteStep, FailStep, RecordScenario, PublishRefused, RecordStop,
                subjectVars
  <1>5. ASSUME NEW w \in Workers, Faults(w)
        PROVE  status' = status
    BY <1>5 DEF Faults, StepError, GateRefused, PublishError, Crash, subjectVars
  <1>6. CASE UNCHANGED vars
    BY <1>6 DEF vars, subjectVars
  <1> QED
    BY <1>1, <1>2, <1>3, <1>4, <1>5, <1>6 DEF Next

\* A job that finishes late never puts a decided subject back under review
\* (DECIDED_STATUSES in _run_evaluation).
THEOREM DecisionsStand == Spec => DecisionStands
  <1>1. IndInv /\ [Next]_vars =>
            [\A s \in Subjects : status[s] = "decided" => status'[s] = "decided"]_vars
    BY DecisionsStep
  <1> QED
    BY <1>1, IndInvHolds, PTL DEF Spec, DecisionStands

\* Only the end of an attempt saves a result, and for a draft only without a
\* recorded cancellation.
LEMMA DraftsStep ==
  ASSUME IndInv, [Next]_vars, NEW j \in Jobs, cancelReq[j], ~Gate(j)
  PROVE  published'[j] = published[j]
  <1>0. published \in [Jobs -> Nat]
    BY DEF IndInv, TypeOK
  <1>1. CASE Others
    BY <1>1 DEF Others, Submit, CancelJob, ResumeJob, ChangeSubject, Upgrade
  <1>2. ASSUME NEW w \in Workers, PublishDraft(w)
        PROVE  published'[j] = published[j]
    BY <1>0, <1>2 DEF PublishDraft, SaveDraft
  <1>3. ASSUME NEW w \in Workers, FinishEvaluation(w)
        PROVE  published'[j] = published[j]
    BY <1>0, <1>3 DEF FinishEvaluation
  <1>4. ASSUME NEW w \in Workers, Work(w), ~PublishDraft(w), ~FinishEvaluation(w)
        PROVE  published' = published
    BY <1>4 DEF Work, ClaimCancelled, ClaimOutdated, Claim, PauseCancelled, ReplayStep,
                ReplayFailure, InterruptedStep, ChangedStep, StartStep, CheckSource, Reserve, ReserveCall,
                Answer, CompleteStep, FailStep, RecordScenario, PublishRefused, RecordStop
  <1>5. ASSUME NEW w \in Workers, Faults(w)
        PROVE  published' = published
    BY <1>5 DEF Faults, StepError, GateRefused, PublishError, Crash
  <1>6. CASE UNCHANGED vars
    BY <1>6 DEF vars
  <1> QED
    BY <1>1, <1>2, <1>3, <1>4, <1>5, <1>6 DEF Next

\* A cancelled draft never reaches the review queue, though its answer may be
\* paid for and recorded (run_once's last transaction).
THEOREM CancelledDraftsUnsaved == Spec => CancelledDraftIsNotSaved
  <1>1. IndInv /\ [Next]_vars =>
            [\A j \in Jobs : cancelReq[j] /\ ~Gate(j) => published'[j] = published[j]]_vars
    BY DraftsStep
  <1> QED
    BY <1>1, IndInvHolds, PTL DEF Spec, CancelledDraftIsNotSaved


-----------------------------------------------------------------------------
\* One incident, one mining.

\* A plan froze a revision its subject has had, and a mining that saved its
\* draft has moved the incident past it.
Revisions ==
    \A j \in Jobs :
        /\ frozen[j] <= revision[SubjectOf[j]]
        /\ Kind[j] = "mine_incident" /\ published[j] > 0 => frozen[j] < revision[SubjectOf[j]]

\* What can become of the revisions, the plans and the results.
LEMMA RevisionSteps ==
  ASSUME [Next]_vars
  PROVE  \/ \E j \in Jobs : Submit(j)
         \/ \E s \in Subjects : ChangeSubject(s)
         \/ \E w \in Workers : PublishDraft(w) \/ FinishEvaluation(w)
         \/ UNCHANGED <<frozen, published, revision>>
  <1>1. CASE Others
    BY <1>1 DEF Others, CancelJob, ResumeJob, Upgrade, subjectVars, jobVars
  <1>2. ASSUME NEW w \in Workers, Work(w), ~PublishDraft(w), ~FinishEvaluation(w)
        PROVE  UNCHANGED <<frozen, published, revision>>
    BY <1>2 DEF Work, ClaimCancelled, ClaimOutdated, Claim, PauseCancelled, ReplayStep,
                ReplayFailure, InterruptedStep, ChangedStep, StartStep, CheckSource, Reserve, ReserveCall,
                Answer, CompleteStep, FailStep, RecordScenario, PublishRefused, RecordStop,
                SetState, subjectVars, jobVars
  <1>3. ASSUME NEW w \in Workers, Faults(w)
        PROVE  UNCHANGED <<frozen, published, revision>>
    BY <1>3 DEF Faults, StepError, GateRefused, PublishError, Crash, subjectVars, jobVars
  <1>4. CASE UNCHANGED vars
    BY <1>4 DEF vars, subjectVars, jobVars
  <1> QED
    BY <1>1, <1>2, <1>3, <1>4 DEF Next

\* No revision goes back, and a plan is written before anything is saved.
LEMMA RevisionsGrow ==
  ASSUME IndInv, [Next]_vars
  PROVE  /\ \A s \in Subjects : revision'[s] >= revision[s]
         /\ \A j \in Jobs : published[j] > 0 => frozen'[j] = frozen[j]
         /\ \A j \in Jobs : frozen'[j] = frozen[j] \/ frozen'[j] = revision[SubjectOf[j]]
  <1>0. /\ revision \in [Subjects -> Nat] /\ frozen \in [Jobs -> Nat]
        /\ published \in [Jobs -> Nat]
    BY DEF IndInv, TypeOK
  <1>1. ASSUME NEW j \in Jobs, Submit(j)
        PROVE  /\ UNCHANGED revision /\ published[j] = 0
               /\ frozen' = [frozen EXCEPT ![j] = revision[SubjectOf[j]]]
    BY <1>1 DEF Submit, subjectVars, IndInv, CompletedOnce
  <1>2. ASSUME NEW s \in Subjects, ChangeSubject(s)
        PROVE  revision' = [revision EXCEPT ![s] = @ + 1] /\ UNCHANGED frozen
    BY <1>2 DEF ChangeSubject, jobVars
  <1>3. ASSUME NEW w \in Workers, PublishDraft(w) \/ FinishEvaluation(w)
        PROVE  /\ UNCHANGED frozen
               /\ \A s \in Subjects : revision'[s] >= revision[s]
    <2>1. UNCHANGED frozen
      BY <1>3 DEF PublishDraft, FinishEvaluation, SetState
    <2>2. \/ UNCHANGED revision
          \/ \E s \in Subjects : revision' = [revision EXCEPT ![s] = @ + 1]
          \/ \E s \in Subjects : revision' = [revision EXCEPT ![s] = @]
      <3>1. pc[w] # "idle"
        BY <1>3 DEF PublishDraft, AtDraft, FinishEvaluation
      <3>2. SubjectOf[job[w]] \in Subjects
        BY <3>1, BusyJob
      <3>3. CASE PublishDraft(w)
        BY <3>2, <3>3 DEF PublishDraft, SaveDraft
      <3>4. CASE FinishEvaluation(w)
        BY <3>2, <3>4 DEF FinishEvaluation, subjectVars
      <3> QED
        BY <1>3, <3>3, <3>4
    <2> QED
      BY <1>0, <2>1, <2>2
  <1>4. CASE \E j \in Jobs : Submit(j)
    BY <1>0, <1>1, <1>4
  <1>5. CASE \E s \in Subjects : ChangeSubject(s)
    BY <1>0, <1>2, <1>5
  <1>6. CASE \E w \in Workers : PublishDraft(w) \/ FinishEvaluation(w)
    BY <1>0, <1>3, <1>6
  <1>7. CASE UNCHANGED <<frozen, published, revision>>
    BY <1>0, <1>7
  <1> QED
    BY <1>4, <1>5, <1>6, <1>7, RevisionSteps

\* Who saves a result, and that a mining does so only for the revision its plan
\* froze, which is over with that.
LEMMA MiningSaves ==
  ASSUME IndInv, [Next]_vars, NEW j \in Jobs, Kind[j] = "mine_incident",
         published'[j] > 0, published[j] = 0
  PROVE  /\ frozen'[j] = revision[SubjectOf[j]]
         /\ revision'[SubjectOf[j]] = revision[SubjectOf[j]] + 1
         /\ \A i \in Jobs : i # j => published'[i] = published[i]
         /\ UNCHANGED frozen
  <1>0. /\ revision \in [Subjects -> Nat] /\ published \in [Jobs -> Nat]
    BY DEF IndInv, TypeOK
  <1>1. PICK w \in Workers : PublishDraft(w) \/ FinishEvaluation(w)
    BY RevisionSteps DEF Submit, ChangeSubject
  <1>2. pc[w] # "idle"
    BY <1>1 DEF PublishDraft, AtDraft, FinishEvaluation
  <1>3. job[w] = j
    <2>1. \E n \in Nat : published' = [published EXCEPT ![job[w]] = n]
      <3>1. published[job[w]] = 0
        BY <1>2, BusyJob
      <3> QED
        BY <1>1, <3>1 DEF PublishDraft, SaveDraft, FinishEvaluation
    <2> QED
      BY <1>0, <2>1
  <1>4. PublishDraft(w)
    BY <1>1, <1>3 DEF FinishEvaluation, Gate
  <1>5. SubjectOf[j] \in Subjects
    BY JobsAssumption
  <1>6. Consumes(j) = {TRUE}
    BY DEF Consumes
  <1>7. revision' = [revision EXCEPT ![SubjectOf[j]] = @ + 1]
    BY <1>3, <1>4, <1>6 DEF PublishDraft, SaveDraft
  <1>8. frozen[j] = revision[SubjectOf[j]] /\ UNCHANGED frozen
    BY <1>3, <1>4 DEF PublishDraft, SourceUnchanged, SetState
  <1>9. published' = [published EXCEPT ![j] = @ + 1]
    BY <1>3, <1>4 DEF PublishDraft, SaveDraft
  <1> QED
    BY <1>0, <1>5, <1>7, <1>8, <1>9

LEMMA NextHandledOnce ==
  IndInv /\ Revisions /\ IncidentHandledOnce /\ [Next]_vars
      => Revisions' /\ IncidentHandledOnce'
  <1> SUFFICES ASSUME IndInv, Revisions, IncidentHandledOnce, [Next]_vars
               PROVE  Revisions' /\ IncidentHandledOnce'
    OBVIOUS
  <1>0. /\ revision \in [Subjects -> Nat] /\ published \in [Jobs -> Nat]
        /\ frozen \in [Jobs -> Nat]
        /\ \A j \in Jobs : SubjectOf[j] \in Subjects
    BY JobsAssumption DEF IndInv, TypeOK
  <1>1. revision' \in [Subjects -> Nat] /\ frozen' \in [Jobs -> Nat]
        /\ published' \in [Jobs -> Nat]
    BY NextIndInv DEF IndInv, TypeOK
  <1>2. ASSUME NEW j \in Jobs
        PROVE  frozen'[j] <= revision'[SubjectOf[j]]
    BY <1>0, <1>1, RevisionsGrow DEF Revisions
  <1>3. ASSUME NEW j \in Jobs, Kind[j] = "mine_incident", published'[j] > 0
        PROVE  frozen'[j] < revision'[SubjectOf[j]]
    <2>1. CASE published[j] = 0
      BY <1>0, <1>1, <1>3, <2>1, MiningSaves
    <2>2. CASE published[j] # 0
      BY <1>0, <1>1, <1>3, <2>2, RevisionsGrow DEF Revisions
    <2> QED
      BY <2>1, <2>2
  <1>4. ASSUME NEW i \in Jobs, NEW j \in Jobs,
               Kind[i] = "mine_incident", Kind[j] = "mine_incident",
               SubjectOf[i] = SubjectOf[j], frozen'[i] = frozen'[j],
               published'[i] > 0, published'[j] > 0, published[i] = 0
        PROVE  i = j
    <2>1. SUFFICES ASSUME i # j PROVE FALSE
      OBVIOUS
    <2>2. published[j] > 0 /\ frozen'[i] = revision[SubjectOf[i]]
      BY <1>0, <1>4, <2>1, MiningSaves
    <2>3. frozen[j] < revision[SubjectOf[j]] /\ frozen'[j] = frozen[j]
      BY <1>4, <2>2, RevisionsGrow DEF Revisions
    <2>4. revision[SubjectOf[j]] \in Nat /\ frozen[j] = revision[SubjectOf[j]]
      <3>1. frozen[j] = frozen'[i] /\ revision[SubjectOf[i]] = revision[SubjectOf[j]]
        BY <1>4, <2>3
      <3> QED
        BY <1>0, <2>2, <3>1
    <2> QED
      BY <2>3, <2>4
  <1>5. ASSUME NEW i \in Jobs, NEW j \in Jobs,
               Kind[i] = "mine_incident", Kind[j] = "mine_incident",
               SubjectOf[i] = SubjectOf[j], frozen'[i] = frozen'[j],
               published'[i] > 0, published'[j] > 0
        PROVE  i = j
    <2>1. CASE published[i] = 0
      BY <1>4, <1>5, <2>1
    <2>2. CASE published[j] = 0
      BY <1>4, <1>5, <2>2
    <2>3. CASE published[i] # 0 /\ published[j] # 0
      <3>1. /\ published[i] > 0 /\ published[j] > 0
            /\ frozen[i] = frozen[j]
        BY <1>0, <1>5, <2>3, RevisionsGrow
      <3> QED
        BY <1>5, <3>1 DEF IncidentHandledOnce
    <2> QED
      BY <2>1, <2>2, <2>3
  <1> QED
    BY <1>2, <1>3, <1>5 DEF Revisions, IncidentHandledOnce

\* Two mining jobs never both handle one revision of an incident, though both
\* were planned for it and both may have paid for their answers (_unchanged in
\* incident_jobs.persist).
THEOREM IncidentsHandledOnce == Spec => []IncidentHandledOnce
  <1>1. Init => Revisions /\ IncidentHandledOnce
    BY JobsAssumption DEF Init, Revisions, IncidentHandledOnce
  <1> QED
    BY <1>1, NextHandledOnce, IndInvHolds, PTL DEF Spec


-----------------------------------------------------------------------------
\* The evidence of the gate.

HasEvidence(j) == \E s \in 1..Scenarios : evaluated[j][s] = 1

\* A scenario the gate has passed by: its specification failed, or its result
\* is kept.
Settled(j, s) == stepState[j][<<s, 0>>] = "failed" \/ evaluated[j][s] = 1

\* A worker in a gate has settled every scenario before the one it is at, and
\* goes to the end with a verdict only if some result is kept.
GateWorker(w) ==
    \A j \in Jobs : pc[w] # "idle" /\ job[w] = j /\ Gate(j) =>
        /\ \A s \in 1..Scenarios : s < pos[w][1] => Settled(j, s)
        /\ pc[w] = "publish" /\ outcome[w] = None => HasEvidence(j)

GateInv == EvidenceOncePerScenario /\ \A w \in Workers : GateWorker(w)

\* The journal forgets neither a failure nor a result, and keeps no second one.
LEMMA JournalKept ==
  ASSUME IndInv, [Next]_vars, NEW j \in Jobs
  PROVE  /\ \A n \in Steps : stepState[j][n] = "failed" => stepState'[j][n] = "failed"
         /\ \A s \in 1..Scenarios : evaluated'[j][s] = evaluated[j][s] \/ evaluated'[j][s] = 1
  <1>0. /\ stepState \in [Jobs -> [Steps -> StepStates]]
        /\ evaluated \in [Jobs -> [1..Scenarios -> Nat]]
    BY DEF IndInv, TypeOK
  <1>1. ASSUME NEW w \in Workers, StartStep(w) \/ CompleteStep(w) \/ FailStep(w)
        PROVE  /\ \A n \in Steps : stepState[j][n] = "failed" => stepState'[j][n] = "failed"
               /\ UNCHANGED evaluated
    <2>1. pc[w] # "idle" /\ UNCHANGED evaluated
      BY <1>1 DEF StartStep, AtStep, CompleteStep, FailStep
    <2>2. job[w] \in Jobs /\ pos[w] \in Steps
      BY <2>1, BusyJob
    <2>3. stepState[job[w]][pos[w]] # "failed"
      BY <1>1 DEF StartStep, AtStep, CompleteStep, FailStep, IndInv, WorkerPlaces
    <2>4. \E state : stepState' = [stepState EXCEPT ![job[w]][pos[w]] = state]
      BY <1>1 DEF StartStep, SetStep, CompleteStep, FailStep
    <2> QED
      BY <1>0, <2>1, <2>2, <2>3, <2>4
  <1>2. ASSUME NEW w \in Workers, RecordScenario(w)
        PROVE  /\ UNCHANGED stepState
               /\ \A s \in 1..Scenarios : evaluated'[j][s] = evaluated[j][s] \/ evaluated'[j][s] = 1
    BY <1>0, <1>2 DEF RecordScenario
  <1>3. ASSUME NEW w \in Workers, Work(w), ~StartStep(w), ~CompleteStep(w), ~FailStep(w),
               ~RecordScenario(w)
        PROVE  UNCHANGED <<stepState, evaluated>>
    BY <1>3 DEF Work, ClaimCancelled, ClaimOutdated, Claim, PauseCancelled, ReplayStep,
                ReplayFailure, InterruptedStep, ChangedStep, CheckSource, Reserve, ReserveCall,
                Answer, PublishDraft, PublishRefused, FinishEvaluation, RecordStop, journalVars
  <1>4. ASSUME NEW w \in Workers, Faults(w)
        PROVE  UNCHANGED <<stepState, evaluated>>
    BY <1>4 DEF Faults, StepError, GateRefused, PublishError, Crash, journalVars
  <1>5. CASE Others
    BY <1>5 DEF Others, Submit, CancelJob, ResumeJob, ChangeSubject, Upgrade, journalVars
  <1>6. CASE UNCHANGED vars
    BY <1>6 DEF vars, journalVars
  <1>7. ASSUME UNCHANGED <<stepState, evaluated>>
        PROVE  /\ \A n \in Steps : stepState[j][n] = "failed" => stepState'[j][n] = "failed"
               /\ \A s \in 1..Scenarios : evaluated'[j][s] = evaluated[j][s] \/ evaluated'[j][s] = 1
    BY <1>7
  <1> QED
    BY <1>1, <1>2, <1>3, <1>4, <1>5, <1>6, <1>7 DEF Next

\* So a scenario that is settled stays settled, and evidence is kept.
LEMMA EvidenceKept ==
  ASSUME IndInv, [Next]_vars, NEW j \in Jobs
  PROVE  /\ \A s \in 1..Scenarios : Settled(j, s) => Settled(j, s)'
         /\ HasEvidence(j) => HasEvidence(j)'
  <1>1. \A s \in 1..Scenarios : <<s, 0>> \in Steps
    BY StepOf, JobsAssumption
  <1> QED
    BY <1>1, JournalKept DEF Settled, HasEvidence

\* A worker that stays where it is in the gate, or moves within one scenario.
LEMMA SameScenario ==
  ASSUME IndInv, [Next]_vars, NEW w \in Workers, GateWorker(w), pc[w] # "idle",
         UNCHANGED job, pos'[w][1] = pos[w][1],
         pc'[w] = "publish" /\ outcome'[w] = None => pc[w] = "publish" /\ outcome[w] = None
  PROVE  GateWorker(w)'
  <1>1. job[w] \in Jobs
    BY BusyJob
  <1> DEFINE j == job[w]
  <1>2. ASSUME Gate(j)
        PROVE  /\ \A s \in 1..Scenarios : s < pos[w][1] => Settled(j, s)
               /\ pc[w] = "publish" /\ outcome[w] = None => HasEvidence(j)
    BY <1>1, <1>2 DEF GateWorker
  <1>3. ASSUME NEW i \in Jobs, job'[w] = i, Gate(i)
        PROVE  /\ \A s \in 1..Scenarios : s < pos'[w][1] => Settled(i, s)'
               /\ pc'[w] = "publish" /\ outcome'[w] = None => HasEvidence(i)'
    BY <1>2, <1>3, EvidenceKept
  <1> QED
    BY <1>3 DEF GateWorker, Gate

\* A worker that goes on to the next scenario has settled the one it leaves.
LEMMA NextScenarioGate ==
  ASSUME IndInv, [Next]_vars, NEW w \in Workers, GateWorker(w), pc[w] # "idle",
         NEW j \in Jobs, job[w] = j, Gate(j), NextScenario(w, pos[w]),
         \A s \in 1..Scenarios : s = pos[w][1] => Settled(j, s)',
         pos[w][1] = Scenarios => HasEvidence(j)'
  PROVE  GateWorker(w)'
  <1>1. /\ pos[w] \in Steps /\ pos[w][1] \in 1..Scenarios /\ Scenarios \in Nat
        /\ pos \in [Workers -> Steps] /\ pc \in [Workers -> Places]
    BY BusyJob, StepParts, JobsAssumption DEF IndInv, TypeOK
  <1>2. \A s \in 1..Scenarios : s < pos[w][1] => Settled(j, s)'
    BY EvidenceKept DEF GateWorker
  <1>3. CASE pos[w][1] = Scenarios
    <2>1. pos'[w] = pos[w] /\ job' = job
      BY <1>1, <1>3 DEF NextScenario, To
    <2> QED
      BY <1>2, <1>3, <2>1 DEF GateWorker
  <1>4. CASE pos[w][1] # Scenarios
    <2>1. pos'[w][1] = pos[w][1] + 1 /\ job' = job /\ pc'[w] = "step"
      BY <1>1, <1>4 DEF NextScenario, To, Goto
    <2>2. \A s \in 1..Scenarios : s < pos'[w][1] => s < pos[w][1] \/ s = pos[w][1]
      BY <1>1, <2>1
    <2>3. \A s \in 1..Scenarios : s < pos'[w][1] => Settled(j, s)'
      BY <1>2, <2>2
    <2> QED
      BY <2>1, <2>3 DEF GateWorker
  <1> QED
    BY <1>3, <1>4


\* After a failed step the gate gives up, or goes on; at the last scenario it
\* goes on only past one whose specification did not fail.
LEMMA FailureGate ==
  ASSUME IndInv, [Next]_vars, NEW w \in Workers, GateWorker(w), pc[w] # "idle",
         NEW j \in Jobs, job[w] = j, Gate(j),
         AfterFailure(w, j, pos[w], stepState'), stepState'[j][pos[w]] = "failed"
  PROVE  GateWorker(w)'
  <1>0. /\ pos[w] \in Steps /\ pos[w][1] \in 1..Scenarios /\ pc \in [Workers -> Places]
        /\ outcome \in [Workers -> Verdicts] /\ pos[w] = <<pos[w][1], pos[w][2]>>
    <2>1. pos[w] \in Steps /\ pc \in [Workers -> Places] /\ outcome \in [Workers -> Verdicts]
      BY BusyJob DEF IndInv, TypeOK
    <2>2. pos[w] = <<pos[w][1], pos[w][2]>>
      BY <2>1 DEF Steps
    <2> QED
      BY <2>1, <2>2, StepParts
  <1>1. CASE ~Generation(pos[w]) \/ NoScenarioRan(j, pos[w], stepState')
    <2>1. GiveUp(w)
      BY <1>1 DEF AfterFailure
    <2>2. UNCHANGED <<job, pos>> /\ outcome'[w] # None
      BY <1>0, <2>1, JobsAssumption DEF GiveUp
    <2> QED
      BY <2>2, SameScenario
  <1>2. CASE Generation(pos[w]) /\ ~NoScenarioRan(j, pos[w], stepState')
    <2>1. NextScenario(w, pos[w])
      BY <1>2 DEF AfterFailure
    <2>2. stepState'[j][<<pos[w][1], 0>>] = "failed"
      BY <1>0, <1>2 DEF Generation
    <2>3. \A s \in 1..Scenarios : s = pos[w][1] => Settled(j, s)'
      BY <2>2 DEF Settled
    <2>4. ASSUME pos[w][1] = Scenarios
          PROVE  HasEvidence(j)'
      <3>1. PICK s \in 1..Scenarios : stepState'[j][<<s, 0>>] # "failed"
        BY <1>2, <2>4 DEF NoScenarioRan
      <3>2. s < pos[w][1]
        BY <1>0, <2>2, <2>4, <3>1, JobsAssumption
      <3>3. Settled(j, s)'
        BY <3>2, EvidenceKept DEF GateWorker
      <3> QED
        BY <3>1, <3>3 DEF Settled, HasEvidence
    <2> QED
      BY <2>1, <2>3, <2>4, NextScenarioGate
  <1> QED
    BY <1>1, <1>2

\* Every step of a worker keeps what its gate has settled.
LEMMA WorkGate ==
  ASSUME IndInv, [Next]_vars, NEW w \in Workers, GateWorker(w), Work(w) \/ Faults(w)
  PROVE  GateWorker(w)'
  <1>0. /\ TypeOK /\ pc \in [Workers -> Places] /\ pos \in [Workers -> Steps]
        /\ job \in [Workers -> Jobs \cup {None}] /\ outcome \in [Workers -> Verdicts]
    BY DEF IndInv, TypeOK
  <1>1. ASSUME pc'[w] = "idle" \/ UNCHANGED <<pc, job, pos, outcome>>
        PROVE  GateWorker(w)'
    BY <1>1, EvidenceKept DEF GateWorker, Gate
  <1>2. ASSUME Leave(w)
        PROVE  GateWorker(w)'
    BY <1>0, <1>1, <1>2 DEF Leave, Goto
  <1>3. ASSUME ClaimCancelled(w) \/ ClaimOutdated(w)
        PROVE  GateWorker(w)'
    BY <1>1, <1>3 DEF ClaimCancelled, ClaimOutdated, workerVars
  <1>4. ASSUME Claim(w)
        PROVE  GateWorker(w)'
    <2>1. pos'[w] = First /\ pc'[w] = "step"
      BY <1>0, <1>4 DEF Claim, Goto
    <2>2. First[1] = 1
      BY DEF First
    <2> QED
      BY <2>1, <2>2 DEF GateWorker
  <1>5. ASSUME pc[w] # "idle", UNCHANGED <<job, pos>>, NEW p \in Places \ {"publish"}, Goto(w, p)
        PROVE  GateWorker(w)'
    BY <1>0, <1>5, SameScenario DEF Goto
  <1>6. ASSUME \/ PauseCancelled(w) \/ InterruptedStep(w) \/ ChangedStep(w)
               \/ StartStep(w) \/ CheckSource(w) \/ Reserve(w) \/ Answer(w)
               \/ PublishRefused(w) \/ StepError(w) \/ PublishError(w)
        PROVE  GateWorker(w)'
    BY <1>5, <1>6 DEF PauseCancelled, InterruptedStep, ChangedStep, StartStep, AtStep, CheckSource,
       Reserve, ReserveCall, Answer, PublishRefused, AtDraft, StepError, PublishError, Stop, Places
  <1>7. ASSUME GateRefused(w)
        PROVE  GateWorker(w)'
    <2>1. pc[w] # "idle" /\ UNCHANGED <<job, pos>> /\ outcome'[w] # None
      BY <1>0, <1>7, JobsAssumption DEF GateRefused, AtStep, GiveUp
    <2> QED
      BY <2>1, SameScenario
  <1>8. ASSUME NEW j \in Jobs, job[w] = j, pc[w] # "idle", UNCHANGED job, ~Gate(j)
        PROVE  GateWorker(w)'
    BY <1>8 DEF GateWorker, Gate
  <1>9. ASSUME NEW j \in Jobs, job[w] = j, pc[w] # "idle", NEW states,
               AfterSuccess(w, j, pos[w], states)
        PROVE  GateWorker(w)'
    <2>1. Turn(w)
      BY <1>0, <1>9, SuccessTurn
    <2>2. CASE ~Gate(j)
      BY <1>8, <1>9, <2>1, <2>2 DEF Turn
    <2>3. CASE Gate(j)
      <3>1. CASE GiveUp(w)
        <4>1. UNCHANGED <<job, pos>> /\ outcome'[w] # None
          BY <1>0, <3>1, JobsAssumption DEF GiveUp
        <4> QED
          BY <1>9, <4>1, SameScenario
      <3>2. CASE \E p \in {"step", "record"}, n \in {pos[w], <<pos[w][1], pos[w][2] + 1>>} : To(w, p, n)
        <4>1. PICK p \in {"step", "record"}, n \in {pos[w], <<pos[w][1], pos[w][2] + 1>>} : To(w, p, n)
          BY <3>2
        <4>2. pos'[w] = n /\ n[1] = pos[w][1] /\ pc'[w] = p /\ UNCHANGED job
          BY <1>0, <4>1 DEF To, Goto
        <4> QED
          BY <1>9, <4>2, SameScenario
      <3> QED
        BY <1>9, <2>3, <3>1, <3>2 DEF AfterSuccess
    <2> QED
      BY <2>2, <2>3
  <1>10. ASSUME ReplayStep(w) \/ CompleteStep(w)
         PROVE  GateWorker(w)'
    <2>1. pc[w] # "idle"
      BY <1>10 DEF ReplayStep, AtStep, CompleteStep
    <2>2. job[w] \in Jobs
      BY <2>1, BusyJob
    <2>3. \E states : AfterSuccess(w, job[w], pos[w], states)
      BY <1>10 DEF ReplayStep, CompleteStep
    <2> QED
      BY <1>9, <2>1, <2>2, <2>3
  <1>11. ASSUME ReplayFailure(w) \/ FailStep(w)
         PROVE  GateWorker(w)'
    <2>1. pc[w] # "idle"
      BY <1>11 DEF ReplayFailure, AtStep, FailStep
    <2>2. job[w] \in Jobs /\ pos[w] \in Steps
      BY <2>1, BusyJob
    <2>3. /\ AfterFailure(w, job[w], pos[w], stepState')
          /\ stepState'[job[w]][pos[w]] = "failed"
      <3>1. CASE ReplayFailure(w)
        <4>1. /\ stepState' = stepState /\ stepState[job[w]][pos[w]] = "failed"
              /\ AfterFailure(w, job[w], pos[w], stepState)
          BY <3>1 DEF ReplayFailure, AtStep, journalVars
        <4> QED
          BY <4>1
      <3>2. CASE FailStep(w)
        <4>1. /\ stepState' = [stepState EXCEPT ![job[w]][pos[w]] = "failed"]
              /\ AfterFailure(w, job[w], pos[w],
                              [stepState EXCEPT ![job[w]][pos[w]] = "failed"])
          BY <3>2 DEF FailStep
        <4>2. stepState'[job[w]][pos[w]] = "failed"
          BY <1>0, <2>2, <4>1 DEF TypeOK
        <4> QED
          BY <4>1, <4>2
      <3> QED
        BY <1>11, <3>1, <3>2
    <2>4. CASE ~Gate(job[w])
      <3>1. UNCHANGED job
        BY <2>3, <2>4 DEF AfterFailure, Stop
      <3> QED
        BY <1>8, <2>1, <2>2, <2>4, <3>1
    <2>5. CASE Gate(job[w])
      BY <2>1, <2>2, <2>3, <2>5, FailureGate
    <2> QED
      BY <2>4, <2>5
  <1>12. ASSUME RecordScenario(w)
         PROVE  GateWorker(w)'
    <2>1. pc[w] # "idle" /\ NextScenario(w, pos[w])
      BY <1>12 DEF RecordScenario
    <2>2. job[w] \in Jobs /\ pos[w] \in Steps /\ pos[w][1] \in 1..Scenarios
      BY <2>1, BusyJob, StepParts
    <2>3. evaluated'[job[w]][pos[w][1]] = 1
      BY <1>0, <1>12, <2>2 DEF RecordScenario, TypeOK
    <2>4. CASE ~Gate(job[w])
      <3>1. UNCHANGED job
        BY <2>1 DEF NextScenario, To
      <3> QED
        BY <1>8, <2>1, <2>2, <2>4, <3>1
    <2>5. CASE Gate(job[w])
      <3>1. PICK i \in Jobs : i = job[w]
        BY <2>2
      <3>2. \A s \in 1..Scenarios : s = pos[w][1] => Settled(i, s)'
        BY <2>3, <3>1 DEF Settled
      <3>3. HasEvidence(i)'
        BY <2>2, <2>3, <3>1 DEF HasEvidence
      <3> QED
        BY <2>1, <2>5, <3>1, <3>2, <3>3, NextScenarioGate
    <2> QED
      BY <2>4, <2>5
  <1>13. ASSUME PublishDraft(w) \/ FinishEvaluation(w) \/ RecordStop(w) \/ Crash(w)
         PROVE  GateWorker(w)'
    BY <1>2, <1>13 DEF PublishDraft, FinishEvaluation, RecordStop, Crash
  <1> QED
    BY <1>3, <1>4, <1>6, <1>7, <1>10, <1>11, <1>12, <1>13 DEF Work, Faults


\* What saves a gate's verdict finds the evidence kept.
LEMMA VerdictStep ==
  ASSUME IndInv, [Next]_vars, \A w \in Workers : GateWorker(w),
         NEW j \in Jobs, Gate(j), published'[j] > 0, published[j] = 0
  PROVE  HasEvidence(j)
  <1>0. published \in [Jobs -> Nat]
    BY DEF IndInv, TypeOK
  <1>1. PICK w \in Workers : PublishDraft(w) \/ FinishEvaluation(w)
    BY RevisionSteps DEF Submit, ChangeSubject
  <1>2. pc[w] = "publish"
    BY <1>1 DEF PublishDraft, AtDraft, FinishEvaluation
  <1>3. job[w] = j
    <2>1. CASE PublishDraft(w)
      BY <1>0, <2>1 DEF PublishDraft, SaveDraft
    <2>2. CASE FinishEvaluation(w)
      BY <1>0, <2>2 DEF FinishEvaluation
    <2> QED
      BY <1>1, <2>1, <2>2
  <1>4. outcome[w] = None
    BY <1>0, <1>1, <1>3 DEF PublishDraft, AtDraft, FinishEvaluation
  <1> QED
    BY <1>2, <1>3, <1>4 DEF GateWorker

LEMMA NextGateInv == IndInv /\ GateInv /\ [Next]_vars => GateInv'
  <1> SUFFICES ASSUME IndInv, GateInv, [Next]_vars PROVE GateInv'
    OBVIOUS
  <1>0. /\ EvidenceOncePerScenario /\ \A w \in Workers : GateWorker(w)
        /\ published \in [Jobs -> Nat] /\ evaluated \in [Jobs -> [1..Scenarios -> Nat]]
        /\ published' \in [Jobs -> Nat]
    BY NextIndInv DEF GateInv, IndInv, TypeOK
  <1>1. ASSUME NEW w \in Workers
        PROVE  GateWorker(w)'
    <2>1. CASE Work(w) \/ Faults(w)
      BY <1>0, <2>1, WorkGate
    <2>2. ASSUME pc[w] = "idle", NEW v \in Workers, v # w, Work(v) \/ Faults(v)
          PROVE  GateWorker(w)'
      <3>1. pc \in [Workers -> Places]
        BY DEF IndInv, TypeOK
      <3>2. pc'[w] = "idle"
        BY <2>2, <3>1
           DEF Work, ClaimCancelled, ClaimOutdated, Claim, PauseCancelled, ReplayStep, ReplayFailure,
               InterruptedStep, ChangedStep, StartStep, CheckSource, Reserve, ReserveCall, Answer,
               CompleteStep, FailStep, RecordScenario, PublishDraft, PublishRefused,
               FinishEvaluation, RecordStop, Faults, StepError, GateRefused, PublishError, Crash,
               Leave, Stop, GiveUp, NextScenario, AfterSuccess, AfterFailure, To, Goto, workerVars
      <3> QED
        BY <3>2 DEF GateWorker
    <2>3. ASSUME UNCHANGED workerVars
          PROVE  GateWorker(w)'
      BY <1>0, <2>3, EvidenceKept DEF GateWorker, workerVars, Gate
    <2>4. CASE Others \/ UNCHANGED vars
      BY <2>3, <2>4 DEF Others, Submit, CancelJob, ResumeJob, ChangeSubject, Upgrade, vars
    <2>5. ASSUME pc[w] # "idle", NEW v \in Workers, v # w, Work(v) \/ Faults(v)
          PROVE  GateWorker(w)'
      <3>1. pc[v] = "idle" /\ lock # NoWorker
        BY <2>5, BusyJob, JobsAssumption
      <3>2. FALSE
        BY <2>5, <3>1
           DEF Work, ClaimCancelled, ClaimOutdated, Claim, PauseCancelled, ReplayStep, ReplayFailure,
               InterruptedStep, ChangedStep, StartStep, CheckSource, Reserve, Answer,
               CompleteStep, FailStep, RecordScenario, PublishDraft, PublishRefused, AtStep, AtDraft,
               FinishEvaluation, RecordStop, Faults, StepError, GateRefused, PublishError, Crash
      <3> QED
        BY <3>2
    <2> QED
      BY <2>1, <2>2, <2>4, <2>5 DEF Next
  <1>2. ASSUME NEW j \in Jobs
        PROVE  /\ \A s \in 1..Scenarios : evaluated'[j][s] <= 1
               /\ Gate(j) /\ published'[j] > 0 => HasEvidence(j)'
    <2>1. \A s \in 1..Scenarios : evaluated'[j][s] <= 1
      BY <1>0, JournalKept DEF EvidenceOncePerScenario
    <2>2. ASSUME Gate(j), published'[j] > 0
          PROVE  HasEvidence(j)
      <3>1. CASE published[j] = 0
        BY <1>0, <2>2, <3>1, VerdictStep
      <3>2. CASE published[j] # 0
        <4>1. published[j] > 0
          BY <1>0, <3>2
        <4> QED
          BY <1>0, <2>2, <4>1 DEF EvidenceOncePerScenario, HasEvidence
      <3> QED
        BY <3>1, <3>2
    <2> QED
      BY <2>1, <2>2, EvidenceKept
  <1>3. EvidenceOncePerScenario'
    BY <1>2 DEF EvidenceOncePerScenario, HasEvidence, Gate
  <1> QED
    BY <1>1, <1>3 DEF GateInv

\* The gate keeps one result per scenario, and has kept one before it saves its
\* verdict, whatever attempts it took and however many specifications failed
\* (record_eval, _run_evaluation).
THEOREM EvidenceBeforeVerdict == Spec => []EvidenceOncePerScenario
  <1>1. Init => GateInv
    BY DEF Init, GateInv, GateWorker, EvidenceOncePerScenario
  <1>2. GateInv => EvidenceOncePerScenario
    BY DEF GateInv
  <1> QED
    BY <1>1, <1>2, NextGateInv, IndInvHolds, PTL DEF Spec
=============================================================================
