---------------------------- MODULE RunnerProofs ----------------------------
(***************************************************************************)
(* Proofs about Runner and, since its actions drive them, Provider.  Both  *)
(* inductive invariants are of the modules' own steps: ProviderInv says    *)
(* what is true of the guard and its group at every place the caller may   *)
(* be in, with or without an exception on its way out; LadderInv counts    *)
(* the attempts by what allowed each, and keeps the pick fit from the      *)
(* judgement to the last attempt on it.                                    *)
(***************************************************************************)
EXTENDS Runner, TLAPS

\* Nothing of the group runs, and no guard is left that could start it.
Dead == guard \in {"none", "zombie", "reaped"} /\ ~GroupRuns

\* In a call the guard exists, and nobody has reaped it but who is leaving.
GuardHeld ==
    /\ InCall => guard # "none"
    /\ InCall => (guard = "reaped" <=> place = "leave")

\* A guard that has not started has nothing in its group.
Unstarted == guard \in {"none", "new"} => cli = "none" /\ tool = "none"

\* The report, read or not, is of a CLI that no longer runs and never will.
CliIsGone == cli # "running" /\ guard # "new"
ReportIsTrue ==
    /\ report # None => CliIsGone
    /\ outcome \in {"exited", "spawn_error"} => CliIsGone

\* What the exception is that the caller will get; its own clean-up has been
\* given up on only with one.
ExceptionKept ==
    InCall => /\ raising => result \in {"guard_error", "interrupted"}
              /\ ~inner => raising

\* A guard error comes after the SIGKILL, and so does the reap that no exception
\* has brought forward.
KilledFirst ==
    /\ place \in {"reap", "leave"} /\ ~raising => Dead
    /\ InCall /\ raising /\ result = "guard_error" => Dead
    /\ place = "off" /\ result # "interrupted" => Dead

\* What precedes a SIGKILL: a SIGTERM, an exception, or the report.
TermedFirst ==
    /\ place = "wait" => termed
    /\ place = "kill" => termed \/ hurried \/ outcome \in {"exited", "spawn_error"}
    /\ guard = "ending" => termed

ProviderInv ==
    /\ ProviderTypeOK
    /\ GuardHeld /\ Unstarted /\ ReportIsTrue
    /\ ExceptionKept /\ KilledFirst /\ TermedFirst

-----------------------------------------------------------------------------
One(b) == IF b THEN 1 ELSE 0

\* An attempt is the first of its pick, the second pick's, or the credential retry.
AttemptsCounted ==
    attempts = One(step = "attempt") + One(phase = "afterQuota") + One(retried)

\* The router's decision avoids what a quota failure has excluded, and an attempt
\* is on a decision that was judged fit.
PickIsFresh == step \in {"judge", "attempt"} => pick.account \notin spent
PickIsFit ==
    step = "attempt" => /\ pick.fits /\ pick.policy
                        /\ pick.account \notin Disallowed
                        /\ ~CannotRun

LadderTypes ==
    /\ step \in {"idle", "pick", "judge", "attempt"}
    /\ sandboxed \in BOOLEAN /\ phase \in Phase
    /\ pick \in Pick
    /\ spent \subseteq Accounts /\ rejected \subseteq Accounts
    /\ retried \in BOOLEAN
    /\ attempts \in Nat
    /\ made \in 0..Cap
    /\ row \in RowOutcome \cup {None}

LadderInv == LadderTypes /\ AttemptsCounted /\ PickIsFresh /\ PickIsFit


-----------------------------------------------------------------------------
\* What an action of the call leaves of the group, and what a SIGKILL makes of it.
LEMMA KilledIsDead ==
    ASSUME ProviderTypeOK, Killed, guard \notin {"none", "reaped"}
    PROVE  /\ guard' = "zombie" /\ ~GroupRuns' /\ cli' # "running"
           /\ cli' \in {"none", "exited", "killed"} /\ tool' \in {"none", "killed"}
           /\ report' = report
BY DEF ProviderTypeOK, Killed, GroupRuns

LEMMA InitProvider == ProviderInit => ProviderInv
<1>. SUFFICES ASSUME ProviderInit PROVE ProviderInv
  OBVIOUS
<1>1. ProviderTypeOK
  <2>1. signals \in 0..MaxSignals /\ faults \in 0..MaxFaults
    BY ProviderAssumption DEF ProviderInit
  <2>. QED BY <2>1 DEF ProviderInit, ProviderTypeOK
<1>2. GuardHeld /\ Unstarted
  BY DEF ProviderInit, GuardHeld, Unstarted, InCall
<1>3. ReportIsTrue
  BY ProviderAssumption DEF ProviderInit, ReportIsTrue, CliIsGone, Outcome
<1>4. ExceptionKept /\ TermedFirst
  BY DEF ProviderInit, ExceptionKept, TermedFirst, InCall
<1>5. KilledFirst
  BY DEF ProviderInit, KilledFirst, InCall, Dead, GroupRuns
<1>. QED BY <1>1, <1>2, <1>3, <1>4, <1>5 DEF ProviderInv

\* A new call: everything about the last one is forgotten but its row.
LEMMA EnterKeeps == ProviderInv /\ (Enter \/ EnterFails) => ProviderInv'
<1>1. ASSUME ProviderInv, Enter  PROVE ProviderInv'
  BY <1>1, ProviderAssumption
  DEF ProviderInv, ProviderTypeOK, GuardHeld, Unstarted, ReportIsTrue, ExceptionKept,
      KilledFirst, TermedFirst, InCall, Dead, GroupRuns, Outcome, Result, Enter, boundVars
<1>2. ASSUME ProviderInv, EnterFails  PROVE ProviderInv'
  BY <1>2, ProviderAssumption
  DEF ProviderInv, ProviderTypeOK, GuardHeld, Unstarted, ReportIsTrue, ExceptionKept, CliIsGone,
      KilledFirst, TermedFirst, InCall, Dead, GroupRuns, Outcome, Result, EnterFails,
      groupVars, boundVars
<1>. QED BY <1>1, <1>2

\* The steps of the caller and of its signals, of the guard, and of the CLI.
LEMMA CallerKeeps == ProviderInv /\ CallerStep => ProviderInv'
<1>. USE ProviderAssumption
     DEF ProviderInv, ProviderTypeOK, GuardHeld, Unstarted, ReportIsTrue, ExceptionKept, CliIsGone,
         KilledFirst, TermedFirst, InCall, Dead, GroupRuns, Outcome, Result,
         groupVars, boundVars
<1>1. ASSUME ProviderInv, Spawned  PROVE ProviderInv'
  BY <1>1 DEF Spawned
<1>2. ASSUME ProviderInv, Await  PROVE ProviderInv'
  BY <1>2 DEF Await
<1>3. ASSUME ProviderInv, Terminate  PROVE ProviderInv'
  BY <1>3 DEF Terminate
<1>4. ASSUME ProviderInv, StopWaiting  PROVE ProviderInv'
  BY <1>4 DEF StopWaiting, CliMayRun
<1>5. ASSUME ProviderInv, Kill  PROVE ProviderInv'
  BY <1>5, KilledIsDead DEF Kill
<1>6. ASSUME ProviderInv, Reap  PROVE ProviderInv'
  BY <1>6 DEF Reap
<1>7. ASSUME ProviderInv, ReapGivesUp  PROVE ProviderInv'
  <2>1. faults' \in 0..MaxFaults
    BY <1>7 DEF ReapGivesUp
  <2>2. /\ place = "reap"
        /\ place' \in {"end", "off"} /\ (place' = "off" => raising)
        /\ inner' = FALSE /\ raising' = TRUE
        /\ result' \in Result \cup {None}
        /\ result' \in {"guard_error", "interrupted"}
        /\ UNCHANGED <<outcome, guard, cli, tool, report, termed, hurried, signals>>
    BY <1>7 DEF ReapGivesUp, Escape, Unreaped
  <2>3. result' # "interrupted" => Dead
    BY <1>7 DEF ReapGivesUp
  <2>4. ProviderTypeOK'
    BY <1>7, <2>1, <2>2, ZenonT(60)
  <2>5. (GuardHeld /\ Unstarted /\ ReportIsTrue)'
    BY <1>7, <2>2
  <2>6. ExceptionKept'
    BY <1>7, <2>2
  <2>7. KilledFirst'
    BY <1>7, <2>2, <2>3
  <2>8. TermedFirst'
    BY <1>7, <2>2
  <2>. QED BY <2>4, <2>5, <2>6, <2>7, <2>8
<1>8. ASSUME ProviderInv, Return  PROVE ProviderInv'
  BY <1>8 DEF Return
<1>9. ASSUME ProviderInv, CallerExits  PROVE ProviderInv'
  BY <1>9 DEF CallerExits
<1>. QED
  BY <1>1, <1>2, <1>3, <1>4, <1>5, <1>6, <1>7, <1>8, <1>9 DEF CallerStep

LEMMA SignalKeeps == ProviderInv /\ (Interrupt \/ CallerKilled) => ProviderInv'
<1>. USE ProviderAssumption
     DEF ProviderInv, ProviderTypeOK, GuardHeld, Unstarted, ReportIsTrue, ExceptionKept, CliIsGone,
         KilledFirst, TermedFirst, InCall, Dead, GroupRuns, Outcome, Result,
         groupVars, boundVars
<1>1. ASSUME ProviderInv, Interrupt  PROVE ProviderInv'
  <2>1. PICK t \in Thrown : place' = t[1] /\ inner' = t[2]
    BY <1>1 DEF Interrupt
  <2>2. /\ t[1] \in {"off", "end", "kill", "reap"}
        /\ t[2] \in BOOLEAN
        /\ t[1] = "kill" => place \in {"end", "wait"}
        /\ t[1] # "off" => guard # "reaped"
    <3>1. CASE place = "spawn"
      <4>1. t = <<"off", inner>> \/ t = <<"end", FALSE>>
        BY <3>1 DEF Thrown
      <4>2. CASE t = <<"off", inner>>
        BY <1>1, <3>1, <4>2
      <4>3. CASE t = <<"end", FALSE>>
        <5>1. t[1] = "end" /\ t[2] = FALSE
          BY ONLY <4>3, Zenon
        <5>. QED BY <5>1, <1>1, <3>1
      <4>. QED BY <4>1, <4>2, <4>3
    <3>2. CASE place = "await"
      BY <1>1, <3>2 DEF Thrown
    <3>3. CASE place = "end"
      BY <1>1, <3>3 DEF Thrown
    <3>4. CASE place = "wait"
      BY <1>1, <3>4 DEF Thrown
    <3>5. CASE place = "kill"
      BY <1>1, <3>5 DEF Thrown
    <3>6. CASE place \in {"reap", "leave"}
      <4>1. t = <<"end", FALSE>> \/ t = <<"off", FALSE>>
        BY <3>6 DEF Thrown, Escape
      <4>4. t = <<"end", FALSE>> => guard # "reaped"
        <5>1. <<Escape, FALSE>> = <<"end", FALSE>> => Escape = "end"
          BY DEF Escape
        <5>2. t = <<Escape, FALSE>>
          BY <3>6 DEF Thrown
        <5>. QED BY <5>1, <5>2 DEF Escape, Unreaped
      <4>2. ASSUME t = <<"end", FALSE>>  PROVE t[1] = "end" /\ t[2] = FALSE
        BY ONLY <4>2, Zenon
      <4>3. ASSUME t = <<"off", FALSE>>  PROVE t[1] = "off" /\ t[2] = FALSE
        BY ONLY <4>3, Zenon
      <4>. QED BY <4>1, <4>2, <4>3, <4>4
    <3>. QED BY <1>1, <3>1, <3>2, <3>3, <3>4, <3>5, <3>6 DEF Interrupt
  <2>3. /\ place' \in {"off", "end", "kill", "reap"}
        /\ inner' \in BOOLEAN
        /\ place' = "kill" => place \in {"end", "wait"}
        /\ place' # "off" => guard # "reaped"
    BY <2>1, <2>2
  <2>4. signals' \in 0..MaxSignals
    BY <1>1 DEF Interrupt
  <2>5. /\ InCall /\ raising' = TRUE
        /\ result' = IF raising THEN result ELSE "interrupted"
        /\ hurried' = (hurried \/ place \in {"end", "wait", "kill"})
        /\ UNCHANGED <<outcome, guard, cli, tool, report, termed, faults>>
    BY <1>1 DEF Interrupt
  <2>6. ProviderTypeOK'
    BY <1>1, <2>3, <2>4, <2>5
  <2>7. (GuardHeld /\ Unstarted /\ ReportIsTrue)'
    BY <1>1, <2>3, <2>5
  <2>8. (ExceptionKept /\ KilledFirst)'
    BY <1>1, <2>3, <2>5
  <2>9. TermedFirst'
    BY <1>1, <2>3, <2>5
  <2>. QED BY <2>6, <2>7, <2>8, <2>9
<1>2. ASSUME ProviderInv, CallerKilled  PROVE ProviderInv'
  BY <1>2 DEF CallerKilled
<1>. QED BY <1>1, <1>2

LEMMA GroupKeeps ==
    ProviderInv /\ (GuardStep \/ GuardLost \/ CliExits \/ ToolStartsOrEnds) => ProviderInv'
<1>. USE ProviderAssumption
     DEF ProviderInv, ProviderTypeOK, GuardHeld, Unstarted, ReportIsTrue, ExceptionKept, CliIsGone,
         KilledFirst, TermedFirst, InCall, Dead, GroupRuns, Outcome, Result, CallerLives,
         groupVars, boundVars, callVars
<1>1. ASSUME ProviderInv, GuardStarts  PROVE ProviderInv'
  BY <1>1, KilledIsDead DEF GuardStarts
<1>2. ASSUME ProviderInv, GuardReports  PROVE ProviderInv'
  BY <1>2 DEF GuardReports
<1>3. ASSUME ProviderInv, GuardTerminates  PROVE ProviderInv'
  BY <1>3 DEF GuardTerminates
<1>4. ASSUME ProviderInv, GuardKills  PROVE ProviderInv'
  BY <1>4, KilledIsDead DEF GuardKills
<1>5. ASSUME ProviderInv, GuardLost  PROVE ProviderInv'
  BY <1>5 DEF GuardLost
<1>6. ASSUME ProviderInv, CliExits  PROVE ProviderInv'
  BY <1>6 DEF CliExits
<1>7. ASSUME ProviderInv, ToolStartsOrEnds  PROVE ProviderInv'
  BY <1>7 DEF ToolStartsOrEnds
<1>. QED
  BY <1>1, <1>2, <1>3, <1>4, <1>5, <1>6, <1>7 DEF GuardStep


\* What every step does to a provider: nothing, a new call of it, or its own step.
LEMMA StepsOfProvider ==
    ASSUME Next
    PROVE  Enter \/ EnterFails \/ ProviderStep \/ UNCHANGED providerVars
BY DEF Next, StartCall, Ladder, AskRouter, PickError, Reject, WaitForPolicy, RefusePick,
   FirstAttempt, AttemptAgain, PickAgain, Finalize, GuardErrorLeaves, Invoke

LEMMA StutterKeeps == ProviderInv /\ UNCHANGED providerVars => ProviderInv'
BY DEF providerVars, callVars, groupVars, boundVars,
   ProviderInv, ProviderTypeOK, GuardHeld, Unstarted, ReportIsTrue, ExceptionKept, CliIsGone,
   KilledFirst, TermedFirst, InCall, Dead, GroupRuns

\* What is true of the guard and its group wherever the caller is in the call, or is not.
THEOREM ProviderInvHolds == Spec => []ProviderInv
<1>1. Init => ProviderInv
  BY InitProvider DEF Init
<1>2. ProviderInv /\ [Next]_vars => ProviderInv'
  <2>. SUFFICES ASSUME ProviderInv, [Next]_vars  PROVE ProviderInv'
    OBVIOUS
  <2>1. CASE Next
    BY <2>1, StepsOfProvider, EnterKeeps, CallerKeeps, SignalKeeps, GroupKeeps, StutterKeeps
    DEF ProviderStep
  <2>2. CASE UNCHANGED vars
    BY <2>2, StutterKeeps DEF vars
  <2>. QED BY <2>1, <2>2
<1>. QED BY <1>1, <1>2, PTL DEF Spec

\* A call that hands its caller a result, an error of the guard included, has left no
\* process of its group behind, not even a tool that outlived its CLI (_run_provider).
THEOREM CallsLeaveNothing == Spec => []FinishedCallLeavesNothing
<1>1. ProviderInv => FinishedCallLeavesNothing
  BY DEF ProviderInv, KilledFirst, Dead, FinishedCallLeavesNothing
<1>. QED BY <1>1, ProviderInvHolds, PTL

-----------------------------------------------------------------------------
\* The body of KillsInOrder.
InOrder ==
    /\ cli = "running" /\ cli' = "killed" => termed \/ hurried
    /\ Terminate \/ Kill => guard # "reaped"

LEMMA StepsAreInOrder == ProviderInv /\ Next => InOrder
<1>. SUFFICES ASSUME ProviderInv, Next  PROVE InOrder
  OBVIOUS
<1>1. Terminate \/ Kill => guard # "reaped"
  BY DEF Terminate, Kill, ProviderInv, GuardHeld, InCall
<1>2. ASSUME cli = "running", cli' = "killed"  PROVE termed \/ hurried
  <2>1. Kill \/ GuardStarts \/ GuardKills
    BY <1>2, StepsOfProvider
    DEF Enter, EnterFails, providerVars, callVars, groupVars, boundVars,
        ProviderStep, CallerStep, GuardStep, Spawned, Await, Terminate, StopWaiting, Reap,
        ReapGivesUp, Return, Interrupt, CallerExits, CallerKilled, GuardReports, GuardTerminates,
        GuardLost, CliExits, ToolStartsOrEnds
  <2>2. CASE Kill
    BY <1>2, <2>2 DEF Kill, ProviderInv, TermedFirst, ReportIsTrue, CliIsGone
  <2>3. CASE GuardStarts
    BY <1>2, <2>3 DEF GuardStarts, ProviderInv, Unstarted
  <2>4. CASE GuardKills
    BY <1>2, <2>4 DEF GuardKills, ProviderInv, TermedFirst
  <2>. QED BY <2>1, <2>2, <2>3, <2>4
<1>. QED BY <1>1, <1>2 DEF InOrder

\* A running CLI is killed only after a SIGTERM, unless an exception cut the clean-up
\* short, and the caller signals a group only before it has reaped the guard.
THEOREM CliIsToldFirst == Spec => KillsInOrder
<1>1. ProviderInv /\ [Next]_vars => [InOrder]_providerVars
  BY StepsAreInOrder DEF vars
<1>2. [][InOrder]_providerVars => KillsInOrder
  <2>1. InOrder => /\ cli = "running" /\ cli' = "killed" => termed \/ hurried
                   /\ Terminate \/ Kill => guard # "reaped"
    BY DEF InOrder
  <2>. QED BY <2>1, PTL DEF KillsInOrder
<1>. QED BY <1>1, <1>2, ProviderInvHolds, PTL DEF Spec


-----------------------------------------------------------------------------
\* Every decision of the router can be acted on, and one that fits names an account.
LEMMA FitNamesAnAccount ==
    ASSUME NEW p \in Pick
    PROVE  /\ p.fits \in BOOLEAN /\ p.policy \in BOOLEAN
           /\ p.fits => p.account \in Accounts
           /\ p.account \in Accounts \cup {None}
<1>1. CASE p = NoWinner
  <2>1. NoWinner.fits = FALSE /\ NoWinner.policy = FALSE /\ NoWinner.account = None
    BY Zenon DEF NoWinner
  <2>. QED BY <1>1, <2>1
<1>2. CASE p \in [account : Accounts, fits : BOOLEAN, policy : BOOLEAN]
  BY <1>2
<1>. QED BY <1>1, <1>2 DEF Pick

\* The end of a call, with its row or without.
LEMMA LeaveKeeps ==
    ASSUME LadderInv, Leave, row' \in RowOutcome \cup {None}
    PROVE  LadderInv'
<1>1. NoWinner \in Pick
  BY DEF Pick
<1>2. LadderTypes'
  BY <1>1 DEF LadderInv, LadderTypes, Leave, Phase
<1>3. AttemptsCounted'
  BY DEF AttemptsCounted, Leave, One
<1>. QED BY <1>2, <1>3 DEF LadderInv, PickIsFresh, PickIsFit, Leave

\* An attempt on a pick that was judged fit, each of them for its own reason.
LEMMA InvokeKeeps ==
    ASSUME LadderInv, Invoke, retried' \in BOOLEAN,
           attempts + 1 = 1 + One(phase = "afterQuota") + One(retried'),
           pick.account \notin spent, pick.fits, pick.policy,
           pick.account \notin Disallowed, ~CannotRun
    PROVE  LadderInv'
<1>1. LadderTypes'
  BY DEF LadderInv, LadderTypes, Invoke
<1>2. AttemptsCounted'
  BY DEF AttemptsCounted, Invoke, One
<1>3. PickIsFresh' /\ PickIsFit'
  BY DEF PickIsFresh, PickIsFit, Invoke, CannotRun
<1>. QED BY <1>1, <1>2, <1>3 DEF LadderInv

\* The calls, picks, refusals and attempts of the ladder.
LEMMA LadderKeeps == LadderInv /\ Next => LadderInv'
<1>. SUFFICES ASSUME LadderInv, Next  PROVE LadderInv'
  OBVIOUS
<1>1. CASE StartCall
  BY <1>1, RunnerAssumption
  DEF StartCall, LadderInv, LadderTypes, AttemptsCounted, PickIsFresh, PickIsFit, One
<1>2. CASE AskRouter
  <2>1. pick' \in Pick /\ pick'.account \notin spent
    BY <1>2 DEF AskRouter, Excluded
  <2>. QED
    BY <1>2, <2>1 DEF AskRouter, LadderInv, LadderTypes, AttemptsCounted, PickIsFresh, PickIsFit
<1>3. CASE PickError
  BY <1>3, LeaveKeeps DEF PickError, Record, RowOutcome
<1>4. CASE Reject
  <2>1. pick.account \in Accounts
    BY <1>4, RunnerAssumption DEF Reject, CannotRun
  <2>. QED
    BY <1>4, <2>1 DEF Reject, LadderInv, LadderTypes, AttemptsCounted, PickIsFresh, PickIsFit
<1>5. CASE WaitForPolicy
  BY <1>5
  DEF WaitForPolicy, LadderInv, LadderTypes, AttemptsCounted, PickIsFresh, PickIsFit, Phase, One
<1>6. CASE RefusePick
  BY <1>6, LeaveKeeps DEF RefusePick, Record, RowOutcome
<1>7. CASE FirstAttempt
  BY <1>7, InvokeKeeps
  DEF FirstAttempt, Good, LadderInv, LadderTypes, AttemptsCounted, PickIsFresh, One
<1>8. CASE AttemptAgain
  <2>1. ~retried /\ retried' = TRUE /\ Invoke /\ step = "attempt"
    BY <1>8 DEF AttemptAgain, RetryCredential, Answered
  <2>2. attempts + 1 = 1 + One(phase = "afterQuota") + One(retried')
    BY <2>1 DEF LadderInv, LadderTypes, AttemptsCounted, One
  <2>. QED
    BY <2>1, <2>2, InvokeKeeps DEF LadderInv, PickIsFresh, PickIsFit
<1>9. CASE PickAgain
  <2>1. phase # "afterQuota" /\ step = "attempt"
    BY <1>9 DEF PickAgain, RetryQuota, Answered
  <2>2. pick.account \in Accounts
    BY <2>1, FitNamesAnAccount DEF LadderInv, LadderTypes, PickIsFit
  <2>. QED
    BY <1>9, <2>1, <2>2
    DEF PickAgain, LadderInv, LadderTypes, AttemptsCounted, PickIsFresh, PickIsFit, Phase, One
<1>10. CASE Finalize
  <2>1. PICK o \in FinalOutcome : Record(o)
    BY <1>10 DEF Finalize
  <2>2. FinalOutcome \subseteq RowOutcome
    BY <1>10 DEF Finalize, FinalOutcome, RowOutcome
  <2>. QED BY <2>1, <2>2, LeaveKeeps DEF Record
<1>11. CASE GuardErrorLeaves
  BY <1>11, LeaveKeeps DEF GuardErrorLeaves, LadderInv, LadderTypes
<1>12. CASE UNCHANGED runnerVars
  BY <1>12 DEF runnerVars, callState, LadderInv, LadderTypes, AttemptsCounted, PickIsFresh,
     PickIsFit, CannotRun
<1>. QED
  BY <1>1, <1>2, <1>3, <1>4, <1>5, <1>6, <1>7, <1>8, <1>9, <1>10, <1>11, <1>12
  DEF Next, Ladder

\* What an attempt presupposes, the body of OnlyFitAccountServes.
ServedByFit ==
    attempts' > attempts =>
        /\ pick.fits /\ pick.policy
        /\ pick.account \notin Disallowed \cup spent
        /\ sandboxed => pick.account \notin Incapable

LEMMA OnlyInvokeAttempts == LadderInv /\ Next => ServedByFit
<1>. SUFFICES ASSUME LadderInv, Next, attempts' > attempts  PROVE ServedByFit
  BY DEF ServedByFit
<1>1. FirstAttempt \/ AttemptAgain
  BY DEF Next, Ladder, StartCall, AskRouter, PickError, Reject, WaitForPolicy, RefusePick,
     PickAgain, Finalize, GuardErrorLeaves, Record, Leave, runnerVars, callState,
     LadderInv, LadderTypes
<1>2. CASE FirstAttempt
  BY <1>2 DEF FirstAttempt, Good, CannotRun, LadderInv, PickIsFresh, ServedByFit
<1>3. CASE AttemptAgain
  BY <1>3 DEF AttemptAgain, Answered, CannotRun, LadderInv, PickIsFresh, PickIsFit, ServedByFit
<1>. QED BY <1>1, <1>2, <1>3

\* The attempts of a call are counted by what allowed them, and its pick stays fit.
THEOREM LadderInvHolds == Spec => []LadderInv
<1>1. Init => LadderInv
  <2>1. Init => LadderTypes
    <3>1. NoWinner \in Pick
      BY DEF Pick
    <3>2. Init => made \in 0..Cap
      BY RunnerAssumption DEF Init
    <3>3. Init => attempts \in Nat
      BY DEF Init
    <3>4. Init => /\ step \in {"idle", "pick", "judge", "attempt"} /\ phase \in Phase
                  /\ row \in RowOutcome \cup {None}
      BY DEF Init, Phase
    <3>5. Init => sandboxed \in BOOLEAN /\ retried \in BOOLEAN
      BY DEF Init
    <3>6. Init => pick \in Pick /\ spent \subseteq Accounts /\ rejected \subseteq Accounts
      BY <3>1 DEF Init
    <3>. QED BY <3>2, <3>3, <3>4, <3>5, <3>6 DEF LadderTypes
  <2>2. Init => AttemptsCounted
    BY DEF Init, AttemptsCounted, One
  <2>. QED BY <2>1, <2>2 DEF Init, LadderInv, PickIsFresh, PickIsFit
<1>2. LadderInv /\ UNCHANGED vars => LadderInv'
  BY DEF vars, runnerVars, callState, LadderInv, LadderTypes, AttemptsCounted, PickIsFresh,
     PickIsFit, CannotRun
<1>3. LadderInv /\ [Next]_vars => LadderInv'
  BY <1>2, LadderKeeps
<1>. QED BY <1>1, <1>3, PTL DEF Spec

\* Every variable keeps to its values; in particular no call makes more than three
\* attempts at a provider, and no run more calls than its cap.
THEOREM TypesHold == Spec => []TypeOK
<1>1. LadderInv => attempts \in 0..3
  BY DEF LadderInv, LadderTypes, AttemptsCounted, One
<1>2. ProviderInv /\ LadderInv => TypeOK
  BY <1>1 DEF ProviderInv, LadderInv, LadderTypes, TypeOK
<1>. QED BY <1>2, ProviderInvHolds, LadderInvHolds, PTL

\* A provider is started only on an account that the router's latest decision called
\* fit, that may be used, can run a trial when the call is one, and has not reported
\* exhausted quota in this call (_pick, _repick_until_sandbox_capable, _invoke).
THEOREM FitAccountServes == Spec => OnlyFitAccountServes
<1>1. LadderInv /\ [Next]_vars => [ServedByFit]_vars
  BY OnlyInvokeAttempts
<1>2. [][ServedByFit]_vars => OnlyFitAccountServes
  <2>1. ServedByFit =>
          (attempts' > attempts =>
             /\ pick.fits /\ pick.policy
             /\ pick.account \notin Disallowed \cup spent
             /\ sandboxed => pick.account \notin Incapable)
    BY DEF ServedByFit
  <2>. QED BY <2>1, PTL DEF OnlyFitAccountServes
<1>. QED BY <1>1, <1>2, LadderInvHolds, PTL DEF Spec
=============================================================================
