------------------------------ MODULE Provider ------------------------------
(***************************************************************************)
(* One call of a provider CLI (llm.py, _run_provider and _supervise).  The *)
(* CLI runs in a session and process group of its own, led by a guard that *)
(* starts it, reports its exit on a pipe and ends the group when the       *)
(* caller is gone.  Signals to the caller become exceptions in the middle  *)
(* of any step; the caller may be killed; the guard may be lost to a       *)
(* signal that the CLI sends to its own group.  A tool is any other        *)
(* process of the group.                                                   *)
(***************************************************************************)
EXTENDS Naturals

CONSTANTS
    None,
    MaxSignals,     \* BOUND: signals and interrupts the caller receives
    MaxFaults       \* BOUND: the caller killed, the guard lost, a stuck reap

Outcome == {"exited", "spawn_error", "timeout", "lost"}
Result == {"exited", "spawn_error", "timeout", "guard_error", "interrupted"}

ASSUME ProviderAssumption ==
    /\ MaxSignals \in Nat /\ MaxFaults \in Nat
    /\ None \notin Outcome \cup Result

VARIABLES
    place,      \* where the caller is in the call, "off" between calls, "gone" when dead
    inner,      \* _supervise still has the call; afterwards _run_provider cleans up
    raising,    \* an exception is on its way out
    outcome,    \* what _await_guard returned
    result,     \* how the last call ended for its caller
    guard, cli, tool,
    report,     \* what the status pipe holds
    termed,     \* history: the group has been sent SIGTERM
    hurried,    \* history: an exception cut the clean-up short
    signals, faults

callVars == <<place, inner, raising, outcome, result>>
groupVars == <<guard, cli, tool, report>>
boundVars == <<signals, faults>>
providerVars == <<callVars, groupVars, termed, hurried, boundVars>>

ProviderTypeOK ==
    /\ place \in {"off", "spawn", "await", "end", "wait", "kill", "reap",
                 "leave", "gone"}
    /\ inner \in BOOLEAN /\ raising \in BOOLEAN
    /\ outcome \in Outcome \cup {None} /\ result \in Result \cup {None}
    /\ guard \in {"none", "new", "watching", "ending", "zombie", "reaped"}
    /\ cli \in {"none", "running", "exited", "killed"}
    /\ tool \in {"none", "running", "killed"}
    /\ report \in {None, "exited", "spawn_error"}
    /\ termed \in BOOLEAN /\ hurried \in BOOLEAN
    /\ signals \in 0..MaxSignals /\ faults \in 0..MaxFaults

ProviderInit ==
    /\ place = "off" /\ inner = TRUE /\ raising = FALSE
    /\ outcome = None /\ result = None
    /\ guard = "none" /\ cli = "none" /\ tool = "none" /\ report = None
    /\ termed = FALSE /\ hurried = FALSE
    /\ signals = 0 /\ faults = 0

CallerLives == place # "gone"
InCall == place \notin {"off", "gone"}
GroupRuns == cli = "running" \/ tool = "running"

\* SIGKILL to the group: no member survives, and its leader waits to be reaped.
Killed ==
    /\ guard' = IF guard \in {"none", "reaped"} THEN guard ELSE "zombie"
    /\ cli' = IF cli = "running" THEN "killed" ELSE cli
    /\ tool' = IF tool = "running" THEN "killed" ELSE tool
    /\ UNCHANGED report

-----------------------------------------------------------------------------
\* The caller.  The signal handlers are in place before Popen starts the guard;
\* the program holds no handle of the guard before Popen returns.
Enter ==
    /\ place = "off" /\ result # "interrupted"
    /\ place' = "spawn"
    /\ inner' = TRUE /\ raising' = FALSE
    /\ outcome' = None /\ result' = None
    /\ guard' = "new" /\ cli' = "none" /\ tool' = "none" /\ report' = None
    /\ termed' = FALSE /\ hurried' = FALSE
    /\ UNCHANGED boundVars

\* Popen itself fails: an unusable interpreter, or any other spawn error.
EnterFails ==
    /\ place = "off" /\ result # "interrupted"
    /\ result' \in {"spawn_error", "guard_error"}
    /\ UNCHANGED <<place, inner, raising, outcome, groupVars, termed, hurried, boundVars>>

Spawned ==
    /\ place = "spawn"
    /\ place' = "await"
    /\ UNCHANGED <<inner, raising, outcome, result, groupVars, termed, hurried, boundVars>>

\* _await_guard: the report, the end of the pipe, or the deadline at any time.
Await ==
    /\ place = "await"
    /\ outcome' \in {"timeout"} \cup ({report} \ {None})
                        \cup (IF guard = "zombie" /\ report = None THEN {"lost"} ELSE {})
    /\ place' = "end"
    /\ UNCHANGED <<inner, raising, result, groupVars, termed, hurried, boundVars>>

\* Only an exit report or a spawn error shows that the CLI is gone.
CliMayRun == ~inner \/ outcome \notin {"exited", "spawn_error"}

\* _end_group: SIGTERM and a wait that a report, the guard's end or the grace
\* period ends, then SIGKILL.
Terminate ==
    /\ place = "end" /\ CliMayRun
    /\ termed' = TRUE
    /\ place' = "wait"
    /\ UNCHANGED <<inner, raising, outcome, result, groupVars, hurried, boundVars>>

StopWaiting ==
    /\ place = "wait" \/ (place = "end" /\ ~CliMayRun)
    /\ place' = "kill"
    /\ UNCHANGED <<inner, raising, outcome, result, groupVars, termed, hurried, boundVars>>

\* Faulty variant: a CLI that has exited is taken to have left nothing behind.
KillUnlessExited ==
    /\ place = "kill"
    /\ IF CliMayRun THEN Killed ELSE guard' = "zombie" /\ UNCHANGED <<cli, tool, report>>
    /\ place' = "reap"
    /\ UNCHANGED <<inner, raising, outcome, result, termed, hurried, boundVars>>

Kill ==
    /\ place = "kill"
    /\ Killed
    /\ place' = "reap"
    /\ UNCHANGED <<inner, raising, outcome, result, termed, hurried, boundVars>>

Reap ==
    /\ place = "reap" /\ guard = "zombie"
    /\ guard' = "reaped"
    /\ place' = "leave"
    /\ UNCHANGED <<inner, raising, outcome, result, cli, tool, report, termed, hurried, boundVars>>

\* The output is collected, the pipe closed, and the call returns or raises what
\* it came to; of the group only what still runs is left to tell.
Return ==
    /\ place = "leave"
    /\ place' = "off"
    /\ result' = IF raising THEN result
                 ELSE IF outcome = "lost" THEN "guard_error" ELSE outcome
    /\ inner' = TRUE /\ raising' = FALSE /\ outcome' = None /\ report' = None
    /\ cli' = IF cli = "running" THEN cli ELSE "none"
    /\ tool' = IF tool = "running" THEN tool ELSE "none"
    /\ termed' = FALSE /\ hurried' = FALSE
    /\ UNCHANGED <<guard, boundVars>>

\* Faulty variant: every exception out of _supervise ends the group once more.
AlwaysUnreaped == TRUE

\* A reaped guard's process number, and its group's, may be anybody's.
Unreaped == guard # "reaped"

\* Where an exception that leaves _supervise goes: to the clean-up of
\* _run_provider, which has none after it.
Escape == IF inner /\ Unreaped THEN "end" ELSE "off"

\* The guard is not gone in time: an exception came before the SIGKILL, or the
\* system holds on to a killed process.  _run_provider then ends the group again.
\* The first exception is the one the caller gets.
ReapGivesUp ==
    /\ place = "reap"
    /\ \/ guard # "zombie" /\ UNCHANGED faults
       \/ guard = "zombie" /\ faults < MaxFaults /\ faults' = faults + 1
    /\ result' = IF raising THEN result ELSE "guard_error"
    /\ raising' = TRUE
    /\ place' = Escape
    /\ inner' = FALSE
    /\ UNCHANGED <<outcome, groupVars, termed, hurried, signals>>

\* Where an exception takes the caller: past a clean-up it does not know the guard
\* for, to a clean-up, or over what is left of one.
Thrown ==
    CASE place = "spawn" -> {<<"off", inner>>, <<"end", FALSE>>}
      [] place = "await" -> {<<"end", inner>>}
      [] place = "end" -> {<<"kill", inner>>, <<"reap", inner>>}
      [] place = "wait" -> {<<"kill", inner>>}
      [] place = "kill" -> {<<"reap", inner>>}
      [] place \in {"reap", "leave"} -> {<<Escape, FALSE>>}

\* SIGTERM, SIGHUP or an interrupt, at any step of the call.
Interrupt ==
    /\ InCall /\ signals < MaxSignals
    /\ signals' = signals + 1
    /\ \E t \in Thrown : place' = t[1] /\ inner' = t[2]
    /\ result' = IF raising THEN result ELSE "interrupted"
    /\ raising' = TRUE
    /\ hurried' = (hurried \/ place \in {"end", "wait", "kill"})
    /\ UNCHANGED <<outcome, groupVars, termed, faults>>

\* Nothing catches SystemExit or KeyboardInterrupt for good.
CallerExits ==
    /\ place = "off" /\ result = "interrupted"
    /\ place' = "gone"
    /\ UNCHANGED <<inner, raising, outcome, result, groupVars, termed, hurried, boundVars>>

CallerKilled ==
    /\ CallerLives /\ faults < MaxFaults
    /\ faults' = faults + 1
    /\ place' = "gone"
    /\ UNCHANGED <<inner, raising, outcome, result, groupVars, termed, hurried, signals>>

-----------------------------------------------------------------------------
\* The guard (_GUARD_SOURCE) and the group.
GuardStarts ==
    /\ guard = "new"
    /\ \/ ~CallerLives /\ Killed
       \/ CallerLives /\ guard' = "watching" /\ cli' = "running" /\ UNCHANGED <<tool, report>>
       \/ CallerLives /\ guard' = "zombie" /\ report' = "spawn_error" /\ UNCHANGED <<cli, tool>>
    /\ UNCHANGED <<callVars, termed, hurried, boundVars>>

GuardReports ==
    /\ guard \in {"watching", "ending"} /\ cli = "exited" /\ report = None
    /\ report' = "exited"
    /\ UNCHANGED <<callVars, guard, cli, tool, termed, hurried, boundVars>>

\* Faulty variant: a guard whose CLI has exited leaves with it.
OrphanedIfRunning == ~CallerLives /\ cli = "running"

Orphaned == ~CallerLives

GuardTerminates ==
    /\ guard = "watching" /\ Orphaned
    /\ guard' = "ending"
    /\ termed' = TRUE
    /\ UNCHANGED <<callVars, cli, tool, report, hurried, boundVars>>

GuardKills ==
    /\ guard = "ending"
    /\ Killed
    /\ UNCHANGED <<callVars, termed, hurried, boundVars>>

\* The CLI signals its own group with a signal the guard cannot survive.
GuardLost ==
    /\ guard = "watching" /\ cli = "running" /\ faults < MaxFaults
    /\ faults' = faults + 1
    /\ guard' = "zombie"
    /\ cli' \in {"running", "exited"}
    /\ UNCHANGED <<callVars, tool, report, termed, hurried, signals>>

\* The CLI may start tools, and ends when it likes, after a SIGTERM or without
\* one; a tool may outlive it.
CliExits ==
    /\ cli = "running"
    /\ cli' = "exited"
    /\ UNCHANGED <<callVars, guard, tool, report, termed, hurried, boundVars>>

ToolStartsOrEnds ==
    /\ \/ tool = "none" /\ cli = "running" /\ tool' = "running"
       \/ tool = "running" /\ tool' = "none"
    /\ UNCHANGED <<callVars, guard, cli, report, termed, hurried, boundVars>>

CallerStep ==
    Spawned \/ Await \/ Terminate \/ StopWaiting \/ Kill \/ Reap \/ ReapGivesUp
    \/ Return \/ CallerExits
GuardStep == GuardStarts \/ GuardReports \/ GuardTerminates \/ GuardKills
ProviderStep ==
    \/ CallerStep \/ GuardStep
    \/ Interrupt \/ CallerKilled \/ GuardLost
    \/ CliExits \/ ToolStartsOrEnds

-----------------------------------------------------------------------------
\* A call that hands its caller a result, an error of the guard included, has
\* left no process of its group behind, not even a tool that outlived its CLI.
FinishedCallLeavesNothing ==
    place = "off" /\ result # "interrupted" => ~GroupRuns

\* A running CLI is killed only after it has been sent SIGTERM, which alone ends
\* the tools it keeps in other sessions, unless an exception cut the clean-up
\* short; and the caller signals a group only while its guard is unreaped, since
\* the number may be another group's afterwards.
KillsInOrder ==
    [][ /\ cli = "running" /\ cli' = "killed" => termed \/ hurried
        /\ Terminate \/ Kill => guard # "reaped" ]_providerVars
=============================================================================
