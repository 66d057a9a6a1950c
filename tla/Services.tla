------------------------------ MODULE Services ------------------------------
(***************************************************************************)
(* Installing, replacing and removing one background worker: the function  *)
(* manage of worker_services.py, which drives launchctl and owns one plist *)
(* file per service.  launchd is external; it is modelled from how manage  *)
(* uses it.  A command may fail with or without effect, a booted-out       *)
(* worker may take its time to stop, the operator may interrupt a call,    *)
(* and a login loads whatever file is there.                               *)
(*                                                                         *)
(* One call runs at a time, and the two services have separate labels and  *)
(* files, so one label stands for both.  A definition is the content of    *)
(* the plist; only its identity matters.                                   *)
(***************************************************************************)
EXTENDS Naturals

CONSTANTS
    Managed,    \* plist contents that carry this config's identity
    Foreign,    \* a symlink, or content of another config or of nobody
    None,
    MaxCalls,   \* BOUND: calls of manage
    MaxFaults   \* BOUND: failed commands, time-outs, interrupts and logins

ASSUME ServicesAssumption ==
    /\ None \notin Managed \cup {Foreign} /\ Foreign \notin Managed
    /\ MaxCalls \in Nat /\ MaxFaults \in Nat

VARIABLES
    plist,       \* the service file, None if absent
    loaded,      \* the definition launchd has registered, None if absent
    stopping,    \* bootout was accepted, the worker is still stopping
    backups,     \* definitions saved in .plist.backup files
    pc,          \* where the call is, "idle" between calls
    wanted,      \* the definition to install, None for an uninstall
    old,         \* what _existing read when the call began
    registered,  \* whether the first probe found the service registered
    handling,    \* inside the except block of a failed installation
    report,      \* how the last call ended
    faults, calls

launchdVars == <<loaded, stopping>>
callVars    == <<wanted, old, registered>>
boundVars   == <<faults, calls>>
vars == <<plist, launchdVars, backups, pc, callVars, handling, report, boundVars>>

Reports == {"none", "untouched", "retained", "installed", "removed",
            "restored", "incomplete", "unsaved", "interrupted"}
Steps == {"idle", "check", "probe", "bootout", "wait", "write", "unlink",
          "bootstrap", "verify", "restore", "rebootstrap", "save"}

TypeOK ==
    /\ plist \in Managed \cup {Foreign, None}
    /\ loaded \in Managed \cup {Foreign, None}
    /\ backups \in SUBSET Managed
    /\ wanted \in Managed \cup {None} /\ old \in Managed \cup {Foreign, None}
    /\ stopping \in BOOLEAN /\ registered \in BOOLEAN /\ handling \in BOOLEAN
    /\ pc \in Steps /\ report \in Reports
    /\ faults \in 0..MaxFaults /\ calls \in 0..MaxCalls

\* The file may be there without a registration, and a registration without
\* its file (it was deleted by hand).
Init ==
    /\ plist \in Managed \cup {Foreign, None}
    /\ loaded \in IF plist = None THEN Managed \cup {None} ELSE {plist, None}
    /\ stopping = FALSE /\ backups = {}
    /\ pc = "idle" /\ wanted = None /\ old = None
    /\ registered = FALSE /\ handling = FALSE /\ report = "none"
    /\ faults = 0 /\ calls = 0

-----------------------------------------------------------------------------
Goto(step) == pc' = step /\ UNCHANGED report
End(how)   == pc' = "idle" /\ report' = how
Fault      == faults < MaxFaults /\ faults' = faults + 1 /\ UNCHANGED calls

\* An exception: the except block saves the old definition, and before it
\* the call just ends with the files as they are.
Abort == IF handling THEN Goto("save") ELSE End("retained")

\* The service is observed absent: restore, remove or write its file.
Absent == Goto(IF handling THEN "restore"
               ELSE IF wanted = None THEN "unlink" ELSE "write")

Begin(definition) ==
    /\ pc = "idle" /\ calls < MaxCalls
    /\ calls' = calls + 1
    /\ wanted' = definition /\ old' = plist
    /\ registered' = FALSE /\ handling' = FALSE
    /\ Goto("check")
    /\ UNCHANGED <<plist, launchdVars, backups, faults>>

\* _existing refuses a foreign file; an installation also checks the config,
\* the database, the script, its preflight and the rendered file.
Refuse ==
    /\ pc = "check" /\ (old = Foreign \/ wanted # None)
    /\ End("untouched")
    /\ UNCHANGED <<plist, launchdVars, backups, callVars, handling, boundVars>>

Accept ==
    /\ pc = "check" /\ old # Foreign
    /\ Goto("probe")
    /\ UNCHANGED <<plist, launchdVars, backups, callVars, handling, boundVars>>

\* registration() outside the except block; the ownership check.
Probe ==
    /\ pc = "probe" /\ ~handling
    /\ registered' = (loaded # None)
    /\ \/ loaded = None /\ Absent
       \/ loaded # None /\ old = None /\ End("untouched")
       \/ loaded # None /\ old # None /\ Goto("bootout")
    /\ UNCHANGED <<plist, launchdVars, backups, wanted, old, handling, boundVars>>

\* Faulty variant: the except block assumes the replacement never started.
ProbeAssumed ==
    /\ pc = "probe" /\ handling
    /\ Absent
    /\ UNCHANGED <<plist, launchdVars, backups, callVars, handling, boundVars>>

\* registration() in the except block, after an attempted bootstrap.
ProbeReplacement ==
    /\ pc = "probe" /\ handling
    /\ \/ loaded = None /\ Absent
       \/ loaded # None /\ Goto("bootout")
    /\ UNCHANGED <<plist, launchdVars, backups, callVars, handling, boundVars>>

\* launchctl print exits with neither 0 nor 113, or (before anything is
\* changed) the log directory cannot be made.
ProbeUnknown ==
    /\ pc \in {"probe", "wait"} /\ Fault
    /\ Abort
    /\ UNCHANGED <<plist, launchdVars, backups, callVars, handling>>

\* bootout returns while the worker may still be stopping.
Bootout ==
    /\ pc = "bootout" /\ loaded # None
    /\ stopping' = TRUE
    /\ Goto("wait")
    /\ UNCHANGED <<plist, loaded, backups, callVars, handling, boundVars>>

\* It fails when the worker has gone meanwhile, or for a reason of its own,
\* such as an operation already in progress.
BootoutFails ==
    /\ pc = "bootout"
    /\ \/ loaded = None /\ UNCHANGED <<stopping, boundVars>>
       \/ loaded # None /\ Fault /\ stopping' \in {stopping, TRUE}
    /\ Abort
    /\ UNCHANGED <<plist, loaded, backups, callVars, handling>>

\* Faulty variant: a bootout that returned is taken for an absent worker.
RemovedAtOnce ==
    /\ pc = "wait"
    /\ Absent
    /\ UNCHANGED <<plist, launchdVars, backups, callVars, handling, boundVars>>

\* wait_for_removal polls until print reports the service absent ...
Removed ==
    /\ pc = "wait" /\ loaded = None
    /\ Absent
    /\ UNCHANGED <<plist, launchdVars, backups, callVars, handling, boundVars>>

\* ... or until REMOVAL_TIMEOUT_SECONDS have passed.
RemovalTimeout ==
    /\ pc = "wait" /\ loaded # None /\ Fault
    /\ Abort
    /\ UNCHANGED <<plist, launchdVars, backups, callVars, handling>>

\* An uninstall removes the file if there was one.
Unlink ==
    /\ pc = "unlink"
    /\ \/ plist' = None /\ End("removed") /\ UNCHANGED boundVars
       \/ old # None /\ UNCHANGED plist /\ Fault /\ End("retained")
    /\ UNCHANGED <<launchdVars, backups, callVars, handling>>

\* _write_plist replaces the file atomically or leaves it; without an
\* attempted bootstrap the except block does not probe.
WritePlist ==
    /\ pc = "write"
    /\ \/ plist' = wanted /\ Goto("bootstrap") /\ UNCHANGED <<handling, boundVars>>
       \/ UNCHANGED plist /\ Fault /\ handling' = TRUE /\ Goto("restore")
    /\ UNCHANGED <<launchdVars, backups, callVars>>

\* launchctl bootstrap; a failure may have registered the service or not.
Bootstrap ==
    /\ pc = "bootstrap"
    /\ \/ /\ loaded = None /\ loaded' = plist
          /\ Goto("verify") /\ UNCHANGED <<handling, boundVars>>
       \/ /\ Fault /\ loaded' \in {loaded, plist}
          /\ handling' = TRUE /\ Goto("probe")
    /\ UNCHANGED <<plist, stopping, backups, callVars>>

Verify ==
    /\ pc = "verify"
    /\ \/ loaded # None /\ End("installed") /\ UNCHANGED <<handling, boundVars>>
       \/ Fault /\ handling' = TRUE /\ Goto("probe")
    /\ UNCHANGED <<plist, launchdVars, backups, callVars>>

\* The old file is put back, or the new one removed where there was none.
Restore ==
    /\ pc = "restore"
    /\ \/ /\ plist' = old /\ UNCHANGED boundVars
          /\ IF registered THEN Goto("rebootstrap") ELSE End("restored")
       \/ UNCHANGED plist /\ Fault /\ Goto("save")
    /\ UNCHANGED <<launchdVars, backups, callVars, handling>>

\* The prior registration: bootstrap and print, both without an error.
Rebootstrap ==
    /\ pc = "rebootstrap"
    /\ \/ loaded = None /\ loaded' = plist /\ End("restored") /\ UNCHANGED boundVars
       \/ loaded' \in {loaded, plist} /\ Fault /\ Goto("save")
    /\ UNCHANGED <<plist, stopping, backups, callVars, handling>>

\* The old definition is saved beside the file before the call gives up.
Save ==
    /\ pc = "save"
    /\ \/ /\ backups' = IF old = None THEN backups ELSE backups \cup {old}
          /\ End("incomplete") /\ UNCHANGED boundVars
       \/ /\ old # None /\ Fault
          /\ End("unsaved") /\ UNCHANGED backups
    /\ UNCHANGED <<plist, launchdVars, callVars, handling>>

\* Ctrl-C or a kill: no except block catches it.
Interrupt ==
    /\ pc # "idle" /\ Fault
    /\ End("interrupted")
    /\ UNCHANGED <<plist, launchdVars, backups, callVars, handling>>

-----------------------------------------------------------------------------
\* The booted-out worker has stopped.
Gone ==
    /\ stopping
    /\ loaded' = None /\ stopping' = FALSE
    /\ UNCHANGED <<plist, backups, pc, callVars, handling, report, boundVars>>

\* A restart or a new login: launchd loads the files it finds.
Login ==
    /\ Fault
    /\ loaded' = plist /\ stopping' = FALSE
    /\ IF pc = "idle" THEN Goto("idle") ELSE End("interrupted")
    /\ UNCHANGED <<plist, backups, callVars, handling>>

Next ==
    \/ \E definition \in Managed \cup {None} : Begin(definition)
    \/ Refuse \/ Accept
    \/ Probe \/ ProbeReplacement \/ ProbeUnknown
    \/ Bootout \/ BootoutFails
    \/ Removed \/ RemovalTimeout
    \/ Unlink \/ WritePlist \/ Bootstrap \/ Verify
    \/ Restore \/ Rebootstrap \/ Save
    \/ Interrupt \/ Gone \/ Login

Spec == Init /\ [][Next]_vars

-----------------------------------------------------------------------------
\* What the text of each report says about the file and the registration.
Told ==
    /\ report = "installed" => plist = wanted /\ loaded = wanted /\ ~stopping
    /\ report = "removed"   => plist = None /\ loaded = None
    /\ report = "restored"  => /\ plist = old /\ ~stopping
                               /\ loaded = IF registered THEN old ELSE None
    /\ report \in {"untouched", "retained"} => plist = old
    /\ report = "incomplete" => old \in {plist, None} \cup backups

\* When a call of manage ends, what it reports is so, whichever commands
\* failed on the way: the new service is registered, the prior state is back,
\* the prior file was retained, or the prior definition is still to be found
\* in the file or in a backup.  A kill reports nothing.
ReportIsTrue == [][pc # "idle" /\ pc' = "idle" => Told']_vars

\* A service file is replaced, restored or removed only while launchd has no
\* worker of the service, running or still stopping (the comment of
\* wait_for_removal: "Never bootstrap another worker or discard its service
\* file until absence is observed").
ReplacedOnlyWhenGone == [][plist' # plist => loaded = None]_vars
=============================================================================
