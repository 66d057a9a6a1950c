--------------------------- MODULE ServicesProofs ---------------------------
(***************************************************************************)
(* Proofs about Services: what manage reports is so, and a service file is *)
(* touched only while its worker is gone, for any set of definitions and   *)
(* any number of calls, failures, interrupts and logins.                   *)
(***************************************************************************)
EXTENDS Services, TLAPS

\* What each step of a call relies on: the file is still the one it read,
\* the service has been observed absent, the replacement is in place.
Progress ==
    /\ stopping = TRUE => loaded # None
    /\ pc \notin {"idle", "check"} => old # Foreign
    /\ pc \in {"check", "write", "unlink"} => handling = FALSE
    /\ pc \in {"check", "probe", "bootout", "wait", "write", "unlink"} /\ handling = FALSE
       => plist = old
    /\ pc \in {"write", "unlink", "restore"} => loaded = None
    /\ pc = "write" => wanted # None
    /\ pc = "bootstrap" => plist = wanted /\ loaded = None /\ wanted # None
    /\ pc = "verify" => plist = wanted /\ loaded = wanted /\ stopping = FALSE
    /\ pc = "rebootstrap" => plist = old /\ loaded = None /\ registered

IInv == TypeOK /\ Progress

\* Every service starts with a file and a registration the call can judge.
LEMMA InitIInv == Init => IInv
<1> SUFFICES ASSUME Init PROVE IInv
  OBVIOUS
<1> USE ServicesAssumption DEF Init
<1>1. stopping \in BOOLEAN /\ registered \in BOOLEAN /\ handling \in BOOLEAN
  OBVIOUS
<1>2. TypeOK
  BY <1>1 DEF TypeOK, Steps, Reports
<1>3. Progress
  BY DEF Progress
<1> QED
  BY <1>2, <1>3 DEF IInv

\* No step of a call, of launchd or of the operator breaks the invariant.
LEMMA NextIInv == IInv /\ [Next]_vars => IInv'
<1> SUFFICES ASSUME IInv, [Next]_vars PROVE IInv'
  OBVIOUS
<1> USE ServicesAssumption DEF IInv, TypeOK, Progress, Steps, Reports,
        Goto, End, Fault, Abort, Absent, vars, launchdVars, callVars, boundVars
<1>1. ASSUME NEW d \in Managed \cup {None}, Begin(d) PROVE IInv'
  <2>1. registered' \in BOOLEAN /\ handling' \in BOOLEAN
    BY <1>1 DEF Begin
  <2>2. TypeOK'
    BY <1>1, <2>1 DEF Begin
  <2>3. Progress'
    BY <1>1 DEF Begin
  <2> QED
    BY ONLY <2>2, <2>3 DEF IInv
<1>2. CASE Refuse
  BY <1>2 DEF Refuse
<1>3. CASE Accept
  BY <1>3 DEF Accept
<1>4. CASE Probe
  BY <1>4 DEF Probe
<1>5. CASE ProbeReplacement
  BY <1>5 DEF ProbeReplacement
<1>6. CASE ProbeUnknown
  BY <1>6 DEF ProbeUnknown
<1>7. CASE Bootout
  BY <1>7 DEF Bootout
<1>8. CASE BootoutFails
  <2>1. stopping' \in BOOLEAN
    <3>1. stopping' = stopping \/ stopping' = TRUE
      BY ONLY <1>8, Zenon DEF BootoutFails
    <3>2. CASE stopping' = stopping
      BY ONLY <3>2, TypeOK DEF TypeOK
    <3>3. CASE stopping' = TRUE
      BY ONLY <3>3
    <3> QED
      BY ONLY <3>1, <3>2, <3>3
  <2>2. TypeOK'
    <3>1. faults' \in 0..MaxFaults /\ calls' \in 0..MaxCalls
      <4>1. UNCHANGED boundVars \/ (loaded # None /\ Fault)
        BY ONLY <1>8, Zenon DEF BootoutFails
      <4> QED
        BY ONLY <4>1, TypeOK, ServicesAssumption DEF TypeOK, Fault, boundVars
    <3>2. pc' \in Steps /\ report' \in Reports
      BY <1>8 DEF BootoutFails
    <3>3. UNCHANGED <<plist, loaded, backups, callVars, handling>>
      BY ONLY <1>8 DEF BootoutFails
    <3> QED
      BY ONLY <2>1, <3>1, <3>2, <3>3, TypeOK DEF TypeOK, callVars
  <2>3. Progress'
    BY <1>8 DEF BootoutFails
  <2> QED
    BY ONLY <2>2, <2>3 DEF IInv
<1>9. CASE Removed
  BY <1>9 DEF Removed
<1>10. CASE RemovalTimeout
  BY <1>10 DEF RemovalTimeout
<1>11. CASE Unlink
  BY <1>11 DEF Unlink
<1>12. CASE WritePlist
  <2>1. handling' \in BOOLEAN
    BY <1>12 DEF WritePlist
  <2>2. TypeOK'
    BY <1>12, <2>1 DEF WritePlist
  <2>3. Progress'
    BY <1>12 DEF WritePlist
  <2> QED
    BY ONLY <2>2, <2>3 DEF IInv
<1>13. CASE Bootstrap
  <2>1. handling' \in BOOLEAN
    BY <1>13 DEF Bootstrap
  <2>2. TypeOK'
    BY <1>13, <2>1 DEF Bootstrap
  <2>3. Progress'
    BY <1>13 DEF Bootstrap
  <2> QED
    BY ONLY <2>2, <2>3 DEF IInv
<1>14. CASE Verify
  <2>1. handling' \in BOOLEAN
    BY <1>14 DEF Verify
  <2>2. TypeOK'
    BY <1>14, <2>1 DEF Verify
  <2>3. Progress'
    BY <1>14 DEF Verify
  <2> QED
    BY ONLY <2>2, <2>3 DEF IInv
<1>15. CASE Restore
  BY <1>15 DEF Restore
<1>16. CASE Rebootstrap
  BY <1>16 DEF Rebootstrap
<1>17. CASE Save
  BY <1>17 DEF Save
<1>18. CASE Interrupt
  BY <1>18 DEF Interrupt
<1>19. CASE Gone
  <2>1. stopping' \in BOOLEAN
    BY <1>19 DEF Gone
  <2>2. TypeOK'
    BY <1>19, <2>1 DEF Gone
  <2>3. Progress'
    BY <1>19 DEF Gone
  <2> QED
    BY ONLY <2>2, <2>3 DEF IInv
<1>20. CASE Login
  <2>1. stopping' \in BOOLEAN
    BY <1>20 DEF Login
  <2>2. TypeOK'
    BY <1>20, <2>1 DEF Login
  <2>3. Progress'
    BY <1>20 DEF Login
  <2> QED
    BY ONLY <2>2, <2>3 DEF IInv
<1>21. CASE UNCHANGED vars
  BY <1>21
<1> QED
  BY <1>1, <1>2, <1>3, <1>4, <1>5, <1>6, <1>7, <1>8, <1>9, <1>10, <1>11,
     <1>12, <1>13, <1>14, <1>15, <1>16, <1>17, <1>18, <1>19, <1>20, <1>21
     DEF Next

\* The invariant holds in every state of every behaviour.
THEOREM IInvHolds == Spec => []IInv
<1>1. Init => IInv
  BY InitIInv
<1>2. IInv /\ [Next]_vars => IInv'
  BY NextIInv
<1> QED
  BY <1>1, <1>2, PTL DEF Spec

\* The files, the registration and the call keep their types.
THEOREM TypesHold == Spec => []TypeOK
<1>1. IInv => TypeOK
  BY DEF IInv
<1> QED
  BY <1>1, IInvHolds, PTL

\* A step that ends a call leaves what the report says.
LEMMA StepTells ==
    IInv /\ [Next]_vars => (pc # "idle" /\ pc' = "idle" => Told')
<1> SUFFICES ASSUME IInv, [Next]_vars, pc # "idle", pc' = "idle" PROVE Told'
  OBVIOUS
<1> USE ServicesAssumption DEF IInv, TypeOK, Progress, Steps, Told,
        Goto, End, Fault, Abort, Absent, vars, launchdVars, callVars, boundVars
<1>1. CASE Refuse \/ Probe \/ ProbeUnknown \/ BootoutFails \/ RemovalTimeout
  BY <1>1 DEF Refuse, Probe, ProbeUnknown, BootoutFails, RemovalTimeout
<1>2. CASE Unlink \/ Verify
  BY <1>2 DEF Unlink, Verify
<1>3. CASE Restore \/ Rebootstrap
  BY <1>3 DEF Restore, Rebootstrap
<1>4. CASE Save
  BY <1>4 DEF Save
<1>5. CASE Interrupt \/ Login
  BY <1>5 DEF Interrupt, Login
<1>6. ~(Accept \/ ProbeReplacement \/ Bootout \/ Removed \/ WritePlist \/ Bootstrap
        \/ Gone \/ UNCHANGED vars)
  BY DEF Accept, ProbeReplacement, Bootout, Removed, WritePlist, Bootstrap, Gone
<1>7. ASSUME NEW d \in Managed \cup {None}, Begin(d) PROVE FALSE
  BY <1>7 DEF Begin
<1> QED
  BY <1>1, <1>2, <1>3, <1>4, <1>5, <1>6, <1>7 DEF Next

\* Whatever fails on the way, the report of a call of manage is true.
THEOREM ReportsAreTrue == Spec => ReportIsTrue
<1>1. IInv /\ [Next]_vars => [pc # "idle" /\ pc' = "idle" => Told']_vars
  BY StepTells
<1> QED
  BY <1>1, IInvHolds, PTL DEF Spec, ReportIsTrue

\* A file is changed only by steps that follow an observed absence.
LEMMA StepReplacesWhenGone ==
    IInv /\ [Next]_vars => (plist' # plist => loaded = None)
<1> SUFFICES ASSUME IInv, [Next]_vars, plist' # plist PROVE loaded = None
  OBVIOUS
<1>1. CASE Unlink \/ WritePlist \/ Restore
  BY <1>1 DEF IInv, Progress, Unlink, WritePlist, Restore
<1>2. ~(Refuse \/ Accept \/ Probe \/ ProbeReplacement \/ ProbeUnknown \/ Bootout)
  BY DEF Refuse, Accept, Probe, ProbeReplacement, ProbeUnknown, Bootout
<1>3. ~(BootoutFails \/ Removed \/ RemovalTimeout \/ Bootstrap \/ Verify
        \/ Rebootstrap \/ Save \/ Interrupt \/ Gone \/ Login \/ UNCHANGED vars)
  BY DEF BootoutFails, Removed, RemovalTimeout, Bootstrap, Verify, Rebootstrap,
         Save, Interrupt, Gone, Login, vars
<1>4. ASSUME NEW d \in Managed \cup {None}, Begin(d) PROVE FALSE
  BY <1>4 DEF Begin
<1> QED
  BY <1>1, <1>2, <1>3, <1>4 DEF Next

\* No file is replaced or removed under a worker that may still be running.
THEOREM FilesOutliveWorkers == Spec => ReplacedOnlyWhenGone
<1>1. IInv /\ [Next]_vars => [plist' # plist => loaded = None]_vars
  BY StepReplacesWhenGone
<1> QED
  BY <1>1, IInvHolds, PTL DEF Spec, ReplacedOnlyWhenGone
=============================================================================
