-------------------------------- MODULE Scan --------------------------------
(***************************************************************************)
(* The incremental scan (scan.py, scan_observations.py, the transcript     *)
(* sources).  An assistant appends lines to a transcript while runs read   *)
(* it: a run takes the size of every transcript, then for each one reads   *)
(* its session row, reads the lines behind the row's checkpoint, and       *)
(* publishes the new row, the incidents, the error counts and the measured *)
(* projection in one transaction.  Nothing keeps two runs, or a run and a  *)
(* rescan command, apart but the write lock of that transaction.           *)
(* Lengths are counted in terminated lines: an unterminated last line is   *)
(* never consumed, and finishing it changes the modification time.         *)
(***************************************************************************)
EXTENDS Integers, FiniteSets, Sequences

CONSTANTS
    Files,        \* transcripts
    Runs,         \* pipeline runs; each is one process and makes one scan
    None,
    MaxWrites,    \* BOUND: changes made to the transcripts
    MaxFaults,    \* BOUND: files whose scan raises, interrupts, processes that die
    MaxCommands   \* BOUND: rescan and reverify commands

ASSUME ScanAssumption ==
    /\ IsFiniteSet(Files) /\ IsFiniteSet(Runs)
    /\ MaxWrites \in Nat /\ MaxFaults \in Nat /\ MaxCommands \in Nat

VARIABLES
    content,    \* the terminated lines of each transcript
    mtime,      \* its modification time: the change that set it, 0 if no file yet
    written,    \* changes so far; also numbers the lines
    rewritten,  \* history: transcripts cut down, or rescanned while a run read them
    torn,       \* history: transcripts whose transaction an interrupt has cut
    session,    \* sessions, None before the first scan
    incident,   \* status of the incident a run made of a line
    errors,     \* error_fingerprints.count_in_session, of one fingerprint
    measured,   \* the lines of the active projection in scan_lines
    pc,
    stat,       \* discover(): size and modification time of each transcript
    todo,       \* transcripts the run has not come to yet
    file,       \* the transcript it is at
    read,       \* the session row it read, and the lines it then parsed
    faults,
    commands

transcriptVars == <<content, mtime, written>>
historyVars == <<rewritten, torn>>
scanRows == <<session, incident, errors, measured>>
scannerVars == <<stat, todo, file, read>>

LineIds == 1..MaxWrites
Kinds == {"signal", "error", "malformed"}
Line == [id : LineIds, kind : Kinds]

\* A sessions row: lines consumed, the size and time it was taken at, status.
SessionRow == [bytes : 0..MaxWrites, size : 0..MaxWrites, mtime : 0..MaxWrites,
               status : {"ok", "partial", "error"}]

\* An incident is named by its transcript, the line it was detected on and the
\* run that stored it.
Key == Files \X LineIds \X Runs
Handled == {"mined", "dismissed"}
IncidentStatus == {"none", "new"} \cup Handled

Ids(lines) == {lines[k].id : k \in DOMAIN lines}
Of(lines, kind) == {lines[k].id : k \in {j \in DOMAIN lines : lines[j].kind = kind}}

-----------------------------------------------------------------------------
\* The assistant writes its transcript, or cuts it down and writes on.
WriteLine(f, k) ==
    /\ written < MaxWrites
    /\ written' = written + 1
    /\ content' = [content EXCEPT ![f] = Append(@, [id |-> written', kind |-> k])]
    /\ mtime' = [mtime EXCEPT ![f] = written']
    /\ UNCHANGED rewritten

CutLines(f) ==
    /\ written < MaxWrites /\ content[f] # <<>>
    /\ written' = written + 1
    /\ \E n \in 0..(Len(content[f]) - 1) :
         content' = [content EXCEPT ![f] = SubSeq(@, 1, n)]
    /\ mtime' = [mtime EXCEPT ![f] = written']
    /\ rewritten' = rewritten \cup {f}

-----------------------------------------------------------------------------
Goto(r, label) == pc' = [pc EXCEPT ![r] = label]

NoStat == [f \in Files |-> [size |-> 0, mtime |-> 0]]

Discover(r) ==
    /\ stat' = [stat EXCEPT ![r] =
                  [f \in Files |-> [size |-> Len(content[f]), mtime |-> mtime[f]]]]
    /\ todo' = [todo EXCEPT ![r] = {f \in Files : mtime[f] > 0}]
    /\ Goto(r, "scan")
    /\ UNCHANGED <<file, read>>

Unchanged(r, f) ==
    /\ session[f] # None
    /\ session[f].mtime = stat[r][f].mtime /\ session[f].size = stat[r][f].size

SkipUnchanged(r, f) ==
    /\ pc[r] = "scan" /\ f \in todo[r] /\ Unchanged(r, f)
    /\ todo' = [todo EXCEPT ![r] = @ \ {f}]
    /\ UNCHANGED <<pc, stat, file, read>>

ReadSession(r, f) ==
    /\ pc[r] = "scan" /\ f \in todo[r] /\ ~Unchanged(r, f)
    /\ file' = [file EXCEPT ![r] = f]
    /\ read' = [read EXCEPT ![r] = [row |-> session[f], lines |-> <<>>]]
    /\ Goto(r, "parse")
    /\ UNCHANGED <<stat, todo>>

\* The row as it was read, which another run may have replaced since.
Existing(r) == read[r].row
Size(r) == stat[r][file[r]].size

\* _scan_one: the offset to resume at; a shorter file is read again in full.
Start(r) == IF Existing(r) = None \/ Size(r) < Existing(r).bytes
            THEN 0 ELSE Existing(r).bytes
Resumed(r) == Start(r) > 0

Parse(r) ==
    /\ pc[r] = "parse"
    /\ LET text == content[file[r]]
       IN read' = [read EXCEPT ![r].lines = SubSeq(text, Start(r) + 1, Len(text))]
    /\ Goto(r, "publish")
    /\ UNCHANGED <<stat, todo, file>>

-----------------------------------------------------------------------------
\* Faulty variant: the end of what was read, an offset in the file, is added.
ScannedTwice(r) ==
    [bytes |-> Start(r) + Start(r) + Len(read[r].lines), size |-> Size(r),
     mtime |-> stat[r][file[r]].mtime, status |-> "ok"]

\* The transaction of one file.  Its first statement is the session row's
\* upsert, which takes the write lock: what follows reads settled rows.
\* A clean tail cannot clear the errors of a prefix it did not read.
ScannedRow(r) ==
    [bytes |-> Start(r) + Len(read[r].lines),
     size |-> Size(r),
     mtime |-> stat[r][file[r]].mtime,
     status |-> IF \/ Of(read[r].lines, "malformed") # {}
                   \/ Resumed(r) /\ Existing(r).status = "partial"
                THEN "partial" ELSE "ok"]

\* Faulty variant: only incidents that still wait for the miner are looked for.
KnownWaiting(f, id) == \E r \in Runs : incident[<<f, id, r>>] = "new"

\* An incident of this line exists in ANY status: mined ones carry links.
Known(f, id) == \E r \in Runs : incident[<<f, id, r>>] # "none"

Detected(r) == {<<file[r], id, r>> : id \in {i \in Of(read[r].lines, "signal") :
                                                ~Known(file[r], i)}}

\* A read of a known file from its start replaces the counts, others add up.
ErrorCount(r) ==
    (IF Existing(r) # None /\ ~Resumed(r) THEN 0 ELSE errors[file[r]])
        + Cardinality(Of(read[r].lines, "error"))

\* _measure_file: a resumed scan reads the file again from its first line.
Projection(r) == Ids(IF Resumed(r) THEN content[file[r]] ELSE read[r].lines)

StoreIncidents(new) ==
    incident' = [i \in Key |-> IF i \in new THEN "new" ELSE incident[i]]

Unread == [row |-> None, lines |-> <<>>]

NextFile(r) ==
    /\ todo' = [todo EXCEPT ![r] = @ \ {file[r]}]
    /\ file' = [file EXCEPT ![r] = None]
    /\ read' = [read EXCEPT ![r] = Unread]
    /\ Goto(r, "scan")
    /\ UNCHANGED stat

\* Faulty variant: the checkpoint is the size of the file, not what was read.
PublishWholeFile(r) ==
    LET f == file[r]
    IN  /\ pc[r] = "publish"
        /\ session' = [session EXCEPT ![f] = [ScannedRow(r) EXCEPT !.bytes = Len(content[f])]]
        /\ StoreIncidents(Detected(r))
        /\ errors' = [errors EXCEPT ![f] = ErrorCount(r)]
        /\ measured' = [measured EXCEPT ![f] = Projection(r)]
        /\ NextFile(r)

Publish(r) ==
    LET f == file[r]
    IN  /\ pc[r] = "publish"
        /\ session' = [session EXCEPT ![f] = ScannedRow(r)]
        /\ StoreIncidents(Detected(r))
        /\ errors' = [errors EXCEPT ![f] = ErrorCount(r)]
        /\ measured' = [measured EXCEPT ![f] = Projection(r)]
        /\ NextFile(r)

\* What an interrupt inside that transaction leaves for the run's last commit:
\* the session row, the first incidents, and nothing measured yet.
HalfPublished(r) ==
    /\ pc[r] = "publish"
    /\ session' = [session EXCEPT ![file[r]] = ScannedRow(r)]
    /\ \E last \in 0..MaxWrites :
         StoreIncidents({i \in Detected(r) : i[2] <= last})
    /\ torn' = torn \cup {file[r]}
    /\ UNCHANGED <<errors, measured>>

Fault == faults < MaxFaults /\ faults' = faults + 1

\* _record_file_error: after the rollback, a row that the next scan retries.
\* It is written from the row as it was read.
ErrorRow(r) ==
    IF Existing(r) = None
    THEN [bytes |-> 0, size |-> 0, mtime |-> 0, status |-> "error"]
    ELSE [Existing(r) EXCEPT !.mtime = 0, !.status = "error"]

FailFile(r) ==
    /\ pc[r] \in {"parse", "publish"}
    /\ Fault
    /\ session' = [session EXCEPT ![file[r]] = ErrorRow(r)]
    /\ NextFile(r)
    /\ UNCHANGED <<incident, errors, measured>>

-----------------------------------------------------------------------------
Reading(f) == \E r \in Runs : pc[r] \in {"parse", "publish"} /\ file[r] = f

Command == commands < MaxCommands /\ commands' = commands + 1

Reset(f) == [session[f] EXCEPT !.bytes = 0, !.mtime = 0]

\* mark_for_rescan.  referenced: incidents that a draft or a learning names,
\* whose deletion the foreign keys refuse together with the whole command.
MarkForRescan(f, referenced) ==
    LET dropped == {i \in Key : i[1] = f /\ incident[i] \in {"new", "dismissed"}}
    IN  /\ Command /\ session[f] # None
        /\ dropped \cap referenced = {}
        /\ incident' = [i \in Key |-> IF i \in dropped THEN "none" ELSE incident[i]]
        /\ session' = [session EXCEPT ![f] = Reset(f)]
        /\ rewritten' = IF Reading(f) THEN rewritten \cup {f} ELSE rewritten
        /\ UNCHANGED <<errors, measured>>

\* mark_partial_for_reverify: every incident stays.
MarkForReverify(f) ==
    /\ Command /\ session[f] # None /\ session[f].status = "partial"
    /\ session' = [session EXCEPT ![f] = Reset(f)]
    /\ UNCHANGED <<incident, errors, measured, rewritten>>

\* The locals of a run that is over.
Forget(r) ==
    /\ stat' = [stat EXCEPT ![r] = NoStat]
    /\ todo' = [todo EXCEPT ![r] = {}]
    /\ file' = [file EXCEPT ![r] = None]
    /\ read' = [read EXCEPT ![r] = Unread]

ScanInit ==
    /\ content = [f \in Files |-> <<>>]
    /\ mtime = [f \in Files |-> 0]
    /\ written = 0 /\ rewritten = {} /\ torn = {}
    /\ session = [f \in Files |-> None]
    /\ incident = [i \in Key |-> "none"]
    /\ errors = [f \in Files |-> 0]
    /\ measured = [f \in Files |-> {}]
    /\ stat = [r \in Runs |-> NoStat]
    /\ todo = [r \in Runs |-> {}]
    /\ file = [r \in Runs |-> None]
    /\ read = [r \in Runs |-> Unread]
    /\ faults = 0 /\ commands = 0
=============================================================================
