------------------------------- MODULE Nightly -------------------------------
(***************************************************************************)
(* The runs of the pipeline (pipeline.py, run_liveness.py, miner.py,       *)
(* queue_history.py) around the scan: a run first reaps the rows of runs   *)
(* whose process is gone, stores its own row, scans, mines the incidents   *)
(* that wait and ends its row.  It may be interrupted or die at any step,  *)
(* another run may go on beside it, and a job worker may draft a lesson    *)
(* from one of the incidents (incident_jobs.py), in a run of its own that  *)
(* a later worker process resumes.  Jobs models that worker in detail.     *)
(***************************************************************************)
EXTENDS Scan

CONSTANTS
    Workers,    \* processes of the job worker, one alive at a time
    Job         \* the run of the one draft job

ASSUME NightlyAssumption ==
    /\ IsFiniteSet(Workers)
    /\ Workers \cap Runs = {} /\ Job \notin Runs

VARIABLES
    run,        \* runs: status and recorded process, None before the insert
    judged,     \* the rows a run has found to be abandoned, as it read them
    queue,      \* incidents a run has still to mine
    receipts,   \* queue_processing: how many each incident has
    links,      \* incident_learnings: the incidents that name a learning
    draftOf,    \* incident_jobs: the incident of the draft, None before
    wpc         \* the worker processes

scanVars == <<transcriptVars, historyVars, scanRows, scannerVars, faults, commands>>
recordVars == <<run, judged>>
queueVars == <<queue, receipts, links>>
workerVars == <<draftOf, wpc>>
vars == <<scanVars, pc, recordVars, queueVars, workerVars>>

RunStatus == {"running", "ok", "error", "interrupted", "abandoned"}
Processes == Runs \cup Workers
RunRow == [status : RunStatus, owner : Processes]
RunIds == Runs \cup {Job}

ASSUME NoneIsNoRow == None \notin RunRow

Over == {"off", "ended"}
Living == {r \in Runs : pc[r] \notin Over} \cup {w \in Workers : wpc[w] \notin Over}

TypeOK ==
    /\ content \in [Files -> Seq(Line)] /\ written \in 0..MaxWrites
    /\ mtime \in [Files -> 0..MaxWrites] /\ rewritten \subseteq Files /\ torn \subseteq Files
    /\ session \in [Files -> SessionRow \cup {None}]
    /\ incident \in [Key -> IncidentStatus]
    /\ errors \in [Files -> Nat] /\ measured \in [Files -> SUBSET LineIds]
    /\ todo \in [Runs -> SUBSET Files] /\ file \in [Runs -> Files \cup {None}]
    /\ stat \in [Runs -> [Files -> [size : 0..MaxWrites, mtime : 0..MaxWrites]]]
    /\ read \in [Runs -> [row : SessionRow \cup {None}, lines : Seq(Line)]]
    /\ faults \in 0..MaxFaults /\ commands \in 0..MaxCommands
    /\ pc \in [Runs -> Over \cup {"reap", "scan", "parse", "publish", "mining"}]
    /\ run \in [RunIds -> RunRow \cup {None}]
    /\ judged \in [Runs -> SUBSET (RunIds \X Processes)]
    /\ queue \in [Runs -> SUBSET Key]
    /\ receipts \in [Key -> Nat] /\ links \subseteq Key
    /\ draftOf \in Key \cup {None}
    /\ wpc \in [Workers -> Over \cup {"idle", "drafting"}]

-----------------------------------------------------------------------------
Stop(r) ==
    /\ Goto(r, "ended")
    /\ judged' = [judged EXCEPT ![r] = {}]
    /\ queue' = [queue EXCEPT ![r] = {}]
    /\ Forget(r)

\* Run records.  A row is live while the process it records is.
Running(q) == run[q] # None /\ run[q].status = "running"

\* finalize_stale_runs judges every running row before it writes any.
Judge(r) ==
    /\ pc[r] = "off"
    /\ judged' = [judged EXCEPT ![r] =
                    {<<q, run[q].owner>> : q \in {p \in RunIds :
                        Running(p) /\ run[p].owner \notin Living}}]
    /\ Goto(r, "reap")
    /\ UNCHANGED run

\* Faulty variant: any running row that was judged, whoever owns it now.
JudgedOnce(r, q) == Running(q) /\ \E p \in Processes : <<q, p>> \in judged[r]

\* The update matches the row as judged: a worker may have resumed the run.
AsJudged(r, q) == Running(q) /\ <<q, run[q].owner>> \in judged[r]

Reaped(r) == [q \in RunIds |-> IF AsJudged(r, q)
                                THEN [run[q] EXCEPT !.status = "abandoned"] ELSE run[q]]

\* The updates are committed, the run's own row is inserted, and the scan lists
\* the transcripts; no other process can tell these apart.
Begin(r) ==
    /\ pc[r] = "reap"
    /\ run' = [Reaped(r) EXCEPT ![r] = [status |-> "running", owner |-> r]]
    /\ judged' = [judged EXCEPT ![r] = {}]
    /\ Discover(r)

End(r, status) == run' = [run EXCEPT ![r].status = status] /\ Stop(r)

-----------------------------------------------------------------------------
\* The mine stage takes the waiting incidents once, in an order and up to a
\* deadline or a budget that are left open.
Waiting == {i \in Key : incident[i] = "new"}

TakeQueue(r) ==
    /\ pc[r] = "scan" /\ todo[r] = {}
    /\ queue' = [queue EXCEPT ![r] = Waiting]
    /\ Goto(r, "mining")
    /\ UNCHANGED <<receipts, links, incident>>

\* set_processed_status: only the update that takes the incident off the queue
\* earns a receipt; a late one still replaces the status.
SetProcessed(i, status) ==
    /\ incident' = [incident EXCEPT ![i] = status]
    /\ receipts' = IF incident[i] = "new" THEN [receipts EXCEPT ![i] = @ + 1] ELSE receipts

\* The answer for one incident of that queue.  Whether the incident still waits
\* is not looked at again, and it may have been mined or deleted meanwhile.
Answered(r, i) ==
    /\ pc[r] = "mining" /\ i \in queue[r]
    /\ queue' = [queue EXCEPT ![r] = @ \ {i}]
    /\ UNCHANGED pc

\* An incident that a rescan has deleted is not updated.
Dismiss(r, i) ==
    /\ Answered(r, i)
    /\ IF incident[i] # "none" THEN SetProcessed(i, "dismissed")
                              ELSE UNCHANGED <<incident, receipts>>
    /\ UNCHANGED links

\* Faulty variant: the learning and its link are committed on their own.
LearnUnlinked(r, i) ==
    /\ Answered(r, i)
    /\ incident[i] # "none"
    /\ SetProcessed(i, "mined")
    /\ UNCHANGED links

Learn(r, i) ==
    /\ Answered(r, i)
    /\ incident[i] # "none"
    /\ links' = links \cup {i}
    /\ SetProcessed(i, "mined")

\* What is left in the queue then was past the deadline or the budget, or its
\* transaction was rolled back: the call failed, or the incident was deleted.
Finish(r) ==
    /\ pc[r] = "mining"
    /\ End(r, "ok")

-----------------------------------------------------------------------------
\* Faulty variant: an answer is rolled back for an exception, not for an
\* interrupt, so that the new status stays without its receipt.
LeavesAnswerPending(r) ==
    \/ UNCHANGED <<scanRows, torn, links>>
    \/ HalfPublished(r) /\ UNCHANGED links
    \/ \E i \in queue[r] :
         /\ pc[r] = "mining" /\ incident[i] # "none"
         /\ incident' = [incident EXCEPT ![i] = "mined"] /\ links' = links \cup {i}
         /\ UNCHANGED <<session, errors, measured, torn>>

\* What an exception that ends the run leaves uncommitted: part of a transcript,
\* which scan_all rolls back for an Exception only, and nothing of an answer,
\* which _persist_mine_payload rolls back whatever is raised.
LeavesPending(r) ==
    \/ UNCHANGED <<scanRows, torn, links>>
    \/ HalfPublished(r) /\ UNCHANGED links

\* run_pipeline's last handler stores the outcome and commits what is pending:
\* "interrupted", or "error" for an exception, which nothing here tells apart.
Interrupt(r) ==
    /\ pc[r] \notin Over \cup {"reap"}
    /\ Fault
    /\ End(r, "interrupted")
    /\ LeavesPending(r)

\* The process is killed; SQLite rolls its transaction back.
Crash(r) ==
    /\ pc[r] \notin Over
    /\ Fault
    /\ Stop(r)
    /\ UNCHANGED run

-----------------------------------------------------------------------------
\* The draft of one incident.
RequestDraft ==
    /\ draftOf = None
    /\ draftOf' \in Waiting
    /\ UNCHANGED wpc

StartWorker(w) ==
    /\ wpc[w] = "off" /\ \A v \in Workers : wpc[v] \in Over
    /\ wpc' = [wpc EXCEPT ![w] = "idle"]
    /\ UNCHANGED draftOf

\* run_next: the job's run gets its first row, or a new owner.
TakeJob(w) ==
    /\ wpc[w] = "idle" /\ draftOf # None
    /\ run[Job] # None => run[Job].status \in {"running", "abandoned"}
    /\ run' = [run EXCEPT ![Job] = [status |-> "running", owner |-> w]]
    /\ wpc' = [wpc EXCEPT ![w] = "drafting"]
    /\ UNCHANGED draftOf

EndJob(w, status) ==
    /\ run' = [run EXCEPT ![Job].status = status]
    /\ wpc' = [wpc EXCEPT ![w] = "idle"]
    /\ UNCHANGED draftOf

\* incident_jobs.persist refuses an incident handled since the preview.
SaveDraft(w) ==
    /\ wpc[w] = "drafting" /\ incident[draftOf] = "new"
    /\ \/ SetProcessed(draftOf, "dismissed") /\ UNCHANGED links
       \/ SetProcessed(draftOf, "mined") /\ links' = links \cup {draftOf}
    /\ EndJob(w, "ok")

RefuseDraft(w) ==
    /\ wpc[w] = "drafting"
    /\ EndJob(w, "error")

WorkerDies(w) ==
    /\ wpc[w] \notin Over
    /\ Fault
    /\ wpc' = [wpc EXCEPT ![w] = "ended"]
    /\ UNCHANGED draftOf

Referenced == links \cup {draftOf}

-----------------------------------------------------------------------------
Init ==
    /\ ScanInit
    /\ pc = [r \in Runs |-> "off"]
    /\ run = [q \in RunIds |-> None]
    /\ judged = [r \in Runs |-> {}]
    /\ queue = [r \in Runs |-> {}]
    /\ receipts = [i \in Key |-> 0] /\ links = {}
    /\ draftOf = None
    /\ wpc = [w \in Workers |-> "off"]

Transcript ==
    /\ \E f \in Files : CutLines(f) \/ \E k \in Kinds : WriteLine(f, k)
    /\ UNCHANGED <<torn, scanRows, scannerVars, faults, commands, pc, recordVars,
                   queueVars, workerVars>>

RecordStep(r) ==
    /\ \/ Judge(r) /\ UNCHANGED scannerVars
       \/ Begin(r)
    /\ UNCHANGED <<transcriptVars, historyVars, scanRows, faults, commands,
                   queueVars, workerVars>>

LookStep(r) ==
    /\ \/ Parse(r)
       \/ \E f \in Files : SkipUnchanged(r, f) \/ ReadSession(r, f)
    /\ UNCHANGED <<transcriptVars, historyVars, scanRows, faults, commands, recordVars,
                   queueVars, workerVars>>

StoreStep(r) ==
    /\ \/ Publish(r) /\ UNCHANGED faults
       \/ FailFile(r)
    /\ UNCHANGED <<transcriptVars, historyVars, commands, recordVars, queueVars, workerVars>>

MineStep(r) ==
    /\ TakeQueue(r) \/ \E i \in Key : Dismiss(r, i) \/ Learn(r, i)
    /\ UNCHANGED <<transcriptVars, historyVars, session, errors, measured, scannerVars,
                   faults, commands, recordVars, workerVars>>

EndStep(r) ==
    /\ \/ Finish(r) /\ UNCHANGED <<scanRows, torn, links, faults>>
       \/ Crash(r) /\ UNCHANGED <<scanRows, torn, links>>
       \/ Interrupt(r)
    /\ UNCHANGED <<transcriptVars, rewritten, commands, receipts, workerVars>>

RunStep(r) ==
    RecordStep(r) \/ LookStep(r) \/ StoreStep(r) \/ MineStep(r) \/ EndStep(r)

Operator ==
    /\ \E f \in Files : MarkForRescan(f, Referenced) \/ MarkForReverify(f)
    /\ UNCHANGED <<transcriptVars, torn, scannerVars, faults, pc, recordVars,
                   queueVars, workerVars>>

DraftStep ==
    /\ \/ (RequestDraft \/ \E w \in Workers : StartWorker(w))
             /\ UNCHANGED <<faults, incident, run, receipts, links>>
       \/ \E w \in Workers :
            \/ WorkerDies(w) /\ UNCHANGED <<incident, run, receipts, links>>
            \/ (TakeJob(w) \/ RefuseDraft(w)) /\ UNCHANGED <<faults, incident, receipts, links>>
            \/ SaveDraft(w) /\ UNCHANGED faults
    /\ UNCHANGED <<transcriptVars, historyVars, session, errors, measured, scannerVars,
                   commands, pc, judged, queue>>

Next == Transcript \/ Operator \/ DraftStep \/ \E r \in Runs : RunStep(r)

Spec == Init /\ [][Next]_vars

-----------------------------------------------------------------------------
\* A line that makes an incident makes one, however many runs read it, whether
\* it is read again after a cut, a rescan or a failure, and whatever has become
\* of the incident since (scan.py, the look before insert_incident).
IncidentOncePerLine ==
    \A f \in Files, id \in LineIds :
        Cardinality({r \in Runs : incident[<<f, id, r>>] # "none"}) <= 1

Consumed(f) == SubSeq(content[f], 1, session[f].bytes)

SignalsKnown(f) ==
    \A k \in DOMAIN Consumed(f) : Consumed(f)[k].kind = "signal" => Known(f, Consumed(f)[k].id)

Covered(f) ==
    session[f] # None =>
        /\ SignalsKnown(f)
        /\ Ids(Consumed(f)) \subseteq measured[f]
        /\ Cardinality(Of(Consumed(f), "error")) <= errors[f]

\* Nothing before the checkpoint of a transcript that only grows is lost: its
\* signals have incidents, its errors are counted, its lines are measured.  The
\* four tables move in one transaction per file (scan.py, _measure).  This is
\* said of two runs.  A third that fails half way can leave a projection behind
\* its checkpoint until the next scan, and with four an error count can miss a
\* line, if two of them have a transcript at hand at once of which a third had
\* consumed some; for signals the number of runs is no matter.
ConsumedIsDetected == \A f \in Files \ (rewritten \cup torn) : Covered(f)

\* The part of it about signals, which any number of runs keep.
SignalsDetected ==
    \A f \in Files \ (rewritten \cup torn) : session[f] # None => SignalsKnown(f)

\* The same when an interrupt comes inside that transaction: "a half-persisted
\* file never advances its resume offset" (scan.py, its introduction).
InterruptedIsDetected == \A f \in Files \ rewritten : Covered(f)

\* The queue's history adds up: an incident has left the queue exactly when one
\* miner, and only one, holds the receipt for it (queue_history.py), and no
\* interrupt comes between the two (miner.py, _persist_mine_payload).
LeftQueueWithOneReceipt ==
    \A i \in Key : incident[i] # "none" =>
        receipts[i] = IF incident[i] \in Handled THEN 1 ELSE 0

\* A mined incident names a learning, and no learning names an incident that a
\* rescan has deleted (miner.py's transaction, the keys of incident_learnings).
MinedHasLearning ==
    /\ \A i \in Key : incident[i] = "mined" => i \in links
    /\ \A i \in links : incident[i] # "none"

\* The reaper never abandons a run whose recorded process lives at that moment,
\* though it judged the row earlier (pipeline.py, finalize_stale_runs).
LiveRunIsNotAbandoned ==
    [][\A q \in RunIds : (Running(q) /\ run'[q] # None /\ run'[q].status = "abandoned")
                            => run[q].owner \notin Living]_vars
=============================================================================
