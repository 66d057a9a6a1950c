------------------------------ MODULE Delivery ------------------------------
(***************************************************************************)
(* Delivery of reviewed instruction edits: the operator approves a         *)
(* selection of proposals (commands.py), a worker writes each target       *)
(* (apply.py, execute_next_command) and the operator retries, cancels or   *)
(* rejects meanwhile.  Three kinds of actor share the state database and   *)
(* the places of Destinations: the web process, which only records         *)
(* decisions; the workers (service, nightly run and CLI), which take one   *)
(* file lock in turn and may die at any step; and the operator's editor    *)
(* and git, which take no lock at all.                                     *)
(***************************************************************************)
EXTENDS Destinations

CONSTANTS
    Commands,    \* command identifiers; a smaller one was created earlier
    DestOf,      \* proposal -> the destination its edit is for
    LessonOf,    \* proposal -> the learning it came from
    Workers,
    NoWorker,
    None,
    MaxFaults,   \* BOUND: crashes and failed calls in a behaviour
    MaxRetries   \* BOUND: retry controls in a behaviour

ASSUME DeliveryAssumption ==
    /\ Commands \subseteq Nat /\ Commands # {}
    /\ DestOf \in [Proposals -> Dests]
    /\ DOMAIN LessonOf = Proposals
    /\ NoWorker \notin Workers
    /\ None \notin DeliveryRecord \cup Commands \cup Dests
    /\ MaxFaults \in Nat /\ MaxRetries \in Nat

VARIABLES
    cmdState,   \* commands.state, "none" before the command exists
    cancelReq,  \* commands.cancel_requested
    rowState,   \* command_targets.state, one row per command and destination
    members,    \* the proposals a row delivers (command_members)
    preview,    \* the before-content the reviewer saw (review_preview)
    delivery,   \* the prepared delivery in checkpoint_json, or None
    pstatus,    \* proposals.status
    rejLesson,  \* lessons rejected everywhere
    rejTarget,  \* <<lesson, destination>> pairs rejected there only
    writeLock,  \* holder of instruction-write.lock
    txn,        \* worker inside the BEGIN IMMEDIATE that spans a write
    pc, job, todo, cur, failAs,  \* a worker's place, command and targets
    published,  \* history: rows whose edit this program has put in place
    faults, retries

commandVars == <<cmdState, cancelReq>>
rowVars == <<rowState, members, preview, delivery>>
decisionVars == <<pstatus, rejLesson, rejTarget>>
workerVars == <<writeLock, txn, pc, job, todo, cur, failAs>>
boundVars == <<faults, retries>>
vars == <<worldVars, commandVars, rowVars, decisionVars, workerVars,
          published, boundVars>>

-----------------------------------------------------------------------------
Rows == Commands \X Dests
RowsOf(c) == {r \in Rows : r[1] = c}
RowDest(r) == r[2]

Finished == {"completed", "cancelled"}
Stopped == {"blocked", "failed"}
Claimable == {"queued", "running"}
RowStates == {"none"} \cup Claimable \cup Stopped \cup Finished

\* A prepared row that is neither acknowledged nor proved unwritten.
Unreconciled(r) == delivery[r] # None /\ rowState[r] \notin Finished

\* rejection_reason: a lesson is rejected everywhere, or at one destination.
Suppressed(p) ==
    \/ LessonOf[p] \in rejLesson
    \/ <<LessonOf[p], DestOf[p]>> \in rejTarget

Waiting(p) == pstatus[p] = "undecided" /\ ~Suppressed(p)

\* _authorized_members: every member still carries the approval.
Authorized(r) ==
    \A p \in members[r] : pstatus[p] = "approved_user" /\ ~Suppressed(p)

\* The two reasons a worker drops an unwritten row.
Withdrawn(r) == cancelReq[r[1]] \/ \E p \in members[r] : Suppressed(p)

-----------------------------------------------------------------------------
\* The web process.  Each request is one write transaction, so none commits
\* while a worker holds the transaction around its write.

\* A target preview is ready when the selected edits apply and change it.
PreviewReady(d, chosen) == chosen \cap ReadDestination(d).rules = {}

NewCommand(c) == /\ cmdState[c] = "none"
                 /\ \A b \in Commands : b < c => cmdState[b] # "none"

Approve(c, selection) ==
    LET chosen == [d \in Dests |-> {p \in selection : DestOf[p] = d}]
        Opened(r) == r[1] = c /\ chosen[RowDest(r)] # {}
    IN  /\ txn = NoWorker
        /\ NewCommand(c)
        /\ selection # {}
        /\ \A p \in selection : Waiting(p)
        /\ \A d \in Dests : PreviewReady(d, chosen[d])
        /\ cmdState' = [cmdState EXCEPT ![c] = "queued"]
        /\ rowState' = [r \in Rows |-> IF Opened(r) THEN "queued" ELSE rowState[r]]
        /\ members' = [r \in Rows |-> IF Opened(r) THEN chosen[RowDest(r)] ELSE members[r]]
        /\ preview' = [r \in Rows |-> IF Opened(r) THEN ReadDestination(RowDest(r))
                                      ELSE preview[r]]
        /\ pstatus' = [p \in Proposals |-> IF p \in selection THEN "approved_user"
                                           ELSE pstatus[p]]
        /\ UNCHANGED <<worldVars, cancelReq, delivery, rejLesson, rejTarget,
                       workerVars, published, boundVars>>

\* rejections.record: every undecided or approved proposal it now suppresses.
RejectAll(affected) ==
    pstatus' = [p \in Proposals |->
        IF p \in affected /\ pstatus[p] \in {"undecided", "approved_user"}
        THEN "rejected_user" ELSE pstatus[p]]

RejectTarget(p) ==
    /\ txn = NoWorker
    /\ Waiting(p)
    /\ rejTarget' = rejTarget \cup {<<LessonOf[p], DestOf[p]>>}
    /\ RejectAll({q \in Proposals : LessonOf[q] = LessonOf[p] /\ DestOf[q] = DestOf[p]})
    /\ UNCHANGED <<worldVars, commandVars, rowVars, rejLesson, workerVars,
                   published, boundVars>>

RejectLesson(p) ==
    /\ txn = NoWorker
    /\ LessonOf[p] \notin rejLesson
    /\ rejLesson' = rejLesson \cup {LessonOf[p]}
    /\ RejectAll({q \in Proposals : LessonOf[q] = LessonOf[p]})
    /\ UNCHANGED <<worldVars, commandVars, rowVars, rejTarget, workerVars,
                   published, boundVars>>

\* submit_control: requeue what stopped, and keep a running command running.
Requeue(c) ==
    /\ cmdState' = [cmdState EXCEPT ![c] = IF @ = "running" THEN @ ELSE "queued"]
    /\ rowState' = [r \in Rows |->
           IF r[1] = c /\ rowState[r] \in Stopped THEN "queued" ELSE rowState[r]]

RetryDelivery(c) ==
    /\ txn = NoWorker
    /\ cmdState[c] \in Stopped
    /\ retries < MaxRetries
    /\ retries' = retries + 1
    /\ Requeue(c)
    /\ UNCHANGED <<worldVars, cancelReq, members, preview, delivery,
                   decisionVars, workerVars, published, faults>>

CancelDelivery(c) ==
    /\ txn = NoWorker
    /\ cmdState[c] \in Claimable \cup Stopped
    /\ ~cancelReq[c]
    /\ \E r \in RowsOf(c) : rowState[r] \notin Finished \cup {"none"}
    /\ cancelReq' = [cancelReq EXCEPT ![c] = TRUE]
    /\ Requeue(c)
    /\ UNCHANGED <<worldVars, members, preview, delivery, decisionVars,
                   workerVars, published, boundVars>>

Web ==
    \/ \E c \in Commands :
        \/ \E selection \in SUBSET Proposals : Approve(c, selection)
        \/ RetryDelivery(c)
        \/ CancelDelivery(c)
    \/ \E p \in Proposals : RejectTarget(p) \/ RejectLesson(p)

-----------------------------------------------------------------------------
\* The worker.
Row(w) == <<job[w], cur[w]>>

Goto(w, label) == pc' = [pc EXCEPT ![w] = label]

\* Running commands first: a dead worker's command is reconciled before any
\* new one starts.  The rows still to do are those of this one reading.
\* (Faulty variant: only queued commands are looked for.)
NextQueuedCommand(c) ==
    /\ cmdState[c] = "queued"
    /\ \A b \in Commands : cmdState[b] = "queued" => c <= b

NextCommand(c) ==
    /\ cmdState[c] \in Claimable
    /\ \A b \in Commands :
        /\ cmdState[b] = "running" => cmdState[c] = "running"
        /\ cmdState[b] = cmdState[c] => c <= b

Claim(w) ==
    /\ pc[w] = "idle"
    /\ writeLock = NoWorker
    /\ \E c \in Commands :
        /\ NextCommand(c)
        /\ cmdState' = [cmdState EXCEPT ![c] = "running"]
        /\ job' = [job EXCEPT ![w] = c]
        /\ todo' = [todo EXCEPT ![w] = {d \in Dests : rowState[<<c, d>>] \in Claimable}]
    /\ writeLock' = w
    /\ Goto(w, "target")
    /\ UNCHANGED <<worldVars, cancelReq, rowVars, decisionVars, txn, cur,
                   failAs, published, boundVars>>

\* _cancel_unwritten_target: give the members that are still approved back to
\* review; a later decision about any of them stands.
\* (Faulty variant: the members keep an approval nothing will deliver.)
CancelRowOnly(r) ==
    /\ rowState' = [rowState EXCEPT ![r] = "cancelled"]
    /\ UNCHANGED <<members, preview, delivery, decisionVars>>

CancelUnwritten(r) ==
    /\ rowState' = [rowState EXCEPT ![r] = "cancelled"]
    /\ pstatus' = [p \in Proposals |->
           IF p \in members[r] /\ pstatus[p] = "approved_user"
           THEN "undecided" ELSE pstatus[p]]
    /\ UNCHANGED <<members, preview, delivery, rejLesson, rejTarget>>

\* Faulty variant: a prepared row is believed to be written.
TrustTarget(w) ==
    /\ pc[w] = "target"
    /\ \E d \in todo[w] :
        /\ todo' = [todo EXCEPT ![w] = @ \ {d}]
        /\ cur' = [cur EXCEPT ![w] = d]
        /\ Goto(w, IF delivery[<<job[w], d>>] # None THEN "acknowledge" ELSE "prepare")
    /\ UNCHANGED <<worldVars, commandVars, rowVars, decisionVars, writeLock,
                   txn, job, failAs, published, boundVars>>

\* Take one target of the reading; a prepared one goes straight to observing.
StartTarget(w) ==
    /\ pc[w] = "target"
    /\ \E d \in todo[w] :
        LET r == <<job[w], d>>
        IN  /\ todo' = [todo EXCEPT ![w] = @ \ {d}]
            /\ cur' = [cur EXCEPT ![w] = d]
            /\ \/ /\ delivery[r] # None
                  /\ Goto(w, "observe")
                  /\ UNCHANGED <<rowVars, decisionVars>>
               \/ /\ delivery[r] = None
                  /\ cancelReq[job[w]]
                  /\ CancelUnwritten(r)
                  /\ UNCHANGED pc
               \/ /\ delivery[r] = None
                  /\ ~cancelReq[job[w]]
                  /\ Goto(w, "prepare")
                  /\ UNCHANGED <<rowVars, decisionVars>>
    /\ UNCHANGED <<worldVars, commandVars, writeLock, txn, job, failAs,
                   published, boundVars>>

\* Faulty variant: an outcome that is not a state of the table.
FailUnnamed(w, state) ==
    /\ Goto(w, "failing")
    /\ failAs' = [failAs EXCEPT ![w] = "error"]
    /\ txn' = NoWorker

\* An exception of the target: its transaction rolls back, and a separate
\* transaction records the outcome (RecordFailure).
Fail(w, state) ==
    /\ Goto(w, "failing")
    /\ failAs' = [failAs EXCEPT ![w] = state]
    /\ txn' = NoWorker

\* Faulty variant: only running rows count.
RunningResourceBusy(r) ==
    \E q \in Rows \ {r} :
        /\ delivery[q] # None /\ rowState[q] = "running"
        /\ ResourceOf[RowDest(q)] = ResourceOf[RowDest(r)]

\* _refuse_unreconciled_delivery: one open write per file or branch.
ResourceBusy(r) ==
    \E q \in Rows \ {r} :
        /\ Unreconciled(q)
        /\ ResourceOf[RowDest(q)] = ResourceOf[RowDest(r)]

\* What preparation demands of the members and of the destination.
Preparable(r) ==
    /\ Authorized(r)
    /\ ReadDestination(RowDest(r)) = preview[r]
    /\ ~BranchCheckedOut(RowDest(r))

PrepareRefused(w) ==
    /\ pc[w] = "prepare"
    /\ Withdrawn(Row(w)) \/ Preparable(Row(w)) => ResourceBusy(Row(w))
    /\ Fail(w, "blocked")
    /\ UNCHANGED <<worldVars, commandVars, rowVars, decisionVars, writeLock,
                   job, todo, cur, published, boundVars>>

PrepareWithdrawn(w) ==
    /\ pc[w] = "prepare"
    /\ ~ResourceBusy(Row(w))
    /\ Withdrawn(Row(w))
    /\ CancelUnwritten(Row(w))
    /\ Goto(w, "target")
    /\ UNCHANGED <<worldVars, commandVars, writeLock, txn, job, todo, cur,
                   failAs, published, boundVars>>

\* _prepare_command_delivery: the durable record, before any file or ref.
PrepareDelivery(w) ==
    LET r == Row(w)
        d == RowDest(r)
        dlv == PreparedRecord(d, members[r])
    IN  /\ pc[w] = "prepare"
        /\ ~ResourceBusy(r) /\ ~Withdrawn(r) /\ Preparable(r)
        /\ delivery' = [delivery EXCEPT ![r] = dlv]
        /\ rowState' = [rowState EXCEPT ![r] = "running"]
        /\ PrepareBranchCommit(d, dlv)
        /\ Goto(w, "observe")
        /\ UNCHANGED <<file, head, branch, checkedOut, external, disturbed,
                       commandVars, members, preview, decisionVars, writeLock,
                       txn, job, todo, cur, failAs, published, boundVars>>

\* _deliver_command_target opens its transaction and looks before it writes.
Seen(r) == Delivered(RowDest(r), delivery[r])
Unseen(r) == ~Seen(r) /\ Untouched(RowDest(r), delivery[r])
Publishable(r) ==
    /\ Authorized(r)
    /\ ~BranchCheckedOut(RowDest(r))
    /\ ~ChangedMovedBase(RowDest(r), delivery[r])

ObserveDelivered(w) ==
    /\ pc[w] = "observe"
    /\ Seen(Row(w))
    /\ txn' = w
    /\ Goto(w, "acknowledge")
    /\ UNCHANGED <<worldVars, commandVars, rowVars, decisionVars, writeLock,
                   job, todo, cur, failAs, published, boundVars>>

\* Faulty variant: a cancellation does not look at the destination.
BlindWithdrawn(w) ==
    /\ pc[w] = "observe"
    /\ Withdrawn(Row(w))
    /\ CancelUnwritten(Row(w))
    /\ Goto(w, "target")
    /\ UNCHANGED <<worldVars, commandVars, writeLock, txn, job, todo, cur,
                   failAs, published, boundVars>>

ObserveWithdrawn(w) ==
    /\ pc[w] = "observe"
    /\ Unseen(Row(w)) /\ Withdrawn(Row(w))
    /\ CancelUnwritten(Row(w))
    /\ Goto(w, "target")
    /\ UNCHANGED <<worldVars, commandVars, writeLock, txn, job, todo, cur,
                   failAs, published, boundVars>>

\* Faulty variant: the write without its transaction.
UnguardedWrite(w) ==
    /\ pc[w] = "observe"
    /\ Unseen(Row(w)) /\ ~Withdrawn(Row(w)) /\ Publishable(Row(w))
    /\ Goto(w, "publish")
    /\ UNCHANGED <<worldVars, commandVars, rowVars, decisionVars, writeLock,
                   txn, job, todo, cur, failAs, published, boundVars>>

ObserveUnwritten(w) ==
    /\ pc[w] = "observe"
    /\ Unseen(Row(w)) /\ ~Withdrawn(Row(w)) /\ Publishable(Row(w))
    /\ txn' = w
    /\ Goto(w, "publish")
    /\ UNCHANGED <<worldVars, commandVars, rowVars, decisionVars, writeLock,
                   job, todo, cur, failAs, published, boundVars>>

\* Neither state is there (TargetChanged), or the write is not allowed now.
ObserveRefused(w) ==
    /\ pc[w] = "observe"
    /\ ~Seen(Row(w))
    /\ Unseen(Row(w)) => ~Withdrawn(Row(w)) /\ ~Publishable(Row(w))
    /\ Fail(w, "blocked")
    /\ UNCHANGED <<worldVars, commandVars, rowVars, decisionVars, writeLock,
                   job, todo, cur, published, boundVars>>

Publish(w) ==
    LET r == Row(w)
    IN  /\ pc[w] = "publish"
        /\ RowDest(r) \in GitDests => RefMatches(RowDest(r), delivery[r])
        /\ PublishPreparedWrite(RowDest(r), delivery[r])
        /\ published' = published \cup {r}
        /\ Goto(w, "acknowledge")
        /\ UNCHANGED <<commandVars, rowVars, decisionVars, writeLock, txn,
                       job, todo, cur, failAs, boundVars>>

\* git refuses the compare-and-swap: a GitError, recorded as a failure.
RefMoved(w) ==
    LET r == Row(w)
    IN  /\ pc[w] = "publish"
        /\ RowDest(r) \in GitDests
        /\ ~RefMatches(RowDest(r), delivery[r])
        /\ Fail(w, "failed")
        /\ UNCHANGED <<worldVars, commandVars, rowVars, decisionVars,
                       writeLock, job, todo, cur, published, boundVars>>

\* Faulty variant: every member becomes applied, the rejected ones too.
AcknowledgeAll(w) ==
    /\ pc[w] = "acknowledge"
    /\ rowState' = [rowState EXCEPT ![Row(w)] = "completed"]
    /\ pstatus' = [p \in Proposals |->
           IF p \in members[Row(w)] THEN "applied" ELSE pstatus[p]]
    /\ txn' = NoWorker
    /\ Goto(w, "target")
    /\ UNCHANGED <<worldVars, commandVars, members, preview, delivery,
                   rejLesson, rejTarget, writeLock, job, todo, cur, failAs,
                   published, boundVars>>

\* The same transaction completes the row and the members still approved.
Acknowledge(w) ==
    LET r == Row(w)
    IN  /\ pc[w] = "acknowledge"
        /\ rowState' = [rowState EXCEPT ![r] = "completed"]
        /\ pstatus' = [p \in Proposals |->
               IF p \in members[r] /\ pstatus[p] = "approved_user"
               THEN "applied" ELSE pstatus[p]]
        /\ txn' = NoWorker
        /\ Goto(w, "target")
        /\ UNCHANGED <<worldVars, commandVars, members, preview, delivery,
                       rejLesson, rejTarget, writeLock, job, todo, cur,
                       failAs, published, boundVars>>

\* A call fails (OSError, GitError, a destination that no longer resolves).
TargetError(w) ==
    /\ pc[w] \in {"prepare", "observe", "publish", "acknowledge"}
    /\ faults < MaxFaults
    /\ faults' = faults + 1
    /\ \E state \in Stopped : Fail(w, state)
    /\ UNCHANGED <<worldVars, commandVars, rowVars, decisionVars, writeLock,
                   job, todo, cur, published, retries>>

RecordFailure(w) ==
    /\ pc[w] = "failing"
    /\ rowState' = [rowState EXCEPT ![Row(w)] = failAs[w]]
    /\ failAs' = [failAs EXCEPT ![w] = None]
    /\ Goto(w, "target")
    /\ UNCHANGED <<worldVars, commandVars, members, preview, delivery,
                   decisionVars, writeLock, txn, job, todo, cur,
                   published, boundVars>>

\* The command's state from its rows; a row requeued meanwhile keeps it
\* claimable.
RowsIn(c, states) == \E r \in RowsOf(c) : rowState[r] \in states
\* (Faulty variant: rows requeued during the pass are overlooked.)
HastyRollup(c) ==
    CASE RowsIn(c, {"running"}) -> "queued"
      [] ~RowsIn(c, {"running"}) /\ RowsIn(c, {"failed"}) -> "failed"
      [] ~RowsIn(c, {"running", "failed"}) /\ RowsIn(c, {"blocked"}) -> "blocked"
      [] ~RowsIn(c, {"running"} \cup Stopped) /\ RowsIn(c, {"cancelled"}) -> "cancelled"
      [] OTHER -> "completed"

Rollup(c) ==
    CASE RowsIn(c, Claimable)     -> "queued"
      [] ~RowsIn(c, Claimable) /\ RowsIn(c, {"failed"}) -> "failed"
      [] ~RowsIn(c, Claimable \cup {"failed"}) /\ RowsIn(c, {"blocked"}) -> "blocked"
      [] ~RowsIn(c, Claimable \cup Stopped) /\ RowsIn(c, {"cancelled"}) -> "cancelled"
      [] OTHER -> "completed"

\* The worker lets go of the lock and of what it had in memory.
Leave(w) ==
    /\ writeLock' = NoWorker
    /\ Goto(w, "idle")
    /\ job' = [job EXCEPT ![w] = None]
    /\ todo' = [todo EXCEPT ![w] = {}]
    /\ cur' = [cur EXCEPT ![w] = None]
    /\ failAs' = [failAs EXCEPT ![w] = None]

Finish(w) ==
    /\ pc[w] = "target"
    /\ todo[w] = {}
    /\ cmdState' = [cmdState EXCEPT ![job[w]] = Rollup(job[w])]
    /\ Leave(w)
    /\ UNCHANGED <<worldVars, cancelReq, rowVars, decisionVars, txn,
                   published, boundVars>>

\* The process dies: the system frees its lock and undoes its transaction;
\* what it wrote to a file or a ref stays.
Crash(w) ==
    /\ pc[w] # "idle"
    /\ faults < MaxFaults
    /\ faults' = faults + 1
    /\ Leave(w)
    /\ txn' = NoWorker
    /\ UNCHANGED <<worldVars, commandVars, rowVars, decisionVars, published,
                   retries>>

Work(w) ==
    \/ Claim(w) \/ StartTarget(w)
    \/ PrepareRefused(w) \/ PrepareWithdrawn(w) \/ PrepareDelivery(w)
    \/ ObserveDelivered(w) \/ ObserveWithdrawn(w) \/ ObserveUnwritten(w)
    \/ ObserveRefused(w) \/ Publish(w) \/ RefMoved(w) \/ Acknowledge(w)
    \/ RecordFailure(w) \/ Finish(w)

-----------------------------------------------------------------------------
Init ==
    /\ WorldInit
    /\ cmdState = [c \in Commands |-> "none"]
    /\ cancelReq = [c \in Commands |-> FALSE]
    /\ rowState = [r \in Rows |-> "none"]
    /\ members = [r \in Rows |-> {}]
    /\ preview = [r \in Rows |-> Blank]
    /\ delivery = [r \in Rows |-> None]
    /\ pstatus = [p \in Proposals |-> "undecided"]
    /\ rejLesson = {} /\ rejTarget = {}
    /\ writeLock = NoWorker /\ txn = NoWorker
    /\ pc = [w \in Workers |-> "idle"]
    /\ job = [w \in Workers |-> None]
    /\ todo = [w \in Workers |-> {}]
    /\ cur = [w \in Workers |-> None]
    /\ failAs = [w \in Workers |-> None]
    /\ published = {}
    /\ faults = 0 /\ retries = 0

Next ==
    \/ Web
    \/ \E w \in Workers : Work(w) \/ TargetError(w) \/ Crash(w)
    \/ Operator /\ UNCHANGED <<commandVars, rowVars, decisionVars, workerVars,
                               published, boundVars>>

Spec == Init /\ [][Next]_vars

\* Some worker always polls again (worker.serve), and a call returns.
FairSpec == Spec /\ WF_vars(\E w \in Workers : Work(w))

-----------------------------------------------------------------------------
\* The step in which a worker puts an edit in place.
Writes(w) == pc[w] = "publish" /\ pc'[w] = "acknowledge"

\* Every variable has its type (the shape of the tables and of a worker).
TypeOK ==
    /\ WorldTypeOK
    /\ cmdState \in [Commands -> {"none"} \cup Claimable \cup Stopped \cup Finished]
    /\ cancelReq \in [Commands -> BOOLEAN]
    /\ rowState \in [Rows -> RowStates]
    /\ members \in [Rows -> SUBSET Proposals]
    /\ preview \in [Rows -> Content]
    /\ delivery \in [Rows -> DeliveryRecord \cup {None}]
    /\ pstatus \in [Proposals -> {"undecided", "approved_user", "applied", "rejected_user"}]
    /\ rejLesson \subseteq {LessonOf[p] : p \in Proposals}
    /\ rejTarget \subseteq {<<LessonOf[p], DestOf[p]>> : p \in Proposals}
    /\ writeLock \in Workers \cup {NoWorker}
    /\ txn \in Workers \cup {NoWorker}
    /\ pc \in [Workers -> {"idle", "target", "prepare", "observe", "publish",
                           "acknowledge", "failing"}]
    /\ job \in [Workers -> Commands \cup {None}]
    /\ todo \in [Workers -> SUBSET Dests]
    /\ cur \in [Workers -> Dests \cup {None}]
    /\ failAs \in [Workers -> Stopped \cup {None}]
    /\ published \subseteq Rows
    /\ faults \in Nat /\ retries \in Nat

\* At most one prepared write per file or delivery branch is open at a time,
\* whatever crashes, retries and cancels happened, so reconciling one never
\* meets the traces of another (_refuse_unreconciled_delivery).
OneUnreconciledPerResource ==
    \A r, q \in Rows :
        /\ Unreconciled(r) /\ Unreconciled(q)
        /\ ResourceOf[RowDest(r)] = ResourceOf[RowDest(q)]
        => r = q

\* No approval is orphaned or answered twice: an approved proposal belongs to
\* exactly one row that can still deliver or return it, and an applied one to
\* exactly one completed row (submit_command, _cancel_unwritten_target).
ApprovalHasOneRow ==
    \A p \in Proposals :
        LET held(states) == {r \in Rows : p \in members[r] /\ rowState[r] \in states}
        IN  /\ pstatus[p] = "approved_user" => \E r \in held(Claimable \cup Stopped) :
                    held(Claimable \cup Stopped) = {r}
            /\ pstatus[p] = "applied" => \E r \in held({"completed"}) :
                    held({"completed"}) = {r}

\* A command at rest holds no row the worker would still have to take, and a
\* stopped one has a stopped row for retry to requeue: no interleaving of a
\* control with the end of a pass strands a row (execute_next_command).
RestingCommandHasNoOpenRow ==
    \A c \in Commands : cmdState[c] \in Stopped \cup Finished =>
        /\ ~RowsIn(c, Claimable)
        /\ cmdState[c] \in Stopped <=> RowsIn(c, Stopped)

\* A row leaves completed or cancelled never again, and a rejection or an
\* application is never taken back by a later delivery step.
OutcomesStand ==
    [][/\ \A r \in Rows : rowState[r] \in Finished => rowState'[r] = rowState[r]
       /\ \A p \in Proposals : pstatus[p] \in {"applied", "rejected_user"} =>
              pstatus'[p] = pstatus[p]]_vars

\* The edit goes into a file or a ref only while every member is approved and
\* unsuppressed and no cancellation is recorded, at the instant of the write
\* and not only when it was last read (_deliver_command_target).
WriteHasAuthority ==
    [][\A w \in Workers : Writes(w) =>
           ~Withdrawn(Row(w)) /\ Authorized(Row(w))]_vars

\* A row is completed only when its edit can be read at its destination,
\* unless the operator changed that content by hand meanwhile.
AcknowledgedIsLive ==
    [][\A r \in Rows :
        rowState[r] # "completed" /\ rowState'[r] = "completed"
        => \/ members[r] \subseteq ReadDestination(RowDest(r)).rules
           \/ RowDest(r) \in disturbed]_vars

\* A worker never drops commits from the delivery branch: the old tip stays
\* an ancestor of the new one, whatever was committed since preparation.
BranchKeepsItsCommits ==
    [][\A w \in Workers : \A repo \in Repos :
        Writes(w) /\ branch[repo] # 0
        => branch[repo] \in log'[repo][branch'[repo]].anc]_vars

\* The phase of a row as the operator may rely on it.
Phase == [r \in Rows |->
    CASE rowState[r] = "none"      -> "none"
      [] rowState[r] = "completed" -> "acknowledged"
      [] rowState[r] = "cancelled" -> "dropped"
      [] OTHER -> IF r \in published THEN "live" ELSE "approved"]

Promise == INSTANCE ReviewedWrite WITH
    Rows <- Rows, phase <- Phase, hand <- disturbed,
    Place <- [r \in Rows |-> RowDest(r)],
    Lane <- [r \in Rows |-> ResourceOf[RowDest(r)]]

\* Delivery keeps its promise: written once, acknowledged only when written,
\* dropped only when not, one row at a time per file or branch. In particular
\* a row cancelled after its write left nothing behind that the operator has
\* not changed by hand since (the gap _observe_prepared_write documents), and
\* after a crash or a failure past the write the next pass completes the row
\* from what it observes and does not write it again (docs/WORKFLOW.md).
KeepsPromise == Promise!Spec

\* Every command the worker can claim comes to rest: done, or stopped with a
\* control the operator can use.
CommandsSettle ==
    \A c \in Commands :
        cmdState[c] \in Claimable ~> cmdState[c] \in Stopped \cup Finished

\* docs/WORKFLOW.md says conflicting content blocks: a file is replaced only
\* while it still holds the content the edit was prepared and reviewed on.
NoUnseenEditOverwritten ==
    [][\A w \in Workers :
        Writes(w) /\ RowDest(Row(w)) \in Files => file[RowDest(Row(w))] = delivery[Row(w)].before]_vars

-----------------------------------------------------------------------------
\* What makes TypeOK and OneUnreconciledPerResource inductive.

\* Every prepared record names a base and a commit that exist.
RecordsExist ==
    \A r \in Rows : delivery[r] # None /\ RowDest(r) \in GitDests =>
        /\ delivery[r].base \in 1..Len(log[ResourceOf[RowDest(r)]])
        /\ delivery[r].commit \in 1..Len(log[ResourceOf[RowDest(r)]])

\* A busy worker holds the lock and has a command that exists, and a target
\* and a prepared record where its place in the code needs them.
AtTarget(w) == pc[w] \notin {"idle", "target"}
WorkerPlaces ==
    \A w \in Workers :
        /\ pc[w] # "idle" <=> writeLock = w
        /\ pc[w] # "idle" => job[w] \in Commands /\ cmdState[job[w]] # "none"
        /\ AtTarget(w) => cur[w] \in Dests \ todo[w]
        /\ pc[w] \in {"observe", "publish", "acknowledge"} => delivery[Row(w)] # None
        /\ pc[w] = "failing" => failAs[w] \in Stopped

\* Nobody else finishes the rows a worker still has to do, and a command
\* that does not exist has no rows.
OpenRows ==
    /\ \A w \in Workers : pc[w] # "idle" =>
           /\ \A d \in todo[w] : rowState[<<job[w], d>>] \notin Finished
           /\ AtTarget(w) => rowState[Row(w)] \notin Finished
    /\ \A r \in Rows : cmdState[r[1]] = "none" =>
           rowState[r] = "none" /\ delivery[r] = None

\* The inductive invariant: types, refs, places, rows, and one open write per
\* file or branch.
IndInv ==
    /\ TypeOK /\ RefsExist /\ RecordsExist /\ WorkerPlaces /\ OpenRows
    /\ OneUnreconciledPerResource
=============================================================================
