------------------------------ MODULE Operations ------------------------------
(***************************************************************************)
(* Instruction operations (operations.py, rollback.py and their half of    *)
(* apply.py): the edits the nightly run applies on its own under a policy, *)
(* and the rollbacks the operator asks for.  Each is a durable record that *)
(* a writer resumes until it is completed, cancelled or stopped.  They     *)
(* share the file lock, the state database and the places of Destinations  *)
(* with the reviewed commands; Delivery models those in detail, here they  *)
(* are the rival whose prepared writes an operation must not meet.         *)
(***************************************************************************)
EXTENDS Destinations

CONSTANTS
    DestOf,      \* proposal -> the destination its edit is for
    LessonOf,    \* proposal -> the learning it came from
    Ops,         \* operation identifiers, in the order of creation
    Writers,     \* processes that take the write lock: worker, nightly, CLI
    NoWriter,
    None,
    MaxEvals,    \* BOUND: repeated evaluations of a proposal
    MaxEvents    \* BOUND: crashes, failed calls, policy changes, retries

\* One instruction_operations row.  cancelled says that checkpoint_json holds
\* the cancellation record; a rollback names its application, and the content
\* and the commit its preview was made on, an automatic edit what authorized it.
Claimable == {"queued", "running"}
Stopped == {"blocked", "failed"}
Finished == {"completed", "cancelled"}
Operation == [kind : {"auto_apply", "rollback"}, prop : Proposals,
              state : Claimable \cup Stopped \cup Finished, cancelReq : BOOLEAN,
              cancelled : BOOLEAN, delivery : DeliveryRecord \cup {None},
              app : Nat, base : Content, ref : Nat, policy : Nat, eval : Nat]

ASSUME OperationsAssumption ==
    /\ IsFiniteSet(Ops) /\ Ops = 1..Cardinality(Ops)
    /\ DestOf \in [Proposals -> Dests]
    /\ DOMAIN LessonOf = Proposals
    /\ NoWriter \notin Writers
    /\ None \notin DeliveryRecord \cup Operation \cup Nat
    /\ MaxEvals \in Nat /\ MaxEvents \in Nat

VARIABLES
    op,         \* instruction_operations, None before the record exists
    apps,       \* the 'applied' events of all proposals, in order
    pstatus,    \* proposals.status, "none" before the run builds it
    evalOf,     \* the number of the evaluation its status came from
    createdAt,  \* the policy revision when the proposal was built
    inRun,      \* proposals whose run is still going
    rejected,   \* lessons rejected everywhere
    undone,     \* lessons with a rolled-back edit among the proposals left out
    policy,     \* execution policy of the one target class
    row,        \* the reviewed command row of a proposal, abstracted
    writeLock, txn, pc, job,
    saw,        \* the cancellation flag a writer read when it took its job
    failAs,
    published,  \* history: operations whose write this program has made
    tried,      \* history: operations resumed after their cancellation
    events

opVars == <<op, apps>>
proposalVars == <<pstatus, evalOf, createdAt, inRun>>
decisionVars == <<rejected, undone, policy>>
writerVars == <<writeLock, txn, pc, job, saw, failAs>>
historyVars == <<published, tried>>
vars == <<worldVars, opVars, proposalVars, decisionVars, row, writerVars,
          historyVars, events>>

-----------------------------------------------------------------------------
Event == events < MaxEvents /\ events' = events + 1

Decided == {"approved_user", "applied", "rolled_back", "rejected_user"}
Undecided == {"gated_pass", "gated_fail", "held"}

Made == {o \in Ops : op[o] # None}
Dest(o) == DestOf[op[o].prop]

\* The part of operation_status that a run of this program can break: a
\* cancellation record belongs to the state cancelled, and only to it.
Readable(o) == op[o].cancelled <=> op[o].state = "cancelled"
AllReadable == \A o \in Made : op[o].state # "completed" => Readable(o)

Unreconciled(o) ==
    /\ op[o].delivery # None
    /\ op[o].state # "completed"
    /\ ~(op[o].state = "cancelled" /\ op[o].cancelled)

\* Faulty variant: the prepared writes of reviewed commands are not looked at.
BusyWithOperations(d, except) ==
    \E o \in Made \ {except} : Unreconciled(o) /\ ResourceOf[Dest(o)] = ResourceOf[d]

\* _refuse_unreconciled_delivery: another prepared write on this file or branch.
ResourceBusy(d, except) ==
    \/ \E o \in Made \ {except} : Unreconciled(o) /\ ResourceOf[Dest(o)] = ResourceOf[d]
    \/ \E p \in Proposals : /\ row[p].state = "prepared"
                            /\ ResourceOf[DestOf[p]] = ResourceOf[d]

\* latest_application: the number of the last 'applied' event, or 0.
AppsOf(p) == {a \in 1..Len(apps) : apps[a] = p}
LatestApp(p) == IF AppsOf(p) = {} THEN 0
                ELSE CHOOSE a \in AppsOf(p) : \A b \in AppsOf(p) : b <= a

Suppressed(p) == LessonOf[p] \in rejected

\* _prior_rollback: the operator has undone another edit of the same lesson.
UndoneElsewhere(p) ==
    \/ LessonOf[p] \in undone
    \/ \E q \in Proposals \ {p} : LessonOf[q] = LessonOf[p] /\ pstatus[q] = "rolled_back"

\* automatic_permission: the class was enabled before the proposal was built.
Permitted(p) ==
    /\ pstatus[p] = "gated_pass"
    /\ ~Suppressed(p)
    /\ policy.enabled /\ policy.since <= createdAt[p]
    /\ ~UndoneElsewhere(p)

\* The proposal is still the one the operation was prepared for.
Unchanged(o) == /\ pstatus[op[o].prop] = "gated_pass"
                /\ evalOf[op[o].prop] = op[o].eval

\* Faulty variant: the permission of the preparation is taken to be good still.
PermittedOnce(o) == Unchanged(o)

\* What a resumed automatic edit demands before its write.
StillPermitted(o) ==
    /\ Unchanged(o)
    /\ Permitted(op[o].prop)
    /\ policy.rev = op[o].policy

\* Faulty variant: the content is all that a rollback compares.
AnyApplication(o) == op[o].app # 0

\* _rollback_applications: nobody applied the proposal again since.
SameApplication(o) == LatestApp(op[o].prop) = op[o].app

\* _hold: refusing an edit never undoes a decision.
Hold(p) == pstatus' = [pstatus EXCEPT ![p] = IF @ \in Decided THEN @ ELSE "held"]

\* The record of a rollback: the content as it is now, without the edit.
InverseRecord(d, p) ==
    LET base == ReadDestination(d)
    IN  [PreparedRecord(d, {}) EXCEPT !.after = [base EXCEPT !.rules = @ \ {p}]]

NewOperation(kind, p) ==
    [kind |-> kind, prop |-> p, state |-> "queued", cancelReq |-> FALSE,
     cancelled |-> FALSE, delivery |-> None, app |-> 0, base |-> Blank, ref |-> 0,
     policy |-> 0, eval |-> 0]

NextId == Cardinality(Made) + 1

-----------------------------------------------------------------------------
\* The nightly run and the web process.  A request is one write transaction,
\* so none commits while a writer holds the transaction around its write.

\* The run builds a proposal and its gate passes it, or not (pipeline.py).
BuildProposal(p) ==
    /\ txn = NoWriter
    /\ pstatus[p] = "none"
    /\ \E verdict \in {"gated_pass", "gated_fail"} :
           pstatus' = [pstatus EXCEPT ![p] = verdict]
    /\ createdAt' = [createdAt EXCEPT ![p] = policy.rev]
    /\ inRun' = inRun \cup {p}
    /\ UNCHANGED <<worldVars, opVars, evalOf, decisionVars, row, writerVars,
                   historyVars, events>>

\* The run ends or dies; only it would have applied its proposals.
RunEnds ==
    /\ inRun # {}
    /\ inRun' = {}
    /\ UNCHANGED <<worldVars, opVars, pstatus, evalOf, createdAt, decisionVars,
                   row, writerVars, historyVars, events>>

\* A repeated evaluation job stores its verdict on an undecided proposal.
Regate(p) ==
    /\ txn = NoWriter
    /\ pstatus[p] \in Undecided
    /\ evalOf[p] < MaxEvals
    /\ \E verdict \in {"gated_pass", "gated_fail"} :
           pstatus' = [pstatus EXCEPT ![p] = verdict]
    /\ evalOf' = [evalOf EXCEPT ![p] = @ + 1]
    /\ UNCHANGED <<worldVars, opVars, createdAt, inRun, decisionVars, row,
                   writerVars, historyVars, events>>

\* set_class_policy: each change is a new revision, and enabling starts anew.
SetClassPolicy ==
    /\ txn = NoWriter
    /\ Event
    /\ policy' = [enabled |-> ~policy.enabled, rev |-> policy.rev + 1,
                  since |-> IF policy.enabled THEN policy.since ELSE policy.rev + 1]
    /\ UNCHANGED <<worldVars, opVars, proposalVars, rejected, undone, row, writerVars,
                   historyVars>>

RejectLesson(p) ==
    /\ txn = NoWriter
    /\ pstatus[p] # "none"
    /\ ~Suppressed(p)
    /\ rejected' = rejected \cup {LessonOf[p]}
    /\ pstatus' = [q \in Proposals |->
           IF LessonOf[q] = LessonOf[p] /\ pstatus[q] \in Undecided \cup {"approved_user"}
           THEN "rejected_user" ELSE pstatus[q]]
    /\ UNCHANGED <<worldVars, opVars, evalOf, createdAt, inRun, undone, policy, row,
                   writerVars, historyVars, events>>

\* A rollback of another edit of the lesson completes, under the lock.
UndoElsewhere(l) ==
    /\ writeLock = NoWriter
    /\ undone' = undone \cup {l}
    /\ UNCHANGED <<worldVars, opVars, proposalVars, rejected, policy, row,
                   writerVars, historyVars, events>>

\* proposal_dispositions: Review offers what no run or operation will apply.
AwaitsWriter(p) ==
    /\ Permitted(p)
    /\ \/ p \in inRun
       \/ \E o \in Made : /\ op[o].kind = "auto_apply" /\ op[o].prop = p
                          /\ op[o].state \notin Finished

\* BOUND: one reviewed command of each proposal.
ApproveEdit(p) ==
    /\ txn = NoWriter
    /\ pstatus[p] \in Undecided
    /\ ~Suppressed(p) /\ ~AwaitsWriter(p)
    /\ row[p].state = "none"
    /\ p \notin ReadDestination(DestOf[p]).rules
    /\ row' = [row EXCEPT ![p] = [state |-> "queued", delivery |-> None,
           preview |-> ReadDestination(DestOf[p]), was |-> pstatus[p]]]
    /\ pstatus' = [pstatus EXCEPT ![p] = "approved_user"]
    /\ UNCHANGED <<worldVars, opVars, evalOf, createdAt, inRun, decisionVars,
                   writerVars, historyVars, events>>

\* submit_operation_control: a running operation keeps running.
RetryOperation(o) ==
    /\ txn = NoWriter
    /\ o \in Made /\ Readable(o)
    /\ op[o].state \in Stopped
    /\ Event
    /\ op' = [op EXCEPT ![o].state = "queued"]
    /\ UNCHANGED <<worldVars, apps, proposalVars, decisionVars, row, writerVars,
                   historyVars>>

CancelOperation(o) ==
    /\ txn = NoWriter
    /\ o \in Made /\ Readable(o)
    /\ op[o].state \notin Finished
    /\ ~op[o].cancelReq
    /\ op' = [op EXCEPT ![o].cancelReq = TRUE,
                        ![o].state = IF @ = "running" THEN @ ELSE "queued"]
    /\ UNCHANGED <<worldVars, apps, proposalVars, decisionVars, row, writerVars,
                   historyVars, events>>

-----------------------------------------------------------------------------
\* create_rollback_operation, inside the transaction of its caller.

RollbacksOf(a) == {o \in Made : op[o].kind = "rollback" /\ op[o].app = a}
Uncancelled(a) == {o \in RollbacksOf(a) : op[o].state # "cancelled"}

\* committed_or_prepared_rollback: neither is ever replaced.
CommittedOrPrepared(a) ==
    {o \in Uncancelled(a) : op[o].state = "completed" \/ op[o].delivery # None}

BaseRef(d) == IF d \in GitDests THEN BranchBase(ResourceOf[d]) ELSE 0

\* The intent on this content and commit that is queued again, or the next
\* identifier.
IntentOn(a, base) ==
    LET same == {o \in Uncancelled(a) :
                     op[o].base = base /\ op[o].ref = BaseRef(Dest(o))}
    IN  IF same = {} THEN NextId ELSE CHOOSE o \in same : \A q \in same : q <= o

\* Intents on another base that are newer are superseded: they have no
\* prepared write.
RequestRollback(p, a, base) ==
    LET id == IntentOn(a, base)
    IN  /\ a # 0
        /\ \A o \in RollbacksOf(a) : Readable(o)
        /\ CommittedOrPrepared(a) = {}
        /\ p \in base.rules
        /\ id \in Ops
        /\ op' = [o \in Ops |->
               CASE o = id /\ o \in Made -> [op[o] EXCEPT !.state = "queued"]
                 [] o = id /\ o \notin Made ->
                        [NewOperation("rollback", p) EXCEPT
                            !.app = a, !.base = base, !.ref = BaseRef(DestOf[p])]
                 [] o \in Uncancelled(a) /\ (o > id \/ id \notin Made) ->
                        [op[o] EXCEPT !.state = "cancelled", !.cancelled = TRUE]
                 [] OTHER -> op[o]]

\* submit_rollback: the web records the intent and takes no file lock.
SubmitRollback(p) ==
    /\ txn = NoWriter
    /\ RequestRollback(p, LatestApp(p), ReadDestination(DestOf[p]))
    /\ UNCHANGED <<worldVars, apps, proposalVars, decisionVars, row, writerVars,
                   historyVars, events>>

Web ==
    \/ RunEnds \/ SetClassPolicy
    \/ \E p \in Proposals : UndoElsewhere(LessonOf[p])
    \/ \E p \in Proposals : \/ BuildProposal(p) \/ Regate(p) \/ RejectLesson(p)
                            \/ ApproveEdit(p) \/ SubmitRollback(p)
    \/ \E o \in Ops : RetryOperation(o) \/ CancelOperation(o)

-----------------------------------------------------------------------------
\* The writers.  Each takes the file lock and resumes one operation.
Goto(w, label) == pc' = [pc EXCEPT ![w] = label]

TakeLock(w, o) ==
    /\ writeLock' = w
    /\ job' = [job EXCEPT ![w] = o]
    /\ saw' = [saw EXCEPT ![w] = op'[o].cancelReq]
    /\ Goto(w, "start")
    /\ UNCHANGED <<txn, failAs>>

Free(w) == pc[w] = "idle" /\ writeLock = NoWriter

\* Faulty variant: only what nobody has begun is claimed.
NextQueued(o) ==
    /\ o \in Made /\ op[o].state = "queued"
    /\ \A q \in Made : op[q].state = "queued" => o <= q

\* execute_next_command: running ones first, they may hold a prepared write.
NextOperation(o) ==
    /\ o \in Made /\ op[o].state \in Claimable
    /\ \A q \in Made :
        /\ op[q].state = "running" => op[o].state = "running"
        /\ op[q].state = op[o].state => o <= q

\* execute_next_command takes operations before commands.  A record that
\* cannot be read ends the process before it changes anything.
ClaimOperation(w) ==
    /\ Free(w)
    /\ \E o \in Ops :
        /\ NextOperation(o) /\ Readable(o)
        /\ UNCHANGED op
        /\ TakeLock(w, o)
    /\ UNCHANGED <<worldVars, apps, proposalVars, decisionVars, row,
                   historyVars, events>>

\* worker --operation: any unfinished operation, stopped ones too.
ResumeNamed(w, o) ==
    /\ Free(w)
    /\ o \in Made /\ Readable(o) /\ op[o].state \notin Finished
    /\ UNCHANGED op
    /\ TakeLock(w, o)
    /\ UNCHANGED <<worldVars, apps, proposalVars, decisionVars, row,
                   historyVars, events>>

\* rollback, the CLI: the same intent, and the lock.
RollbackNow(w, p) ==
    LET a == LatestApp(p)
        base == ReadDestination(DestOf[p])
    IN  /\ Free(w)
        /\ txn = NoWriter
        /\ \/ /\ RequestRollback(p, a, base)
              /\ TakeLock(w, IntentOn(a, base))
           \/ /\ \E o \in CommittedOrPrepared(a) :
                     /\ op[o].state # "completed" /\ Readable(o)
                     /\ UNCHANGED op
                     /\ TakeLock(w, o)
        /\ UNCHANGED <<worldVars, apps, proposalVars, decisionVars, row,
                       historyVars, events>>

\* apply_proposal, refused by the policy, a rejection or the content.
AutoHold(w, p) ==
    /\ Free(w)
    /\ txn = NoWriter
    /\ p \in inRun /\ pstatus[p] = "gated_pass"
    /\ ~\E o \in Made : op[o].kind = "auto_apply" /\ op[o].prop = p
    /\ Permitted(p) => /\ AllReadable /\ ~ResourceBusy(DestOf[p], None)
                       /\ p \in ReadDestination(DestOf[p]).rules
    /\ Hold(p)
    /\ UNCHANGED <<worldVars, opVars, evalOf, createdAt, inRun, decisionVars,
                   row, writerVars, historyVars, events>>

\* apply_proposal, prepared: the record is there before any file or ref.  A
\* branch that is checked out ends the attempt and leaves nothing.
AutoPrepare(w, p) ==
    LET d == DestOf[p]
        dlv == PreparedRecord(d, {p})
    IN  /\ Free(w)
        /\ txn = NoWriter
        /\ p \in inRun
        /\ ~\E o \in Made : op[o].kind = "auto_apply" /\ op[o].prop = p
        /\ Permitted(p)
        /\ AllReadable /\ ~ResourceBusy(d, None)
        /\ p \notin ReadDestination(d).rules /\ ~BranchCheckedOut(d)
        /\ NextId \in Ops
        /\ op' = [op EXCEPT ![NextId] =
               [NewOperation("auto_apply", p) EXCEPT !.state = "running",
                   !.delivery = dlv, !.policy = policy.rev, !.eval = evalOf[p]]]
        /\ PrepareBranchCommit(d, dlv)
        /\ TakeLock(w, NextId)
        /\ UNCHANGED <<file, head, branch, checkedOut, external, disturbed,
                       apps, proposalVars, decisionVars, row, historyVars,
                       events>>

\* The first transaction of a resume; what it read of the record is older.
Start(w) ==
    LET o == job[w]
    IN  /\ pc[w] = "start"
        /\ txn = NoWriter
        /\ op' = [op EXCEPT ![o].state = "running"]
        /\ tried' = IF op[o].cancelReq THEN tried \cup {o} ELSE tried
        /\ Goto(w, IF op[o].delivery = None THEN "prepare" ELSE "observe")
        /\ UNCHANGED <<worldVars, apps, proposalVars, decisionVars, row, saw,
                       writeLock, txn, job, failAs, published, events>>

\* Faulty variant: the failure is not classified.
FailUnclassified(w, state) ==
    /\ Goto(w, "failing")
    /\ txn' = NoWriter
    /\ UNCHANGED <<worldVars, opVars, proposalVars, decisionVars, row,
                   writeLock, job, saw, failAs, historyVars>>

\* An exception: its transaction rolls back, another records the outcome.
Fail(w, state) ==
    /\ Goto(w, "failing")
    /\ failAs' = [failAs EXCEPT ![w] = state]
    /\ txn' = NoWriter
    /\ UNCHANGED <<worldVars, opVars, proposalVars, decisionVars, row,
                   writeLock, job, saw, historyVars>>

Leave(w) ==
    /\ writeLock' = NoWriter
    /\ txn' = NoWriter
    /\ Goto(w, "idle")
    /\ job' = [job EXCEPT ![w] = 0]
    /\ saw' = [saw EXCEPT ![w] = FALSE]
    /\ failAs' = [failAs EXCEPT ![w] = None]

\* _cancel_instruction_operation, and the refusal of a resumed automatic edit:
\* the record says that nothing was written, and its proposal goes to Review.
CloseUnwritten(w) ==
    LET o == job[w]
    IN  /\ op' = [op EXCEPT ![o].state = "cancelled", ![o].cancelled = TRUE]
        /\ IF op[o].kind = "auto_apply" /\ Unchanged(o)
           THEN Hold(op[o].prop) ELSE UNCHANGED pstatus
        /\ Leave(w)
        /\ UNCHANGED <<worldVars, apps, evalOf, createdAt, inRun, decisionVars,
                       row, historyVars, events>>

\* The content the reviewer saw, and the application the rollback names.
Reversible(o) == ReadDestination(Dest(o)) = op[o].base /\ SameApplication(o)

\* The unprepared rollback: one transaction takes a cancellation, another
\* writes the record, which replaces the whole checkpoint.
PrepareCancelled(w) ==
    /\ pc[w] = "prepare"
    /\ txn = NoWriter
    /\ op[job[w]].cancelReq
    /\ CloseUnwritten(w)

PrepareUncancelled(w) ==
    /\ pc[w] = "prepare"
    /\ txn = NoWriter
    /\ ~op[job[w]].cancelReq
    /\ Goto(w, "compose")
    /\ UNCHANGED <<worldVars, opVars, proposalVars, decisionVars, row, writeLock,
                   txn, job, saw, failAs, historyVars, events>>

PrepareRollback(w) ==
    LET o == job[w]
        dlv == InverseRecord(Dest(o), op[o].prop)
    IN  /\ pc[w] = "compose"
        /\ txn = NoWriter
        /\ AllReadable /\ ~ResourceBusy(Dest(o), o)
        /\ Reversible(o)
        /\ ~BranchCheckedOut(Dest(o))
        /\ op' = [op EXCEPT ![o].delivery = dlv, ![o].cancelled = FALSE]
        /\ PrepareBranchCommit(Dest(o), dlv)
        /\ Goto(w, "observe")
        /\ UNCHANGED <<file, head, branch, checkedOut, external, disturbed, apps,
                       proposalVars, decisionVars, row, writeLock, txn, job,
                       saw, failAs, historyVars, events>>

PrepareRefused(w) ==
    LET o == job[w]
    IN  /\ pc[w] = "compose"
        /\ AllReadable
        /\ ResourceBusy(Dest(o), o) \/ ~Reversible(o) \/ BranchCheckedOut(Dest(o))
        /\ Fail(w, "blocked")
        /\ UNCHANGED events

\* The prepared operation: its transaction looks before it writes.
Seen(o) == Delivered(Dest(o), op[o].delivery)
Unseen(o) == ~Seen(o) /\ Untouched(Dest(o), op[o].delivery)
MayWrite(o) == IF op[o].kind = "rollback" THEN SameApplication(o) ELSE StillPermitted(o)
Publishable(o) == ~BranchCheckedOut(Dest(o)) /\ ~ChangedMovedBase(Dest(o), op[o].delivery)

Observes(w) == /\ pc[w] = "observe"
               /\ txn = NoWriter
               /\ AllReadable /\ ~ResourceBusy(Dest(job[w]), job[w])

EnterTransaction(w, label) ==
    /\ txn' = w
    /\ Goto(w, label)
    /\ UNCHANGED <<worldVars, opVars, proposalVars, decisionVars, row, writeLock,
                   job, saw, failAs, historyVars, events>>

ObserveDelivered(w) == Observes(w) /\ Seen(job[w]) /\ EnterTransaction(w, "acknowledge")

\* Faulty variant: a cancellation does not look at the destination.
CloseBlindly(w) == Observes(w) /\ op[job[w]].cancelReq /\ CloseUnwritten(w)

\* Cancelled, or an automatic edit that is no longer allowed.
ObserveClosed(w) ==
    LET o == job[w]
    IN  /\ Observes(w) /\ Unseen(o)
        /\ op[o].cancelReq \/ (op[o].kind = "auto_apply" /\ ~MayWrite(o))
        /\ CloseUnwritten(w)

ObserveUnwritten(w) ==
    LET o == job[w]
    IN  /\ Observes(w) /\ Unseen(o)
        /\ ~op[o].cancelReq /\ MayWrite(o) /\ Publishable(o)
        /\ EnterTransaction(w, "publish")

ObserveRefused(w) ==
    LET o == job[w]
    IN  /\ pc[w] = "observe" /\ txn = NoWriter /\ AllReadable
        /\ \/ ResourceBusy(Dest(o), o)
           \/ ~Seen(o) /\ ~Untouched(Dest(o), op[o].delivery)
           \/ /\ Unseen(o) /\ ~op[o].cancelReq
              /\ IF MayWrite(o) THEN ~Publishable(o) ELSE op[o].kind = "rollback"
        /\ Fail(w, "blocked")
        /\ UNCHANGED events

Publish(w) ==
    LET o == job[w]
    IN  /\ pc[w] = "publish"
        /\ Dest(o) \in GitDests => RefMatches(Dest(o), op[o].delivery)
        /\ PublishPreparedWrite(Dest(o), op[o].delivery)
        /\ published' = published \cup {o}
        /\ Goto(w, "acknowledge")
        /\ UNCHANGED <<opVars, proposalVars, decisionVars, row, writeLock, txn,
                       job, saw, failAs, tried, events>>

RefMoved(w) ==
    LET o == job[w]
    IN  /\ pc[w] = "publish"
        /\ Dest(o) \in GitDests /\ ~RefMatches(Dest(o), op[o].delivery)
        /\ Fail(w, "failed")
        /\ UNCHANGED events

\* Faulty variant: a rollback records its event and leaves the status.
AcknowledgeEventOnly(w) ==
    LET o == job[w]
        p == op[o].prop
    IN  /\ pc[w] = "acknowledge"
        /\ op' = [op EXCEPT ![o].state = "completed"]
        /\ IF op[o].kind = "auto_apply"
           THEN /\ pstatus' = [pstatus EXCEPT ![p] = IF Unchanged(o) THEN "applied" ELSE @]
                /\ apps' = Append(apps, p)
           ELSE UNCHANGED <<pstatus, apps>>
        /\ Leave(w)
        /\ UNCHANGED <<worldVars, evalOf, createdAt, inRun, decisionVars, row,
                       historyVars, events>>

\* The same transaction: the event, the status if nobody decided meanwhile,
\* and the operation.
Acknowledge(w) ==
    LET o == job[w]
        p == op[o].prop
    IN  /\ pc[w] = "acknowledge"
        /\ op' = [op EXCEPT ![o].state = "completed"]
        /\ IF op[o].kind = "auto_apply"
           THEN /\ pstatus' = [pstatus EXCEPT ![p] = IF Unchanged(o) THEN "applied" ELSE @]
                /\ apps' = Append(apps, p)
           ELSE /\ pstatus' = [pstatus EXCEPT ![p] =
                       IF SameApplication(o) /\ @ = "applied" THEN "rolled_back" ELSE @]
                /\ UNCHANGED apps
        /\ Leave(w)
        /\ UNCHANGED <<worldVars, evalOf, createdAt, inRun, decisionVars, row,
                       historyVars, events>>

\* A call fails (OSError, GitError); what refuses a write is "blocked" above,
\* and nothing treats the two differently.
CallFails(w) ==
    /\ pc[w] \in {"prepare", "compose", "observe", "publish", "acknowledge"}
    /\ Event
    /\ Fail(w, "failed")

\* Faulty variant: a cancellation that arrived meanwhile is not looked for.
RecordOnly(w) ==
    /\ pc[w] = "failing"
    /\ txn = NoWriter
    /\ op' = [op EXCEPT ![job[w]].state = failAs[w]]
    /\ Leave(w)
    /\ UNCHANGED <<worldVars, apps, proposalVars, decisionVars, row,
                   historyVars, events>>

\* _record_instruction_failure: one more pass for a cancellation that arrived
\* during this attempt.
RecordFailure(w) ==
    LET o == job[w]
        arrived == op[o].cancelReq /\ ~saw[w]
    IN  /\ pc[w] = "failing"
        /\ txn = NoWriter
        /\ op' = [op EXCEPT ![o].state = IF arrived THEN "queued" ELSE failAs[w]]
        /\ Leave(w)
        /\ UNCHANGED <<worldVars, apps, proposalVars, decisionVars, row,
                       historyVars, events>>

\* The process dies by itself, or because a record cannot be read: its lock
\* and its transaction go, what it wrote to a file or a ref stays.
Crash(w) ==
    /\ pc[w] # "idle"
    /\ \/ Event
       \/ pc[w] \in {"compose", "observe"} /\ ~AllReadable /\ UNCHANGED events
    /\ Leave(w)
    /\ UNCHANGED <<worldVars, opVars, proposalVars, decisionVars, row,
                   historyVars>>

Work(w) ==
    \/ ClaimOperation(w) \/ Start(w)
    \/ PrepareCancelled(w) \/ PrepareUncancelled(w) \/ PrepareRollback(w) \/ PrepareRefused(w)
    \/ ObserveDelivered(w) \/ ObserveClosed(w) \/ ObserveUnwritten(w)
    \/ ObserveRefused(w) \/ Publish(w) \/ RefMoved(w) \/ Acknowledge(w)
    \/ RecordFailure(w)

-----------------------------------------------------------------------------
\* The reviewed command of one proposal, in three steps: Delivery has the rest.
NoClaimable == \A o \in Made : op[o].state \notin Claimable
RowStep(w) == Free(w) /\ txn = NoWriter /\ NoClaimable

PrepareRow(w, p) ==
    LET d == DestOf[p]
        dlv == PreparedRecord(d, {p})
    IN  /\ RowStep(w)
        /\ row[p].state = "queued"
        /\ pstatus[p] = "approved_user" /\ ~Suppressed(p)
        /\ AllReadable /\ ~ResourceBusy(d, None) /\ ~BranchCheckedOut(d)
        /\ ReadDestination(d) = row[p].preview
        /\ row' = [row EXCEPT ![p].state = "prepared", ![p].delivery = dlv]
        /\ PrepareBranchCommit(d, dlv)
        /\ UNCHANGED <<file, head, branch, checkedOut, external, disturbed, opVars,
                       proposalVars, decisionVars, writerVars, historyVars,
                       events>>

\* Nothing looks for other prepared writes again: the preparation did.
DeliverRow(w, p) ==
    LET d == DestOf[p]
        dlv == row[p].delivery
        mayWrite == /\ Untouched(d, dlv) /\ pstatus[p] = "approved_user"
                    /\ ~Suppressed(p) /\ ~BranchCheckedOut(d)
                    /\ ~ChangedMovedBase(d, dlv)
    IN  /\ RowStep(w)
        /\ row[p].state = "prepared"
        /\ \/ Delivered(d, dlv) /\ UNCHANGED worldVars
           \/ ~Delivered(d, dlv) /\ mayWrite /\ PublishPreparedWrite(d, dlv)
        /\ row' = [row EXCEPT ![p].state = "completed"]
        /\ pstatus' = [pstatus EXCEPT ![p] = IF @ = "approved_user" THEN "applied" ELSE @]
        /\ apps' = Append(apps, p)
        /\ UNCHANGED <<op, evalOf, createdAt, inRun, decisionVars, writerVars,
                       historyVars, events>>

\* Cancelled or rejected before it was written: back to Review.
DropRow(w, p) ==
    /\ RowStep(w)
    /\ \/ row[p].state = "queued"
       \/ /\ row[p].state = "prepared"
          /\ ~Delivered(DestOf[p], row[p].delivery)
          /\ Untouched(DestOf[p], row[p].delivery)
    /\ row' = [row EXCEPT ![p].state = "cancelled"]
    /\ pstatus' = [pstatus EXCEPT ![p] = IF @ = "approved_user" THEN row[p].was ELSE @]
    /\ UNCHANGED <<worldVars, opVars, evalOf, createdAt, inRun, decisionVars,
                   writerVars, historyVars, events>>

-----------------------------------------------------------------------------
Init ==
    /\ WorldInit
    /\ op = [o \in Ops |-> None]
    /\ apps = <<>>
    /\ pstatus = [p \in Proposals |-> "none"]
    /\ evalOf = [p \in Proposals |-> 0]
    /\ createdAt = [p \in Proposals |-> 0]
    /\ inRun = {} /\ rejected = {} /\ undone = {}
    /\ policy = [enabled |-> TRUE, rev |-> 1, since |-> 1]
    /\ row = [p \in Proposals |-> [state |-> "none", delivery |-> None,
                               preview |-> Blank, was |-> "none"]]
    /\ writeLock = NoWriter /\ txn = NoWriter
    /\ pc = [w \in Writers |-> "idle"]
    /\ job = [w \in Writers |-> 0]
    /\ saw = [w \in Writers |-> FALSE]
    /\ failAs = [w \in Writers |-> None]
    /\ published = {} /\ tried = {}
    /\ events = 0

Next ==
    \/ Web
    \/ \E w \in Writers :
        \/ Work(w) \/ CallFails(w) \/ Crash(w)
        \/ \E o \in Ops : ResumeNamed(w, o)
        \/ \E p \in Proposals :
            \/ RollbackNow(w, p) \/ AutoHold(w, p) \/ AutoPrepare(w, p)
            \/ PrepareRow(w, p) \/ DeliverRow(w, p) \/ DropRow(w, p)
    \/ Operator /\ UNCHANGED <<opVars, proposalVars, decisionVars, row,
                               writerVars, historyVars, events>>

Spec == Init /\ [][Next]_vars

\* Some worker always polls again (worker.serve), and a call returns.
FairSpec == Spec /\ WF_vars(\E w \in Writers : Work(w))

-----------------------------------------------------------------------------
\* The step in which a writer puts an operation's edit in place.
Writes(w) == pc[w] = "publish" /\ pc'[w] = "acknowledge"

\* Every variable has its type (the tables and what a writer remembers).
TypeOK ==
    /\ WorldTypeOK
    /\ op \in [Ops -> Operation \cup {None}]
    /\ apps \in Seq(Proposals)
    /\ pstatus \in [Proposals -> {"none"} \cup Undecided \cup Decided]
    /\ evalOf \in [Proposals -> Nat] /\ createdAt \in [Proposals -> Nat]
    /\ inRun \subseteq Proposals
    /\ rejected \subseteq {LessonOf[p] : p \in Proposals}
    /\ undone \subseteq {LessonOf[p] : p \in Proposals}
    /\ policy \in [enabled : BOOLEAN, rev : Nat, since : Nat]
    /\ row \in [Proposals -> [state : {"none", "queued", "prepared", "completed", "cancelled"},
                              delivery : DeliveryRecord \cup {None}, preview : Content,
                              was : {"none"} \cup Undecided]]
    /\ writeLock \in Writers \cup {NoWriter} /\ txn \in Writers \cup {NoWriter}
    /\ pc \in [Writers -> {"idle", "start", "prepare", "compose", "observe", "publish",
                           "acknowledge", "failing"}]
    /\ job \in [Writers -> Ops \cup {0}]
    /\ saw \in [Writers -> BOOLEAN]
    /\ failAs \in [Writers -> Stopped \cup {None}]
    /\ published \subseteq Ops /\ tried \subseteq Ops
    /\ events \in Nat

\* Automatic edits, rollbacks and reviewed commands together have at most one
\* prepared write open per file or branch, whatever crashed or was cancelled
\* (_refuse_unreconciled_delivery).
OpenWrites(resource) ==
    {o \in Made : Unreconciled(o) /\ ResourceOf[Dest(o)] = resource}
        \cup {p \in Proposals : row[p].state = "prepared" /\ ResourceOf[DestOf[p]] = resource}
OneOpenWritePerResource ==
    \A d \in Dests : Cardinality(OpenWrites(ResourceOf[d])) <= 1

\* The status a reader of the dashboard sees agrees with the recorded events:
\* an applied proposal's last application is not undone, and a rolled-back
\* one's is (_resume_rollback_operation, apply_proposal).
Undone(a) == \E o \in RollbacksOf(a) : op[o].state = "completed"
StatusMatchesEvents ==
    \A p \in Proposals :
        /\ pstatus[p] = "applied" => LatestApp(p) # 0 /\ ~Undone(LatestApp(p))
        /\ pstatus[p] = "rolled_back" => LatestApp(p) # 0 /\ Undone(LatestApp(p))

\* A cancellation is not lost when the attempt it arrived in fails: an
\* operation at rest with a recorded cancellation was resumed after it
\* (_record_instruction_failure).
CancellationIsTried ==
    \A o \in Made : op[o].cancelReq /\ op[o].state \in Stopped => o \in tried

\* At the instant of an automatic write the policy that authorized it still
\* stands, the proposal is the one that was gated, its lesson is not rejected
\* and no edit of the lesson was undone (_resume_write_operation).
AutomaticWriteHasAuthority ==
    [][\A w \in Writers : Writes(w) /\ op[job[w]].kind = "auto_apply" =>
           LET o == job[w]
               p == op[o].prop
           IN  /\ pstatus[p] = "gated_pass" /\ evalOf[p] = op[o].eval
               /\ policy.enabled /\ policy.rev = op[o].policy
               /\ LessonOf[p] \notin rejected
               /\ ~UndoneElsewhere(p)]_vars

\* A rollback removes the application the operator looked at: never one that
\* a later delivery of the same edit, with the same content, has replaced.
RollbackUndoesItsApplication ==
    [][\A w \in Writers : Writes(w) /\ op[job[w]].kind = "rollback" =>
           op[job[w]].app = LatestApp(op[job[w]].prop)]_vars

\* An operation recorded as cancelled left nothing behind, and a completed one
\* can be read in its place, unless the operator changed it by hand since.
OutcomeIsTrue ==
    [][\A o \in Made :
        /\ op[o].state # "cancelled" /\ op'[o].state = "cancelled" /\ o \in published
           => Dest(o) \in disturbed
        /\ op[o].state # "completed" /\ op'[o].state = "completed"
           => \/ (op[o].prop \in ReadDestination(Dest(o)).rules) = (op[o].kind = "auto_apply")
              \/ Dest(o) \in disturbed]_vars

\* A worker that keeps polling works off every operation it can claim, however
\* calls fail and processes die, as long as every record can be read.
Waiting == \E o \in Made : op[o].state \in Claimable
OperationsSettle == Waiting ~> (~Waiting \/ ~AllReadable)

\* operation_status refuses a cancelled record without its cancellation and a
\* cancellation in any other state; no run of the program makes such a record.
OperationsReadable == AllReadable
=============================================================================
