--------------------------- MODULE DeliveryProofs ---------------------------
(***************************************************************************)
(* Proofs about Delivery, for every set of proposals, destinations,        *)
(* commands and workers, in three parts that build on one another.         *)
(*                                                                         *)
(* The first: the types, and one open prepared write per file or branch.   *)
(*                                                                         *)
(* The second: what becomes of a reviewer's decision.  A write has its     *)
(* authority at the instant it happens, every approval belongs to one row, *)
(* outcomes stand, and a command at rest strands no row.  All rest on what *)
(* a busy worker may rely on: its command stays running and its rows stay  *)
(* claimable, since a control moves only stopped rows and only one worker  *)
(* holds the lock.                                                         *)
(*                                                                         *)
(* The third: delivery keeps its promise.  Delivery implements             *)
(* ReviewedWrite, a completed row is live, and the delivery branch keeps   *)
(* its commits.  All rest on one fact about the places: while a prepared   *)
(* write is open and no hand was there, its place holds the after-content  *)
(* exactly when this program has put it there.  So what a worker observes  *)
(* after a crash tells it whether the write happened, and the ancestry of  *)
(* a commit that nobody published yet never contains it.                   *)
(***************************************************************************)
EXTENDS Delivery, DestinationsProofs

-----------------------------------------------------------------------------
\* Lemmas about rows and their records.

\* Prepared records keep naming commits that exist while logs only grow.
LEMMA RecordsKept ==
  ASSUME RecordsExist, LogsGrow, UNCHANGED delivery
  PROVE  RecordsExist'
  <1>1. \A d \in GitDests : ResourceOf[d] \in Repos
    BY DEF Repos
  <1> QED
    BY <1>1 DEF RecordsExist, LogsGrow

\* A step that leaves the operator's places and the records alone.
LEMMA WorldKept ==
  ASSUME WorldTypeOK, RefsExist, RecordsExist, UNCHANGED <<worldVars, delivery>>
  PROVE  WorldTypeOK' /\ RefsExist' /\ RecordsExist'
  <1>1. WorldTypeOK'
    BY DEF WorldTypeOK, worldVars
  <1>2. RefsExist'
    BY DEF RefsExist, worldVars
  <1>3. RecordsExist'
    BY LogsKept, RecordsKept DEF worldVars
  <1> QED
    BY <1>1, <1>2, <1>3

\* No step that opens no write can give a file or branch a second one.
LEMMA LaneKept ==
  ASSUME OneUnreconciledPerResource,
         \A r \in Rows : Unreconciled(r)' => Unreconciled(r)
  PROVE  OneUnreconciledPerResource'
  BY DEF OneUnreconciledPerResource, RowDest

\* The parts of a row.
LEMMA RowParts ==
  /\ \A r \in Rows : r[1] \in Commands /\ r[2] \in Dests /\ r = <<r[1], r[2]>>
  /\ \A c \in Commands, d \in Dests : <<c, d>> \in Rows /\ <<c, d>>[1] = c /\ <<c, d>>[2] = d
  BY DEF Rows

-----------------------------------------------------------------------------
\* The inductive invariant holds initially.
LEMMA InitIndInv == Init => IndInv
  <1> SUFFICES ASSUME Init PROVE IndInv
    OBVIOUS
  <1> USE DestsAssumption, DeliveryAssumption
  <1>1. WorldTypeOK /\ RefsExist
    <2> DEFINE root == [anc |-> {1}, tree |-> [d \in GitDests |-> Blank]]
    <2>1. root \in Commit
      BY BlankType DEF Commit
    <2>2. log = [r \in Repos |-> <<root>>]
      BY DEF Init, WorldInit
    <2> HIDE DEF root
    <2>5. <<root>> \in Seq(Commit) /\ Len(<<root>>) = 1
      BY <2>1
    <2>3. log \in [Repos -> Seq(Commit)] /\ \A r \in Repos : Len(log[r]) = 1
      BY <2>2, <2>5
    <2>6. RefsExist
      BY <2>3 DEF Init, WorldInit, RefsExist
    <2>4. file \in [Files -> Content]
      BY BlankType DEF Init, WorldInit
    <2> QED
      BY <2>3, <2>4, <2>6 DEF Init, WorldInit, WorldTypeOK
  <1>2. TypeOK
    BY <1>1, BlankType DEF Init, TypeOK, RowStates
  <1>3. RecordsExist
    BY DEF Init, RecordsExist
  <1>4. WorkerPlaces /\ OpenRows
    BY RowParts DEF Init, WorkerPlaces, OpenRows, AtTarget
  <1>5. OneUnreconciledPerResource
    BY DEF Init, OneUnreconciledPerResource, Unreconciled
  <1> QED
    BY <1>1, <1>2, <1>3, <1>4, <1>5 DEF IndInv

\* A decision of the web process keeps it.
LEMMA WebStep == IndInv /\ Web => IndInv'
  <1> SUFFICES ASSUME IndInv, Web PROVE IndInv'
    OBVIOUS
  <1> USE DestsAssumption, DeliveryAssumption DEF IndInv
  <1>0. WorldTypeOK /\ TypeOK
    BY DEF TypeOK
  <1>1. ASSUME NEW c \in Commands, NEW selection \in SUBSET Proposals, Approve(c, selection)
        PROVE  IndInv'
    <2>1. WorldTypeOK' /\ RefsExist' /\ RecordsExist'
      BY <1>0, <1>1, WorldKept DEF Approve
    <2>2. \A d \in Dests : ReadDestination(d) \in Content
      BY <1>0, ReadType
    <2>3. TypeOK'
      BY <1>1, <2>1, <2>2, RowParts
      DEF Approve, TypeOK, commandVars, decisionVars, workerVars, boundVars,
          RowDest, RowStates, Claimable
    <2>4. cmdState[c] = "none"
      BY <1>1 DEF Approve, NewCommand
    <2>5. WorkerPlaces'
      BY <1>1, <2>4 DEF Approve, WorkerPlaces, AtTarget, Row, workerVars, TypeOK
    <2>6. OpenRows'
      BY <1>0, <1>1, <2>4, RowParts
      DEF Approve, OpenRows, WorkerPlaces, AtTarget, Row, workerVars, TypeOK, RowDest, Finished
    <2>7. \A r \in Rows : Unreconciled(r)' => Unreconciled(r)
      BY <1>0, <1>1, <2>4, RowParts DEF Approve, OpenRows, Unreconciled, TypeOK, RowDest
    <2> QED
      BY <2>1, <2>3, <2>5, <2>6, <2>7, LaneKept
  <1>2. ASSUME NEW p \in Proposals, RejectTarget(p) \/ RejectLesson(p)
        PROVE  IndInv'
    <2>1. WorldTypeOK' /\ RefsExist' /\ RecordsExist'
      BY <1>0, <1>2, WorldKept DEF RejectTarget, RejectLesson, rowVars
    <2>2. TypeOK'
      BY <1>2, <2>1 DEF RejectTarget, RejectLesson, RejectAll, TypeOK, commandVars, rowVars,
                        workerVars, boundVars
    <2>3. WorkerPlaces' /\ OpenRows'
      BY <1>2 DEF RejectTarget, RejectLesson, WorkerPlaces, OpenRows, AtTarget, Row,
                  commandVars, rowVars, workerVars
    <2>4. \A r \in Rows : Unreconciled(r)' => Unreconciled(r)
      BY <1>2 DEF RejectTarget, RejectLesson, Unreconciled, rowVars
    <2> QED
      BY <2>1, <2>2, <2>3, <2>4, LaneKept
  <1>3. ASSUME NEW c \in Commands, RetryDelivery(c) \/ CancelDelivery(c)
        PROVE  IndInv'
    <2>1. WorldTypeOK' /\ RefsExist' /\ RecordsExist'
      BY <1>0, <1>3, WorldKept DEF RetryDelivery, CancelDelivery
    <2>2. /\ Requeue(c) /\ UNCHANGED <<members, preview, delivery>>
          /\ UNCHANGED <<decisionVars, workerVars, published, faults>>
          /\ cancelReq' \in [Commands -> BOOLEAN] /\ retries' \in Nat
          /\ cmdState[c] # "none"
      <3>1. CASE RetryDelivery(c)
        BY <3>1 DEF RetryDelivery, TypeOK, Stopped
      <3>2. CASE CancelDelivery(c)
        BY <3>2 DEF CancelDelivery, TypeOK, boundVars, Claimable, Stopped
      <3> QED
        BY <1>3, <3>1, <3>2
    <2>3. \A r \in Rows : /\ rowState'[r] \in RowStates
                          /\ rowState'[r] \in Finished <=> rowState[r] \in Finished
                          /\ rowState[r] = "none" => rowState'[r] = "none"
      BY <2>2 DEF Requeue, TypeOK, RowStates, Stopped, Finished, Claimable
    <2>4. \A b \in Commands : cmdState'[b] = "none" <=> cmdState[b] = "none"
      BY <2>2 DEF Requeue, TypeOK
    <2>5. TypeOK'
      BY <2>1, <2>2, <2>3
      DEF Requeue, TypeOK, decisionVars, workerVars, Claimable
    <2>6. WorkerPlaces'
      <3>1. /\ pc' = pc /\ writeLock' = writeLock /\ job' = job /\ todo' = todo
            /\ cur' = cur /\ failAs' = failAs /\ delivery' = delivery
        BY <2>2 DEF workerVars
      <3>2. \A w \in Workers : pc[w] # "idle" =>
               job[w] \in Commands /\ cmdState'[job[w]] # "none"
        BY <2>4 DEF WorkerPlaces
      <3> QED
        BY <3>1, <3>2 DEF WorkerPlaces, AtTarget, Row
    <2>7. OpenRows'
      <3>1. \A w \in Workers : pc[w] # "idle" =>
               /\ \A d \in todo[w] : <<job[w], d>> \in Rows
               /\ AtTarget(w) => Row(w) \in Rows
        BY RowParts DEF WorkerPlaces, AtTarget, Row, TypeOK
      <3>2. UNCHANGED <<pc, job, todo, cur, delivery>>
        BY <2>2 DEF workerVars
      <3> QED
        BY <2>3, <2>4, <3>1, <3>2, RowParts DEF OpenRows, AtTarget, Row
    <2>8. \A r \in Rows : Unreconciled(r)' => Unreconciled(r)
      BY <2>2, <2>3 DEF Unreconciled
    <2> QED
      BY <2>1, <2>5, <2>6, <2>7, <2>8, LaneKept
  <1> QED
    BY <1>1, <1>2, <1>3 DEF Web

\* While one worker is busy, or takes the free lock, every other is idle.
LEMMA OthersIdle ==
  ASSUME IndInv, NEW w \in Workers, NEW label,
         pc[w] # "idle" \/ writeLock = NoWorker, Goto(w, label)
  PROVE  /\ \A v \in Workers : v # w => pc[v] = "idle" /\ pc'[v] = "idle"
         /\ pc'[w] = label
  BY DeliveryAssumption DEF IndInv, WorkerPlaces, Goto, TypeOK

\* A busy worker's rows exist.
LEMMA BusyRows ==
  ASSUME IndInv, NEW w \in Workers, pc[w] # "idle"
  PROVE  /\ writeLock = w /\ job[w] \in Commands /\ cmdState[job[w]] # "none"
         /\ todo[w] \in SUBSET Dests
         /\ \A d \in todo[w] : <<job[w], d>> \in Rows /\ rowState[<<job[w], d>>] \notin Finished
         /\ AtTarget(w) => /\ cur[w] \in Dests \ todo[w] /\ Row(w) \in Rows
                           /\ Row(w)[1] = job[w] /\ Row(w)[2] = cur[w]
                           /\ rowState[Row(w)] \notin Finished
  BY RowParts DEF IndInv, WorkerPlaces, OpenRows, TypeOK, Row, AtTarget

\* A worker that takes the lock takes only rows that are still open.
LEMMA ClaimStep ==
  ASSUME IndInv, NEW w \in Workers, Claim(w)
  PROVE  IndInv'
  <1> USE DestsAssumption, DeliveryAssumption
  <1>0. WorldTypeOK /\ TypeOK /\ RefsExist /\ RecordsExist /\ WorkerPlaces /\ OpenRows
        /\ OneUnreconciledPerResource
    BY DEF IndInv, TypeOK
  <1>1. PICK c \in Commands :
          /\ NextCommand(c)
          /\ cmdState' = [cmdState EXCEPT ![c] = "running"]
          /\ job' = [job EXCEPT ![w] = c]
          /\ todo' = [todo EXCEPT ![w] = {d \in Dests : rowState[<<c, d>>] \in Claimable}]
    BY DEF Claim
  <1>2. WorldTypeOK' /\ RefsExist' /\ RecordsExist'
    BY <1>0, WorldKept DEF Claim, rowVars
  <1>3. TypeOK'
    BY <1>0, <1>1, <1>2 DEF Claim, TypeOK, Goto, rowVars, decisionVars, boundVars, Claimable
  <1>4. /\ \A v \in Workers : v # w => pc[v] = "idle" /\ pc'[v] = "idle"
        /\ pc'[w] = "target" /\ writeLock' = w /\ job'[w] = c /\ cmdState'[c] = "running"
        /\ todo'[w] = {d \in Dests : rowState[<<c, d>>] \in Claimable}
    BY <1>0, <1>1, OthersIdle DEF Claim, TypeOK
  <1>5. WorkerPlaces'
    BY <1>4 DEF WorkerPlaces, AtTarget
  <1>6. OpenRows'
    <2>1. UNCHANGED <<rowState, delivery>>
      BY DEF Claim, rowVars
    <2>2. \A b \in Commands : cmdState'[b] = "none" => cmdState[b] = "none"
      BY <1>0, <1>1 DEF TypeOK
    <2> QED
      BY <1>0, <1>4, <2>1, <2>2, RowParts DEF OpenRows, AtTarget, Claimable, Finished
  <1>7. \A r \in Rows : Unreconciled(r)' => Unreconciled(r)
    BY DEF Claim, rowVars, Unreconciled
  <1> QED
    BY <1>0, <1>2, <1>3, <1>5, <1>6, <1>7, LaneKept DEF IndInv

\* A step of a busy worker that leaves the places and the records alone and
\* changes at most one of its own rows, which it does not come back to.
LEMMA RowStep ==
  ASSUME IndInv, NEW w \in Workers, NEW r \in Rows, NEW state \in RowStates, NEW label,
         pc[w] # "idle", Goto(w, label), label # "idle",
         \/ rowState' = rowState
         \/ /\ rowState' = [rowState EXCEPT ![r] = state]
            /\ r[1] = job[w] /\ r[2] \notin todo'[w]
            /\ state # "none"
            /\ state \in Finished \/ rowState[r] \notin Finished,
         todo'[w] \subseteq todo[w],
         label # "target" => /\ cur'[w] \in Dests \ todo'[w]
                             /\ rowState'[<<job[w], cur'[w]>>] \notin Finished,
         label \in {"observe", "publish", "acknowledge"} =>
             delivery[<<job[w], cur'[w]>>] # None,
         label = "failing" => failAs'[w] \in Stopped,
         UNCHANGED <<worldVars, commandVars, delivery, writeLock, job>>
  PROVE  /\ WorldTypeOK' /\ RefsExist' /\ RecordsExist' /\ WorkerPlaces' /\ OpenRows'
         /\ OneUnreconciledPerResource'
         /\ rowState' \in [Rows -> RowStates]
  <1>0. WorldTypeOK /\ TypeOK /\ RefsExist /\ RecordsExist /\ WorkerPlaces /\ OpenRows
        /\ OneUnreconciledPerResource
    BY DEF IndInv, TypeOK
  <1>1. WorldTypeOK' /\ RefsExist' /\ RecordsExist'
    BY <1>0, WorldKept
  <1>2. rowState' \in [Rows -> RowStates]
    BY <1>0 DEF TypeOK
  <1>3. /\ \A v \in Workers : v # w => pc[v] = "idle" /\ pc'[v] = "idle"
        /\ pc'[w] = label
    BY OthersIdle
  <1>4. /\ writeLock' = w /\ job'[w] \in Commands /\ job' = job
        /\ cmdState' = cmdState /\ cmdState[job[w]] # "none" /\ delivery' = delivery
        /\ \A d \in todo[w] : <<job[w], d>> \in Rows /\ rowState[<<job[w], d>>] \notin Finished
    BY BusyRows DEF commandVars
  <1>5. WorkerPlaces'
    BY <1>3, <1>4, DeliveryAssumption DEF WorkerPlaces, AtTarget, Row
  <1>6. \A d \in todo'[w] : rowState'[<<job[w], d>>] \notin Finished
    BY <1>0, <1>4, RowParts DEF TypeOK
  <1>7. \A q \in Rows : cmdState[q[1]] = "none" => rowState'[q] = "none" /\ delivery'[q] = None
    BY <1>0, <1>4 DEF OpenRows, TypeOK
  <1>8. OpenRows'
    BY <1>3, <1>4, <1>6, <1>7 DEF OpenRows, AtTarget, Row
  <1>9. \A q \in Rows : Unreconciled(q)' => Unreconciled(q)
    BY <1>0, <1>4 DEF Unreconciled, TypeOK
  <1> QED
    BY <1>0, <1>1, <1>2, <1>5, <1>8, <1>9, LaneKept

\* Returning the members of a row to review keeps the decisions typed.
LEMMA CancelledTypes ==
  ASSUME TypeOK, NEW r, CancelUnwritten(r)
  PROVE  /\ pstatus' \in [Proposals -> {"undecided", "approved_user", "applied", "rejected_user"}]
         /\ UNCHANGED <<members, preview, delivery, rejLesson, rejTarget>>
         /\ rowState' = [rowState EXCEPT ![r] = "cancelled"]
  BY DEF CancelUnwritten, TypeOK

\* The next target is withdrawn, prepared afresh or reconciled with its
\* record.
LEMMA StartTargetStep ==
  ASSUME IndInv, NEW w \in Workers, StartTarget(w)
  PROVE  IndInv'
  <1>0. TypeOK /\ pc[w] = "target" /\ pc[w] # "idle"
    BY DEF IndInv, StartTarget
  <1>1. PICK d \in todo[w] :
          LET r == <<job[w], d>>
          IN  /\ todo' = [todo EXCEPT ![w] = @ \ {d}]
              /\ cur' = [cur EXCEPT ![w] = d]
              /\ \/ /\ delivery[r] # None
                    /\ Goto(w, "observe")
                    /\ UNCHANGED <<rowVars, decisionVars>>
                 \/ /\ delivery[r] = None
                    /\ cancelReq[job[w]]
                    /\ CancelUnwritten(r)
                    /\ UNCHANGED pc
                 \/ /\ delivery[r] = None
                    /\ ~cancelReq[job[w]]
                    /\ Goto(w, "prepare")
                    /\ UNCHANGED <<rowVars, decisionVars>>
    BY DEF StartTarget
  <1> DEFINE r == <<job[w], d>>
  <1>2. /\ r \in Rows /\ r[1] = job[w] /\ r[2] = d /\ d \in Dests
        /\ rowState[r] \notin Finished
    BY <1>0, BusyRows, RowParts
  <1>3. /\ todo'[w] = todo[w] \ {d} /\ cur'[w] = d /\ d \in Dests \ todo'[w]
        /\ todo' \in [Workers -> SUBSET Dests] /\ cur' \in [Workers -> Dests \cup {None}]
    BY <1>0, <1>1, <1>2 DEF TypeOK
  <1>4. UNCHANGED <<worldVars, commandVars, writeLock, txn, job, failAs, published, boundVars>>
    BY DEF StartTarget
  <1>5. CASE UNCHANGED <<rowVars, decisionVars>> /\ \E label \in {"observe", "prepare"} :
               Goto(w, label) /\ (label = "observe" => delivery[r] # None)
    <2>1. PICK label \in {"observe", "prepare"} :
            Goto(w, label) /\ (label = "observe" => delivery[r] # None)
      BY <1>5
    <2>2. rowState' = rowState /\ delivery' = delivery
      BY <1>5 DEF rowVars
    <2>3. /\ WorldTypeOK' /\ RefsExist' /\ RecordsExist' /\ WorkerPlaces' /\ OpenRows'
          /\ OneUnreconciledPerResource'
      BY <1>0, <1>2, <1>3, <1>4, <2>1, <2>2, RowStep DEF RowStates
    <2>4. TypeOK'
      BY <1>0, <1>3, <1>4, <1>5, <2>1, <2>3
      DEF TypeOK, Goto, rowVars, commandVars, decisionVars, boundVars
    <2> QED
      BY <2>3, <2>4 DEF IndInv
  <1>6. CASE CancelUnwritten(r) /\ UNCHANGED pc
    <2>1. Goto(w, "target")
      BY <1>0, <1>6 DEF Goto, TypeOK
    <2>2. /\ rowState' = [rowState EXCEPT ![r] = "cancelled"]
          /\ UNCHANGED <<members, preview, delivery, rejLesson, rejTarget>>
          /\ pstatus' \in [Proposals -> {"undecided", "approved_user", "applied", "rejected_user"}]
      BY <1>0, <1>6, CancelledTypes
    <2>3. /\ WorldTypeOK' /\ RefsExist' /\ RecordsExist' /\ WorkerPlaces' /\ OpenRows'
          /\ OneUnreconciledPerResource'
          /\ rowState' \in [Rows -> RowStates]
      BY <1>0, <1>2, <1>3, <1>4, <2>1, <2>2, RowStep DEF RowStates, Finished
    <2>4. TypeOK'
      BY <1>0, <1>3, <1>4, <1>6, <2>2, <2>3 DEF TypeOK, commandVars, boundVars
    <2> QED
      BY <2>3, <2>4 DEF IndInv
  <1> QED
    BY <1>1, <1>5, <1>6

\* The steps in which the row in hand is given up and cancelled.
LEMMA WithdrawnStep ==
  ASSUME IndInv, NEW w \in Workers, PrepareWithdrawn(w) \/ ObserveWithdrawn(w)
  PROVE  IndInv'
  <1>0. /\ TypeOK /\ AtTarget(w) /\ pc[w] # "idle" /\ CancelUnwritten(Row(w)) /\ Goto(w, "target")
        /\ UNCHANGED <<worldVars, commandVars, writeLock, txn, job, todo, cur,
                       failAs, published, boundVars>>
    BY DEF IndInv, PrepareWithdrawn, ObserveWithdrawn, AtTarget
  <1>1. /\ rowState' = [rowState EXCEPT ![Row(w)] = "cancelled"]
        /\ UNCHANGED <<members, preview, delivery, rejLesson, rejTarget>>
        /\ pstatus' \in [Proposals -> {"undecided", "approved_user", "applied", "rejected_user"}]
    BY <1>0, CancelledTypes
  <1>2. /\ Row(w) \in Rows /\ Row(w)[1] = job[w] /\ Row(w)[2] \notin todo'[w]
        /\ todo'[w] \subseteq todo[w]
    BY <1>0, BusyRows
  <1>3. /\ WorldTypeOK' /\ RefsExist' /\ RecordsExist' /\ WorkerPlaces' /\ OpenRows'
        /\ OneUnreconciledPerResource'
        /\ rowState' \in [Rows -> RowStates]
    BY <1>0, <1>1, <1>2, RowStep DEF RowStates, Finished
  <1>4. TypeOK'
    BY <1>0, <1>1, <1>3 DEF TypeOK, Goto, commandVars, boundVars
  <1> QED
    BY <1>3, <1>4 DEF IndInv

\* The steps in which a call of the row in hand fails or is refused.
LEMMA FailedStep ==
  ASSUME IndInv, NEW w \in Workers,
         PrepareRefused(w) \/ ObserveRefused(w) \/ RefMoved(w) \/ TargetError(w)
  PROVE  IndInv'
  <1>0. /\ TypeOK /\ AtTarget(w) /\ pc[w] # "idle"
        /\ \E state \in Stopped : Fail(w, state)
        /\ UNCHANGED <<worldVars, commandVars, rowVars, decisionVars, writeLock,
                       job, todo, cur, published, retries>>
        /\ faults' \in Nat
    BY DEF IndInv, TypeOK, PrepareRefused, ObserveRefused, RefMoved, TargetError,
           AtTarget, Stopped, boundVars
  <1>1. PICK state \in Stopped : Fail(w, state)
    BY <1>0
  <1>2. /\ Goto(w, "failing") /\ txn' = NoWorker
        /\ failAs' \in [Workers -> Stopped \cup {None}] /\ failAs'[w] \in Stopped
    BY <1>0, <1>1 DEF Fail, TypeOK
  <1>3. /\ Row(w) \in Rows /\ todo'[w] \subseteq todo[w]
        /\ cur'[w] \in Dests \ todo'[w]
        /\ rowState'[<<job[w], cur'[w]>>] \notin Finished
    BY <1>0, BusyRows DEF rowVars, Row
  <1>4. rowState' = rowState /\ delivery' = delivery
    BY <1>0 DEF rowVars
  <1>5. /\ WorldTypeOK' /\ RefsExist' /\ RecordsExist' /\ WorkerPlaces' /\ OpenRows'
        /\ OneUnreconciledPerResource'
    BY <1>0, <1>2, <1>3, <1>4, RowStep DEF RowStates
  <1>6. TypeOK'
    BY <1>0, <1>2, <1>5 DEF TypeOK, Goto, rowVars, commandVars, decisionVars
  <1> QED
    BY <1>5, <1>6 DEF IndInv

\* Looking at the destination, with the write or the acknowledgement ahead.
LEMMA ObservedStep ==
  ASSUME IndInv, NEW w \in Workers, ObserveDelivered(w) \/ ObserveUnwritten(w)
  PROVE  IndInv'
  <1>0. /\ TypeOK /\ AtTarget(w) /\ pc[w] = "observe" /\ txn' = w
        /\ \E label \in {"publish", "acknowledge"} : Goto(w, label)
        /\ UNCHANGED <<worldVars, commandVars, rowVars, decisionVars, writeLock,
                       job, todo, cur, failAs, published, boundVars>>
    BY DEF IndInv, ObserveDelivered, ObserveUnwritten, AtTarget
  <1>1. PICK label \in {"publish", "acknowledge"} : Goto(w, label)
    BY <1>0
  <1>2. /\ Row(w) \in Rows /\ todo'[w] \subseteq todo[w]
        /\ cur'[w] \in Dests \ todo'[w]
        /\ rowState'[<<job[w], cur'[w]>>] \notin Finished
    BY <1>0, BusyRows DEF rowVars, Row
  <1>3. rowState' = rowState /\ delivery' = delivery
    BY <1>0 DEF rowVars
  <1>4. delivery[<<job[w], cur'[w]>>] # None
    BY <1>0 DEF IndInv, WorkerPlaces, Row
  <1>5. /\ WorldTypeOK' /\ RefsExist' /\ RecordsExist' /\ WorkerPlaces' /\ OpenRows'
        /\ OneUnreconciledPerResource'
    BY <1>0, <1>1, <1>2, <1>3, <1>4, RowStep DEF RowStates
  <1>6. TypeOK'
    BY <1>0, <1>1, <1>5 DEF TypeOK, Goto, rowVars, commandVars, decisionVars, boundVars
  <1> QED
    BY <1>5, <1>6 DEF IndInv

\* Preparation is the one step that opens a write: nobody else has one open
\* on that file or branch (ResourceBusy), and every other worker is idle.
LEMMA PrepareStep ==
  ASSUME IndInv, NEW w \in Workers, PrepareDelivery(w)
  PROVE  IndInv'
  <1> DEFINE r == Row(w)
             d == RowDest(Row(w))
             dlv == PreparedRecord(d, members[r])
  <1>0. /\ WorldTypeOK /\ TypeOK /\ RefsExist /\ RecordsExist /\ WorkerPlaces /\ OpenRows
        /\ OneUnreconciledPerResource /\ AtTarget(w) /\ pc[w] = "prepare"
    BY DEF IndInv, TypeOK, PrepareDelivery, AtTarget
  <1>1. /\ ~ResourceBusy(r)
        /\ delivery' = [delivery EXCEPT ![r] = dlv]
        /\ rowState' = [rowState EXCEPT ![r] = "running"]
        /\ PrepareBranchCommit(d, dlv)
        /\ Goto(w, "observe")
        /\ UNCHANGED <<file, head, branch, checkedOut, external, disturbed>>
        /\ UNCHANGED <<commandVars, members, preview, decisionVars, writeLock,
                       txn, job, todo, cur, failAs, published, boundVars>>
    BY DEF PrepareDelivery
  <1>2. /\ r \in Rows /\ r = <<job[w], cur[w]>> /\ d = cur[w] /\ d \in Dests
        /\ cur[w] \notin todo[w] /\ rowState[r] \notin Finished
        /\ writeLock = w /\ job[w] \in Commands /\ cmdState[job[w]] # "none"
        /\ \A e \in todo[w] : <<job[w], e>> \in Rows /\ rowState[<<job[w], e>>] \notin Finished
    BY <1>0, BusyRows DEF RowDest, Row
  <1>3. members[r] \in SUBSET Proposals
    BY <1>0, <1>2 DEF TypeOK
  <1>4. /\ dlv \in DeliveryRecord
        /\ d \in GitDests => dlv.base \in 1..Len(log[ResourceOf[d]])
                             /\ dlv.commit = Len(log[ResourceOf[d]]) + 1
    BY <1>0, <1>2, <1>3, PreparedType
  <1>5. /\ log' \in [Repos -> Seq(Commit)] /\ LogsGrow
        /\ d \in GitDests => Len(log'[ResourceOf[d]]) = Len(log[ResourceOf[d]]) + 1
    BY <1>0, <1>1, <1>2, <1>3, PreparedStep
  <1> HIDE DEF d, dlv
  <1>6. dlv # None
    BY <1>4, DeliveryAssumption
  <1>7. WorldTypeOK' /\ RefsExist'
    <2>1. \A q \in Repos : head[q] \in 1..Len(log'[q])
      BY <1>0, <1>5 DEF RefsExist, LogsGrow
    <2>2. \A q \in Repos : branch[q] \in 0..Len(log'[q])
      BY <1>0, <1>5 DEF RefsExist, LogsGrow
    <2> QED
      BY <1>0, <1>1, <1>5, <2>1, <2>2 DEF WorldTypeOK, RefsExist
  <1>8. RecordsExist'
    <2>1. ASSUME NEW q \in Rows, q # r, delivery[q] # None, RowDest(q) \in GitDests
          PROVE  /\ delivery[q].base \in 1..Len(log'[ResourceOf[RowDest(q)]])
                 /\ delivery[q].commit \in 1..Len(log'[ResourceOf[RowDest(q)]])
      <3>1. ResourceOf[RowDest(q)] \in Repos
        BY <2>1 DEF Repos
      <3> QED
        BY <1>0, <1>5, <2>1, <3>1 DEF RecordsExist, LogsGrow
    <2>2. ASSUME d \in GitDests
          PROVE  /\ dlv.base \in 1..Len(log'[ResourceOf[d]])
                 /\ dlv.commit \in 1..Len(log'[ResourceOf[d]])
      <3>1. ResourceOf[d] \in Repos
        BY <2>2 DEF Repos
      <3> QED
        BY <1>4, <1>5, <2>2, <3>1 DEF LogsGrow
    <2>3. \A q \in Rows : delivery'[q] = IF q = r THEN dlv ELSE delivery[q]
      BY <1>0, <1>1 DEF TypeOK
    <2>4. RowDest(r) = d
      BY DEF d
    <2> QED
      BY <2>1, <2>2, <2>3, <2>4 DEF RecordsExist, RowDest
  <1>9. TypeOK'
    <2>1. delivery' \in [Rows -> DeliveryRecord \cup {None}]
      BY <1>0, <1>1, <1>4 DEF TypeOK
    <2>2. rowState' \in [Rows -> RowStates]
      BY <1>0, <1>1 DEF TypeOK, RowStates, Claimable
    <2> QED
      BY <1>0, <1>1, <1>7, <2>1, <2>2
      DEF TypeOK, Goto, commandVars, decisionVars, boundVars
  <1>10. /\ \A v \in Workers : v # w => pc[v] = "idle" /\ pc'[v] = "idle"
         /\ pc'[w] = "observe"
    BY <1>0, <1>1, OthersIdle
  <1>11. delivery'[r] # None /\ rowState'[r] = "running"
         /\ \A q \in Rows : q # r => delivery'[q] = delivery[q] /\ rowState'[q] = rowState[q]
    BY <1>0, <1>1, <1>2, <1>6 DEF TypeOK
  <1>12. WorkerPlaces'
    BY <1>1, <1>2, <1>10, <1>11, DeliveryAssumption DEF WorkerPlaces, AtTarget, Row, RowDest, commandVars
  <1>13. OpenRows'
    <2>1. \A e \in todo[w] : rowState'[<<job[w], e>>] \notin Finished
      BY <1>2, <1>11, RowParts DEF Row, Finished
    <2>2. \A q \in Rows : cmdState[q[1]] = "none" => rowState'[q] = "none" /\ delivery'[q] = None
      BY <1>0, <1>2, <1>11, RowParts DEF OpenRows
    <2> QED
      BY <1>1, <1>2, <1>10, <1>11, <2>1, <2>2 DEF OpenRows, AtTarget, Row, Finished, commandVars
  <1>14. OneUnreconciledPerResource'
    <2>1. \A q \in Rows : q # r => (Unreconciled(q)' <=> Unreconciled(q))
      BY <1>11 DEF Unreconciled
    <2>2. \A q \in Rows : q # r /\ Unreconciled(q) =>
             ResourceOf[RowDest(q)] # ResourceOf[RowDest(r)]
      BY <1>1 DEF ResourceBusy
    <2> QED
      BY <1>0, <2>1, <2>2 DEF OneUnreconciledPerResource, RowDest
  <1> QED
    BY <1>7, <1>8, <1>9, <1>12, <1>13, <1>14 DEF IndInv

\* The write moves the branch to a recorded commit, or replaces the file.
LEMMA PublishStep ==
  ASSUME IndInv, NEW w \in Workers, Publish(w)
  PROVE  IndInv'
  <1> DEFINE r == Row(w)
             d == RowDest(Row(w))
  <1>0. /\ WorldTypeOK /\ TypeOK /\ RefsExist /\ RecordsExist /\ WorkerPlaces /\ OpenRows
        /\ OneUnreconciledPerResource /\ AtTarget(w) /\ pc[w] = "publish"
    BY DEF IndInv, TypeOK, Publish, AtTarget
  <1>1. /\ PublishPreparedWrite(d, delivery[r])
        /\ published' = published \cup {r}
        /\ Goto(w, "acknowledge")
        /\ UNCHANGED <<commandVars, rowVars, decisionVars, writeLock, txn, job,
                       todo, cur, failAs, boundVars>>
    BY DEF Publish
  <1>2. /\ r \in Rows /\ d \in Dests /\ r = <<job[w], cur[w]>>
    BY <1>0, BusyRows DEF RowDest, Row
  <1>3. delivery[r] \in DeliveryRecord /\ delivery[r] # None
    BY <1>0, <1>2 DEF TypeOK, WorkerPlaces
  <1>4. delivery[r].after \in Content
    BY <1>3 DEF DeliveryRecord
  <1>5. d \in GitDests => delivery[r].commit \in 1..Len(log[ResourceOf[d]])
    BY <1>0, <1>2, <1>3 DEF RecordsExist
  <1>6. log' = log /\ head' = head /\ checkedOut' = checkedOut /\ external' = external
        /\ disturbed' \subseteq Dests
    BY <1>0, <1>1 DEF PublishPreparedWrite, WorldTypeOK
  <1> HIDE DEF d
  <1>7. file' \in [Files -> Content]
    BY <1>0, <1>1, <1>4 DEF PublishPreparedWrite, WorldTypeOK
  <1>8. branch' \in [Repos -> Nat] /\ \A q \in Repos : branch'[q] \in 0..Len(log[q])
    <2>1. CASE d \in GitDests
      <3>1. branch' = [branch EXCEPT ![ResourceOf[d]] = delivery[r].commit]
        BY <1>1, <2>1 DEF PublishPreparedWrite
      <3>2. delivery[r].commit \in 0..Len(log[ResourceOf[d]]) /\ delivery[r].commit \in Nat
        BY <1>5, <2>1
      <3> QED
        BY <1>0, <3>1, <3>2 DEF WorldTypeOK, RefsExist
    <2>2. CASE d \notin GitDests
      <3>1. branch' = branch
        BY <1>1, <2>2 DEF PublishPreparedWrite
      <3> QED
        BY <1>0, <3>1 DEF WorldTypeOK, RefsExist
    <2> QED
      BY <2>1, <2>2
  <1>9. WorldTypeOK' /\ RefsExist'
    BY <1>0, <1>6, <1>7, <1>8 DEF WorldTypeOK, RefsExist
  <1>10. RecordsExist'
    BY <1>0, <1>1, <1>6, LogsKept, RecordsKept DEF rowVars
  <1>11. TypeOK'
    BY <1>0, <1>1, <1>2, <1>9 DEF TypeOK, Goto, rowVars, commandVars, decisionVars, boundVars
  <1>12. /\ \A v \in Workers : v # w => pc[v] = "idle" /\ pc'[v] = "idle"
         /\ pc'[w] = "acknowledge"
    BY <1>0, <1>1, OthersIdle
  <1>13. WorkerPlaces'
    BY <1>0, <1>1, <1>12 DEF WorkerPlaces, AtTarget, Row, rowVars, commandVars
  <1>14. OpenRows'
    BY <1>0, <1>1, <1>12 DEF OpenRows, AtTarget, Row, rowVars, commandVars
  <1>15. \A q \in Rows : Unreconciled(q)' => Unreconciled(q)
    BY <1>1 DEF Unreconciled, rowVars
  <1> QED
    BY <1>0, <1>9, <1>10, <1>11, <1>13, <1>14, <1>15, LaneKept DEF IndInv

\* The row in hand is completed, or its failure recorded.
LEMMA RecordedStep ==
  ASSUME IndInv, NEW w \in Workers, Acknowledge(w) \/ RecordFailure(w)
  PROVE  IndInv'
  <1>0. /\ TypeOK /\ AtTarget(w) /\ pc[w] # "idle" /\ Goto(w, "target")
        /\ UNCHANGED <<worldVars, commandVars, members, preview, delivery, rejLesson,
                       rejTarget, writeLock, job, todo, cur, published, boundVars>>
    BY DEF IndInv, Acknowledge, RecordFailure, AtTarget, decisionVars
  <1>1. /\ pstatus' \in [Proposals -> {"undecided", "approved_user", "applied", "rejected_user"}]
        /\ txn' \in Workers \cup {NoWorker}
        /\ failAs' \in [Workers -> Stopped \cup {None}]
    BY <1>0 DEF Acknowledge, RecordFailure, TypeOK, decisionVars
  <1>2. /\ Row(w) \in Rows /\ Row(w)[1] = job[w] /\ Row(w)[2] \notin todo'[w]
        /\ todo'[w] \subseteq todo[w] /\ rowState[Row(w)] \notin Finished
    BY <1>0, BusyRows
  <1>3. PICK state \in RowStates : state # "none" /\ rowState' = [rowState EXCEPT ![Row(w)] = state]
    BY DEF Acknowledge, RecordFailure, IndInv, WorkerPlaces, RowStates, Stopped, Finished
  <1>4. /\ WorldTypeOK' /\ RefsExist' /\ RecordsExist' /\ WorkerPlaces' /\ OpenRows'
        /\ OneUnreconciledPerResource'
        /\ rowState' \in [Rows -> RowStates]
    BY <1>0, <1>2, <1>3, RowStep
  <1>5. TypeOK'
    BY <1>0, <1>1, <1>4 DEF TypeOK, Goto, commandVars, boundVars
  <1> QED
    BY <1>4, <1>5 DEF IndInv

\* A worker that finishes its pass or dies leaves every row as it is.
LEMMA LeaveStep ==
  ASSUME IndInv, NEW w \in Workers, Finish(w) \/ Crash(w)
  PROVE  IndInv'
  <1>0. /\ WorldTypeOK /\ TypeOK /\ RefsExist /\ RecordsExist /\ WorkerPlaces /\ OpenRows
        /\ OneUnreconciledPerResource
    BY DEF IndInv, TypeOK
  <1>1. /\ Leave(w) /\ pc[w] # "idle"
        /\ UNCHANGED <<worldVars, cancelReq, rowVars, decisionVars, published>>
        /\ txn' \in Workers \cup {NoWorker} /\ faults' \in Nat /\ retries' \in Nat
    <2>1. CASE Finish(w)
      BY <1>0, <2>1 DEF Finish, TypeOK, boundVars
    <2>2. CASE Crash(w)
      BY <1>0, <2>2 DEF Crash, TypeOK, commandVars
    <2> QED
      BY <2>1, <2>2
  <1>2. \A c \in Commands : /\ cmdState'[c] = "none" <=> cmdState[c] = "none"
                            /\ cmdState'[c] \in {"none"} \cup Claimable \cup Stopped \cup Finished
    <2>1. CASE Crash(w)
      BY <1>0, <2>1 DEF Crash, commandVars, TypeOK
    <2>2. CASE Finish(w)
      <3>1. Rollup(job[w]) \in Claimable \cup Stopped \cup Finished
        BY DEF Rollup, Claimable, Stopped, Finished
      <3>2. job[w] \in Commands /\ cmdState[job[w]] # "none"
        BY <1>1, BusyRows
      <3>3. cmdState' = [cmdState EXCEPT ![job[w]] = Rollup(job[w])]
        BY <2>2 DEF Finish
      <3> HIDE DEF Rollup
      <3>4. Rollup(job[w]) # "none"
        BY <3>1 DEF Claimable, Stopped, Finished
      <3> QED
        BY <1>0, <3>1, <3>2, <3>3, <3>4 DEF TypeOK
    <2> QED
      BY <2>1, <2>2
  <1>3. cmdState' \in [Commands -> {"none"} \cup Claimable \cup Stopped \cup Finished]
    <2>1. cmdState' = [c \in Commands |-> cmdState'[c]]
      BY <1>0 DEF Finish, Crash, commandVars, TypeOK
    <2> QED
      BY <1>2, <2>1
  <1>4. WorldTypeOK' /\ RefsExist' /\ RecordsExist'
    BY <1>0, <1>1, WorldKept DEF rowVars
  <1>5. TypeOK'
    BY <1>0, <1>1, <1>3, <1>4 DEF TypeOK, Leave, Goto, rowVars, decisionVars
  <1>6. writeLock' = NoWorker /\ \A v \in Workers : pc'[v] = "idle"
    BY <1>0, <1>1, OthersIdle DEF Leave, Goto
  <1>7. WorkerPlaces'
    BY <1>6, DeliveryAssumption DEF WorkerPlaces, AtTarget
  <1>8. OpenRows'
    BY <1>0, <1>1, <1>2, <1>6, RowParts DEF OpenRows, rowVars
  <1>9. \A q \in Rows : Unreconciled(q)' => Unreconciled(q)
    BY <1>1 DEF Unreconciled, rowVars
  <1> QED
    BY <1>0, <1>4, <1>5, <1>7, <1>8, <1>9, LaneKept DEF IndInv

\* A step of the operator touches no row, lock or worker.
LEMMA HandStep ==
  ASSUME IndInv, Operator,
         UNCHANGED <<commandVars, rowVars, decisionVars, workerVars, published, boundVars>>
  PROVE  IndInv'
  <1>0. /\ WorldTypeOK /\ TypeOK /\ RefsExist /\ RecordsExist /\ WorkerPlaces /\ OpenRows
        /\ OneUnreconciledPerResource
    BY DEF IndInv, TypeOK
  <1>1. WorldTypeOK' /\ RefsExist' /\ LogsGrow
    BY <1>0, OperatorStep
  <1>2. RecordsExist'
    BY <1>0, <1>1, RecordsKept DEF rowVars
  <1>3. TypeOK'
    BY <1>0, <1>1 DEF TypeOK, commandVars, rowVars, decisionVars, workerVars, boundVars
  <1>4. WorkerPlaces' /\ OpenRows'
    BY <1>0 DEF WorkerPlaces, OpenRows, AtTarget, Row, commandVars, rowVars, workerVars
  <1>5. \A q \in Rows : Unreconciled(q)' => Unreconciled(q)
    BY DEF Unreconciled, rowVars
  <1> QED
    BY <1>0, <1>1, <1>2, <1>3, <1>4, <1>5, LaneKept DEF IndInv

-----------------------------------------------------------------------------
\* Every step keeps the inductive invariant.
LEMMA NextIndInv == IndInv /\ [Next]_vars => IndInv'
  <1> SUFFICES ASSUME IndInv, [Next]_vars PROVE IndInv'
    OBVIOUS
  <1>1. CASE Web
    BY <1>1, WebStep
  <1>2. ASSUME NEW w \in Workers, Work(w) \/ TargetError(w) \/ Crash(w)
        PROVE  IndInv'
    BY <1>2, ClaimStep, StartTargetStep, WithdrawnStep, FailedStep, ObservedStep,
       PrepareStep, PublishStep, RecordedStep, LeaveStep
    DEF Work
  <1>3. CASE Operator /\ UNCHANGED <<commandVars, rowVars, decisionVars, workerVars,
                                      published, boundVars>>
    BY <1>3, HandStep
  <1>4. CASE UNCHANGED vars
    <2>1. WorldTypeOK' /\ RefsExist' /\ RecordsExist'
      BY <1>4, WorldKept DEF IndInv, TypeOK, vars, rowVars
    <2>2. TypeOK'
      BY <1>4, <2>1 DEF IndInv, TypeOK, vars, commandVars, rowVars, decisionVars,
                        workerVars, boundVars
    <2>3. WorkerPlaces' /\ OpenRows'
      BY <1>4 DEF IndInv, WorkerPlaces, OpenRows, AtTarget, Row, vars, commandVars, rowVars,
                  workerVars
    <2>4. \A q \in Rows : Unreconciled(q)' => Unreconciled(q)
      BY <1>4 DEF Unreconciled, vars, rowVars
    <2> QED
      BY <2>1, <2>2, <2>3, <2>4, LaneKept DEF IndInv
  <1> QED
    BY <1>1, <1>2, <1>3, <1>4 DEF Next

\* Every behaviour keeps the inductive invariant: types, refs and records
\* that exist, workers in place, and one open write per file or branch.
THEOREM IndInvHolds == Spec => []IndInv
  BY InitIndInv, NextIndInv, PTL DEF Spec

\* Every behaviour keeps the types of the tables, of a worker and of the
\* places the operator shares with it.
THEOREM TypesHold == Spec => []TypeOK
  <1>1. IndInv => TypeOK
    BY DEF IndInv
  <1> QED
    BY <1>1, IndInvHolds, PTL

\* A file or a delivery branch never has two open prepared writes, whatever
\* crashes, retries, cancellations and hand edits happen
\* (_refuse_unreconciled_delivery, instruction_write_lock).
THEOREM OneOpenWrite == Spec => []OneUnreconciledPerResource
  <1>1. IndInv => OneUnreconciledPerResource
    BY DEF IndInv
  <1> QED
    BY <1>1, IndInvHolds, PTL

-----------------------------------------------------------------------------
\* What decisions and busy workers add to the inductive invariant.

\* The command of a busy worker is running, and the rows it still has to do
\* can all be claimed.
Hands ==
    \A w \in Workers : pc[w] # "idle" =>
        /\ cmdState[job[w]] = "running"
        /\ \A d \in todo[w] : rowState[<<job[w], d>>] \in Claimable
        /\ AtTarget(w) => rowState[Row(w)] \in Claimable

\* The transaction around a write spans it, and no decision commits inside.
Writing ==
    \A w \in Workers :
        /\ pc[w] \in {"publish", "acknowledge"} <=> txn = w
        /\ pc[w] = "publish" => ~Withdrawn(Row(w)) /\ Authorized(Row(w))

OpenFor(p, r) == p \in members[r] /\ rowState[r] \in Claimable \cup Stopped
DoneFor(p, r) == p \in members[r] /\ rowState[r] = "completed"

\* Where the approval of a proposal may be found.
Placed(p) ==
    /\ pstatus[p] = "undecided" => \A r \in Rows : ~OpenFor(p, r) /\ ~DoneFor(p, r)
    /\ pstatus[p] = "approved_user" =>
           \E r \in Rows : /\ OpenFor(p, r)
                           /\ \A q \in Rows : ~DoneFor(p, q) /\ (OpenFor(p, q) => q = r)
    /\ pstatus[p] = "applied" =>
           \E r \in Rows : /\ DoneFor(p, r)
                           /\ \A q \in Rows : ~OpenFor(p, q) /\ (DoneFor(p, q) => q = r)

DecisionInv ==
    /\ IndInv /\ Hands /\ Writing /\ RestingCommandHasNoOpenRow
    /\ \A p \in Proposals : Placed(p)

-----------------------------------------------------------------------------
\* What a step does to one row and to the decisions about its members.

\* Row r of the running command of some worker moves to a state.
Moves(r, states) ==
    /\ rowState[r] \in Claimable /\ cmdState[r[1]] = "running"
    /\ \E state \in states : rowState' = [rowState EXCEPT ![r] = state]
    /\ UNCHANGED <<commandVars, members, rejLesson, rejTarget>>

\* A worker that is not at a write keeps the rows and the decisions.
Rests == UNCHANGED <<cancelReq, rowState, members, decisionVars>>

\* The steps of a worker, told apart by what they do to rows and decisions.
WorkerEffect ==
    \/ Rests
    \/ \E r \in Rows : Moves(r, Claimable \cup Stopped) /\ pstatus' = pstatus
    \/ \E r \in Rows :
        /\ Moves(r, {"cancelled"})
        /\ pstatus' = [p \in Proposals |->
               IF p \in members[r] /\ pstatus[p] = "approved_user"
               THEN "undecided" ELSE pstatus[p]]
    \/ \E r \in Rows :
        /\ Moves(r, {"completed"})
        /\ pstatus' = [p \in Proposals |->
               IF p \in members[r] /\ pstatus[p] = "approved_user"
               THEN "applied" ELSE pstatus[p]]

\* Every step of a worker has one of these effects.
LEMMA WorkerEffects ==
  ASSUME IndInv, Hands, NEW w \in Workers, Work(w) \/ TargetError(w) \/ Crash(w)
  PROVE  WorkerEffect
  <1>0. CASE pc[w] = "idle"
    <2>1. Rests
      BY <1>0 DEF Work, Claim, StartTarget, PrepareRefused, PrepareWithdrawn, PrepareDelivery,
         ObserveDelivered, ObserveWithdrawn, ObserveUnwritten, ObserveRefused, Publish, RefMoved,
         Acknowledge, RecordFailure, Finish, TargetError, Crash, Rests, rowVars, decisionVars
    <2> QED
      BY <2>1 DEF WorkerEffect
  <1>a. SUFFICES ASSUME pc[w] # "idle" PROVE WorkerEffect
    BY <1>0
  <1>1. /\ job[w] \in Commands /\ cmdState[job[w]] = "running"
        /\ \A d \in todo[w] : /\ <<job[w], d>> \in Rows /\ <<job[w], d>>[1] = job[w]
                              /\ rowState[<<job[w], d>>] \in Claimable
        /\ AtTarget(w) => /\ Row(w) \in Rows /\ Row(w)[1] = job[w]
                          /\ rowState[Row(w)] \in Claimable
    BY <1>a, BusyRows DEF Hands
  <1>2. CASE \/ Claim(w) \/ PrepareRefused(w) \/ ObserveDelivered(w) \/ ObserveUnwritten(w)
             \/ ObserveRefused(w) \/ Publish(w) \/ RefMoved(w) \/ Finish(w)
             \/ TargetError(w) \/ Crash(w)
    <2>1. Rests
      BY <1>2 DEF Claim, PrepareRefused, ObserveDelivered, ObserveUnwritten, ObserveRefused,
         Publish, RefMoved, Finish, TargetError, Crash, Rests, rowVars, commandVars
    <2> QED
      BY <2>1 DEF WorkerEffect
  <1>3. CASE StartTarget(w)
    <2>1. PICK d \in todo[w] :
            \/ UNCHANGED <<rowVars, decisionVars>>
            \/ CancelUnwritten(<<job[w], d>>)
      BY <1>3 DEF StartTarget
    <2>2. UNCHANGED commandVars
      BY <1>3 DEF StartTarget
    <2>3. CASE UNCHANGED <<rowVars, decisionVars>>
      BY <2>2, <2>3 DEF WorkerEffect, Rests, commandVars, rowVars
    <2>4. CASE CancelUnwritten(<<job[w], d>>)
      <3>1. Moves(<<job[w], d>>, {"cancelled"})
        BY <1>1, <2>2, <2>4 DEF Moves, CancelUnwritten
      <3> QED
        BY <1>1, <2>4, <3>1 DEF WorkerEffect, CancelUnwritten
    <2> QED
      BY <2>1, <2>3, <2>4
  <1>4. CASE PrepareWithdrawn(w) \/ ObserveWithdrawn(w)
    <2>1. /\ AtTarget(w) /\ CancelUnwritten(Row(w)) /\ UNCHANGED commandVars
      BY <1>4 DEF PrepareWithdrawn, ObserveWithdrawn, AtTarget
    <2>2. Moves(Row(w), {"cancelled"})
      BY <1>1, <2>1 DEF Moves, CancelUnwritten
    <2> QED
      BY <1>1, <2>1, <2>2 DEF WorkerEffect, CancelUnwritten
  <1>5. CASE PrepareDelivery(w)
    <2>1. AtTarget(w) /\ rowState' = [rowState EXCEPT ![Row(w)] = "running"]
          /\ UNCHANGED <<commandVars, members, decisionVars>>
      BY <1>5 DEF PrepareDelivery, AtTarget
    <2>2. Moves(Row(w), Claimable \cup Stopped) /\ pstatus' = pstatus
      BY <1>1, <2>1 DEF Moves, decisionVars, Claimable
    <2> QED
      BY <1>1, <2>1, <2>2 DEF WorkerEffect
  <1>6. CASE RecordFailure(w)
    <2>1. AtTarget(w) /\ rowState' = [rowState EXCEPT ![Row(w)] = failAs[w]]
          /\ failAs[w] \in Stopped
          /\ UNCHANGED <<commandVars, members, decisionVars>>
      BY <1>6 DEF RecordFailure, AtTarget, IndInv, WorkerPlaces
    <2>2. Moves(Row(w), Claimable \cup Stopped) /\ pstatus' = pstatus
      BY <1>1, <2>1 DEF Moves, decisionVars
    <2> QED
      BY <1>1, <2>1, <2>2 DEF WorkerEffect
  <1>7. CASE Acknowledge(w)
    <2>1. AtTarget(w)
      BY <1>7 DEF Acknowledge, AtTarget
    <2>2. Moves(Row(w), {"completed"})
      BY <1>1, <1>7, <2>1 DEF Moves, Acknowledge
    <2> QED
      BY <1>1, <1>7, <2>1, <2>2 DEF WorkerEffect, Acknowledge
  <1> QED
    BY <1>2, <1>3, <1>4, <1>5, <1>6, <1>7 DEF Work

\* A rejection turns undecided and approved proposals into rejected ones, and
\* is no matter of the rows.
Rejects ==
    /\ \E affected \in SUBSET Proposals : RejectAll(affected)
    /\ UNCHANGED <<commandVars, rowState, members>>

\* The decisions of the web process, told apart in the same way.
WebEffect ==
    \/ \E c \in Commands, selection \in SUBSET Proposals : Approve(c, selection)
    \/ Rejects
    \/ \E c \in Commands : Requeue(c) /\ UNCHANGED <<members, decisionVars>>

\* Every request has one of these effects, and none commits inside a write.
LEMMA WebEffects ==
  ASSUME Web
  PROVE  WebEffect /\ UNCHANGED workerVars /\ txn = NoWorker
  <1>1. ASSUME NEW c \in Commands, NEW selection \in SUBSET Proposals, Approve(c, selection)
        PROVE  WebEffect /\ UNCHANGED workerVars /\ txn = NoWorker
    BY <1>1 DEF Approve, WebEffect
  <1>2. ASSUME NEW p \in Proposals, RejectTarget(p) \/ RejectLesson(p)
        PROVE  WebEffect /\ UNCHANGED workerVars /\ txn = NoWorker
    <2>1. Rejects
      BY <1>2 DEF RejectTarget, RejectLesson, Rejects, rowVars
    <2> QED
      BY <1>2, <2>1 DEF RejectTarget, RejectLesson, WebEffect
  <1>3. ASSUME NEW c \in Commands, RetryDelivery(c) \/ CancelDelivery(c)
        PROVE  WebEffect /\ UNCHANGED workerVars /\ txn = NoWorker
    BY <1>3 DEF RetryDelivery, CancelDelivery, WebEffect
  <1> QED
    BY <1>1, <1>2, <1>3 DEF Web

-----------------------------------------------------------------------------
\* Every approval belongs to one row.

\* A row that stays open, or none, leaves every approval where it is.
LEMMA PlacedRests ==
  ASSUME TypeOK, NEW p \in Proposals, Placed(p), UNCHANGED <<members, pstatus>>,
         \A r \in Rows : /\ rowState'[r] \in Claimable \cup Stopped <=> rowState[r] \in Claimable \cup Stopped
                         /\ rowState'[r] = "completed" <=> rowState[r] = "completed"
  PROVE  Placed(p)'
  BY DEF Placed, OpenFor, DoneFor

\* A worker's step keeps every approval in one row: it returns the members
\* of the row it cancels, and applies those of the row it completes.
LEMMA PlacedByWorker ==
  ASSUME TypeOK, WorkerEffect, NEW p \in Proposals, Placed(p)
  PROVE  Placed(p)'
  <1> USE DEF Claimable, Stopped
  <1>0. CASE Rests
    BY <1>0, PlacedRests DEF Rests, decisionVars
  <1>1. ASSUME NEW r \in Rows, Moves(r, Claimable \cup Stopped), pstatus' = pstatus
        PROVE  Placed(p)'
    <2>1. PICK state \in Claimable \cup Stopped : rowState' = [rowState EXCEPT ![r] = state]
      BY <1>1 DEF Moves
    <2>2. \A q \in Rows : rowState'[q] = IF q = r THEN state ELSE rowState[q]
      BY <2>1 DEF TypeOK
    <2> QED
      BY <1>1, <2>2, PlacedRests DEF Moves
  <1>2. ASSUME NEW r \in Rows, Moves(r, {"cancelled"}),
               pstatus' = [q \in Proposals |->
                   IF q \in members[r] /\ pstatus[q] = "approved_user"
                   THEN "undecided" ELSE pstatus[q]]
        PROVE  Placed(p)'
    <2>1. \A q \in Rows : rowState'[q] = IF q = r THEN "cancelled" ELSE rowState[q]
      BY <1>2 DEF Moves, TypeOK
    <2>2. members' = members /\ rowState[r] \in Claimable
      BY <1>2 DEF Moves
    <2>3. \A q \in Rows : /\ OpenFor(p, q)' <=> OpenFor(p, q) /\ q # r
                          /\ DoneFor(p, q)' <=> DoneFor(p, q)
      BY <2>1, <2>2 DEF OpenFor, DoneFor
    <2>4. p \in members[r] => OpenFor(p, r)
      BY <2>2 DEF OpenFor
    <2>5. pstatus'[p] = IF p \in members[r] /\ pstatus[p] = "approved_user"
                        THEN "undecided" ELSE pstatus[p]
      BY <1>2
    <2>6. p \notin members[r] => \A q \in Rows : OpenFor(p, q) => q # r
      BY DEF OpenFor
    <2> HIDE DEF Claimable, Stopped
    <2> QED
      BY <2>3, <2>4, <2>5, <2>6 DEF Placed
  <1>3. ASSUME NEW r \in Rows, Moves(r, {"completed"}),
               pstatus' = [q \in Proposals |->
                   IF q \in members[r] /\ pstatus[q] = "approved_user"
                   THEN "applied" ELSE pstatus[q]]
        PROVE  Placed(p)'
    <2>1. \A q \in Rows : rowState'[q] = IF q = r THEN "completed" ELSE rowState[q]
      BY <1>3 DEF Moves, TypeOK
    <2>2. members' = members /\ rowState[r] \in Claimable
      BY <1>3 DEF Moves
    <2>3. \A q \in Rows : /\ OpenFor(p, q)' <=> OpenFor(p, q) /\ q # r
                          /\ DoneFor(p, q)' <=> DoneFor(p, q) \/ (q = r /\ p \in members[r])
      BY <2>1, <2>2 DEF OpenFor, DoneFor
    <2>4. p \in members[r] => OpenFor(p, r)
      BY <2>2 DEF OpenFor
    <2>5. pstatus'[p] = IF p \in members[r] /\ pstatus[p] = "approved_user"
                        THEN "applied" ELSE pstatus[p]
      BY <1>3
    <2>6. p \notin members[r] => \A q \in Rows : OpenFor(p, q) => q # r
      BY DEF OpenFor
    <2> HIDE DEF Claimable, Stopped
    <2> QED
      BY <2>3, <2>4, <2>5, <2>6 DEF Placed
  <1> QED
    BY <1>0, <1>1, <1>2, <1>3 DEF WorkerEffect

\* A decision keeps it too: an approval opens one row for each member, since
\* the new command has no rows yet and an edit has one destination.
LEMMA PlacedByWeb ==
  ASSUME IndInv, WebEffect, NEW p \in Proposals, Placed(p)
  PROVE  Placed(p)'
  <1>0. TypeOK /\ OpenRows
    BY DEF IndInv
  <1>1. ASSUME NEW c \in Commands, NEW selection \in SUBSET Proposals, Approve(c, selection)
        PROVE  Placed(p)'
    <2> DEFINE mine == <<c, DestOf[p]>>
               Chosen(d) == {q \in selection : DestOf[q] = d}
               Opened(r) == r[1] = c /\ Chosen(RowDest(r)) # {}
    <2>1. \A r \in Rows : r[1] = c => rowState[r] = "none"
      BY <1>0, <1>1 DEF Approve, NewCommand, OpenRows
    <2>2. \A r \in Rows : /\ rowState'[r] = IF Opened(r) THEN "queued" ELSE rowState[r]
                          /\ members'[r] = IF Opened(r) THEN Chosen(RowDest(r)) ELSE members[r]
      BY <1>1 DEF Approve, RowDest, Rows
    <2>3. mine \in Rows /\ DestOf[p] \in Dests
      BY DeliveryAssumption DEF Rows
    <2>4. ASSUME p \in selection
          PROVE  /\ \A r \in Rows : ~OpenFor(p, r) /\ ~DoneFor(p, r)
                 /\ \A r \in Rows : Opened(r) /\ p \in Chosen(RowDest(r)) <=> r = mine
                 /\ pstatus'[p] = "approved_user"
      <3>1. pstatus[p] = "undecided"
        BY <1>1, <2>4 DEF Approve, Waiting
      <3>2. \A r \in Rows : Opened(r) /\ p \in Chosen(RowDest(r)) <=> r = mine
        BY <2>3, <2>4, RowParts DEF RowDest
      <3> QED
        BY <1>1, <2>4, <3>1, <3>2 DEF Placed, Approve
    <2>5. ASSUME p \notin selection
          PROVE  /\ \A r \in Rows : (OpenFor(p, r)' <=> OpenFor(p, r))
                                    /\ (DoneFor(p, r)' <=> DoneFor(p, r))
                 /\ pstatus'[p] = pstatus[p]
      <3>1. \A r \in Rows : (OpenFor(p, r)' <=> OpenFor(p, r)) /\ (DoneFor(p, r)' <=> DoneFor(p, r))
        <4>1. ASSUME NEW r \in Rows, Opened(r)
              PROVE  (OpenFor(p, r)' <=> OpenFor(p, r)) /\ (DoneFor(p, r)' <=> DoneFor(p, r))
          <5>1. p \notin members'[r]
            BY <2>2, <2>5, <4>1
          <5>2. rowState[r] = "none"
            BY <2>1, <4>1
          <5> QED
            BY <5>1, <5>2 DEF OpenFor, DoneFor, Claimable, Stopped
        <4>2. ASSUME NEW r \in Rows, ~Opened(r)
              PROVE  (OpenFor(p, r)' <=> OpenFor(p, r)) /\ (DoneFor(p, r)' <=> DoneFor(p, r))
          BY <2>2, <4>2 DEF OpenFor, DoneFor
        <4> QED
          BY <4>1, <4>2
      <3> QED
        BY <1>1, <2>5, <3>1 DEF Approve
    <2>6. CASE p \notin selection
      BY <2>5, <2>6 DEF Placed
    <2>7. CASE p \in selection
      <3>1. OpenFor(p, mine)'
        BY <2>2, <2>3, <2>4, <2>7 DEF OpenFor, Claimable
      <3>2. ASSUME NEW r \in Rows PROVE ~DoneFor(p, r)' /\ (OpenFor(p, r)' => r = mine)
        <4>1. CASE Opened(r)
          BY <2>2, <2>4, <2>7, <4>1 DEF OpenFor, DoneFor
        <4>2. CASE ~Opened(r)
          BY <2>2, <2>4, <2>7, <4>2 DEF OpenFor, DoneFor
        <4> QED
          BY <4>1, <4>2
      <3> QED
        BY <2>3, <2>4, <2>7, <3>1, <3>2 DEF Placed
    <2> QED
      BY <2>6, <2>7
  <1>2. CASE Rejects
    BY <1>2 DEF Rejects, RejectAll, Placed, OpenFor, DoneFor
  <1>3. ASSUME NEW c \in Commands, Requeue(c), UNCHANGED <<members, decisionVars>>
        PROVE  Placed(p)'
    <2>1. \A r \in Rows :
            /\ rowState'[r] \in Claimable \cup Stopped <=> rowState[r] \in Claimable \cup Stopped
            /\ rowState'[r] = "completed" <=> rowState[r] = "completed"
      BY <1>3 DEF Requeue, Claimable, Stopped
    <2> QED
      BY <1>0, <1>3, <2>1, PlacedRests DEF decisionVars
  <1> QED
    BY <1>1, <1>2, <1>3 DEF WebEffect

-----------------------------------------------------------------------------
\* A busy worker's command stays running and its rows claimable.

\* No decision disturbs them: a control requeues only what stopped, keeps a
\* running command running, and an approval is about a command nobody runs.
LEMMA HandsByWeb ==
  ASSUME IndInv, Hands, WebEffect, UNCHANGED workerVars
  PROVE  Hands'
  <1>0. TypeOK /\ OpenRows /\ UNCHANGED <<pc, job, todo, cur>>
    BY DEF IndInv, workerVars
  <1>1. SUFFICES ASSUME NEW w \in Workers, pc[w] # "idle"
                 PROVE  /\ cmdState'[job[w]] = "running"
                        /\ \A d \in todo[w] : rowState'[<<job[w], d>>] \in Claimable
                        /\ AtTarget(w) => rowState'[Row(w)] \in Claimable
    BY <1>0 DEF Hands, AtTarget, Row
  <1>2. /\ job[w] \in Commands /\ cmdState[job[w]] = "running"
        /\ \A d \in todo[w] : /\ <<job[w], d>> \in Rows /\ <<job[w], d>>[1] = job[w]
                              /\ rowState[<<job[w], d>>] \in Claimable
        /\ AtTarget(w) => /\ Row(w) \in Rows /\ Row(w)[1] = job[w]
                          /\ rowState[Row(w)] \in Claimable
    BY <1>1, BusyRows DEF Hands
  <1>3. /\ cmdState'[job[w]] = "running"
        /\ \A r \in Rows : r[1] = job[w] /\ rowState[r] \in Claimable => rowState'[r] = rowState[r]
    <2>1. ASSUME NEW c \in Commands, NEW selection \in SUBSET Proposals, Approve(c, selection)
          PROVE  /\ cmdState'[job[w]] = "running"
                 /\ \A r \in Rows : r[1] = job[w] /\ rowState[r] \in Claimable
                                    => rowState'[r] = rowState[r]
      <3>1. c # job[w]
        BY <1>2, <2>1 DEF Approve, NewCommand
      <3> QED
        BY <1>0, <1>2, <2>1, <3>1 DEF Approve, TypeOK
    <2>2. CASE Rejects
      BY <1>2, <2>2 DEF Rejects, commandVars
    <2>3. ASSUME NEW c \in Commands, Requeue(c)
          PROVE  /\ cmdState'[job[w]] = "running"
                 /\ \A r \in Rows : r[1] = job[w] /\ rowState[r] \in Claimable
                                    => rowState'[r] = rowState[r]
      BY <1>0, <1>2, <2>3 DEF Requeue, TypeOK, Claimable, Stopped
    <2> QED
      BY <2>1, <2>2, <2>3 DEF WebEffect
  <1> QED
    BY <1>2, <1>3

\* Nor does a step of the worker itself: it leaves a row it has dealt with
\* behind, and every other worker is idle.
LEMMA HandsByWorker ==
  ASSUME IndInv, Hands, NEW w \in Workers, Work(w) \/ TargetError(w) \/ Crash(w)
  PROVE  Hands'
  <1> DEFINE Mine == /\ cmdState'[job'[w]] = "running"
                     /\ \A d \in todo'[w] : rowState'[<<job'[w], d>>] \in Claimable
                     /\ pc'[w] \notin {"idle", "target"} =>
                            rowState'[<<job'[w], cur'[w]>>] \in Claimable
  <1>0. TypeOK
    BY DEF IndInv
  <1>1. /\ pc[w] # "idle" \/ writeLock = NoWorker
        /\ \E label : Goto(w, label)
    <2>1. CASE StartTarget(w)
      <3>1. UNCHANGED pc => Goto(w, "target")
        BY <1>0, <2>1 DEF StartTarget, Goto, TypeOK
      <3> QED
        BY <2>1, <3>1 DEF StartTarget
    <2>2. CASE ~StartTarget(w)
      BY <2>2 DEF Work, Claim, PrepareRefused, PrepareWithdrawn, PrepareDelivery,
         ObserveDelivered, ObserveWithdrawn, ObserveUnwritten, ObserveRefused, Publish, RefMoved,
         Acknowledge, RecordFailure, Finish, TargetError, Crash, Fail, Leave
    <2> QED
      BY <2>1, <2>2
  <1>2. \A v \in Workers : v # w => pc'[v] = "idle"
    BY <1>1, OthersIdle
  <1>3. (pc'[w] # "idle" => Mine) => Hands'
    BY <1>2 DEF Hands, AtTarget, Row
  <1> HIDE DEF Mine
  <1>4. SUFFICES ASSUME pc'[w] # "idle" PROVE Mine
    BY <1>3
  <1> USE DEF Mine
  <1>5. CASE Claim(w)
    <2>1. PICK c \in Commands :
            /\ cmdState' = [cmdState EXCEPT ![c] = "running"]
            /\ job' = [job EXCEPT ![w] = c]
            /\ todo' = [todo EXCEPT ![w] = {d \in Dests : rowState[<<c, d>>] \in Claimable}]
      BY <1>5 DEF Claim
    <2> QED
      BY <1>0, <1>5, <2>1 DEF Claim, Goto, TypeOK, rowVars
  <1>6. CASE Finish(w) \/ Crash(w)
    BY <1>0, <1>4, <1>6 DEF Finish, Crash, Leave, Goto, TypeOK
  <1>7. ASSUME ~Claim(w), ~Finish(w), ~Crash(w) PROVE Mine
    <2>1. pc[w] # "idle" /\ UNCHANGED <<cmdState, job>>
      BY <1>7 DEF Work, StartTarget, PrepareRefused, PrepareWithdrawn, PrepareDelivery,
         ObserveDelivered, ObserveWithdrawn, ObserveUnwritten, ObserveRefused, Publish, RefMoved,
         Acknowledge, RecordFailure, TargetError, commandVars
    <2>2. /\ job[w] \in Commands /\ cmdState[job[w]] = "running"
          /\ \A d \in todo[w] : /\ <<job[w], d>> \in Rows
                                /\ rowState[<<job[w], d>>] \in Claimable
          /\ AtTarget(w) => /\ Row(w) \in Rows /\ cur[w] \notin todo[w]
                            /\ rowState[Row(w)] \in Claimable
      BY <2>1, BusyRows DEF Hands
    <2>3. CASE StartTarget(w)
      <3>1. PICK d \in todo[w] :
              /\ todo' = [todo EXCEPT ![w] = @ \ {d}]
              /\ cur' = [cur EXCEPT ![w] = d]
              /\ \/ UNCHANGED rowVars
                 \/ CancelUnwritten(<<job[w], d>>) /\ UNCHANGED pc
        BY <2>3 DEF StartTarget
      <3>2. todo'[w] = todo[w] \ {d} /\ cur'[w] = d
        BY <1>0, <3>1 DEF TypeOK
      <3>3. CASE UNCHANGED rowVars
        BY <2>1, <2>2, <3>2, <3>3 DEF rowVars
      <3>4. CASE CancelUnwritten(<<job[w], d>>) /\ UNCHANGED pc
        <4>1. \A e \in todo'[w] : <<job[w], e>> # <<job[w], d>>
          BY <3>2
        <4>2. \A e \in todo'[w] : rowState'[<<job[w], e>>] \in Claimable
          BY <1>0, <2>2, <3>2, <3>4, <4>1 DEF CancelUnwritten, TypeOK
        <4> QED
          BY <2>1, <2>2, <2>3, <3>4, <4>2 DEF StartTarget
      <3> QED
        BY <3>1, <3>3, <3>4
    <2>4. ASSUME AtTarget(w), UNCHANGED <<todo, cur>>,
                 \/ rowState' = rowState
                 \/ rowState' = [rowState EXCEPT ![Row(w)] = "running"]
                 \/ /\ Goto(w, "target")
                    /\ \E state \in RowStates : rowState' = [rowState EXCEPT ![Row(w)] = state]
          PROVE  Mine
      <3>1. \A e \in todo[w] : <<job[w], e>> # Row(w)
        BY <2>2, <2>4 DEF Row
      <3>2. \A e \in todo[w] : rowState'[<<job[w], e>>] \in Claimable
        BY <1>0, <2>2, <2>4, <3>1 DEF TypeOK
      <3>3. pc'[w] # "target" => rowState'[Row(w)] \in Claimable
        BY <1>0, <2>2, <2>4 DEF TypeOK, Goto, Claimable
      <3> QED
        BY <2>1, <2>2, <2>4, <3>2, <3>3 DEF Row
    <2>5. CASE ~StartTarget(w)
      <3>1. AtTarget(w) /\ UNCHANGED <<todo, cur>>
        BY <1>7, <2>5 DEF Work, PrepareRefused, PrepareWithdrawn, PrepareDelivery,
           ObserveDelivered, ObserveWithdrawn, ObserveUnwritten, ObserveRefused, Publish,
           RefMoved, Acknowledge, RecordFailure, TargetError, AtTarget
      <3>2. CASE \/ PrepareRefused(w) \/ ObserveDelivered(w) \/ ObserveUnwritten(w)
                 \/ ObserveRefused(w) \/ Publish(w) \/ RefMoved(w) \/ TargetError(w)
        <4>1. rowState' = rowState
          BY <3>2 DEF PrepareRefused, ObserveDelivered, ObserveUnwritten, ObserveRefused,
             Publish, RefMoved, TargetError, rowVars
        <4> QED
          BY <2>4, <3>1, <4>1
      <3>3. CASE PrepareDelivery(w)
        BY <2>4, <3>1, <3>3 DEF PrepareDelivery
      <3>4. CASE PrepareWithdrawn(w) \/ ObserveWithdrawn(w) \/ Acknowledge(w)
        <4>1. /\ Goto(w, "target")
              /\ \E state \in RowStates : rowState' = [rowState EXCEPT ![Row(w)] = state]
          BY <3>4 DEF PrepareWithdrawn, ObserveWithdrawn, Acknowledge, CancelUnwritten,
             RowStates, Finished
        <4> QED
          BY <2>4, <3>1, <4>1
      <3>5. CASE RecordFailure(w)
        <4>1. failAs[w] \in RowStates
          BY <3>5 DEF RecordFailure, IndInv, WorkerPlaces, RowStates
        <4> QED
          BY <2>4, <3>1, <3>5, <4>1 DEF RecordFailure
      <3> QED
        BY <1>7, <2>5, <3>2, <3>3, <3>4, <3>5 DEF Work
    <2> QED
      BY <2>3, <2>5
  <1> QED
    BY <1>5, <1>6, <1>7

-----------------------------------------------------------------------------
\* The transaction around a write.

\* Nobody but the worker inside its transaction disturbs it, and the last
\* look before a write has seen its authority.
LEMMA WritingByWorker ==
  ASSUME IndInv, Writing, NEW w \in Workers, Work(w) \/ TargetError(w) \/ Crash(w)
  PROVE  Writing'
  <1>0. TypeOK /\ NoWorker \notin Workers
    BY DeliveryAssumption DEF IndInv
  <1>1. /\ pc[w] # "idle" \/ writeLock = NoWorker
        /\ \E label : Goto(w, label)
    <2>1. CASE StartTarget(w)
      <3>1. UNCHANGED pc => Goto(w, "target")
        BY <1>0, <2>1 DEF StartTarget, Goto, TypeOK
      <3> QED
        BY <2>1, <3>1 DEF StartTarget
    <2>2. CASE ~StartTarget(w)
      BY <2>2 DEF Work, Claim, PrepareRefused, PrepareWithdrawn, PrepareDelivery,
         ObserveDelivered, ObserveWithdrawn, ObserveUnwritten, ObserveRefused, Publish, RefMoved,
         Acknowledge, RecordFailure, Finish, TargetError, Crash, Fail, Leave
    <2> QED
      BY <2>1, <2>2
  <1>2. \A v \in Workers : v # w => pc[v] = "idle" /\ pc'[v] = "idle" /\ txn # v
    BY <1>1, OthersIdle DEF Writing
  <1>3. SUFFICES /\ txn' \in {w, NoWorker}
                 /\ pc'[w] \in {"publish", "acknowledge"} <=> txn' = w
                 /\ pc'[w] = "publish" =>
                        /\ ~Withdrawn(Row(w)) /\ Authorized(Row(w))
                        /\ UNCHANGED <<job, cur, cancelReq, members, decisionVars>>
    <2>1. ASSUME NEW v \in Workers
          PROVE  /\ pc'[v] \in {"publish", "acknowledge"} <=> txn' = v
                 /\ pc'[v] = "publish" => ~Withdrawn(Row(v))' /\ Authorized(Row(v))'
      <3>1. CASE v # w
        BY <1>0, <1>2, <1>3, <3>1
      <3>2. CASE v = w
        BY <1>3, <3>2 DEF Withdrawn, Authorized, Suppressed, Row, decisionVars
      <3> QED
        BY <3>1, <3>2
    <2> QED
      BY <2>1 DEF Writing
  <1>4. txn \in {w, NoWorker} /\ (pc[w] \in {"publish", "acknowledge"} <=> txn = w)
    BY <1>0, <1>2 DEF TypeOK, Writing
  <1>5. CASE ObserveUnwritten(w)
    BY <1>0, <1>5 DEF ObserveUnwritten, Goto, TypeOK, Publishable, commandVars, rowVars
  <1>6. CASE ObserveDelivered(w) \/ Publish(w)
    BY <1>0, <1>4, <1>6 DEF ObserveDelivered, Publish, Goto, TypeOK
  <1>7. CASE \/ PrepareRefused(w) \/ ObserveRefused(w) \/ RefMoved(w) \/ TargetError(w)
             \/ Acknowledge(w) \/ Crash(w)
    BY <1>0, <1>7 DEF PrepareRefused, ObserveRefused, RefMoved, TargetError, Acknowledge,
       Crash, Fail, Leave, Goto, TypeOK
  <1>8. CASE \/ Claim(w) \/ StartTarget(w) \/ PrepareWithdrawn(w) \/ PrepareDelivery(w)
             \/ ObserveWithdrawn(w) \/ RecordFailure(w) \/ Finish(w)
    <2>1. /\ pc[w] \notin {"publish", "acknowledge"} /\ txn' = txn
          /\ pc'[w] \notin {"publish", "acknowledge"}
      BY <1>0, <1>8 DEF Claim, StartTarget, PrepareWithdrawn, PrepareDelivery, ObserveWithdrawn,
         RecordFailure, Finish, Leave, Goto, TypeOK
    <2> QED
      BY <1>4, <2>1
  <1> QED
    BY <1>5, <1>6, <1>7, <1>8 DEF Work

\* No decision commits while a worker is inside it.
LEMMA WritingByWeb ==
  ASSUME Writing, UNCHANGED workerVars, txn = NoWorker
  PROVE  Writing'
  <1>1. \A w \in Workers : pc[w] \notin {"publish", "acknowledge"}
    BY DeliveryAssumption DEF Writing
  <1> QED
    BY <1>1, DeliveryAssumption DEF Writing, workerVars

-----------------------------------------------------------------------------
\* A command at rest.

\* The state a pass gives its command agrees with the rows it rereads.
LEMMA RollupAgrees ==
  ASSUME NEW c \in Commands
  PROVE  /\ Rollup(c) \in {"queued"} \cup Stopped \cup Finished
         /\ Rollup(c) \in Stopped \cup Finished => ~RowsIn(c, Claimable)
         /\ Rollup(c) \in Stopped \cup Finished =>
                (Rollup(c) \in Stopped <=> RowsIn(c, Stopped))
  <1> DEFINE open == RowsIn(c, Claimable)
             bad == RowsIn(c, {"failed"})
             held == RowsIn(c, {"blocked"})
             gone == RowsIn(c, {"cancelled"})
  <1>1. /\ RowsIn(c, Claimable \cup {"failed"}) <=> open \/ bad
        /\ RowsIn(c, Claimable \cup Stopped) <=> open \/ bad \/ held
        /\ RowsIn(c, Stopped) <=> bad \/ held
    BY DEF RowsIn, Stopped
  <1>2. Rollup(c) = CASE open -> "queued"
                      [] ~open /\ bad -> "failed"
                      [] ~(open \/ bad) /\ held -> "blocked"
                      [] ~(open \/ bad \/ held) /\ gone -> "cancelled"
                      [] OTHER -> "completed"
    BY <1>1 DEF Rollup
  <1> HIDE DEF open, bad, held, gone
  <1>3. open => Rollup(c) = "queued"
    BY <1>2
  <1>4. ~open /\ bad => Rollup(c) = "failed"
    BY <1>2
  <1>5. ~open /\ ~bad /\ held => Rollup(c) = "blocked"
    BY <1>2
  <1>6. ~open /\ ~bad /\ ~held => Rollup(c) \in Finished
    BY <1>2 DEF Finished
  <1> QED
    BY <1>1, <1>3, <1>4, <1>5, <1>6 DEF open, bad, held, Stopped, Finished

\* Rows change only under a running command or one that a control or an
\* approval has just queued; a pass ends with a state from its rows.
LEMMA RestingByWorker ==
  ASSUME IndInv, Hands, RestingCommandHasNoOpenRow, NEW w \in Workers,
         Work(w) \/ TargetError(w) \/ Crash(w)
  PROVE  RestingCommandHasNoOpenRow'
  <1>0. TypeOK
    BY DEF IndInv
  <1>1. SUFFICES ASSUME NEW c \in Commands, cmdState'[c] \in Stopped \cup Finished
                 PROVE  /\ ~RowsIn(c, Claimable)'
                        /\ cmdState'[c] \in Stopped <=> RowsIn(c, Stopped)'
    BY DEF RestingCommandHasNoOpenRow
  <1>2. CASE Finish(w)
    <2>1. job[w] \in Commands /\ cmdState' = [cmdState EXCEPT ![job[w]] = Rollup(job[w])]
          /\ rowState' = rowState
      BY <1>2, BusyRows DEF Finish, rowVars
    <2>2. \A b \in Commands : cmdState'[b] = IF b = job[w] THEN Rollup(b) ELSE cmdState[b]
      BY <1>0, <2>1 DEF TypeOK
    <2>3. CASE c = job[w]
      <3>1. cmdState'[c] = Rollup(c)
        BY <2>2, <2>3
      <3> QED
        BY <1>1, <2>1, <3>1, RollupAgrees DEF RowsIn
    <2>4. CASE c # job[w]
      BY <1>1, <2>1, <2>2, <2>4 DEF RestingCommandHasNoOpenRow, RowsIn
    <2> QED
      BY <2>3, <2>4
  <1>3. CASE Claim(w)
    <2>1. cmdState'[c] = cmdState[c] /\ rowState' = rowState
      BY <1>0, <1>1, <1>3 DEF Claim, TypeOK, rowVars, Stopped, Finished
    <2> QED
      BY <1>1, <2>1 DEF RestingCommandHasNoOpenRow, RowsIn
  <1>4. ASSUME ~Finish(w), ~Claim(w)
        PROVE  /\ ~RowsIn(c, Claimable)'
               /\ cmdState'[c] \in Stopped <=> RowsIn(c, Stopped)'
    <2>1. cmdState' = cmdState
      BY <1>4 DEF Work, StartTarget, PrepareRefused, PrepareWithdrawn, PrepareDelivery,
         ObserveDelivered, ObserveWithdrawn, ObserveUnwritten, ObserveRefused, Publish, RefMoved,
         Acknowledge, RecordFailure, TargetError, Crash, commandVars
    <2>2. cmdState[c] # "running"
      BY <1>1, <2>1 DEF Stopped, Finished
    <2>3. WorkerEffect
      BY WorkerEffects
    <2>4. \A r \in Rows : r[1] = c => rowState'[r] = rowState[r]
      <3>1. CASE Rests
        BY <3>1 DEF Rests
      <3>2. ASSUME NEW r \in Rows, NEW states, Moves(r, states)
            PROVE  \A q \in Rows : q[1] = c => rowState'[q] = rowState[q]
        BY <1>0, <2>2, <3>2 DEF Moves, TypeOK
      <3> QED
        BY <2>3, <3>1, <3>2 DEF WorkerEffect
    <2> QED
      BY <1>1, <2>1, <2>4 DEF RestingCommandHasNoOpenRow, RowsIn, RowsOf
  <1> QED
    BY <1>2, <1>3, <1>4

\* A decision leaves a command at rest alone or queues it.
LEMMA RestingByWeb ==
  ASSUME IndInv, RestingCommandHasNoOpenRow, WebEffect
  PROVE  RestingCommandHasNoOpenRow'
  <1>0. TypeOK
    BY DEF IndInv
  <1>1. SUFFICES ASSUME NEW b \in Commands, cmdState'[b] \in Stopped \cup Finished
                 PROVE  /\ ~RowsIn(b, Claimable)'
                        /\ cmdState'[b] \in Stopped <=> RowsIn(b, Stopped)'
    BY DEF RestingCommandHasNoOpenRow
  <1>2. cmdState'[b] = cmdState[b] /\ \A r \in Rows : r[1] = b => rowState'[r] = rowState[r]
    <2>1. ASSUME NEW c \in Commands, NEW selection \in SUBSET Proposals, Approve(c, selection)
          PROVE  cmdState'[b] = cmdState[b] /\ \A r \in Rows : r[1] = b => rowState'[r] = rowState[r]
      <3>1. b # c
        BY <1>0, <1>1, <2>1 DEF Approve, TypeOK, Stopped, Finished
      <3> QED
        BY <1>0, <2>1, <3>1 DEF Approve, TypeOK
    <2>2. CASE Rejects
      BY <2>2 DEF Rejects, commandVars
    <2>3. ASSUME NEW c \in Commands, Requeue(c)
          PROVE  cmdState'[b] = cmdState[b] /\ \A r \in Rows : r[1] = b => rowState'[r] = rowState[r]
      <3>1. b # c
        BY <1>0, <1>1, <2>3 DEF Requeue, TypeOK, Stopped, Finished
      <3> QED
        BY <1>0, <2>3, <3>1 DEF Requeue, TypeOK
    <2> QED
      BY <2>1, <2>2, <2>3 DEF WebEffect
  <1> QED
    BY <1>1, <1>2 DEF RestingCommandHasNoOpenRow, RowsIn, RowsOf

-----------------------------------------------------------------------------
\* The whole invariant, and what follows from it.

LEMMA InitDecisionInv == Init => DecisionInv
  <1> SUFFICES ASSUME Init PROVE DecisionInv
    OBVIOUS
  <1>1. IndInv
    BY InitIndInv
  <1>2. Hands /\ Writing
    BY DeliveryAssumption DEF Init, Hands, Writing
  <1>3. RestingCommandHasNoOpenRow
    BY DEF Init, RestingCommandHasNoOpenRow, Stopped, Finished
  <1>4. \A p \in Proposals : Placed(p)
    BY DEF Init, Placed, OpenFor, DoneFor
  <1> QED
    BY <1>1, <1>2, <1>3, <1>4 DEF DecisionInv

\* A step that leaves the program's state alone, the operator's among them.
LEMMA DecisionKept ==
  ASSUME DecisionInv, IndInv',
         UNCHANGED <<commandVars, rowVars, decisionVars, workerVars>>
  PROVE  DecisionInv'
  <1>1. Hands' /\ Writing'
    BY DEF DecisionInv, Hands, Writing, AtTarget, Row, Withdrawn, Authorized, Suppressed,
       commandVars, rowVars, decisionVars, workerVars
  <1>2. RestingCommandHasNoOpenRow'
    BY DEF DecisionInv, RestingCommandHasNoOpenRow, RowsIn, commandVars, rowVars
  <1>3. \A p \in Proposals : Placed(p)'
    BY DEF DecisionInv, Placed, OpenFor, DoneFor, rowVars, decisionVars
  <1> QED
    BY <1>1, <1>2, <1>3 DEF DecisionInv

\* Every step keeps the inductive invariant.
LEMMA NextDecisionInv == DecisionInv /\ [Next]_vars => DecisionInv'
  <1> SUFFICES ASSUME DecisionInv, [Next]_vars PROVE DecisionInv'
    OBVIOUS
  <1>0. IndInv'
    BY NextIndInv DEF DecisionInv
  <1>1. CASE Web
    <2>1. WebEffect /\ UNCHANGED workerVars /\ txn = NoWorker
      BY <1>1, WebEffects
    <2>2. Hands' /\ Writing' /\ RestingCommandHasNoOpenRow'
      BY <2>1, HandsByWeb, WritingByWeb, RestingByWeb DEF DecisionInv
    <2>3. \A p \in Proposals : Placed(p)'
      BY <2>1, PlacedByWeb DEF DecisionInv
    <2> QED
      BY <1>0, <2>2, <2>3 DEF DecisionInv
  <1>2. ASSUME NEW w \in Workers, Work(w) \/ TargetError(w) \/ Crash(w)
        PROVE  DecisionInv'
    <2>1. Hands' /\ Writing' /\ RestingCommandHasNoOpenRow'
      BY <1>2, HandsByWorker, WritingByWorker, RestingByWorker DEF DecisionInv
    <2>2. TypeOK /\ WorkerEffect
      BY <1>2, WorkerEffects DEF DecisionInv, IndInv
    <2>3. \A p \in Proposals : Placed(p)'
      BY <2>2, PlacedByWorker DEF DecisionInv
    <2> QED
      BY <1>0, <2>1, <2>3 DEF DecisionInv
  <1>3. CASE Operator /\ UNCHANGED <<commandVars, rowVars, decisionVars, workerVars,
                                      published, boundVars>>
    BY <1>0, <1>3, DecisionKept
  <1>4. CASE UNCHANGED vars
    BY <1>0, <1>4, DecisionKept DEF vars
  <1> QED
    BY <1>1, <1>2, <1>3, <1>4 DEF Next

\* Every behaviour keeps it.
THEOREM DecisionInvHolds == Spec => []DecisionInv
  BY InitDecisionInv, NextDecisionInv, PTL DEF Spec

\* No approval is orphaned or answered twice (submit_command,
\* _cancel_unwritten_target, _deliver_command_target).
THEOREM ApprovalsHaveOneRow == Spec => []ApprovalHasOneRow
  <1>1. DecisionInv => ApprovalHasOneRow
    <2> SUFFICES ASSUME DecisionInv, NEW p \in Proposals
                 PROVE  /\ pstatus[p] = "approved_user" =>
                             \E r \in {r \in Rows : OpenFor(p, r)} :
                                 {q \in Rows : OpenFor(p, q)} = {r}
                        /\ pstatus[p] = "applied" =>
                             \E r \in {r \in Rows : DoneFor(p, r)} :
                                 {q \in Rows : DoneFor(p, q)} = {r}
      BY DEF ApprovalHasOneRow, OpenFor, DoneFor
    <2>1. Placed(p)
      BY DEF DecisionInv
    <2>2. ASSUME pstatus[p] = "approved_user"
          PROVE  \E r \in {r \in Rows : OpenFor(p, r)} : {q \in Rows : OpenFor(p, q)} = {r}
      <3>1. PICK r \in Rows : OpenFor(p, r) /\ \A q \in Rows : OpenFor(p, q) => q = r
        BY <2>1, <2>2 DEF Placed
      <3>2. {q \in Rows : OpenFor(p, q)} = {r}
        BY <3>1
      <3> QED
        BY <3>1, <3>2
    <2>3. ASSUME pstatus[p] = "applied"
          PROVE  \E r \in {r \in Rows : DoneFor(p, r)} : {q \in Rows : DoneFor(p, q)} = {r}
      <3>1. PICK r \in Rows : DoneFor(p, r) /\ \A q \in Rows : DoneFor(p, q) => q = r
        BY <2>1, <2>3 DEF Placed
      <3>2. {q \in Rows : DoneFor(p, q)} = {r}
        BY <3>1
      <3> QED
        BY <3>1, <3>2
    <2> QED
      BY <2>2, <2>3
  <1> QED
    BY <1>1, DecisionInvHolds, PTL

\* No interleaving of a control with the end of a pass strands a row
\* (execute_next_command, submit_control).
THEOREM RestingCommandsAreDone == Spec => []RestingCommandHasNoOpenRow
  <1>1. DecisionInv => RestingCommandHasNoOpenRow
    BY DEF DecisionInv
  <1> QED
    BY <1>1, DecisionInvHolds, PTL

\* The edit goes into its place only while every member is approved and no
\* cancellation is recorded: no decision commits between the last look and
\* the write (_deliver_command_target).
THEOREM WritesHaveAuthority == Spec => WriteHasAuthority
  <1>1. DecisionInv /\ [Next]_vars =>
          [\A w \in Workers : Writes(w) => ~Withdrawn(Row(w)) /\ Authorized(Row(w))]_vars
    BY DEF DecisionInv, Writing, Writes
  <1> QED
    BY <1>1, DecisionInvHolds, PTL DEF Spec, WriteHasAuthority

\* What a step may never undo.
OutcomesKept ==
    /\ \A r \in Rows : rowState[r] \in Finished => rowState'[r] = rowState[r]
    /\ \A p \in Proposals : pstatus[p] \in {"applied", "rejected_user"} =>
           pstatus'[p] = pstatus[p]

\* A row stays completed or cancelled, and a proposal applied or rejected,
\* whatever workers and decisions do later (submit_command, rejections.record).
THEOREM OutcomesAreFinal == Spec => OutcomesStand
  <1>1. ASSUME DecisionInv, Next PROVE OutcomesKept
    <2>a. IndInv /\ Hands
      BY <1>1 DEF DecisionInv
    <2>0. TypeOK /\ OpenRows /\ IndInv /\ Hands
      BY <2>a DEF IndInv
    <2> USE DEF OutcomesKept, Finished
    <2>1. CASE Web
      <3>1. WebEffect
        BY <2>1, WebEffects
      <3>2. ASSUME NEW c \in Commands, NEW selection \in SUBSET Proposals, Approve(c, selection)
            PROVE  OutcomesKept
        <4>1. \A r \in Rows : r[1] = c => rowState[r] = "none"
          BY <2>0, <3>2 DEF Approve, NewCommand, OpenRows
        <4>2. \A p \in selection : pstatus[p] = "undecided"
          BY <3>2 DEF Approve, Waiting
        <4> QED
          BY <3>2, <4>1, <4>2 DEF Approve
      <3>3. CASE Rejects
        BY <3>3 DEF Rejects, RejectAll
      <3>4. ASSUME NEW c \in Commands, Requeue(c), UNCHANGED <<members, decisionVars>>
            PROVE  OutcomesKept
        BY <3>4 DEF Requeue, Stopped, decisionVars
      <3> QED
        BY <3>1, <3>2, <3>3, <3>4 DEF WebEffect
    <2>2. ASSUME NEW w \in Workers, Work(w) \/ TargetError(w) \/ Crash(w)
          PROVE  OutcomesKept
      <3>1. WorkerEffect
        BY <2>0, <2>2, WorkerEffects
      <3>2. CASE Rests
        BY <3>2 DEF Rests, decisionVars
      <3>3. ASSUME NEW r \in Rows, NEW states, Moves(r, states)
            PROVE  \A q \in Rows : rowState[q] \in Finished => rowState'[q] = rowState[q]
        BY <2>0, <3>3 DEF Moves, TypeOK, Claimable
      <3> QED
        BY <3>1, <3>2, <3>3 DEF WorkerEffect
    <2>3. CASE UNCHANGED <<rowVars, decisionVars>>
      BY <2>3 DEF rowVars, decisionVars
    <2> QED
      BY <1>1, <2>1, <2>2, <2>3 DEF Next
  <1>2. DecisionInv /\ [Next]_vars => [OutcomesKept]_vars
    BY <1>1
  <1>3. DecisionInv /\ [Next]_vars =>
          [/\ \A r \in Rows : rowState[r] \in Finished => rowState'[r] = rowState[r]
           /\ \A p \in Proposals : pstatus[p] \in {"applied", "rejected_user"} =>
                  pstatus'[p] = pstatus[p]]_vars
    BY <1>2 DEF OutcomesKept
  <1> QED
    BY <1>3, DecisionInvHolds, PTL DEF Spec, OutcomesStand

-----------------------------------------------------------------------------
\* What the promise of delivery rests on.

\* The selection a row delivers is not in the content it was reviewed on.
Chosen(r) ==
    rowState[r] # "none" => members[r] # {} /\ members[r] \cap preview[r].rules = {}

\* A record holds an edit that adds every member, and its commit object is
\* the child of its base with that edit.
Recorded(r) ==
    delivery[r] # None =>
        /\ delivery[r].after # delivery[r].before
        /\ members[r] \subseteq delivery[r].after.rules
        /\ RowDest(r) \in GitDests =>
            LET commits == log[ResourceOf[RowDest(r)]]
                k == delivery[r].commit
                base == delivery[r].base
            IN  /\ commits[base].tree[RowDest(r)] = delivery[r].before
                /\ commits[k].tree[RowDest(r)] = delivery[r].after
                /\ commits[k].anc = commits[base].anc \cup {k}

\* While a write is open and nobody changed its place by hand, the place holds
\* the after-content exactly when this program has put it there; and an
\* unpublished commit is in nobody's history.
InPlace(r) ==
    Unreconciled(r) =>
        /\ RowDest(r) \notin disturbed =>
               (r \in published <=> ReadDestination(RowDest(r)) = delivery[r].after)
        /\ RowDest(r) \in GitDests /\ r \notin published =>
               ~Reached(ResourceOf[RowDest(r)], delivery[r].commit)

\* A worker prepares a row once; about to write it has not written, and about
\* to acknowledge it has, unless a hand was there.
Doing(w) ==
    /\ pc[w] = "prepare" => delivery[Row(w)] = None
    /\ pc[w] = "publish" => Row(w) \notin published \/ RowDest(Row(w)) \in disturbed
    /\ pc[w] = "acknowledge" => Row(w) \in published \/ RowDest(Row(w)) \in disturbed

PromiseInv ==
    /\ DecisionInv /\ Numbered
    /\ \A r \in Rows : /\ Chosen(r) /\ Recorded(r) /\ InPlace(r)
                       /\ r \in published => delivery[r] # None
    /\ \A w \in Workers : Doing(w)

-----------------------------------------------------------------------------
\* What a look at the place tells about an open write.

\* What is observed there has been written, unless a hand was there.
LEMMA SeenIsWritten ==
  ASSUME PromiseInv, NEW r \in Rows, Unreconciled(r), Seen(r)
  PROVE  r \in published \/ RowDest(r) \in disturbed
  <1> SUFFICES ASSUME r \notin published, RowDest(r) \notin disturbed PROVE FALSE
    OBVIOUS
  <1>1. /\ ReadDestination(RowDest(r)) # delivery[r].after
        /\ RowDest(r) \in GitDests => ~Reached(ResourceOf[RowDest(r)], delivery[r].commit)
    BY DEF PromiseInv, InPlace
  <1>2. CASE RowDest(r) \in GitDests
    BY <1>1, <1>2 DEF Seen, Delivered, GitDelivered, TreeHoldsAfterState, Reached, BranchBase
  <1>3. CASE RowDest(r) \notin GitDests
    BY <1>1, <1>3 DEF Seen, Delivered, FileDelivered, ReadDestination
  <1> QED
    BY <1>2, <1>3

\* What is proved untouched there has not, unless a hand was there.
LEMMA UnseenIsUnwritten ==
  ASSUME PromiseInv, NEW r \in Rows, Unreconciled(r), Unseen(r)
  PROVE  r \notin published \/ RowDest(r) \in disturbed
  <1> SUFFICES ASSUME r \in published, RowDest(r) \notin disturbed PROVE FALSE
    OBVIOUS
  <1>1. /\ ReadDestination(RowDest(r)) = delivery[r].after
        /\ delivery[r].after # delivery[r].before
        /\ RowDest(r) \in GitDests =>
               log[ResourceOf[RowDest(r)]][delivery[r].base].tree[RowDest(r)] = delivery[r].before
    BY DEF PromiseInv, InPlace, Recorded, Unreconciled
  <1>2. CASE RowDest(r) \in GitDests
    <2>1. CASE BranchBase(ResourceOf[RowDest(r)]) = delivery[r].base
      BY <1>1, <1>2, <2>1 DEF ReadDestination
    <2>2. CASE branch[ResourceOf[RowDest(r)]] = 0
      BY <1>1, <1>2, <2>2 DEF Unseen, Seen, Delivered, GitDelivered, TreeHoldsAfterState
    <2> QED
      BY <1>2, <2>1, <2>2 DEF Unseen, Untouched, GitUntouched
  <1>3. CASE RowDest(r) \notin GitDests
    BY <1>1, <1>3 DEF Unseen, Untouched, FileUntouched, ReadDestination
  <1> QED
    BY <1>2, <1>3

-----------------------------------------------------------------------------
\* Steps that leave the places, the records and the history of writes alone.

\* Only the places and records decide what is recorded and in place.
RecordInv ==
    /\ Numbered
    /\ \A r \in Rows : Recorded(r) /\ InPlace(r) /\ (r \in published => delivery[r] # None)

LEMMA RecordsStay ==
  ASSUME PromiseInv, UNCHANGED <<worldVars, delivery, published>>,
         \A r \in Rows : /\ rowState[r] \in Finished => rowState'[r] \in Finished
                         /\ delivery[r] # None => members'[r] = members[r]
  PROVE  RecordInv'
  <1>1. Numbered'
    BY DEF PromiseInv, Numbered, worldVars
  <1>2. ASSUME NEW r \in Rows
        PROVE  Recorded(r)' /\ InPlace(r)' /\ (r \in published' => delivery'[r] # None)
    <2>1. Recorded(r) /\ InPlace(r) /\ (r \in published => delivery[r] # None)
      BY DEF PromiseInv
    <2>2. Recorded(r)'
      BY <2>1 DEF Recorded, worldVars
    <2>3. Unreconciled(r)' => Unreconciled(r)
      BY DEF Unreconciled
    <2>4. InPlace(r)'
      BY <2>1, <2>3 DEF InPlace, ReadDestination, BranchBase, Reached, worldVars
    <2> QED
      BY <2>1, <2>2, <2>4
  <1> QED
    BY <1>1, <1>2 DEF RecordInv

\* A record keeps what it says while commits keep their numbers.
LEMMA RecordKept ==
  ASSUME OldCommitsKept, RecordsExist, NEW r \in Rows, Recorded(r),
         delivery'[r] = delivery[r], members'[r] = members[r]
  PROVE  Recorded(r)'
  <1>1. CASE delivery[r] = None
    BY <1>1 DEF Recorded
  <1>2. CASE delivery[r] # None
    <2>1. RowDest(r) \in GitDests =>
            /\ ResourceOf[RowDest(r)] \in Repos
            /\ log'[ResourceOf[RowDest(r)]][delivery[r].base]
                   = log[ResourceOf[RowDest(r)]][delivery[r].base]
            /\ log'[ResourceOf[RowDest(r)]][delivery[r].commit]
                   = log[ResourceOf[RowDest(r)]][delivery[r].commit]
      BY <1>2 DEF RecordsExist, OldCommitsKept, Repos
    <2> QED
      BY <1>2, <2>1 DEF Recorded
  <1> QED
    BY <1>1, <1>2

\* A decision: the rows it opens hold edits that were not in the content the
\* reviewer saw.
LEMMA PromiseByWeb ==
  ASSUME PromiseInv, Web, DecisionInv'
  PROVE  PromiseInv'
  <1>0. /\ TypeOK /\ OpenRows /\ \A r \in Rows : Chosen(r)
    BY DEF PromiseInv, DecisionInv, IndInv
  <1>1. /\ UNCHANGED <<worldVars, delivery, published, workerVars>>
        /\ \/ \E c \in Commands, selection \in SUBSET Proposals : Approve(c, selection)
           \/ UNCHANGED <<rowState, members, preview>>
           \/ \E c \in Commands : Requeue(c) /\ UNCHANGED <<members, preview>>
    BY DEF Web, Approve, RejectTarget, RejectLesson, RetryDelivery, CancelDelivery, rowVars
  <1>2. \A r \in Rows : /\ rowState[r] \in Finished => rowState'[r] \in Finished
                        /\ delivery[r] # None => members'[r] = members[r]
                        /\ Chosen(r)'
    <2>1. ASSUME NEW c \in Commands, NEW selection \in SUBSET Proposals, Approve(c, selection),
                 NEW r \in Rows
          PROVE  /\ rowState[r] \in Finished => rowState'[r] \in Finished
                 /\ delivery[r] # None => members'[r] = members[r]
                 /\ Chosen(r)'
      <3> DEFINE mine == {p \in selection : DestOf[p] = RowDest(r)}
      <3>0. RowDest(r) \in Dests
        BY RowParts DEF RowDest
      <3>1. CASE r[1] = c /\ mine # {}
        <4>1. rowState[r] = "none" /\ delivery[r] = None
          BY <1>0, <2>1, <3>1 DEF Approve, NewCommand, OpenRows
        <4>2. /\ rowState'[r] = "queued" /\ members'[r] = mine
              /\ preview'[r] = ReadDestination(RowDest(r))
          BY <2>1, <3>0, <3>1 DEF Approve
        <4>3. mine \cap ReadDestination(RowDest(r)).rules = {}
          BY <2>1, <3>0 DEF Approve, PreviewReady
        <4> QED
          BY <3>1, <4>1, <4>2, <4>3 DEF Chosen, Finished
      <3>2. CASE ~(r[1] = c /\ mine # {})
        <4>1. /\ rowState'[r] = rowState[r] /\ members'[r] = members[r]
              /\ preview'[r] = preview[r]
          BY <2>1, <3>0, <3>2 DEF Approve
        <4> QED
          BY <1>0, <4>1 DEF Chosen
      <3> QED
        BY <3>1, <3>2
    <2>2. CASE UNCHANGED <<rowState, members, preview>>
      BY <1>0, <2>2 DEF Chosen
    <2>3. ASSUME NEW c \in Commands, Requeue(c), UNCHANGED <<members, preview>>, NEW r \in Rows
          PROVE  /\ rowState[r] \in Finished => rowState'[r] \in Finished
                 /\ delivery[r] # None => members'[r] = members[r]
                 /\ Chosen(r)'
      <3>1. /\ rowState[r] \in Finished => rowState'[r] \in Finished
            /\ rowState'[r] # "none" => rowState[r] # "none"
        BY <2>3 DEF Requeue, Stopped, Finished
      <3> QED
        BY <1>0, <2>3, <3>1 DEF Chosen
    <2> QED
      BY <1>1, <2>1, <2>2, <2>3
  <1>3. RecordInv'
    BY <1>1, <1>2, RecordsStay
  <1>4. \A w \in Workers : Doing(w)'
    BY <1>1 DEF PromiseInv, Doing, Row, workerVars, worldVars
  <1> QED
    BY <1>2, <1>3, <1>4 DEF PromiseInv, RecordInv

\* The operator: what a hand does is told by disturbed.
LEMMA PromiseByOperator ==
  ASSUME PromiseInv, Operator, DecisionInv',
         UNCHANGED <<commandVars, rowVars, decisionVars, workerVars, published, boundVars>>
  PROVE  PromiseInv'
  <1>0. /\ WorldTypeOK /\ RefsExist /\ RecordsExist /\ Numbered
    BY DEF PromiseInv, DecisionInv, IndInv, TypeOK
  <1>1. ByHand
    BY <1>0, OperatorByHand
  <1>2. ASSUME NEW r \in Rows
        PROVE  Chosen(r)' /\ Recorded(r)' /\ InPlace(r)' /\ (r \in published' => delivery'[r] # None)
    <2>1. Chosen(r) /\ Recorded(r) /\ InPlace(r) /\ (r \in published => delivery[r] # None)
      BY DEF PromiseInv
    <2>2. RowDest(r) \in Dests /\ (RowDest(r) \in GitDests => ResourceOf[RowDest(r)] \in Repos)
      BY RowParts DEF RowDest, Repos
    <2>3. UNCHANGED <<rowState, members, preview, delivery, published>>
      BY DEF rowVars
    <2>4. Chosen(r)'
      BY <2>1, <2>3 DEF Chosen
    <2>5. delivery[r] # None /\ RowDest(r) \in GitDests =>
            /\ delivery[r].base \in 1..Len(log[ResourceOf[RowDest(r)]])
            /\ delivery[r].commit \in 1..Len(log[ResourceOf[RowDest(r)]])
      BY <1>0 DEF RecordsExist
    <2>6. Recorded(r)'
      BY <1>0, <1>1, <2>1, <2>3, RecordKept DEF ByHand
    <2>7. InPlace(r)'
      BY <1>1, <2>1, <2>2, <2>3, <2>5 DEF InPlace, ByHand, Unreconciled
    <2> QED
      BY <2>1, <2>3, <2>4, <2>6, <2>7
  <1>3. \A w \in Workers : Doing(w)'
    <2>1. disturbed \subseteq disturbed' /\ UNCHANGED <<pc, job, cur, delivery, published>>
      BY <1>1 DEF ByHand, workerVars, rowVars
    <2> QED
      BY <2>1 DEF PromiseInv, Doing, Row
  <1> QED
    BY <1>1, <1>2, <1>3 DEF PromiseInv, ByHand

-----------------------------------------------------------------------------
\* The steps of a worker.

\* The row in hand is open, and prepared where the worker's place needs it.
LEMMA RowInHand ==
  ASSUME PromiseInv, NEW w \in Workers, AtTarget(w)
  PROVE  /\ Row(w) \in Rows /\ RowDest(Row(w)) \in Dests
         /\ rowState[Row(w)] \in Claimable /\ rowState[Row(w)] \notin Finished \cup {"none"}
         /\ pc[w] \in {"observe", "publish", "acknowledge"} => Unreconciled(Row(w))
  <1>1. IndInv /\ Hands /\ pc[w] # "idle"
    BY DEF PromiseInv, DecisionInv, AtTarget
  <1>2. Row(w) \in Rows /\ rowState[Row(w)] \in Claimable
    BY <1>1, BusyRows DEF Hands
  <1>3. rowState[Row(w)] \notin Finished \cup {"none"}
    BY <1>2 DEF Claimable, Finished
  <1>4. pc[w] \in {"observe", "publish", "acknowledge"} => delivery[Row(w)] # None
    BY <1>1 DEF IndInv, WorkerPlaces
  <1> QED
    BY <1>2, <1>3, <1>4, RowParts DEF Unreconciled, RowDest

\* Only preparation and the write touch the records, the places or the
\* history of writes; every other step at most moves a row on.
LEMMA QuietRecords ==
  ASSUME PromiseInv, NEW w \in Workers, Work(w) \/ TargetError(w) \/ Crash(w),
         ~PrepareDelivery(w), ~Publish(w)
  PROVE  /\ RecordInv' /\ \A r \in Rows : Chosen(r)'
         /\ UNCHANGED <<worldVars, delivery, published>>
  <1>1. UNCHANGED <<worldVars, delivery, published, preview>>
    <2>1. CASE StartTarget(w)
      BY <2>1 DEF StartTarget, CancelUnwritten, rowVars
    <2>2. CASE ~StartTarget(w)
      BY <2>2 DEF Work, Claim, PrepareRefused, PrepareWithdrawn,
         ObserveDelivered, ObserveWithdrawn, ObserveUnwritten, ObserveRefused, RefMoved,
         Acknowledge, RecordFailure, Finish, TargetError, Crash, CancelUnwritten, rowVars
    <2> QED
      BY <2>1, <2>2
  <1>2. WorkerEffect
    BY WorkerEffects DEF PromiseInv, DecisionInv
  <1>3. ASSUME NEW r \in Rows
        PROVE  /\ rowState[r] \in Finished => rowState'[r] \in Finished
               /\ rowState'[r] # "none" => rowState[r] # "none"
               /\ members'[r] = members[r]
    <2>0. TypeOK
      BY DEF PromiseInv, DecisionInv, IndInv
    <2>1. CASE Rests
      BY <2>1 DEF Rests
    <2>2. ASSUME NEW q \in Rows, NEW states, Moves(q, states)
          PROVE  /\ rowState[r] \in Finished => rowState'[r] \in Finished
                 /\ rowState'[r] # "none" => rowState[r] # "none"
                 /\ members'[r] = members[r]
      BY <2>0, <2>2 DEF Moves, TypeOK, Claimable, Finished
    <2> QED
      BY <1>2, <2>1, <2>2 DEF WorkerEffect
  <1>4. RecordInv'
    BY <1>1, <1>3, RecordsStay
  <1>5. \A r \in Rows : Chosen(r)'
    BY <1>1, <1>3 DEF PromiseInv, Chosen
  <1> QED
    BY <1>1, <1>4, <1>5

\* A worker's next place is one for which it has just looked.
LEMMA NextPlace ==
  ASSUME PromiseInv, NEW w \in Workers, Work(w) \/ TargetError(w) \/ Crash(w),
         ~PrepareDelivery(w), ~Publish(w)
  PROVE  \A v \in Workers : Doing(v)'
  <1>0. TypeOK /\ IndInv /\ UNCHANGED <<worldVars, delivery, published>>
    BY QuietRecords DEF PromiseInv, DecisionInv, IndInv
  <1>1. /\ pc[w] # "idle" \/ writeLock = NoWorker
        /\ \E label : Goto(w, label)
    <2>1. CASE StartTarget(w)
      <3>1. UNCHANGED pc => Goto(w, "target")
        BY <1>0, <2>1 DEF StartTarget, Goto, TypeOK
      <3> QED
        BY <2>1, <3>1 DEF StartTarget
    <2>2. CASE ~StartTarget(w)
      BY <2>2 DEF Work, Claim, PrepareRefused, PrepareWithdrawn,
         ObserveDelivered, ObserveWithdrawn, ObserveUnwritten, ObserveRefused, RefMoved,
         Acknowledge, RecordFailure, Finish, TargetError, Crash, Fail, Leave
    <2> QED
      BY <2>1, <2>2
  <1>2. \A v \in Workers : v # w => pc'[v] = "idle"
    BY <1>0, <1>1, OthersIdle
  <1>3. SUFFICES Doing(w)'
    BY <1>2 DEF Doing
  <1>4. CASE StartTarget(w)
    <2>1. PICK d \in todo[w] :
            /\ cur' = [cur EXCEPT ![w] = d]
            /\ pc'[w] = "prepare" => delivery[<<job[w], d>>] = None
            /\ pc'[w] \notin {"publish", "acknowledge"} /\ UNCHANGED job
      BY <1>0, <1>4 DEF StartTarget, Goto, TypeOK
    <2>2. cur'[w] = d
      BY <1>0, <2>1 DEF TypeOK
    <2> QED
      BY <1>0, <2>1, <2>2 DEF Doing, Row
  <1>5. CASE ObserveUnwritten(w)
    <2>1. AtTarget(w) /\ pc[w] = "observe" /\ Unseen(Row(w)) /\ Goto(w, "publish")
          /\ UNCHANGED <<worldVars, published, job, cur>>
      BY <1>5 DEF ObserveUnwritten, AtTarget
    <2>2. Row(w) \notin published \/ RowDest(Row(w)) \in disturbed
      BY <2>1, RowInHand, UnseenIsUnwritten
    <2> QED
      BY <1>0, <2>1, <2>2 DEF Doing, Row, Goto, TypeOK, worldVars
  <1>6. CASE ObserveDelivered(w)
    <2>1. AtTarget(w) /\ pc[w] = "observe" /\ Seen(Row(w)) /\ Goto(w, "acknowledge")
          /\ UNCHANGED <<worldVars, published, job, cur>>
      BY <1>6 DEF ObserveDelivered, AtTarget
    <2>2. Row(w) \in published \/ RowDest(Row(w)) \in disturbed
      BY <2>1, RowInHand, SeenIsWritten
    <2> QED
      BY <1>0, <2>1, <2>2 DEF Doing, Row, Goto, TypeOK, worldVars
  <1>7. ASSUME ~StartTarget(w), ~ObserveUnwritten(w), ~ObserveDelivered(w)
        PROVE  Doing(w)'
    <2>1. \E label \in {"idle", "target", "failing"} : Goto(w, label)
      BY <1>7 DEF Work, Claim, PrepareRefused, PrepareWithdrawn,
         ObserveWithdrawn, ObserveRefused, RefMoved,
         Acknowledge, RecordFailure, Finish, TargetError, Crash, Fail, Leave
    <2> QED
      BY <1>0, <2>1 DEF Doing, Goto, TypeOK
  <1> QED
    BY <1>4, <1>5, <1>6, <1>7

\* Preparation records the edit of the row on the content as it is, and makes
\* a commit nobody's history has yet.
LEMMA PromiseByPrepare ==
  ASSUME PromiseInv, NEW w \in Workers, PrepareDelivery(w), DecisionInv'
  PROVE  PromiseInv'
  <1> DEFINE r == Row(w)
             d == RowDest(Row(w))
             dlv == PreparedRecord(d, members[r])
             repo == ResourceOf[d]
  <1>0. /\ WorldTypeOK /\ TypeOK /\ RefsExist /\ RecordsExist /\ Numbered /\ IndInv
        /\ \A q \in Rows : Chosen(q) /\ Recorded(q) /\ InPlace(q)
                           /\ (q \in published => delivery[q] # None)
        /\ AtTarget(w) /\ pc[w] = "prepare" /\ Doing(w)
    BY DEF PromiseInv, DecisionInv, IndInv, TypeOK, PrepareDelivery, AtTarget
  <1>1. /\ Preparable(r)
        /\ delivery' = [delivery EXCEPT ![r] = dlv]
        /\ rowState' = [rowState EXCEPT ![r] = "running"]
        /\ PrepareBranchCommit(d, dlv)
        /\ Goto(w, "observe")
        /\ UNCHANGED <<file, head, branch, disturbed, members, preview, published, job, cur>>
    BY DEF PrepareDelivery
  <1>2. r \in Rows /\ d \in Dests /\ rowState[r] # "none" /\ (d \in GitDests => repo \in Repos)
    BY <1>0, RowInHand DEF Repos
  <1>3. r \notin published /\ members[r] \in SUBSET Proposals
    BY <1>0, <1>2 DEF Doing, TypeOK
  <1>4. /\ dlv \in DeliveryRecord
        /\ d \in GitDests => dlv.base \in 1..Len(log[repo])
                             /\ dlv.commit = Len(log[repo]) + 1
    BY <1>0, <1>2, <1>3, PreparedType
  <1>5. /\ dlv.before = ReadDestination(d) /\ dlv.before.rules \cap members[r] = {}
        /\ members[r] # {} /\ members[r] \subseteq dlv.after.rules /\ dlv.after # dlv.before
        /\ d \in GitDests => dlv.base = BranchBase(repo)
    <2>1. ReadDestination(d) = preview[r]
      BY <1>1 DEF Preparable
    <2>2. members[r] # {} /\ members[r] \cap preview[r].rules = {}
      BY <1>0, <1>2 DEF Chosen
    <2>3. ReadDestination(d) \in Content
      BY <1>0, <1>2, ReadType
    <2>4. dlv.before = ReadDestination(d) /\ dlv.after = CombineEdits(ReadDestination(d), members[r])
          /\ (d \in GitDests => dlv.base = BranchBase(repo))
      BY DEF PreparedRecord
    <2> HIDE DEF d, dlv, r
    <2>5. dlv.after.rules = dlv.before.rules \cup members[r]
      BY <2>3, <2>4 DEF CombineEdits, Content
    <2> QED
      BY <2>1, <2>2, <2>4, <2>5
  <1> HIDE DEF d, dlv, r
  <1>6. /\ OldCommitsKept /\ Numbered'
        /\ d \in GitDests => /\ log'[repo][dlv.commit].tree[d] = dlv.after
                             /\ log'[repo][dlv.commit].anc = log[repo][dlv.base].anc \cup {dlv.commit}
                             /\ dlv.commit \notin 1..Len(log[repo])
    <2>1. CASE d \notin GitDests
      <3>1. UNCHANGED log
        BY <1>1, <2>1 DEF PrepareBranchCommit
      <3> QED
        BY <1>0, <2>1, <3>1, SameLog
    <2>2. CASE d \in GitDests
      <3> DEFINE tree == [log[repo][dlv.base].tree EXCEPT ![d] = dlv.after]
      <3>1. /\ repo \in Repos /\ dlv.base \in 1..Len(log[repo]) /\ dlv.commit = NextCommit(repo)
            /\ dlv.after \in Content
        BY <1>2, <1>4, <2>2 DEF NextCommit, DeliveryRecord
      <3>2. log[repo][dlv.base].tree \in [GitDests -> Content]
        BY <1>0, <3>1, TreeType
      <3>3. tree \in [GitDests -> Content] /\ tree[d] = dlv.after
        BY <2>2, <3>1, <3>2
      <3>4. {dlv.base} \in SUBSET (1..Len(log[repo])) /\ AddCommit(repo, {dlv.base}, tree)
        BY <1>1, <2>2, <3>1 DEF PrepareBranchCommit, AddCommit
      <3> HIDE DEF tree, repo
      <3>5. /\ OldCommitsKept /\ Numbered'
            /\ NextCommit(repo) \notin 1..Len(log[repo])
            /\ log'[repo][NextCommit(repo)].tree = tree
            /\ log'[repo][NextCommit(repo)].anc =
                   (UNION {log[repo][k].anc : k \in {dlv.base}}) \cup {NextCommit(repo)}
        BY <1>0, <3>1, <3>3, <3>4, CommitAdded
      <3>6. UNION {log[repo][k].anc : k \in {dlv.base}} = log[repo][dlv.base].anc
        OBVIOUS
      <3> QED
        BY <3>1, <3>3, <3>5, <3>6
    <2> QED
      BY <2>1, <2>2
  <1>7. \A q \in Repos : /\ log'[q][head[q]] = log[q][head[q]]
                         /\ branch[q] # 0 => log'[q][branch[q]] = log[q][branch[q]]
                         /\ log'[q][BranchBase(q)] = log[q][BranchBase(q)]
    <2>1. ASSUME NEW q \in Repos
          PROVE  head[q] \in 1..Len(log[q]) /\ (branch[q] # 0 => branch[q] \in 1..Len(log[q]))
      <3>1. log[q] \in Seq(Commit)
        BY <1>0 DEF WorldTypeOK
      <3>2. head[q] \in 1..Len(log[q]) /\ branch[q] \in 0..Len(log[q]) /\ Len(log[q]) \in Nat
        BY <1>0, <3>1 DEF RefsExist
      <3> QED
        BY <3>2
    <2> QED
      BY <1>6, <2>1 DEF OldCommitsKept, BranchBase
  <1>8. /\ \A e \in Dests : ReadDestination(e)' = ReadDestination(e)
        /\ \A q \in Repos : \A k : Reached(q, k)' <=> Reached(q, k)
    <2>1. \A e \in GitDests : ResourceOf[e] \in Repos
      BY DEF Repos
    <2>2. \A q \in Repos : BranchBase(q)' = BranchBase(q)
      BY <1>1 DEF BranchBase
    <2>3. \A e \in Dests : ReadDestination(e)' = ReadDestination(e)
      BY <1>1, <1>7, <2>1, <2>2 DEF ReadDestination
    <2>4. \A q \in Repos : \A k : Reached(q, k)' <=> Reached(q, k)
      BY <1>1, <1>7 DEF Reached
    <2> QED
      BY <2>3, <2>4
  <1>9. \A q \in Rows : /\ delivery'[q] = IF q = r THEN dlv ELSE delivery[q]
                        /\ rowState'[q] = IF q = r THEN "running" ELSE rowState[q]
    BY <1>0, <1>1 DEF TypeOK
  <1>10. dlv # None /\ RowDest(r) = d
    BY <1>4, DeliveryAssumption DEF d, r
  <1>11. ASSUME NEW q \in Rows
         PROVE  Chosen(q)' /\ Recorded(q)' /\ InPlace(q)' /\ (q \in published' => delivery'[q] # None)
    <2>1. CASE q = r
      <3>1. Chosen(q)'
        BY <1>0, <1>1, <1>2, <2>1 DEF Chosen
      <3>2. Recorded(q)'
        <4>1. d \in GitDests => log'[repo][dlv.base] = log[repo][dlv.base]
          BY <1>2, <1>4, <1>6 DEF OldCommitsKept
        <4>2. d \in GitDests => log[repo][dlv.base].tree[d] = dlv.before
          BY <1>5 DEF ReadDestination
        <4> QED
          BY <1>1, <1>5, <1>6, <1>9, <1>10, <2>1, <4>1, <4>2 DEF Recorded
      <3>3. InPlace(q)'
        <4>0. PICK e, k, a : e = d /\ k = dlv.commit /\ a = dlv.after
          OBVIOUS
        <4>1. /\ RowDest(q) = e /\ e \in Dests /\ (e \in GitDests => ResourceOf[e] \in Repos)
              /\ delivery'[q].after = a /\ delivery'[q].commit = k
              /\ ReadDestination(e) # a /\ q \notin published'
          BY <1>1, <1>2, <1>3, <1>5, <1>9, <1>10, <2>1, <4>0
        <4>2. ReadDestination(e)' # a
          BY <1>8, <4>1
        <4>3. ASSUME e \in GitDests, Reached(ResourceOf[e], k) PROVE FALSE
          <5>1. /\ ResourceOf[e] \in Repos /\ head[ResourceOf[e]] \in 1..Len(log[ResourceOf[e]])
                /\ k \notin 1..Len(log[ResourceOf[e]])
            BY <1>0, <1>6, <4>0, <4>1, <4>3 DEF RefsExist
          <5>2. branch[ResourceOf[e]] # 0 => branch[ResourceOf[e]] \in 1..Len(log[ResourceOf[e]])
            <6>1. log[ResourceOf[e]] \in Seq(Commit)
              BY <1>0, <5>1 DEF WorldTypeOK
            <6>2. /\ branch[ResourceOf[e]] \in 0..Len(log[ResourceOf[e]])
                  /\ Len(log[ResourceOf[e]]) \in Nat
              BY <1>0, <5>1, <6>1 DEF RefsExist
            <6> QED
              BY <6>2
          <5> QED
            BY <1>0, <4>3, <5>1, <5>2 DEF Reached, Numbered
        <4>4. e \in GitDests => ~Reached(ResourceOf[e], k)'
          BY <1>8, <4>1, <4>3
        <4> QED
          BY <4>1, <4>2, <4>4 DEF InPlace
      <3> QED
        BY <1>1, <1>3, <2>1, <3>1, <3>2, <3>3
    <2>2. CASE q # r
      <3>1. /\ delivery'[q] = delivery[q] /\ rowState'[q] = rowState[q] /\ RowDest(q) \in Dests
            /\ RowDest(q) \in GitDests => ResourceOf[RowDest(q)] \in Repos
        BY <1>9, <2>2, RowParts DEF RowDest, Repos
      <3>3. Recorded(q)'
        BY <1>0, <1>1, <1>6, <3>1, RecordKept
      <3>4. InPlace(q)'
        BY <1>0, <1>1, <1>8, <3>1 DEF InPlace, Unreconciled
      <3> QED
        BY <1>0, <1>1, <3>1, <3>3, <3>4 DEF Chosen
    <2> QED
      BY <2>1, <2>2
  <1>12. \A v \in Workers : Doing(v)'
    <2>1. pc'[w] = "observe" /\ \A v \in Workers : v # w => pc'[v] = "idle"
      BY <1>0, <1>1, OthersIdle
    <2> QED
      BY <2>1 DEF Doing
  <1> QED
    BY <1>6, <1>11, <1>12 DEF PromiseInv

\* The write: its place now holds the after-content, and every other open
\* write is on another file or branch.
LEMMA PromiseByPublish ==
  ASSUME PromiseInv, NEW w \in Workers, Publish(w), DecisionInv'
  PROVE  PromiseInv'
  <1>0. /\ WorldTypeOK /\ TypeOK /\ RecordsExist /\ IndInv /\ OneUnreconciledPerResource
        /\ Numbered /\ AtTarget(w) /\ pc[w] = "publish"
        /\ \A q \in Rows : Chosen(q) /\ Recorded(q) /\ InPlace(q)
                           /\ (q \in published => delivery[q] # None)
    BY DEF PromiseInv, DecisionInv, IndInv, TypeOK, Publish, AtTarget
  <1>1. PICK r \in Rows : r = Row(w)
    BY <1>0, RowInHand
  <1>2. /\ PublishPreparedWrite(RowDest(r), delivery[r])
        /\ published' = published \cup {r}
        /\ Goto(w, "acknowledge")
        /\ UNCHANGED <<rowState, members, preview, delivery, job, cur>>
    BY <1>1 DEF Publish, rowVars
  <1>3. Unreconciled(r) /\ RowDest(r) \in Dests /\ Recorded(r)
    BY <1>0, <1>1, RowInHand
  <1>4. /\ log' = log /\ head' = head /\ disturbed' = disturbed \ {RowDest(r)}
        /\ RowDest(r) \in GitDests =>
               branch' = [branch EXCEPT ![ResourceOf[RowDest(r)]] = delivery[r].commit] /\ file' = file
        /\ RowDest(r) \notin GitDests =>
               file' = [file EXCEPT ![RowDest(r)] = delivery[r].after] /\ branch' = branch
    BY <1>2 DEF PublishPreparedWrite
  <1>5. ReadDestination(RowDest(r))' = delivery[r].after
    <2>1. CASE RowDest(r) \in GitDests
      <3>1. ResourceOf[RowDest(r)] \in Repos
        BY <2>1 DEF Repos
      <3>2. /\ branch'[ResourceOf[RowDest(r)]] = delivery[r].commit /\ delivery[r].commit # 0
            /\ log[ResourceOf[RowDest(r)]][delivery[r].commit].tree[RowDest(r)] = delivery[r].after
        <4>1. delivery[r].commit \in 1..Len(log[ResourceOf[RowDest(r)]])
          BY <1>0, <1>3, <2>1 DEF RecordsExist, Unreconciled
        <4>2. delivery[r].commit # 0
          BY <4>1
        <4> QED
          BY <1>0, <1>3, <1>4, <2>1, <3>1, <4>2 DEF WorldTypeOK, Recorded, Unreconciled
      <3> QED
        BY <1>4, <2>1, <3>2 DEF ReadDestination, BranchBase
    <2>2. CASE RowDest(r) \notin GitDests
      BY <1>0, <1>3, <1>4, <2>2 DEF ReadDestination, WorldTypeOK, Files
    <2> QED
      BY <2>1, <2>2
  <1>6. ASSUME NEW q \in Rows
        PROVE  Chosen(q)' /\ Recorded(q)' /\ InPlace(q)' /\ (q \in published' => delivery'[q] # None)
    <2>1. Chosen(q)' /\ Recorded(q)'
      BY <1>0, <1>2, <1>4 DEF Chosen, Recorded
    <2>2. q \in published' => delivery'[q] # None
      BY <1>0, <1>2, <1>3 DEF Unreconciled
    <2>3. CASE q = r
      BY <1>2, <1>5, <2>1, <2>2, <2>3 DEF InPlace
    <2>4. CASE q # r /\ Unreconciled(q)
      <3>1. ResourceOf[RowDest(q)] # ResourceOf[RowDest(r)] /\ RowDest(q) # RowDest(r)
        BY <1>0, <1>3, <2>4 DEF OneUnreconciledPerResource
      <3>2. RowDest(q) \in Dests /\ (RowDest(q) \in GitDests => ResourceOf[RowDest(q)] \in Repos)
        BY RowParts DEF RowDest, Repos
      <3>3. RowDest(q) \in GitDests => branch'[ResourceOf[RowDest(q)]] = branch[ResourceOf[RowDest(q)]]
        BY <1>0, <1>4, <3>1, <3>2 DEF WorldTypeOK
      <3>4. RowDest(q) \notin GitDests => file'[RowDest(q)] = file[RowDest(q)]
        BY <1>0, <1>4, <3>1, <3>2 DEF WorldTypeOK, Files
      <3>5. ReadDestination(RowDest(q))' = ReadDestination(RowDest(q))
        BY <1>4, <3>3, <3>4 DEF ReadDestination, BranchBase
      <3>6. \A k : RowDest(q) \in GitDests =>
               (Reached(ResourceOf[RowDest(q)], k)' <=> Reached(ResourceOf[RowDest(q)], k))
        BY <1>4, <3>3 DEF Reached
      <3>7. InPlace(q) /\ delivery' = delivery /\ RowDest(q)' = RowDest(q)
        BY <1>0, <1>2 DEF RowDest
      <3>8. PICK k : k = delivery[q].commit
        OBVIOUS
      <3>9. /\ RowDest(q) \notin disturbed' =>
                   (q \in published' <=> ReadDestination(RowDest(q))' = delivery'[q].after)
            /\ RowDest(q) \in GitDests /\ q \notin published' =>
                   ~Reached(ResourceOf[RowDest(q)], k)'
        BY <1>2, <1>4, <2>4, <3>1, <3>5, <3>6, <3>7, <3>8 DEF InPlace
      <3> QED
        BY <2>1, <2>2, <3>7, <3>8, <3>9 DEF InPlace
    <2>5. CASE q # r /\ ~Unreconciled(q)
      <3>1. ~Unreconciled(q)'
        BY <1>2, <2>5 DEF Unreconciled
      <3> QED
        BY <2>1, <2>2, <3>1 DEF InPlace
    <2> QED
      BY <2>3, <2>4, <2>5
  <1>7. \A v \in Workers : Doing(v)'
    <2>1. pc'[w] = "acknowledge" /\ \A v \in Workers : v # w => pc'[v] = "idle"
      BY <1>0, <1>2, OthersIdle
    <2>2. Row(w)' \in published'
      BY <1>1, <1>2 DEF Row
    <2> QED
      BY <2>1, <2>2 DEF Doing
  <1>8. Numbered'
    BY <1>0, <1>4 DEF Numbered
  <1> QED
    BY <1>6, <1>7, <1>8 DEF PromiseInv

-----------------------------------------------------------------------------
LEMMA InitPromiseInv == Init => PromiseInv
  <1> SUFFICES ASSUME Init PROVE PromiseInv
    OBVIOUS
  <1>1. DecisionInv
    BY InitDecisionInv
  <1>2. Numbered
    <2> DEFINE root == [anc |-> {1}, tree |-> [d \in GitDests |-> Blank]]
    <2>1. root \in Commit /\ root.anc = {1}
      BY BlankType DEF Commit
    <2>2. \A r \in Repos : log[r] = <<root>>
      BY DEF Init, WorldInit
    <2> HIDE DEF root
    <2>3. Len(<<root>>) = 1 /\ <<root>>[1] = root
      BY <2>1
    <2> QED
      BY <2>1, <2>2, <2>3 DEF Numbered
  <1>3. \A r \in Rows : Chosen(r) /\ Recorded(r) /\ InPlace(r) /\ (r \in published => delivery[r] # None)
    BY DEF Init, Chosen, Recorded, InPlace, Unreconciled
  <1>4. \A w \in Workers : Doing(w)
    BY DEF Init, Doing
  <1> QED
    BY <1>1, <1>2, <1>3, <1>4 DEF PromiseInv

\* Every step keeps what the promise rests on.
LEMMA NextPromiseInv == PromiseInv /\ [Next]_vars => PromiseInv'
  <1> SUFFICES ASSUME PromiseInv, [Next]_vars PROVE PromiseInv'
    OBVIOUS
  <1>0. DecisionInv'
    BY NextDecisionInv DEF PromiseInv
  <1>1. CASE Web
    BY <1>0, <1>1, PromiseByWeb
  <1>2. ASSUME NEW w \in Workers, Work(w) \/ TargetError(w) \/ Crash(w)
        PROVE  PromiseInv'
    <2>1. CASE PrepareDelivery(w)
      BY <1>0, <2>1, PromiseByPrepare
    <2>2. CASE Publish(w)
      BY <1>0, <2>2, PromiseByPublish
    <2>3. CASE ~PrepareDelivery(w) /\ ~Publish(w)
      <3>1. RecordInv' /\ (\A r \in Rows : Chosen(r)') /\ (\A v \in Workers : Doing(v)')
        BY <1>2, <2>3, QuietRecords, NextPlace
      <3> QED
        BY <1>0, <3>1 DEF PromiseInv, RecordInv
    <2> QED
      BY <2>1, <2>2, <2>3
  <1>3. CASE Operator /\ UNCHANGED <<commandVars, rowVars, decisionVars, workerVars,
                                      published, boundVars>>
    BY <1>0, <1>3, PromiseByOperator
  <1>4. CASE UNCHANGED vars
    <2>1. RecordInv'
      BY <1>4, RecordsStay DEF vars, rowVars
    <2>2. \A r \in Rows : Chosen(r)'
      BY <1>4 DEF PromiseInv, Chosen, vars, rowVars
    <2>3. \A w \in Workers : Doing(w)'
      BY <1>4 DEF PromiseInv, Doing, Row, vars, workerVars, worldVars, rowVars
    <2> QED
      BY <1>0, <2>1, <2>2, <2>3 DEF PromiseInv, RecordInv
  <1> QED
    BY <1>1, <1>2, <1>3, <1>4 DEF Next

\* Every behaviour keeps it: an open write is in place exactly when this
\* program has put it there, but for the operator's hand.
THEOREM PromiseInvHolds == Spec => []PromiseInv
  BY InitPromiseInv, NextPromiseInv, PTL DEF Spec

\* What completing a row says about its place.
CompletedIsLive ==
    \A r \in Rows :
        rowState[r] # "completed" /\ rowState'[r] = "completed"
        => \/ members[r] \subseteq ReadDestination(RowDest(r)).rules
           \/ RowDest(r) \in disturbed

\* A row is completed only when its edit can be read at its destination, or
\* the operator changed that content by hand (_deliver_command_target).
THEOREM CompletedRowsAreLive == Spec => AcknowledgedIsLive
  <1>1. ASSUME PromiseInv, Next PROVE CompletedIsLive
    <2>1. SUFFICES ASSUME NEW r \in Rows, rowState[r] # "completed", rowState'[r] = "completed"
                   PROVE  \/ members[r] \subseteq ReadDestination(RowDest(r)).rules
                          \/ RowDest(r) \in disturbed
      BY DEF CompletedIsLive
    <2>2. TypeOK
      BY <1>1 DEF PromiseInv, DecisionInv, IndInv
    <2>3. CASE Web
      BY <2>1, <2>3, ZenonT(60) DEF Web, Approve, RejectTarget, RejectLesson, RetryDelivery, CancelDelivery,
         Requeue, rowVars
    <2>4. ASSUME NEW w \in Workers, Work(w) \/ TargetError(w) \/ Crash(w)
          PROVE  \/ members[r] \subseteq ReadDestination(RowDest(r)).rules
                 \/ RowDest(r) \in disturbed
      <3>1. CASE Acknowledge(w)
        <4>1. AtTarget(w) /\ pc[w] = "acknowledge" /\ r = Row(w)
          BY <2>1, <2>2, <3>1 DEF Acknowledge, AtTarget, TypeOK
        <4>2. Unreconciled(r)
          BY <1>1, <4>1, RowInHand
        <4>3. r \in published \/ RowDest(r) \in disturbed
          BY <1>1, <4>1 DEF PromiseInv, Doing
        <4> QED
          BY <1>1, <4>2, <4>3 DEF PromiseInv, InPlace, Recorded, Unreconciled
      <3>2. CASE StartTarget(w)
        BY <2>1, <2>2, <3>2 DEF StartTarget, CancelUnwritten, rowVars, TypeOK
      <3>3. CASE RecordFailure(w)
        <4>1. failAs[w] \in Stopped
          BY <1>1, <3>3 DEF PromiseInv, DecisionInv, IndInv, WorkerPlaces, RecordFailure
        <4> QED
          BY <2>1, <2>2, <3>3, <4>1 DEF RecordFailure, TypeOK, Stopped
      <3>4. CASE ~Acknowledge(w) /\ ~StartTarget(w) /\ ~RecordFailure(w)
        BY <2>1, <2>2, <2>4, <3>4 DEF Work, Claim, PrepareRefused, PrepareWithdrawn,
           PrepareDelivery, ObserveDelivered, ObserveWithdrawn, ObserveUnwritten, ObserveRefused,
           Publish, RefMoved, Finish, TargetError, Crash, CancelUnwritten, rowVars, TypeOK
      <3> QED
        BY <3>1, <3>2, <3>3, <3>4
    <2>5. CASE UNCHANGED rowVars
      BY <2>1, <2>5 DEF rowVars
    <2> QED
      BY <1>1, <2>3, <2>4, <2>5 DEF Next
  <1>2. PromiseInv /\ [Next]_vars => [CompletedIsLive]_vars
    BY <1>1
  <1>3. PromiseInv /\ [Next]_vars =>
          [\A r \in Rows :
              rowState[r] # "completed" /\ rowState'[r] = "completed"
              => \/ members[r] \subseteq ReadDestination(RowDest(r)).rules
                 \/ RowDest(r) \in disturbed]_vars
    BY <1>2 DEF CompletedIsLive
  <1> QED
    BY <1>3, PromiseInvHolds, PTL DEF Spec, AcknowledgedIsLive

\* The tip a write finds stays in the history of the tip it leaves.
TipKept ==
    \A w \in Workers : \A repo \in Repos :
        Writes(w) /\ branch[repo] # 0
        => branch[repo] \in log'[repo][branch'[repo]].anc

\* A worker never drops commits from the delivery branch: the ref is swapped
\* only from the base, and the commit put there is the base's child
\* (_publish_prepared_write).
THEOREM BranchKeepsCommits == Spec => BranchKeepsItsCommits
  <1>1. ASSUME PromiseInv, Next PROVE TipKept
    <2>1. SUFFICES ASSUME NEW w \in Workers, NEW repo \in Repos, Writes(w), branch[repo] # 0
                   PROVE  branch[repo] \in log'[repo][branch'[repo]].anc
      BY DEF TipKept
    <2>2. /\ TypeOK /\ WorldTypeOK /\ RefsExist /\ RecordsExist /\ IndInv /\ Numbered
          /\ AtTarget(w) /\ pc[w] = "publish"
      BY <1>1, <2>1 DEF PromiseInv, DecisionInv, IndInv, TypeOK, AtTarget, Writes
    <2>3. branch[repo] \in 1..Len(log[repo])
      <3>1. log[repo] \in Seq(Commit)
        BY <2>2 DEF WorldTypeOK
      <3>2. Len(log[repo]) \in Nat /\ branch[repo] \in 0..Len(log[repo])
        BY <2>2, <3>1 DEF RefsExist
      <3> QED
        BY <2>1, <3>2
    <2>4. branch[repo] \in log[repo][branch[repo]].anc
      BY <2>2, <2>3 DEF Numbered
    <2>5. CASE Publish(w)
      <3>1. PICK r \in Rows : r = Row(w)
        BY <2>2, RowInHand, <1>1
      <3>2. /\ PublishPreparedWrite(RowDest(r), delivery[r]) /\ Unreconciled(r) /\ Recorded(r)
            /\ RowDest(r) \in GitDests => RefMatches(RowDest(r), delivery[r])
        BY <1>1, <2>2, <2>5, <3>1, RowInHand DEF Publish, PromiseInv
      <3>3. log' = log
        BY <3>2 DEF PublishPreparedWrite
      <3>4. CASE RowDest(r) \in GitDests /\ ResourceOf[RowDest(r)] = repo
        <4>1. branch'[repo] = delivery[r].commit
          BY <2>2, <3>2, <3>4 DEF PublishPreparedWrite, WorldTypeOK
        <4>2. branch[repo] = delivery[r].base
          BY <2>1, <3>2, <3>4 DEF RefMatches
        <4>3. log[repo][delivery[r].commit].anc = log[repo][delivery[r].base].anc \cup {delivery[r].commit}
          BY <3>2, <3>4 DEF Recorded, Unreconciled
        <4> QED
          BY <2>4, <3>3, <4>1, <4>2, <4>3
      <3>5. CASE ~(RowDest(r) \in GitDests /\ ResourceOf[RowDest(r)] = repo)
        <4>1. branch'[repo] = branch[repo]
          BY <2>2, <3>2, <3>5 DEF PublishPreparedWrite, WorldTypeOK
        <4> QED
          BY <2>4, <3>3, <4>1
      <3> QED
        BY <3>4, <3>5
    <2>6. ASSUME NEW v \in Workers, Work(v) \/ TargetError(v) \/ Crash(v), ~Publish(w)
          PROVE  branch[repo] \in log'[repo][branch'[repo]].anc
      <3>1. v = w
        <4>1. pc[v] # "idle" \/ writeLock = NoWorker
          BY <2>6 DEF Work, Claim, StartTarget, PrepareRefused, PrepareWithdrawn, PrepareDelivery,
             ObserveDelivered, ObserveWithdrawn, ObserveUnwritten, ObserveRefused, Publish,
             RefMoved, Acknowledge, RecordFailure, Finish, TargetError, Crash
        <4>2. writeLock = w /\ w # NoWorker
          BY <2>2, DeliveryAssumption DEF IndInv, WorkerPlaces
        <4> QED
          BY <2>2, <4>1, <4>2 DEF IndInv, WorkerPlaces
      <3>2. pc'[w] # "acknowledge"
        BY <2>2, <2>6, <3>1 DEF Work, Claim, StartTarget, PrepareRefused, PrepareWithdrawn,
           PrepareDelivery, ObserveDelivered, ObserveWithdrawn, ObserveUnwritten, ObserveRefused,
           RefMoved, Acknowledge, RecordFailure, Finish, TargetError, Crash, Fail, Leave, Goto,
           TypeOK
      <3> QED
        BY <2>1, <3>2 DEF Writes
    <2>7. CASE UNCHANGED pc
      BY <2>1, <2>7 DEF Writes
    <2>8. CASE \/ Web
               \/ Operator /\ UNCHANGED <<commandVars, rowVars, decisionVars, workerVars,
                                          published, boundVars>>
      <3>1. UNCHANGED pc
        BY <2>8, WebEffects DEF workerVars
      <3> QED
        BY <2>7, <3>1
    <2> QED
      BY <1>1, <2>5, <2>6, <2>8 DEF Next
  <1>2. PromiseInv /\ [Next]_vars => [TipKept]_vars
    BY <1>1
  <1>3. PromiseInv /\ [Next]_vars =>
          [\A w \in Workers : \A repo \in Repos :
              Writes(w) /\ branch[repo] # 0
              => branch[repo] \in log'[repo][branch'[repo]].anc]_vars
    BY <1>2 DEF TipKept
  <1> QED
    BY <1>3, PromiseInvHolds, PTL DEF Spec, BranchKeepsItsCommits

-----------------------------------------------------------------------------
\* Delivery implements ReviewedWrite: every step of the tables, the worker and
\* the operator is one step of the promise, or none of its business.

\* The phase of a row from its state and the history of writes.
PhaseFacts ==
    /\ Phase = [r \in Rows |-> Phase[r]]
    /\ \A r \in Rows :
        /\ rowState[r] = "none" => Phase[r] = "none"
        /\ rowState[r] = "completed" => Phase[r] = "acknowledged"
        /\ rowState[r] = "cancelled" => Phase[r] = "dropped"
        /\ rowState[r] \in Claimable \cup Stopped =>
               Phase[r] = IF r \in published THEN "live" ELSE "approved"

LEMMA PhaseIs == PhaseFacts /\ PhaseFacts'
  <1>1. PhaseFacts
    BY DEF PhaseFacts, Phase, Claimable, Stopped
  <1>2. PhaseFacts'
    BY DEF PhaseFacts, Phase, Claimable, Stopped
  <1> QED
    BY <1>1, <1>2

\* A step that takes no row into or out of an open state keeps every phase.
LEMMA PhaseKept ==
  ASSUME TypeOK, UNCHANGED published,
         \A r \in Rows : \/ rowState'[r] = rowState[r]
                         \/ {rowState[r], rowState'[r]} \subseteq Claimable \cup Stopped
  PROVE  Phase' = Phase
  <1>1. ASSUME NEW r \in Rows PROVE Phase'[r] = Phase[r]
    <2>1. rowState[r] \in RowStates
      BY DEF TypeOK
    <2> QED
      BY <2>1, PhaseIs DEF PhaseFacts, RowStates, Finished
  <1> QED
    BY <1>1, PhaseIs DEF PhaseFacts

\* One row takes its next phase.
LEMMA PhaseStep ==
  ASSUME NEW r \in Rows, NEW s, Phase'[r] = s,
         \A q \in Rows : q # r => Phase'[q] = Phase[q]
  PROVE  Phase' = [Phase EXCEPT ![r] = s]
  BY PhaseIs DEF PhaseFacts

\* The promise looks at the places by destination and by lane.
LEMMA PlaceAndLane ==
  \A r \in Rows : /\ [q \in Rows |-> RowDest(q)][r] = RowDest(r)
                  /\ [q \in Rows |-> ResourceOf[RowDest(q)]][r] = ResourceOf[RowDest(r)]
  OBVIOUS

\* A decision approves rows, or changes no phase.
LEMMA WebKeepsPromise ==
  ASSUME PromiseInv, Web
  PROVE  Promise!Next \/ UNCHANGED <<Phase, disturbed>>
  <1>0. TypeOK /\ OpenRows
    BY DEF PromiseInv, DecisionInv, IndInv
  <1>1. UNCHANGED <<worldVars, published>>
    BY DEF Web, Approve, RejectTarget, RejectLesson, RetryDelivery, CancelDelivery
  <1>2. WebEffect
    BY WebEffects
  <1>3. ASSUME NEW c \in Commands, NEW selection \in SUBSET Proposals, Approve(c, selection)
        PROVE  Promise!Next
    <2> DEFINE new == {r \in Rows : rowState'[r] # rowState[r]}
    <2>1. \A r \in new : rowState[r] = "none" /\ rowState'[r] = "queued" /\ r \notin published
      <3>1. ASSUME NEW r \in new
            PROVE  rowState[r] = "none" /\ rowState'[r] = "queued" /\ r \notin published
        <4>1. r[1] = c /\ rowState'[r] = "queued"
          BY <1>3 DEF Approve
        <4>2. rowState[r] = "none" /\ delivery[r] = None
          BY <1>0, <1>3, <4>1 DEF Approve, NewCommand, OpenRows
        <4> QED
          BY <4>1, <4>2 DEF PromiseInv
      <3> QED
        BY <3>1
    <2>2. \A r \in new : Phase[r] = "none" /\ Phase'[r] = "approved"
      BY <1>1, <2>1, PhaseIs DEF PhaseFacts, Claimable
    <2>3. \A r \in Rows \ new : Phase'[r] = Phase[r]
      <3>1. ASSUME NEW r \in Rows \ new PROVE Phase'[r] = Phase[r]
        <4>1. rowState'[r] = rowState[r] /\ rowState[r] \in RowStates
          BY <1>0 DEF TypeOK
        <4> QED
          BY <1>1, <4>1, PhaseIs DEF PhaseFacts, RowStates, Finished
      <3> QED
        BY <3>1
    <2>4. Phase' = [r \in Rows |-> IF r \in new THEN "approved" ELSE Phase[r]]
      BY <2>2, <2>3, PhaseIs DEF PhaseFacts
    <2>5. disturbed' = disturbed
      BY <1>1 DEF worldVars
    <2>6. new \in SUBSET Rows
      OBVIOUS
    <2> HIDE DEF new
    <2>7. Promise!ApproveRows(new)
      BY <2>2, <2>4, <2>5 DEF Promise!ApproveRows
    <2> QED
      BY <2>6, <2>7 DEF Promise!Next
  <1>4. CASE Rejects
    BY <1>0, <1>1, <1>4, PhaseKept DEF Rejects, worldVars
  <1>5. ASSUME NEW c \in Commands, Requeue(c)
        PROVE  UNCHANGED <<Phase, disturbed>>
    <2>1. \A r \in Rows : \/ rowState'[r] = rowState[r]
                          \/ {rowState[r], rowState'[r]} \subseteq Claimable \cup Stopped
      BY <1>5 DEF Requeue, Claimable
    <2> QED
      BY <1>0, <1>1, <2>1, PhaseKept DEF worldVars
  <1> QED
    BY <1>2, <1>3, <1>4, <1>5 DEF WebEffect

\* A row is dropped only when it was not written, but for a hand.
LEMMA DropKeepsPromise ==
  ASSUME PromiseInv, NEW r \in Rows, rowState[r] \in Claimable,
         r \notin published \/ RowDest(r) \in disturbed,
         rowState' = [rowState EXCEPT ![r] = "cancelled"], UNCHANGED <<worldVars, published>>
  PROVE  Promise!Next
  <1>0. TypeOK
    BY DEF PromiseInv, DecisionInv, IndInv
  <1>1. Phase'[r] = "dropped" /\ Phase[r] = IF r \in published THEN "live" ELSE "approved"
    BY <1>0, PhaseIs DEF PhaseFacts, TypeOK
  <1>2. \A q \in Rows : q # r => Phase'[q] = Phase[q]
    <2>1. ASSUME NEW q \in Rows, q # r PROVE Phase'[q] = Phase[q]
      <3>1. rowState'[q] = rowState[q] /\ rowState[q] \in RowStates
        BY <1>0, <2>1 DEF TypeOK
      <3> QED
        BY <3>1, PhaseIs DEF PhaseFacts, RowStates, Finished
    <2> QED
      BY <2>1
  <1>3. Phase' = [Phase EXCEPT ![r] = "dropped"]
    BY <1>1, <1>2, PhaseStep
  <1>4. Promise!Drop(r)
    BY <1>1, <1>3, PlaceAndLane DEF Promise!Drop, worldVars
  <1> QED
    BY <1>4 DEF Promise!Next

\* A row is acknowledged only when it was written, but for a hand.
LEMMA AcknowledgeKeepsPromise ==
  ASSUME PromiseInv, NEW w \in Workers, Acknowledge(w)
  PROVE  Promise!Next
  <1>0. TypeOK /\ AtTarget(w) /\ pc[w] = "acknowledge" /\ Doing(w)
    BY DEF PromiseInv, DecisionInv, IndInv, Acknowledge, AtTarget
  <1>1. PICK r \in Rows : r = Row(w)
    BY <1>0, RowInHand
  <1>2. /\ rowState[r] \in Claimable /\ (r \in published \/ RowDest(r) \in disturbed)
        /\ rowState' = [rowState EXCEPT ![r] = "completed"] /\ UNCHANGED <<worldVars, published>>
    BY <1>0, <1>1, RowInHand DEF Doing, Acknowledge
  <1>3. Phase'[r] = "acknowledged" /\ Phase[r] = IF r \in published THEN "live" ELSE "approved"
    BY <1>0, <1>2, PhaseIs DEF PhaseFacts, TypeOK
  <1>4. \A q \in Rows : q # r => Phase'[q] = Phase[q]
    <2>1. ASSUME NEW q \in Rows, q # r PROVE Phase'[q] = Phase[q]
      <3>1. rowState'[q] = rowState[q] /\ rowState[q] \in RowStates
        BY <1>0, <1>2, <2>1 DEF TypeOK
      <3> QED
        BY <1>2, <3>1, PhaseIs DEF PhaseFacts, RowStates, Finished
    <2> QED
      BY <2>1
  <1>5. Phase' = [Phase EXCEPT ![r] = "acknowledged"]
    BY <1>3, <1>4, PhaseStep
  <1>6. Promise!AcknowledgeRow(r)
    BY <1>2, <1>3, <1>5, PlaceAndLane DEF Promise!AcknowledgeRow, worldVars
  <1> QED
    BY <1>6 DEF Promise!Next

\* A row is written once, but for a hand, and alone on its file or branch.
LEMMA WriteKeepsPromise ==
  ASSUME PromiseInv, NEW w \in Workers, Publish(w)
  PROVE  Promise!Next
  <1>0. /\ TypeOK /\ AtTarget(w) /\ pc[w] = "publish" /\ Doing(w) /\ OneUnreconciledPerResource
        /\ \A q \in Rows : q \in published => delivery[q] # None
    BY DEF PromiseInv, DecisionInv, IndInv, Publish, AtTarget
  <1>1. PICK r \in Rows : r = Row(w)
    BY <1>0, RowInHand
  <1>2. /\ rowState[r] \in Claimable /\ (r \notin published \/ RowDest(r) \in disturbed)
        /\ Unreconciled(r)
        /\ disturbed' = disturbed \ {RowDest(r)}
        /\ published' = published \cup {r} /\ UNCHANGED rowState
    BY <1>0, <1>1, RowInHand DEF Doing, Publish, PublishPreparedWrite, rowVars
  <1>3. Phase'[r] = "live" /\ Phase[r] = IF r \in published THEN "live" ELSE "approved"
    BY <1>2, PhaseIs DEF PhaseFacts
  <1>4. \A q \in Rows : q # r => Phase'[q] = Phase[q]
    <2>1. ASSUME NEW q \in Rows, q # r PROVE Phase'[q] = Phase[q]
      <3>1. rowState'[q] = rowState[q] /\ rowState[q] \in RowStates
        BY <1>0, <1>2 DEF TypeOK
      <3> QED
        BY <1>2, <2>1, <3>1, PhaseIs DEF PhaseFacts, RowStates, Finished
    <2> QED
      BY <2>1
  <1>5. Phase' = [Phase EXCEPT ![r] = "live"]
    BY <1>3, <1>4, PhaseStep
  <1>6. \A q \in Rows \ {r} : ResourceOf[RowDest(q)] = ResourceOf[RowDest(r)] => Phase[q] # "live"
    <2>1. SUFFICES ASSUME NEW q \in Rows \ {r}, ResourceOf[RowDest(q)] = ResourceOf[RowDest(r)],
                          Phase[q] = "live"
                   PROVE  FALSE
      OBVIOUS
    <2>2. rowState[q] \in Claimable \cup Stopped /\ q \in published
      <3>1. rowState[q] \in RowStates
        BY <1>0 DEF TypeOK
      <3> QED
        BY <2>1, <3>1, PhaseIs DEF PhaseFacts, RowStates, Finished
    <2>3. Unreconciled(q)
      BY <1>0, <2>2 DEF Unreconciled, Claimable, Stopped, Finished
    <2> QED
      BY <1>0, <1>2, <2>1, <2>3 DEF OneUnreconciledPerResource
  <1>7. Promise!Write(r)
    BY <1>2, <1>3, <1>5, <1>6, PlaceAndLane DEF Promise!Write
  <1> QED
    BY <1>7 DEF Promise!Next

\* Every step of a worker.
LEMMA WorkerKeepsPromise ==
  ASSUME PromiseInv, NEW w \in Workers, Work(w) \/ TargetError(w) \/ Crash(w)
  PROVE  Promise!Next \/ UNCHANGED <<Phase, disturbed>>
  <1>0. /\ TypeOK /\ IndInv /\ Hands
        /\ \A q \in Rows : q \in published => delivery[q] # None
    BY DEF PromiseInv, DecisionInv, IndInv
  <1>1. CASE Publish(w)
    BY <1>1, WriteKeepsPromise
  <1>2. CASE Acknowledge(w)
    BY <1>2, AcknowledgeKeepsPromise
  <1>3. CASE StartTarget(w)
    <2>1. PICK d \in todo[w] :
            \/ UNCHANGED rowState
            \/ delivery[<<job[w], d>>] = None /\ CancelUnwritten(<<job[w], d>>)
      BY <1>3 DEF StartTarget, rowVars
    <2>2. UNCHANGED <<worldVars, published>>
      BY <1>3 DEF StartTarget
    <2>3. CASE UNCHANGED rowState
      BY <1>0, <2>2, <2>3, PhaseKept DEF worldVars
    <2>4. CASE delivery[<<job[w], d>>] = None /\ CancelUnwritten(<<job[w], d>>)
      <3>1. /\ <<job[w], d>> \in Rows /\ rowState[<<job[w], d>>] \in Claimable
        BY <1>0, <1>3, BusyRows DEF StartTarget, Hands
      <3>2. PICK r \in Rows : r = <<job[w], d>>
        BY <3>1
      <3>3. r \notin published /\ rowState' = [rowState EXCEPT ![r] = "cancelled"]
            /\ rowState[r] \in Claimable
        BY <1>0, <2>4, <3>1, <3>2 DEF CancelUnwritten
      <3> QED
        BY <2>2, <3>3, DropKeepsPromise
    <2> QED
      BY <2>1, <2>3, <2>4
  <1>4. CASE PrepareWithdrawn(w) \/ ObserveWithdrawn(w)
    <2>1. AtTarget(w) /\ CancelUnwritten(Row(w)) /\ UNCHANGED <<worldVars, published>>
      BY <1>4 DEF PrepareWithdrawn, ObserveWithdrawn, AtTarget
    <2>2. PICK r \in Rows : r = Row(w)
      BY <2>1, RowInHand
    <2>3. r \notin published \/ RowDest(r) \in disturbed
      <3>1. CASE PrepareWithdrawn(w)
        <4>1. delivery[r] = None
          BY <2>2, <3>1 DEF PrepareWithdrawn, PromiseInv, Doing
        <4> QED
          BY <1>0, <4>1
      <3>2. CASE ObserveWithdrawn(w)
        <4>1. Unseen(r) /\ Unreconciled(r)
          BY <2>1, <2>2, <3>2, RowInHand DEF ObserveWithdrawn
        <4> QED
          BY <4>1, UnseenIsUnwritten
      <3> QED
        BY <1>4, <3>1, <3>2
    <2>4. rowState[r] \in Claimable /\ rowState' = [rowState EXCEPT ![r] = "cancelled"]
      BY <2>1, <2>2, RowInHand DEF CancelUnwritten
    <2> QED
      BY <2>1, <2>3, <2>4, DropKeepsPromise
  <1>5. CASE PrepareDelivery(w) \/ RecordFailure(w)
    <2>1. /\ AtTarget(w) /\ UNCHANGED <<disturbed, published>>
          /\ \E state \in Claimable \cup Stopped : rowState' = [rowState EXCEPT ![Row(w)] = state]
      <3>1. CASE PrepareDelivery(w)
        BY <3>1 DEF PrepareDelivery, AtTarget, Claimable
      <3>2. CASE RecordFailure(w)
        BY <1>0, <3>2 DEF RecordFailure, AtTarget, worldVars, IndInv, WorkerPlaces
      <3> QED
        BY <1>5, <3>1, <3>2
    <2>2. rowState[Row(w)] \in Claimable /\ Row(w) \in Rows
      BY <2>1, RowInHand
    <2>3. \A r \in Rows : \/ rowState'[r] = rowState[r]
                          \/ {rowState[r], rowState'[r]} \subseteq Claimable \cup Stopped
      BY <1>0, <2>1, <2>2 DEF TypeOK
    <2> QED
      BY <1>0, <2>1, <2>3, PhaseKept
  <1>6. CASE \/ Claim(w) \/ PrepareRefused(w) \/ ObserveDelivered(w) \/ ObserveUnwritten(w)
             \/ ObserveRefused(w) \/ RefMoved(w) \/ Finish(w) \/ TargetError(w) \/ Crash(w)
    <2>1. UNCHANGED <<worldVars, published, rowState>>
      BY <1>6 DEF Claim, PrepareRefused, ObserveDelivered, ObserveUnwritten, ObserveRefused,
         RefMoved, Finish, TargetError, Crash, rowVars
    <2> QED
      BY <1>0, <2>1, PhaseKept DEF worldVars
  <1> QED
    BY <1>1, <1>2, <1>3, <1>4, <1>5, <1>6 DEF Work

\* Delivery keeps its promise: an approved edit is written once and then
\* acknowledged, or dropped and not in place; only the operator's own hand
\* excuses anything else (execute_next_command, _observe_prepared_write).
THEOREM DeliveryKeepsPromise == Spec => KeepsPromise
  <1>1. Init => Promise!Init
    <2> SUFFICES ASSUME Init PROVE Promise!Init
      OBVIOUS
    <2>1. \A r \in Rows : Phase[r] = "none"
      BY PhaseIs DEF PhaseFacts, Init
    <2>2. Phase = [r \in Rows |-> "none"]
      BY <2>1, PhaseIs DEF PhaseFacts
    <2> QED
      BY <2>2 DEF Promise!Init, Init, WorldInit
  <1>2. PromiseInv /\ PromiseInv' /\ [Next]_vars => [Promise!Next]_<<Phase, disturbed>>
    <2> SUFFICES ASSUME PromiseInv, PromiseInv', [Next]_vars
                 PROVE  Promise!Next \/ UNCHANGED <<Phase, disturbed>>
      OBVIOUS
    <2>1. CASE Web
      BY <2>1, WebKeepsPromise
    <2>2. ASSUME NEW w \in Workers, Work(w) \/ TargetError(w) \/ Crash(w)
          PROVE  Promise!Next \/ UNCHANGED <<Phase, disturbed>>
      BY <2>2, WorkerKeepsPromise
    <2>3. CASE Operator /\ UNCHANGED <<commandVars, rowVars, decisionVars, workerVars,
                                        published, boundVars>>
      <3>1. /\ WorldTypeOK /\ WorldTypeOK' /\ RefsExist /\ Numbered /\ TypeOK
        BY DEF PromiseInv, DecisionInv, IndInv, TypeOK
      <3>2. disturbed \subseteq disturbed' /\ disturbed' \subseteq Dests
        BY <2>3, <3>1, OperatorByHand DEF ByHand, WorldTypeOK
      <3>3. Phase' = Phase
        BY <2>3, <3>1, PhaseKept DEF rowVars
      <3>4. Dests \subseteq {[q \in Rows |-> RowDest(q)][r] : r \in Rows}
        <4>1. PICK c : c \in Commands
          BY DeliveryAssumption
        <4>2. ASSUME NEW d \in Dests
              PROVE  d \in {[q \in Rows |-> RowDest(q)][r] : r \in Rows}
          <5>1. <<c, d>> \in Rows /\ RowDest(<<c, d>>) = d
            BY <4>1, RowParts DEF RowDest
          <5> QED
            BY <5>1
        <4> QED
          BY <4>2
      <3>5. Promise!HandChange
        BY <3>2, <3>3, <3>4 DEF Promise!HandChange
      <3> QED
        BY <3>5 DEF Promise!Next
    <2>4. CASE UNCHANGED vars
      <3>1. TypeOK
        BY DEF PromiseInv, DecisionInv, IndInv
      <3> QED
        BY <2>4, <3>1, PhaseKept DEF vars, rowVars, worldVars
    <2> QED
      BY <2>1, <2>2, <2>3, <2>4 DEF Next
  <1> QED
    BY <1>1, <1>2, PromiseInvHolds, PTL DEF Spec, KeepsPromise, Promise!Spec
=============================================================================
