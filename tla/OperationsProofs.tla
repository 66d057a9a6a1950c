-------------------------- MODULE OperationsProofs --------------------------
(***************************************************************************)
(* What holds of the operations, the rollbacks and the reviewed rows they  *)
(* meet, for any number of proposals, writers, operations, destinations    *)
(* and repositories, and whatever the operator does.  Three inductive      *)
(* invariants, each resting on the one before: IndInv (what a record says  *)
(* and what a writer has in hand), StatusInv (the status of a proposal     *)
(* against its events) and PlaceInv (the record of a write against the     *)
(* place it is for).                                                       *)
(***************************************************************************)
EXTENDS Operations, DestinationsProofs, FiniteSetTheorems, WellFoundedInduction

\* Operation o is for destination d, and its prepared write is dlv.
Prepared(o, d, dlv) ==
    op[o] # None /\ DestOf[op[o].prop] = d /\ op[o].delivery = dlv

\* An automatic edit is prepared when it is created; a rollback names an
\* application of its proposal and content that held the edit; and a prepared
\* write is truly described, and puts the edit in or takes it out.
RecordFits(o) ==
    /\ op[o].kind = "auto_apply" => op[o].delivery # None
    /\ op[o].kind = "rollback" =>
        /\ op[o].app \in 1..Len(apps) /\ apps[op[o].app] = op[o].prop
        /\ op[o].prop \in op[o].base.rules
    /\ \A d \in Dests, dlv \in DeliveryRecord : Prepared(o, d, dlv) =>
        /\ TrueRecord(d, dlv)
        /\ (op[o].prop \in dlv.after.rules) <=> (op[o].kind = "auto_apply")
Records == \A o \in Ops : op[o] # None => RecordFits(o)

\* The edit of a queued row was not there when it was approved, and the commit
\* of a prepared one exists.
RowFits(p) ==
    /\ row[p].state = "queued" => p \notin row[p].preview.rules
    /\ row[p].state = "prepared" =>
        /\ row[p].delivery \in DeliveryRecord
        /\ DestOf[p] \in GitDests =>
               row[p].delivery.commit \in 1..Len(log[ResourceOf[DestOf[p]]])
RowRecords == \A p \in Proposals : RowFits(p)

\* Operations are numbered in the order of their creation.
OpsInOrder == Made = 1..Cardinality(Made)

\* At most one prepared write is open on a file or branch.
Resources == {ResourceOf[d] : d \in Dests}
Opens(o, r) == op[o] # None /\ Unreconciled(o) /\ ResourceOf[DestOf[op[o].prop]] = r
RowOpens(p, r) == row[p].state = "prepared" /\ ResourceOf[DestOf[p]] = r
OneOpen ==
    \A r \in Resources :
        /\ \A o, q \in Ops : Opens(o, r) /\ Opens(q, r) => o = q
        /\ \A p, q \in Proposals : RowOpens(p, r) /\ RowOpens(q, r) => p = q
        /\ \A o \in Ops, p \in Proposals : ~(Opens(o, r) /\ RowOpens(p, r))

\* What a writer that is not idle has in hand.
AtWork(w, o) == pc[w] # "idle" /\ job[w] = o
InHand(w, o) ==
    /\ op[o] # None /\ op[o].state # "completed"
    /\ op[o].delivery # None => Unreconciled(o)
    /\ pc[w] \in {"prepare", "compose"} => op[o].delivery = None
    /\ pc[w] \in {"observe", "publish", "acknowledge"} => op[o].delivery # None
    /\ pc[w] \in {"publish", "acknowledge"} => txn = w
    /\ pc[w] = "failing" => failAs[w] \in Stopped
    /\ saw[w] => op[o].cancelReq
    /\ pc[w] # "start" /\ saw[w] => o \in tried
Hands ==
    /\ \A w \in Writers : pc[w] # "idle" => writeLock = w /\ job[w] \in Ops
    /\ \A w \in Writers, o \in Ops : AtWork(w, o) => InHand(w, o)

IndInv ==
    /\ TypeOK /\ RefsExist /\ Numbered
    /\ OpsInOrder /\ Records /\ RowRecords /\ OneOpen /\ Hands /\ CancellationIsTried

-----------------------------------------------------------------------------
\* The status of a proposal: one automatic edit, and none open once it is
\* applied or rolled back; a row under way is a decision of the operator.
OneAuto ==
    \A o, q \in Ops :
        /\ op[o] # None /\ op[o].kind = "auto_apply"
        /\ op[q] # None /\ op[q].kind = "auto_apply" /\ op[q].prop = op[o].prop
        => o = q
AppliedIsClosed ==
    \A o \in Ops : op[o] # None /\ op[o].kind = "auto_apply" /\ Unreconciled(o)
        => pstatus[op[o].prop] \notin {"applied", "rolled_back"}
RowIsDecided ==
    \A p \in Proposals : row[p].state \in {"queued", "prepared"}
        => pstatus[p] \in {"approved_user", "rejected_user"}
StatusInv == IndInv /\ OneAuto /\ AppliedIsClosed /\ RowIsDecided /\ StatusMatchesEvents

-----------------------------------------------------------------------------
\* The places: an open write stands as the history of writes says; a writer
\* that is about to write may, and one about to acknowledge has reason to.
InPlace(o) ==
    \A d \in Dests, dlv \in DeliveryRecord, written \in BOOLEAN :
        Prepared(o, d, dlv) /\ Unreconciled(o) /\ (written <=> o \in published)
            => Stands(d, dlv, written)
Placed ==
    /\ \A o \in Ops : op[o] # None => InPlace(o)
    /\ \A o \in published : op[o] # None /\ op[o].delivery # None
Reason(w, o) ==
    /\ pc[w] = "publish" => MayWrite(o)
    /\ pc[w] = "acknowledge" => o \in published \/ Dest(o) \in disturbed
Reasoned == \A w \in Writers, o \in Ops : AtWork(w, o) => Reason(w, o)
PlaceInv == IndInv /\ Placed /\ Reasoned

-----------------------------------------------------------------------------
\* Lemmas about numbers and events.

\* A set of numbers up to n has a greatest element, if it has any.
LEMMA HasGreatest ==
  ASSUME NEW n \in Nat, NEW S \in SUBSET (1..n), S # {}
  PROVE  \E m \in S : \A x \in S : x <= m
  <1> DEFINE T == {n - x : x \in S}
             R == OpToRel(<, Nat)
  <1>1. IsWellFoundedOn(R, Nat)
    BY NatLessThanWellFounded
  <1>2. T \subseteq Nat /\ T # {}
    <2>1. \A x \in S : x \in 1..n /\ n - x \in Nat
      OBVIOUS
    <2> QED
      BY <2>1
  <1>3. \A x, y \in Nat : <<x, y>> \in R <=> x < y
    BY DEF OpToRel
  <1> HIDE DEF R, T
  <1>4. PICK t \in T : \A y \in T : <<y, t>> \notin R
    BY <1>1, <1>2, WFMin
  <1>5. PICK m \in S : t = n - m
    BY <1>4 DEF T
  <1>6. ASSUME NEW x \in S
        PROVE  x <= m
    <2>1. n - x \in T /\ m \in 1..n /\ x \in 1..n /\ n - x \in Nat /\ n - m \in Nat
      BY <1>5 DEF T
    <2>2. ~(n - x < n - m)
      BY <1>3, <1>4, <1>5, <2>1
    <2> QED
      BY <2>1, <2>2
  <1> QED
    BY <1>6

\* The last event of a proposal in a history of events.
LastOf(s, p, a) ==
    /\ a \in 1..Len(s) /\ s[a] = p
    /\ \A b \in 1..Len(s) : s[b] = p => b <= a

\* latest_application returns the last event of the proposal, if there is one.
LEMMA LatestIsLast ==
  ASSUME apps \in Seq(Proposals), NEW p \in Proposals
  PROVE  /\ LatestApp(p) \in Nat
         /\ LatestApp(p) # 0 => LastOf(apps, p, LatestApp(p))
         /\ LatestApp(p) = 0 => \A b \in 1..Len(apps) : apps[b] # p
  <1>1. CASE AppsOf(p) = {}
    BY <1>1 DEF LatestApp, AppsOf
  <1>2. CASE AppsOf(p) # {}
    <2>1. Len(apps) \in Nat /\ AppsOf(p) \in SUBSET (1..Len(apps))
      BY DEF AppsOf
    <2>2. \E m \in AppsOf(p) : \A x \in AppsOf(p) : x <= m
      BY <1>2, <2>1, HasGreatest
    <2>3. /\ LatestApp(p) \in AppsOf(p)
          /\ \A x \in AppsOf(p) : x <= LatestApp(p)
      BY <1>2, <2>2 DEF LatestApp
    <2> QED
      BY <2>1, <2>3 DEF AppsOf, LastOf
  <1> QED
    BY <1>1, <1>2

\* Two last events of a proposal are the same one.
LEMMA LastIsOne ==
  ASSUME NEW s \in Seq(Proposals), NEW p, NEW a, NEW b, LastOf(s, p, a), LastOf(s, p, b)
  PROVE  a = b
  <1>1. a \in 1..Len(s) /\ b \in 1..Len(s) /\ Len(s) \in Nat /\ a <= b /\ b <= a
    BY DEF LastOf
  <1> QED
    BY <1>1

\* The operations that exist can be counted.
LEMMA Countable ==
  ASSUME TRUE
  PROVE  Cardinality(Ops) \in Nat /\ Cardinality(Made) \in Nat /\ IsFiniteSet(Made)
  <1>1. IsFiniteSet(Ops) /\ Made \subseteq Ops
    BY OperationsAssumption DEF Made
  <1> QED
    BY <1>1, FS_Subset, FS_CardinalityType

\* The next identifier is free.
LEMMA NextIsFree ==
  ASSUME OpsInOrder, NextId \in Ops
  PROVE  NextId \in Nat /\ op[NextId] = None /\ \A o \in Made : o < NextId
  <1>1. Cardinality(Made) \in Nat
    BY Countable
  <1>2. NextId = Cardinality(Made) + 1 /\ Made = 1..Cardinality(Made)
    BY DEF NextId, OpsInOrder
  <1>3. NextId \in Nat /\ NextId \notin Made /\ \A o \in Made : o < NextId
    BY <1>1, <1>2
  <1> QED
    BY <1>3 DEF Made

\* The order holds as long as none is created, or the next one.
LEMMA OrderKept ==
  ASSUME OpsInOrder,
         \/ \A o \in Ops : op'[o] = None <=> op[o] = None
         \/ \E n \in Ops : /\ n = NextId /\ op'[n] # None
                           /\ \A o \in Ops \ {n} : op'[o] = None <=> op[o] = None
  PROVE  OpsInOrder'
  <1>1. CASE \A o \in Ops : op'[o] = None <=> op[o] = None
    <2>1. Made' = Made
      BY <1>1 DEF Made
    <2> QED
      BY <2>1 DEF OpsInOrder
  <1>2. ASSUME NEW n \in Ops, n = NextId, op'[n] # None,
               \A o \in Ops \ {n} : op'[o] = None <=> op[o] = None
        PROVE  OpsInOrder'
    <2>1. Made' = Made \cup {n} /\ n \notin Made
      BY <1>2, NextIsFree DEF Made
    <2>2. Cardinality(Made \cup {n}) = Cardinality(Made) + 1 /\ Cardinality(Made) \in Nat
      BY <2>1, Countable, FS_AddElement
    <2>3. Made \cup {n} = 1..(Cardinality(Made) + 1)
      BY <1>2, <2>2 DEF OpsInOrder, NextId
    <2>4. Made' = 1..Cardinality(Made')
      BY <2>1, <2>2, <2>3
    <2> QED
      BY <2>4 DEF OpsInOrder
  <1> QED
    BY <1>1, <1>2


-----------------------------------------------------------------------------
\* What a step does to a record.

\* It keeps what the record says, reopens no write and undoes no completion.
SameEdit(o) ==
    /\ op'[o].kind = op[o].kind /\ op'[o].prop = op[o].prop
    /\ op'[o].delivery = op[o].delivery /\ op'[o].app = op[o].app
    /\ op'[o].base = op[o].base /\ op'[o].policy = op[o].policy
    /\ op'[o].eval = op[o].eval
    /\ op[o].cancelReq => op'[o].cancelReq
Carried(o) ==
    /\ op'[o] = None <=> op[o] = None
    /\ op[o] # None =>
        /\ SameEdit(o)
        /\ op[o].state = "completed" => op'[o].state = "completed"
        /\ Unreconciled(o)' => Unreconciled(o)

\* It closes no write and completes none.
LeftOpen(o) ==
    op[o] # None => /\ op'[o].state = "completed" => op[o].state = "completed"
                    /\ Unreconciled(o) => Unreconciled(o)'

\* It stops no operation whose cancellation is recorded.
NotStopped(o) ==
    op[o] # None => (op'[o].cancelReq /\ op'[o].state \in Stopped
                        => op[o].cancelReq /\ op[o].state \in Stopped)

Eased == \A o \in Ops : Carried(o) /\ LeftOpen(o) /\ NotStopped(o)
OpTyped == op \in [Ops -> Operation \cup {None}]

\* The fields of a record.
LEMMA RecordType ==
  ASSUME OpTyped, NEW o \in Ops, op[o] # None
  PROVE  /\ op[o] \in Operation
         /\ op[o].kind \in {"auto_apply", "rollback"} /\ op[o].prop \in Proposals
         /\ op[o].state \in Claimable \cup Stopped \cup Finished
         /\ op[o].cancelReq \in BOOLEAN /\ op[o].cancelled \in BOOLEAN
         /\ op[o].delivery \in DeliveryRecord \cup {None}
         /\ op[o].app \in Nat /\ op[o].base \in Content
         /\ op[o].policy \in Nat /\ op[o].eval \in Nat
  BY DEF OpTyped, Operation

\* No operation, record or number is None.
LEMMA NoneIsNothing ==
  ASSUME TRUE
  PROVE  None \notin Operation /\ None \notin DeliveryRecord /\ None \notin Nat
  BY OperationsAssumption

\* Left alone, every record is carried.
LEMMA OpKept ==
  ASSUME OpTyped, UNCHANGED op
  PROVE  Eased /\ OpTyped'
  BY DEF OpTyped, Eased, Carried, LeftOpen, NotStopped, SameEdit, Unreconciled

\* Only the state and the two cancellation flags of one record change.
LEMMA OneChanges ==
  ASSUME OpTyped, NEW o \in Ops, op[o] # None,
         NEW s \in Claimable \cup Stopped \cup Finished, NEW q \in BOOLEAN, NEW c \in BOOLEAN,
         op' = [op EXCEPT ![o] = [op[o] EXCEPT !.state = s, !.cancelReq = q, !.cancelled = c]],
         op[o].cancelReq => q,
         op[o].state = "completed" => s = "completed",
         op[o].delivery # None /\ s # "completed" /\ ~(s = "cancelled" /\ c) => Unreconciled(o)
  PROVE  /\ OpTyped'
         /\ \A x \in Ops : Carried(x) /\ (x # o => op'[x] = op[x])
         /\ op'[o] = [op[o] EXCEPT !.state = s, !.cancelReq = q, !.cancelled = c]
         /\ op'[o] # None /\ SameEdit(o)
         /\ op'[o].state = s /\ op'[o].cancelReq = q /\ op'[o].cancelled = c
  <1> DEFINE r == [op[o] EXCEPT !.state = s, !.cancelReq = q, !.cancelled = c]
  <1>1. op[o] \in Operation
    BY RecordType
  <1>2. /\ r \in Operation
        /\ r.state = s /\ r.cancelReq = q /\ r.cancelled = c
        /\ r.kind = op[o].kind /\ r.prop = op[o].prop /\ r.delivery = op[o].delivery
        /\ r.app = op[o].app /\ r.base = op[o].base /\ r.policy = op[o].policy
        /\ r.eval = op[o].eval
    BY <1>1 DEF Operation
  <1>3. op' = [op EXCEPT ![o] = r]
    OBVIOUS
  <1> HIDE DEF r
  <1>4. op'[o] = r /\ r # None /\ \A x \in Ops : x # o => op'[x] = op[x]
    BY <1>2, <1>3, NoneIsNothing DEF OpTyped
  <1>5. OpTyped'
    BY <1>2, <1>3 DEF OpTyped
  <1>6. SameEdit(o)
    BY <1>2, <1>4 DEF SameEdit
  <1>7. Carried(o)
    BY <1>2, <1>4, <1>6 DEF Carried, Unreconciled
  <1>8. ASSUME NEW x \in Ops, x # o
        PROVE  Carried(x)
    BY <1>4, <1>8 DEF Carried, SameEdit, Unreconciled
  <1> QED
    BY <1>2, <1>4, <1>5, <1>6, <1>7, <1>8 DEF r

\* A rollback is requested again, or recorded anew; what it supersedes has no
\* prepared write.
NewRollback(n, p, a, base) ==
    op'[n] = [NewOperation("rollback", p) EXCEPT
                 !.app = a, !.base = base, !.ref = BaseRef(DestOf[p])]
LEMMA BaseRefType ==
  ASSUME WorldTypeOK, NEW p \in Proposals
  PROVE  BaseRef(DestOf[p]) \in Nat
  <1>1. DestOf[p] \in Dests
    BY OperationsAssumption
  <1> QED
    BY <1>1 DEF BaseRef, BranchBase, WorldTypeOK, Repos

LEMMA RequestEffect ==
  ASSUME WorldTypeOK, OpTyped, OpsInOrder, NEW p \in Proposals, NEW a \in Nat, NEW base \in Content,
         RequestRollback(p, a, base)
  PROVE  /\ OpTyped' /\ p \in base.rules
         /\ \E id \in Ops :
             /\ id = IntentOn(a, base)
             /\ op'[id] # None /\ op'[id].state = "queued" /\ op'[id].delivery = None
             /\ \/ Eased
                \/ /\ id = NextId /\ op[id] = None /\ NewRollback(id, p, a, base)
                   /\ \A o \in Ops \ {id} : Carried(o) /\ LeftOpen(o) /\ NotStopped(o)
  <1> DEFINE id == IntentOn(a, base)
             same == {o \in Uncancelled(a) :
                          op[o].base = base /\ op[o].ref = BaseRef(Dest(o))}
             fresh == [NewOperation("rollback", p) EXCEPT
                          !.app = a, !.base = base, !.ref = BaseRef(DestOf[p])]
  <1>1. /\ id \in Ops /\ CommittedOrPrepared(a) = {} /\ p \in base.rules
        /\ op' = [o \in Ops |->
               CASE o = id /\ o \in Made -> [op[o] EXCEPT !.state = "queued"]
                 [] o = id /\ o \notin Made -> fresh
                 [] o \in Uncancelled(a) /\ (o > id \/ id \notin Made) ->
                        [op[o] EXCEPT !.state = "cancelled", !.cancelled = TRUE]
                 [] OTHER -> op[o]]
    BY DEF RequestRollback
  <1>2. Uncancelled(a) \subseteq Made /\ Made \subseteq Ops
    BY DEF Uncancelled, RollbacksOf, Made
  <1>3. \/ id = NextId
        \/ id \in Uncancelled(a)
    <2>1. CASE same = {}
      BY <2>1 DEF IntentOn
    <2>2. CASE same # {}
      <3>1. same \in SUBSET (1..Cardinality(Ops)) /\ Cardinality(Ops) \in Nat
        BY <1>2, Countable, OperationsAssumption
      <3>2. \E m \in same : \A x \in same : x <= m
        BY <2>2, <3>1, HasGreatest
      <3>3. id \in same
        BY <2>2, <3>2 DEF IntentOn
      <3> QED
        BY <3>3
    <2> QED
      BY <2>1, <2>2
  <1>4. \A o \in Uncancelled(a) : op[o] # None /\ op[o].delivery = None /\ op[o].state # "completed"
    BY <1>1, <1>2 DEF CommittedOrPrepared, Made
  <1>5. fresh \in Operation /\ fresh.state = "queued" /\ fresh.delivery = None
    BY <1>1, BlankType, BaseRefType DEF NewOperation, Operation, Claimable
  <1>6. id = NextId => op[id] = None /\ id \notin Made
    BY <1>1, NextIsFree DEF Made
  <1> HIDE DEF id, fresh
  <1>7. \A o \in Ops : \/ op'[o] = op[o] /\ o # id
                       \/ o = id /\ id \notin Made /\ id = NextId /\ op'[o] = fresh
                       \/ /\ o \in Uncancelled(a) /\ id \in Made /\ o = id
                          /\ op'[o] = [op[o] EXCEPT !.state = "queued"]
                       \/ /\ o \in Uncancelled(a) /\ o # id
                          /\ op'[o] = [op[o] EXCEPT !.state = "cancelled", !.cancelled = TRUE]
    <2> SUFFICES ASSUME NEW o \in Ops
                 PROVE  \/ op'[o] = op[o] /\ o # id
                        \/ o = id /\ id \notin Made /\ id = NextId /\ op'[o] = fresh
                        \/ /\ o \in Uncancelled(a) /\ id \in Made /\ o = id
                           /\ op'[o] = [op[o] EXCEPT !.state = "queued"]
                        \/ /\ o \in Uncancelled(a) /\ o # id
                           /\ op'[o] = [op[o] EXCEPT !.state = "cancelled", !.cancelled = TRUE]
      OBVIOUS
    <2>1. CASE o = id /\ o \in Made
      <3>0. ~(o > id)
        BY <2>1, Countable, OperationsAssumption
      <3>1. op'[o] = [op[o] EXCEPT !.state = "queued"]
        BY <1>1, <2>1, <3>0
      <3>2. o \in Uncancelled(a)
        BY <1>3, <1>6, <2>1
      <3> QED
        BY <2>1, <3>1, <3>2
    <2>2. CASE o = id /\ o \notin Made
      <3>1. op'[o] = fresh
        BY <1>1, <1>2, <2>2
      <3>2. id = NextId
        BY <1>2, <1>3, <2>2
      <3> QED
        BY <2>2, <3>1, <3>2
    <2>3. CASE o # id
      <3>1. \/ op'[o] = op[o]
            \/ /\ o \in Uncancelled(a)
               /\ op'[o] = [op[o] EXCEPT !.state = "cancelled", !.cancelled = TRUE]
        BY <1>1, <2>3
      <3> QED
        BY <2>3, <3>1
    <2> QED
      BY <2>1, <2>2, <2>3
  <1>8. \A o \in Ops : op[o] # None => op[o] \in Operation
    BY RecordType
  <1>9. ASSUME NEW o \in Ops
        PROVE  /\ op'[o] \in Operation \cup {None}
               /\ o # id \/ id \in Made => Carried(o) /\ LeftOpen(o) /\ NotStopped(o)
               /\ o = id => op'[o] # None /\ op'[o].state = "queued" /\ op'[o].delivery = None
    <2>1. CASE op'[o] = op[o] /\ o # id
      BY <2>1 DEF OpTyped, Carried, LeftOpen, NotStopped, SameEdit, Unreconciled
    <2>2. CASE o = id /\ id \notin Made /\ id = NextId /\ op'[o] = fresh
      BY <1>5, <2>2, NoneIsNothing
    <2>3. CASE /\ o \in Uncancelled(a) /\ id \in Made /\ o = id
               /\ op'[o] = [op[o] EXCEPT !.state = "queued"]
      <3>1. op[o] \in Operation /\ op[o].delivery = None /\ op[o].state # "completed" /\ op[o] # None
        BY <1>4, <1>8, <2>3
      <3>2. /\ op'[o] \in Operation /\ op'[o].state = "queued" /\ op'[o].delivery = None
            /\ SameEdit(o)
        BY <2>3, <3>1 DEF Operation, SameEdit, Claimable
      <3>3. op'[o] # None
        BY <3>2, NoneIsNothing
      <3> QED
        BY <3>1, <3>2, <3>3 DEF Carried, LeftOpen, NotStopped, Unreconciled, Stopped
    <2>4. CASE /\ o \in Uncancelled(a) /\ o # id
               /\ op'[o] = [op[o] EXCEPT !.state = "cancelled", !.cancelled = TRUE]
      <3>1. op[o] \in Operation /\ op[o].delivery = None /\ op[o].state # "completed" /\ op[o] # None
        BY <1>4, <1>8, <2>4
      <3>2. /\ op'[o] \in Operation /\ op'[o].state = "cancelled" /\ op'[o].delivery = None
            /\ SameEdit(o)
        BY <2>4, <3>1 DEF Operation, SameEdit, Finished
      <3>3. op'[o] # None
        BY <3>2, NoneIsNothing
      <3> QED
        BY <2>4, <3>1, <3>2, <3>3 DEF Carried, LeftOpen, NotStopped, Unreconciled, Stopped
    <2> QED
      BY <1>7, <2>1, <2>2, <2>3, <2>4
  <1>10. OpTyped'
    BY <1>1, <1>9 DEF OpTyped
  <1>11. CASE id \in Made
    BY <1>1, <1>9, <1>10, <1>11 DEF Eased, id
  <1>12. CASE id \notin Made
    <2>1. id = NextId /\ op[id] = None /\ op'[id] = fresh
      BY <1>1, <1>7, <1>12 DEF Made
    <2>2. NewRollback(id, p, a, base)
      BY <2>1 DEF NewRollback, fresh
    <2> QED
      BY <1>1, <1>9, <1>10, <2>1, <2>2 DEF id
  <1> QED
    BY <1>11, <1>12


-----------------------------------------------------------------------------
\* How the parts of IndInv survive a step.

ProposalTypes ==
    /\ pstatus \in [Proposals -> {"none"} \cup Undecided \cup Decided]
    /\ evalOf \in [Proposals -> Nat] /\ createdAt \in [Proposals -> Nat]
    /\ inRun \subseteq Proposals
    /\ rejected \subseteq {LessonOf[p] : p \in Proposals}
    /\ undone \subseteq {LessonOf[p] : p \in Proposals}
    /\ policy \in [enabled : BOOLEAN, rev : Nat, since : Nat]
RowTypes ==
    row \in [Proposals -> [state : {"none", "queued", "prepared", "completed", "cancelled"},
                           delivery : DeliveryRecord \cup {None}, preview : Content,
                           was : {"none"} \cup Undecided]]
Labels == {"idle", "start", "prepare", "compose", "observe", "publish",
           "acknowledge", "failing"}
WriterTypes ==
    /\ writeLock \in Writers \cup {NoWriter} /\ txn \in Writers \cup {NoWriter}
    /\ pc \in [Writers -> Labels]
    /\ job \in [Writers -> Ops \cup {0}]
    /\ saw \in [Writers -> BOOLEAN]
    /\ failAs \in [Writers -> Stopped \cup {None}]
HistoryTypes == published \subseteq Ops /\ tried \subseteq Ops

\* The type invariant, in parts.
LEMMA TypeParts ==
  /\ TypeOK <=> /\ WorldTypeOK /\ OpTyped /\ apps \in Seq(Proposals) /\ ProposalTypes
                /\ RowTypes /\ WriterTypes /\ HistoryTypes /\ events \in Nat
  /\ TypeOK' <=> /\ WorldTypeOK' /\ OpTyped' /\ apps' \in Seq(Proposals) /\ ProposalTypes'
                 /\ RowTypes' /\ WriterTypes' /\ HistoryTypes' /\ events' \in Nat
  BY DEF TypeOK, OpTyped, ProposalTypes, RowTypes, WriterTypes, HistoryTypes, Labels

\* The number of events stays a number.
LEMMA EventsTyped ==
  ASSUME events \in Nat, Event \/ UNCHANGED events
  PROVE  events' \in Nat
  BY DEF Event

\* Places that nobody touched are as they were.
LEMMA WorldStays ==
  ASSUME WorldTypeOK, RefsExist, Numbered, UNCHANGED worldVars
  PROVE  /\ WorldTypeOK' /\ RefsExist' /\ Numbered' /\ OldCommitsKept
         /\ \A d \in Dests : SamePlace(d)
  BY DEF worldVars, WorldTypeOK, RefsExist, Numbered, OldCommitsKept, SamePlace,
         ReadDestination, BranchBase, Reached

\* Events are only ever added.
EventsKept ==
    /\ apps \in Seq(Proposals) /\ apps' \in Seq(Proposals)
    /\ Len(apps) <= Len(apps')
    /\ \A a \in 1..Len(apps) : apps'[a] = apps[a]
LEMMA EventsGrow ==
  ASSUME apps \in Seq(Proposals),
         \/ UNCHANGED apps
         \/ \E p \in Proposals : apps' = Append(apps, p)
  PROVE  EventsKept
  <1>1. CASE UNCHANGED apps
    BY <1>1 DEF EventsKept
  <1>2. ASSUME NEW p \in Proposals, apps' = Append(apps, p)
        PROVE  EventsKept
    <2>1. Append(apps, p) \in Seq(Proposals) /\ Len(Append(apps, p)) = Len(apps) + 1
          /\ \A a \in 1..Len(apps) : Append(apps, p)[a] = apps[a]
      OBVIOUS
    <2>2. Len(apps) \in Nat
      OBVIOUS
    <2> QED
      BY <1>2, <2>1, <2>2 DEF EventsKept
  <1> QED
    BY <1>1, <1>2

\* A record that is carried still fits.
LEMMA FitKept ==
  ASSUME OpTyped, EventsKept, OldCommitsKept, NEW o \in Ops, Carried(o),
         op[o] # None, RecordFits(o)
  PROVE  RecordFits(o)'
  <1>1. SameEdit(o) /\ op'[o] # None /\ op[o].kind \in {"auto_apply", "rollback"}
    BY RecordType DEF Carried
  <1>2. op'[o].kind = "auto_apply" => op'[o].delivery # None
    BY <1>1 DEF SameEdit, RecordFits
  <1>3. op'[o].kind = "rollback" =>
          /\ op'[o].app \in 1..Len(apps') /\ apps'[op'[o].app] = op'[o].prop
          /\ op'[o].prop \in op'[o].base.rules
    <2>1. Len(apps) \in Nat /\ Len(apps') \in Nat
      BY DEF EventsKept
    <2>2. op[o].app \in 1..Len(apps) => op[o].app \in 1..Len(apps')
      BY <2>1 DEF EventsKept
    <2> QED
      BY <1>1, <2>2 DEF SameEdit, RecordFits, EventsKept
  <1>4. ASSUME NEW d \in Dests, NEW dlv \in DeliveryRecord, Prepared(o, d, dlv)'
        PROVE  /\ TrueRecord(d, dlv)'
               /\ (op'[o].prop \in dlv.after.rules) <=> (op'[o].kind = "auto_apply")
    <2>1. Prepared(o, d, dlv)
      BY <1>1, <1>4 DEF Prepared, SameEdit
    <2>2. TrueRecord(d, dlv) /\ ((op[o].prop \in dlv.after.rules) <=> (op[o].kind = "auto_apply"))
      BY <2>1 DEF RecordFits
    <2>3. TrueRecord(d, dlv)'
      BY <2>2, TrueRecordKept
    <2> QED
      BY <1>1, <2>2, <2>3 DEF SameEdit
  <1> QED
    BY <1>2, <1>3, <1>4 DEF RecordFits

\* No row is newly prepared, and a newly queued one has its edit to add.
RowsStay ==
    \A p \in Proposals :
        /\ row'[p].state = "prepared" => row'[p] = row[p]
        /\ row'[p].state = "queued" => row'[p] = row[p] \/ p \notin row'[p].preview.rules

LEMMA RowsFit ==
  ASSUME RowRecords, OldCommitsKept, RowsStay
  PROVE  RowRecords'
  <1>1. ASSUME NEW p \in Proposals
        PROVE  RowFits(p)'
    <2>1. RowFits(p)
      BY DEF RowRecords
    <2>2. row'[p].state = "queued" => p \notin row'[p].preview.rules
      BY <2>1 DEF RowsStay, RowFits
    <2>3. row'[p].state = "prepared" =>
            /\ row'[p].delivery \in DeliveryRecord
            /\ DestOf[p] \in GitDests =>
                   row'[p].delivery.commit \in 1..Len(log'[ResourceOf[DestOf[p]]])
      <3>1. DestOf[p] \in GitDests => ResourceOf[DestOf[p]] \in Repos
        BY DEF Repos
      <3> QED
        BY <2>1, <3>1 DEF RowsStay, RowFits, OldCommitsKept
    <2> QED
      BY <2>2, <2>3 DEF RowFits
  <1> QED
    BY <1>1 DEF RowRecords

\* A write that is carried is open afterwards only if it was before.
LEMMA OpensBefore ==
  ASSUME NEW o \in Ops, Carried(o), NEW r, Opens(o, r)'
  PROVE  Opens(o, r)
  BY DEF Opens, Carried, SameEdit

LEMMA OneOpenKept ==
  ASSUME OneOpen, RowsStay, \A o \in Ops : Carried(o)
  PROVE  OneOpen'
  <1>1. \A r \in Resources, o \in Ops : Opens(o, r)' => Opens(o, r)
    BY OpensBefore
  <1>2. \A r \in Resources, p \in Proposals : RowOpens(p, r)' => RowOpens(p, r)
    BY DEF RowOpens, RowsStay
  <1> QED
    BY <1>1, <1>2 DEF OneOpen

\* Nothing is stopped, so no cancellation is forgotten.
LEMMA TriedKept ==
  ASSUME CancellationIsTried, tried \subseteq tried',
         \A o \in Ops : op'[o] # None => \/ op[o] # None /\ NotStopped(o)
                                         \/ op'[o].state \notin Stopped
                                         \/ ~op'[o].cancelReq \/ o \in tried'
  PROVE  CancellationIsTried'
  BY DEF CancellationIsTried, NotStopped, Made

\* Everybody else is idle.
LEMMA OthersIdle ==
  ASSUME Hands, NEW w \in Writers, NEW v \in Writers, v # w,
         pc[w] # "idle" \/ writeLock = NoWriter
  PROVE  pc[v] = "idle"
  BY OperationsAssumption DEF Hands

\* What a writer has in hand, when the writers do nothing.
LEMMA HandsKept ==
  ASSUME Hands, WriterTypes, Eased, UNCHANGED writerVars, tried \subseteq tried'
  PROVE  Hands'
  <1>1. UNCHANGED <<writeLock, txn, pc, job, saw, failAs>>
    BY DEF writerVars
  <1>2. ASSUME NEW w \in Writers, NEW o \in Ops, AtWork(w, o)'
        PROVE  InHand(w, o)'
    <2>1. InHand(w, o)
      BY <1>1, <1>2 DEF Hands, AtWork
    <2>2. Carried(o) /\ LeftOpen(o) /\ op[o] # None
      BY <2>1 DEF Eased, InHand
    <2>3. SameEdit(o) /\ op'[o] # None /\ op'[o].state # "completed"
      BY <2>1, <2>2 DEF Carried, LeftOpen, InHand
    <2>4. op'[o].delivery # None => Unreconciled(o)'
      BY <2>1, <2>2, <2>3 DEF InHand, LeftOpen, SameEdit
    <2> QED
      BY <1>1, <2>1, <2>3, <2>4 DEF InHand, SameEdit
  <1> QED
    BY <1>1, <1>2 DEF Hands

\* A writer takes the lock and an operation that is not completed.
LEMMA TakeHands ==
  ASSUME Hands, WriterTypes, OpTyped', NEW w \in Writers, NEW o \in Ops, Free(w), TakeLock(w, o),
         op'[o] # None, op'[o].state # "completed", op'[o].delivery # None => Unreconciled(o)'
  PROVE  Hands' /\ WriterTypes'
  <1>1. /\ writeLock' = w /\ job' = [job EXCEPT ![w] = o]
        /\ saw' = [saw EXCEPT ![w] = op'[o].cancelReq]
        /\ pc' = [pc EXCEPT ![w] = "start"]
        /\ UNCHANGED <<txn, failAs>>
    BY DEF TakeLock, Goto
  <1>2. op'[o].cancelReq \in BOOLEAN
    BY DEF OpTyped, Operation
  <1>3. WriterTypes'
    BY <1>1, <1>2 DEF WriterTypes, Labels
  <1>4. \A v \in Writers : v # w => pc'[v] = "idle"
    BY <1>1, OthersIdle DEF Free, WriterTypes
  <1>5. pc'[w] = "start" /\ job'[w] = o /\ saw'[w] = op'[o].cancelReq
    BY <1>1 DEF WriterTypes
  <1>6. InHand(w, o)'
    BY <1>5 DEF InHand
  <1> QED
    BY <1>1, <1>3, <1>4, <1>5, <1>6 DEF Hands, AtWork

\* A writer goes on with what it has in hand.
LEMMA MoveHands ==
  ASSUME Hands, WriterTypes, NEW w \in Writers, NEW o \in Ops, AtWork(w, o),
         NEW l \in Labels \ {"idle"}, pc' = [pc EXCEPT ![w] = l],
         UNCHANGED <<writeLock, job>>, InHand(w, o)'
  PROVE  Hands'
  <1>1. \A v \in Writers : v # w => pc'[v] = "idle"
    BY OthersIdle DEF WriterTypes, AtWork
  <1>2. pc'[w] = l /\ job'[w] = o /\ writeLock' = w
    BY DEF Hands, AtWork, WriterTypes
  <1> QED
    BY <1>1, <1>2 DEF Hands, AtWork

\* A writer leaves, and nobody has anything in hand.
LEMMA LeaveHands ==
  ASSUME Hands, WriterTypes, NEW w \in Writers, pc[w] # "idle", Leave(w)
  PROVE  Hands' /\ WriterTypes'
  <1>1. /\ writeLock' = NoWriter /\ txn' = NoWriter
        /\ pc' = [pc EXCEPT ![w] = "idle"] /\ job' = [job EXCEPT ![w] = 0]
        /\ saw' = [saw EXCEPT ![w] = FALSE] /\ failAs' = [failAs EXCEPT ![w] = None]
    BY DEF Leave, Goto
  <1>2. \A v \in Writers : pc'[v] = "idle"
    BY <1>1, OthersIdle DEF WriterTypes
  <1>3. WriterTypes'
    BY <1>1 DEF WriterTypes, Labels
  <1> QED
    BY <1>2, <1>3 DEF Hands, AtWork


-----------------------------------------------------------------------------
\* Steps that only carry the records.

\* What is left to show of a step that carries every record.
LEMMA CarriedStep ==
  ASSUME IndInv, WorldTypeOK', RefsExist', Numbered', OldCommitsKept,
         OpTyped', EventsKept, ProposalTypes', RowTypes', WriterTypes', HistoryTypes',
         events' \in Nat, \A o \in Ops : Carried(o), RowsStay, Hands', CancellationIsTried'
  PROVE  IndInv'
  <1>1. TypeOK'
    BY TypeParts DEF EventsKept
  <1>2. OpsInOrder'
    BY OrderKept DEF IndInv, Carried
  <1>3. Records'
    <2>1. \A o \in Ops : op'[o] # None => op[o] # None /\ RecordFits(o)
      BY DEF Carried, IndInv, Records
    <2>2. \A o \in Ops : op'[o] # None => RecordFits(o)'
      BY <2>1, FitKept, TypeParts DEF IndInv
    <2> QED
      BY <2>2 DEF Records
  <1>4. RowRecords'
    BY RowsFit DEF IndInv
  <1>5. OneOpen'
    BY OneOpenKept DEF IndInv
  <1> QED
    BY <1>1, <1>2, <1>3, <1>4, <1>5 DEF IndInv

\* A step that only decides about proposals, rows and policies.
LEMMA QuietStep ==
  ASSUME IndInv, UNCHANGED <<worldVars, opVars, writerVars, historyVars>>,
         ProposalTypes', RowTypes', events' \in Nat, RowsStay
  PROVE  IndInv'
  <1>1. UNCHANGED <<op, apps, writeLock, txn, pc, job, saw, failAs, published, tried>>
    BY DEF opVars, writerVars, historyVars
  <1>2. /\ WorldTypeOK /\ OpTyped /\ apps \in Seq(Proposals) /\ ProposalTypes
        /\ RowTypes /\ WriterTypes /\ HistoryTypes
    BY TypeParts DEF IndInv
  <1>3. WorldTypeOK' /\ RefsExist' /\ Numbered' /\ OldCommitsKept
    BY <1>2, WorldStays DEF IndInv
  <1>4. Eased /\ OpTyped'
    BY <1>1, <1>2, OpKept
  <1>5. EventsKept
    BY <1>1, <1>2, EventsGrow
  <1>6. WriterTypes' /\ HistoryTypes'
    BY <1>1, <1>2 DEF WriterTypes, HistoryTypes
  <1>7. Hands'
    BY <1>1, <1>2, <1>4, HandsKept DEF IndInv
  <1>8. CancellationIsTried'
    BY <1>1, <1>4, TriedKept DEF IndInv, Eased, Carried
  <1> QED
    BY <1>3, <1>4, <1>5, <1>6, <1>7, <1>8, CarriedStep DEF Eased

\* Rows that nobody touched stay.
LEMMA RowsUntouched == UNCHANGED row => RowsStay
  BY DEF RowsStay

\* The nightly run, the policy and the operator's decisions.
Decides ==
    \/ RunEnds \/ SetClassPolicy
    \/ \E p \in Proposals : UndoElsewhere(LessonOf[p])
    \/ \E p \in Proposals : BuildProposal(p) \/ Regate(p) \/ RejectLesson(p) \/ ApproveEdit(p)
    \/ \E w \in Writers, p \in Proposals : AutoHold(w, p) \/ DropRow(w, p)

LEMMA DecideTypes ==
  ASSUME IndInv, Decides
  PROVE  /\ UNCHANGED <<worldVars, opVars, writerVars, historyVars>>
         /\ ProposalTypes' /\ RowTypes' /\ events' \in Nat /\ RowsStay
  <1>0. /\ WorldTypeOK /\ ProposalTypes /\ RowTypes /\ events \in Nat /\ RefsExist
        /\ RowRecords /\ \A d \in Dests : ReadDestination(d) \in Content
    BY TypeParts, ReadType DEF IndInv
  <1> DEFINE Good == /\ UNCHANGED <<worldVars, opVars, writerVars, historyVars>>
                     /\ ProposalTypes' /\ RowTypes' /\ events' \in Nat /\ RowsStay
  <1>1. RunEnds => Good
    BY <1>0, RowsUntouched DEF RunEnds, decisionVars, ProposalTypes, RowTypes
  <1>2. SetClassPolicy => Good
    <2> SUFFICES ASSUME SetClassPolicy
                 PROVE  Good
      OBVIOUS
    <2>1. policy.rev \in Nat /\ policy.since \in Nat /\ policy.enabled \in BOOLEAN
      BY <1>0 DEF ProposalTypes
    <2>2. policy' \in [enabled : BOOLEAN, rev : Nat, since : Nat]
      BY <2>1 DEF SetClassPolicy
    <2> QED
      BY <1>0, <2>2, EventsTyped, RowsUntouched
      DEF SetClassPolicy, proposalVars, ProposalTypes, RowTypes
  <1>3. ASSUME NEW p \in Proposals
        PROVE  UndoElsewhere(LessonOf[p]) => Good
    BY <1>0, RowsUntouched DEF UndoElsewhere, proposalVars, ProposalTypes, RowTypes
  <1>4. ASSUME NEW p \in Proposals, BuildProposal(p)
        PROVE  Good
    <2>1. pstatus' \in [Proposals -> {"none"} \cup Undecided \cup Decided]
      BY <1>0, <1>4 DEF BuildProposal, ProposalTypes, Undecided
    <2>2. policy.rev \in Nat
      BY <1>0 DEF ProposalTypes
    <2> QED
      BY <1>0, <1>4, <2>1, <2>2, RowsUntouched
      DEF BuildProposal, decisionVars, ProposalTypes, RowTypes
  <1>5. ASSUME NEW p \in Proposals, Regate(p)
        PROVE  Good
    <2>1. pstatus' \in [Proposals -> {"none"} \cup Undecided \cup Decided]
      BY <1>0, <1>5 DEF Regate, ProposalTypes, Undecided
    <2> QED
      BY <1>0, <1>5, <2>1, RowsUntouched DEF Regate, decisionVars, ProposalTypes, RowTypes
  <1>6. ASSUME NEW p \in Proposals, RejectLesson(p)
        PROVE  Good
    <2>1. pstatus' \in [Proposals -> {"none"} \cup Undecided \cup Decided]
      BY <1>0, <1>6 DEF RejectLesson, ProposalTypes, Undecided, Decided
    <2> QED
      BY <1>0, <1>6, <2>1, RowsUntouched DEF RejectLesson, ProposalTypes, RowTypes
  <1>7. ASSUME NEW p \in Proposals, ApproveEdit(p)
        PROVE  Good
    <2>1. pstatus' \in [Proposals -> {"none"} \cup Undecided \cup Decided]
      BY <1>0, <1>7 DEF ApproveEdit, ProposalTypes, Decided
    <2>2. DestOf[p] \in Dests
      BY OperationsAssumption
    <2> DEFINE r == [state |-> "queued", delivery |-> None,
                     preview |-> ReadDestination(DestOf[p]), was |-> pstatus[p]]
    <2>3. row' = [row EXCEPT ![p] = r] /\ p \notin r.preview.rules /\ r.preview \in Content
          /\ r.state = "queued" /\ r.delivery = None /\ r.was \in Undecided
      BY <1>0, <1>7, <2>2 DEF ApproveEdit
    <2>4. r \in [state : {"none", "queued", "prepared", "completed", "cancelled"},
                 delivery : DeliveryRecord \cup {None}, preview : Content,
                 was : {"none"} \cup Undecided]
      BY <2>3
    <2> HIDE DEF r
    <2>5. RowTypes'
      BY <1>0, <2>3, <2>4 DEF RowTypes
    <2>6. RowsStay
      BY <1>0, <2>3 DEF RowsStay, RowTypes
    <2> QED
      BY <1>0, <1>7, <2>1, <2>5, <2>6 DEF ApproveEdit, decisionVars, ProposalTypes
  <1>8. ASSUME NEW w \in Writers, NEW p \in Proposals, AutoHold(w, p)
        PROVE  Good
    <2>1. pstatus' \in [Proposals -> {"none"} \cup Undecided \cup Decided]
      BY <1>0, <1>8 DEF AutoHold, Hold, ProposalTypes, Undecided
    <2> QED
      BY <1>0, <1>8, <2>1, RowsUntouched DEF AutoHold, decisionVars, ProposalTypes, RowTypes
  <1>9. ASSUME NEW w \in Writers, NEW p \in Proposals, DropRow(w, p)
        PROVE  Good
    <2>1. pstatus' \in [Proposals -> {"none"} \cup Undecided \cup Decided]
      BY <1>0, <1>9 DEF DropRow, ProposalTypes, RowTypes
    <2>2. RowTypes' /\ RowsStay
      BY <1>0, <1>9 DEF DropRow, RowTypes, RowsStay
    <2> QED
      BY <1>0, <1>9, <2>1, <2>2 DEF DropRow, decisionVars, ProposalTypes
  <1> QED
    BY <1>1, <1>2, <1>3, <1>4, <1>5, <1>6, <1>7, <1>8, <1>9 DEF Decides

LEMMA DecideStep == IndInv /\ Decides => IndInv'
  BY DecideTypes, QuietStep


-----------------------------------------------------------------------------
\* Requests of the operator: a retry, a cancellation, a rollback.

\* A step that eases records and changes nothing else but events and, for a
\* writer, its hand.
LEMMA EasedStep ==
  ASSUME IndInv, UNCHANGED <<worldVars, apps, proposalVars, decisionVars, row, historyVars>>,
         events' \in Nat, OpTyped', \A o \in Ops : Carried(o), WriterTypes', Hands', CancellationIsTried'
  PROVE  IndInv'
  <1>1. /\ WorldTypeOK /\ apps \in Seq(Proposals) /\ ProposalTypes /\ RowTypes /\ HistoryTypes
    BY TypeParts DEF IndInv
  <1>2. WorldTypeOK' /\ RefsExist' /\ Numbered' /\ OldCommitsKept
    BY <1>1, WorldStays DEF IndInv
  <1>3. EventsKept
    BY <1>1, EventsGrow
  <1>4. ProposalTypes' /\ RowTypes' /\ HistoryTypes' /\ RowsStay
    BY <1>1, RowsUntouched
    DEF proposalVars, decisionVars, historyVars, ProposalTypes, RowTypes, HistoryTypes
  <1> QED
    BY <1>2, <1>3, <1>4, CarriedStep

\* The same for a step of the web process, which leaves the writers alone.
LEMMA WebEased ==
  ASSUME IndInv, UNCHANGED <<worldVars, apps, proposalVars, decisionVars, row, writerVars, historyVars>>,
         events' \in Nat, OpTyped', Eased
  PROVE  IndInv'
  <1>1. WriterTypes /\ UNCHANGED <<published, tried>>
    BY TypeParts DEF IndInv, historyVars
  <1>2. WriterTypes' /\ Hands'
    BY <1>1, HandsKept DEF IndInv, writerVars, WriterTypes
  <1>3. CancellationIsTried'
    BY <1>1, TriedKept DEF IndInv, Eased, Carried
  <1> QED
    BY <1>2, <1>3, EasedStep DEF Eased

LEMMA RetryEffect ==
  ASSUME IndInv, NEW o \in Ops, RetryOperation(o) \/ CancelOperation(o)
  PROVE  /\ OpTyped' /\ Eased /\ events' \in Nat
         /\ UNCHANGED <<worldVars, apps, proposalVars, decisionVars, row, writerVars, historyVars>>
  <1>0. OpTyped /\ events \in Nat
    BY TypeParts DEF IndInv
  <1>1. op[o] # None
    BY DEF RetryOperation, CancelOperation, Made
  <1>2. /\ op[o] \in Operation /\ op[o].state \in Claimable \cup Stopped \cup Finished
        /\ op[o].cancelReq \in BOOLEAN /\ op[o].cancelled \in BOOLEAN
    BY <1>0, <1>1, RecordType
  <1>3. \E s \in Claimable, q \in BOOLEAN :
            /\ op' = [op EXCEPT ![o] = [op[o] EXCEPT !.state = s, !.cancelReq = q,
                                                     !.cancelled = op[o].cancelled]]
            /\ op[o].cancelReq => q
            /\ op[o].state \notin Finished
    <2>1. CASE RetryOperation(o)
      <3>1. op' = [op EXCEPT ![o] = [op[o] EXCEPT !.state = "queued"]] /\ op[o].state \in Stopped
        BY <2>1 DEF RetryOperation
      <3>2. [op[o] EXCEPT !.state = "queued"] =
                [op[o] EXCEPT !.state = "queued", !.cancelReq = op[o].cancelReq,
                              !.cancelled = op[o].cancelled]
        BY <1>2 DEF Operation
      <3> QED
        BY <1>2, <3>1, <3>2 DEF Stopped, Finished, Claimable
    <2>2. CASE CancelOperation(o)
      <3> DEFINE s == IF op[o].state = "running" THEN op[o].state ELSE "queued"
      <3>1. op' = [op EXCEPT ![o] = [op[o] EXCEPT !.cancelReq = TRUE, !.state = s]]
            /\ op[o].state \notin Finished /\ s \in Claimable
        BY <1>0, <1>2, <2>2 DEF CancelOperation, Claimable, OpTyped
      <3>2. [op[o] EXCEPT !.cancelReq = TRUE, !.state = s] =
                [op[o] EXCEPT !.state = s, !.cancelReq = TRUE, !.cancelled = op[o].cancelled]
        BY <1>2 DEF Operation
      <3> QED
        BY <3>1, <3>2
    <2> QED
      BY <2>1, <2>2
  <1>4. PICK s \in Claimable, q \in BOOLEAN :
            /\ op' = [op EXCEPT ![o] = [op[o] EXCEPT !.state = s, !.cancelReq = q,
                                                     !.cancelled = op[o].cancelled]]
            /\ op[o].cancelReq => q
            /\ op[o].state \notin Finished
    BY <1>3
  <1> DEFINE c == op[o].cancelled
  <1>5. /\ op[o].state # "completed"
        /\ op[o].delivery # None => Unreconciled(o)
        /\ s \in Claimable \cup Stopped \cup Finished
    BY <1>4 DEF Finished, Unreconciled, Claimable
  <1>6. /\ OpTyped'
        /\ \A x \in Ops : Carried(x) /\ (x # o => op'[x] = op[x])
        /\ op'[o] # None /\ SameEdit(o) /\ op'[o].state = s
    BY <1>0, <1>1, <1>2, <1>4, <1>5, OneChanges, ZenonT(60)
  <1>7. s \notin Stopped /\ s # "completed" /\ s # "cancelled"
    BY DEF Claimable, Stopped
  <1>8. LeftOpen(o) /\ NotStopped(o)
    BY <1>5, <1>6, <1>7 DEF LeftOpen, NotStopped, Unreconciled, SameEdit
  <1>9. \A x \in Ops : x # o => LeftOpen(x) /\ NotStopped(x)
    BY <1>6 DEF LeftOpen, NotStopped, Unreconciled
  <1>10. events' \in Nat /\ UNCHANGED <<worldVars, apps, proposalVars, decisionVars, row, writerVars, historyVars>>
    BY <1>0, EventsTyped DEF RetryOperation, CancelOperation
  <1> QED
    BY <1>6, <1>8, <1>9, <1>10 DEF Eased

\* A rollback that is recorded anew fits its application and has nothing open.
LEMMA NewRollbackFits ==
  ASSUME OpTyped, OpTyped', NEW id \in Ops, NEW p \in Proposals, NEW a \in Nat, NEW base \in Content,
         NewRollback(id, p, a, base), op'[id] # None, p \in base.rules, a \in 1..Len(apps),
         apps[a] = p, UNCHANGED apps
  PROVE  /\ op'[id].state = "queued" /\ op'[id].delivery = None
         /\ op'[id].kind = "rollback"
         /\ RecordFits(id)' /\ \A r : ~Opens(id, r)'
  <1>1. /\ op'[id].kind = "rollback" /\ op'[id].prop = p /\ op'[id].app = a
        /\ op'[id].base = base /\ op'[id].delivery = None /\ op'[id].state = "queued"
    BY DEF NewRollback, NewOperation
  <1>2. RecordFits(id)'
    BY <1>1, NoneIsNothing DEF RecordFits, Prepared
  <1> QED
    BY <1>1, <1>2 DEF Opens, Unreconciled

\* A step that records a new operation: what is left to show.
LEMMA NewStep ==
  ASSUME IndInv, WorldTypeOK', RefsExist', Numbered', OldCommitsKept,
         OpTyped', EventsKept, ProposalTypes', RowTypes', WriterTypes', HistoryTypes',
         events' \in Nat, RowsStay, Hands', CancellationIsTried',
         NEW id \in Ops, id = NextId, op'[id] # None, RecordFits(id)',
         \A o \in Ops \ {id} : Carried(o),
         \A r \in Resources : Opens(id, r)' =>
             /\ \A o \in Ops \ {id} : ~Opens(o, r)
             /\ \A p \in Proposals : ~RowOpens(p, r)
  PROVE  IndInv'
  <1>1. TypeOK'
    BY TypeParts DEF EventsKept
  <1>2. OpsInOrder'
    <2>1. \A o \in Ops \ {id} : op'[o] = None <=> op[o] = None
      BY DEF Carried
    <2> QED
      BY <2>1, OrderKept DEF IndInv
  <1>3. Records'
    <2>1. \A o \in Ops \ {id} : op'[o] # None => op[o] # None /\ RecordFits(o)
      BY DEF Carried, IndInv, Records
    <2>2. \A o \in Ops \ {id} : op'[o] # None => RecordFits(o)'
      BY <2>1, FitKept, TypeParts DEF IndInv
    <2> QED
      BY <2>2 DEF Records
  <1>4. RowRecords'
    BY RowsFit DEF IndInv
  <1>5. OneOpen'
    <2>1. \A r \in Resources : \A o \in Ops \ {id} : Opens(o, r)' => Opens(o, r)
      BY OpensBefore
    <2>2. \A r \in Resources, p \in Proposals : RowOpens(p, r)' => RowOpens(p, r)
      BY DEF RowOpens, RowsStay
    <2>3. OneOpen
      BY DEF IndInv
    <2> QED
      BY <2>1, <2>2, <2>3 DEF OneOpen
  <1> QED
    BY <1>1, <1>2, <1>3, <1>4, <1>5 DEF IndInv

\* The request of a rollback, by the web process or by a writer that takes it.
LEMMA RequestStep ==
  ASSUME IndInv, NEW p \in Proposals, NEW a \in Nat, NEW base \in Content,
         RequestRollback(p, a, base), LastOf(apps, p, a),
         UNCHANGED <<worldVars, apps, proposalVars, decisionVars, row, historyVars, events>>,
         WriterTypes', Hands'
  PROVE  IndInv'
  <1>1. /\ WorldTypeOK /\ OpTyped /\ apps \in Seq(Proposals) /\ ProposalTypes /\ RowTypes
        /\ HistoryTypes /\ events \in Nat /\ OpsInOrder /\ CancellationIsTried
    BY TypeParts DEF IndInv
  <1>2. PICK id \in Ops :
             /\ id = IntentOn(a, base)
             /\ op'[id] # None /\ op'[id].state = "queued" /\ op'[id].delivery = None
             /\ \/ Eased
                \/ /\ id = NextId /\ op[id] = None /\ NewRollback(id, p, a, base)
                   /\ \A o \in Ops \ {id} : Carried(o) /\ LeftOpen(o) /\ NotStopped(o)
    BY <1>1, RequestEffect
  <1>3. OpTyped' /\ p \in base.rules
    BY <1>1, RequestEffect
  <1>4. UNCHANGED tried /\ events' \in Nat
    BY <1>1 DEF historyVars
  <1>5. CASE Eased
    <2>1. CancellationIsTried'
      BY <1>1, <1>4, <1>5, TriedKept DEF Eased, Carried
    <2> QED
      BY <1>3, <1>4, <1>5, <2>1, EasedStep DEF Eased
  <1>6. CASE /\ id = NextId /\ op[id] = None /\ NewRollback(id, p, a, base)
             /\ \A o \in Ops \ {id} : Carried(o) /\ LeftOpen(o) /\ NotStopped(o)
    <2>1. WorldTypeOK' /\ RefsExist' /\ Numbered' /\ OldCommitsKept
      BY <1>1, WorldStays DEF IndInv
    <2>2. EventsKept
      BY <1>1, EventsGrow
    <2>3. ProposalTypes' /\ RowTypes' /\ HistoryTypes' /\ RowsStay
      BY <1>1, RowsUntouched
      DEF proposalVars, decisionVars, historyVars, ProposalTypes, RowTypes, HistoryTypes
    <2>4. RecordFits(id)' /\ \A r : ~Opens(id, r)'
      BY <1>1, <1>2, <1>3, <1>6, NewRollbackFits DEF LastOf
    <2>5. CancellationIsTried'
      <3>1. \A o \in Ops : op'[o] # None => \/ op[o] # None /\ NotStopped(o)
                                            \/ op'[o].state \notin Stopped
        BY <1>2, <1>6 DEF Carried, Stopped
      <3> QED
        BY <1>1, <1>4, <3>1, TriedKept
    <2> QED
      BY <1>2, <1>3, <1>4, <1>6, <2>1, <2>2, <2>3, <2>4, <2>5, NewStep
  <1> QED
    BY <1>2, <1>5, <1>6


\* The facts that a request of a rollback starts from.
LEMMA RequestBase ==
  ASSUME IndInv, NEW p \in Proposals, LatestApp(p) # 0
  PROVE  /\ LatestApp(p) \in Nat /\ LastOf(apps, p, LatestApp(p))
         /\ ReadDestination(DestOf[p]) \in Content
  <1>1. apps \in Seq(Proposals) /\ WorldTypeOK /\ RefsExist /\ DestOf[p] \in Dests
    BY TypeParts, OperationsAssumption DEF IndInv
  <1> QED
    BY <1>1, LatestIsLast, ReadType

LEMMA WebRequestStep ==
  ASSUME IndInv,
         \/ \E o \in Ops : RetryOperation(o) \/ CancelOperation(o)
         \/ \E p \in Proposals : SubmitRollback(p)
  PROVE  IndInv'
  <1>1. ASSUME NEW o \in Ops, RetryOperation(o) \/ CancelOperation(o)
        PROVE  IndInv'
    BY <1>1, RetryEffect, WebEased
  <1>2. ASSUME NEW p \in Proposals, SubmitRollback(p)
        PROVE  IndInv'
    <2>1. PICK a : a = LatestApp(p)
      OBVIOUS
    <2>2. PICK base : base = ReadDestination(DestOf[p])
      OBVIOUS
    <2>3. RequestRollback(p, a, base)
      BY <1>2, <2>1, <2>2 DEF SubmitRollback
    <2>4. a \in Nat /\ LastOf(apps, p, a) /\ base \in Content
      BY <2>1, <2>2, <2>3, RequestBase DEF RequestRollback
    <2>5. /\ UNCHANGED <<worldVars, apps, proposalVars, decisionVars, row, writerVars,
                         historyVars, events>>
      BY <1>2 DEF SubmitRollback
    <2>6. WorldTypeOK /\ OpTyped /\ WriterTypes /\ OpsInOrder /\ Hands
      BY TypeParts DEF IndInv
    <2>7. UNCHANGED <<writeLock, txn, pc, job, saw, failAs, tried>>
      BY <2>5 DEF writerVars, historyVars
    <2>8. WriterTypes'
      BY <2>6, <2>7 DEF WriterTypes
    <2>9. PICK id \in Ops :
             /\ op'[id] # None /\ op'[id].state = "queued" /\ op'[id].delivery = None
             /\ \/ Eased
                \/ /\ op[id] = None
                   /\ \A o \in Ops \ {id} : Carried(o) /\ LeftOpen(o) /\ NotStopped(o)
      BY <2>3, <2>4, <2>6, RequestEffect
    <2>10. ASSUME NEW w \in Writers, NEW o \in Ops, AtWork(w, o)'
           PROVE  InHand(w, o)'
      <3>1. InHand(w, o)
        BY <2>6, <2>7, <2>10 DEF Hands, AtWork
      <3>2. Carried(o) /\ LeftOpen(o) /\ op[o] # None
        BY <2>9, <3>1 DEF Eased, InHand
      <3>3. SameEdit(o) /\ op'[o] # None /\ op'[o].state # "completed"
        BY <3>1, <3>2 DEF Carried, LeftOpen, InHand
      <3>4. op'[o].delivery # None => Unreconciled(o)'
        BY <3>1, <3>2, <3>3 DEF InHand, LeftOpen, SameEdit
      <3> QED
        BY <2>7, <3>1, <3>3, <3>4 DEF InHand, SameEdit
    <2>11. Hands'
      BY <2>6, <2>7, <2>10 DEF Hands
    <2> QED
      BY <2>3, <2>4, <2>5, <2>8, <2>11, RequestStep
  <1> QED
    BY <1>1, <1>2

-----------------------------------------------------------------------------
\* A writer takes an operation.

LEMMA TakeStep ==
  ASSUME IndInv, NEW w \in Writers,
         \/ ClaimOperation(w)
         \/ \E o \in Ops : ResumeNamed(w, o)
         \/ \E p \in Proposals : RollbackNow(w, p)
  PROVE  IndInv'
  <1>0. WorldTypeOK /\ OpTyped /\ WriterTypes /\ OpsInOrder /\ Hands /\ events \in Nat /\ CancellationIsTried
    BY TypeParts DEF IndInv
  <1> DEFINE Rest == UNCHANGED <<worldVars, apps, proposalVars, decisionVars, row,
                                 historyVars, events>>
  <1>1. ASSUME NEW o \in Ops, op[o] # None, op[o].state # "completed", Readable(o) \/ op[o].state # "cancelled",
               op[o].state # "cancelled" \/ op[o].delivery = None,
               Free(w), UNCHANGED op, TakeLock(w, o), Rest
        PROVE  IndInv'
    <2>1. Eased /\ OpTyped'
      BY <1>0, <1>1, OpKept
    <2>2. op'[o].delivery # None => Unreconciled(o)'
      BY <1>1 DEF Unreconciled
    <2>3. Hands' /\ WriterTypes'
      BY <1>0, <1>1, <2>1, <2>2, TakeHands
    <2>4. CancellationIsTried'
      BY <1>0, <1>1, <2>1, TriedKept DEF Eased, Carried, historyVars
    <2> QED
      BY <1>0, <1>1, <2>1, <2>3, <2>4, EasedStep DEF Eased
  <1>2. ASSUME ClaimOperation(w)
        PROVE  IndInv'
    <2>1. PICK o \in Ops : NextOperation(o) /\ Readable(o) /\ UNCHANGED op /\ TakeLock(w, o)
      BY <1>2 DEF ClaimOperation
    <2>2. op[o] # None /\ op[o].state \in Claimable
      BY <2>1 DEF NextOperation, Made
    <2> QED
      BY <1>1, <1>2, <2>1, <2>2 DEF ClaimOperation, Claimable
  <1>3. ASSUME NEW o \in Ops, ResumeNamed(w, o)
        PROVE  IndInv'
    <2>1. op[o] # None /\ op[o].state \notin Finished
      BY <1>3 DEF ResumeNamed, Made
    <2> QED
      BY <1>1, <1>3, <2>1 DEF ResumeNamed, Finished
  <1>4. ASSUME NEW p \in Proposals, RollbackNow(w, p)
        PROVE  IndInv'
    <2>1. PICK a : a = LatestApp(p)
      OBVIOUS
    <2>2. PICK base : base = ReadDestination(DestOf[p])
      OBVIOUS
    <2>3. /\ Free(w) /\ Rest
          /\ \/ RequestRollback(p, a, base) /\ TakeLock(w, IntentOn(a, base))
             \/ \E o \in CommittedOrPrepared(a) :
                    op[o].state # "completed" /\ Readable(o) /\ UNCHANGED op /\ TakeLock(w, o)
      BY <1>4, <2>1, <2>2 DEF RollbackNow
    <2>4. ASSUME NEW o \in CommittedOrPrepared(a),
                 op[o].state # "completed", Readable(o), UNCHANGED op, TakeLock(w, o)
          PROVE  IndInv'
      <3>1. o \in Ops /\ op[o] # None /\ op[o].state # "cancelled"
        BY DEF CommittedOrPrepared, Uncancelled, RollbacksOf, Made
      <3> QED
        BY <1>1, <2>3, <2>4, <3>1
    <2>5. ASSUME RequestRollback(p, a, base), TakeLock(w, IntentOn(a, base))
          PROVE  IndInv'
      <3>1. a \in Nat /\ LastOf(apps, p, a) /\ base \in Content
        BY <2>1, <2>2, <2>5, RequestBase DEF RequestRollback
      <3>2. OpTyped'
        BY <1>0, <2>5, <3>1, RequestEffect
      <3>3. PICK id \in Ops : /\ id = IntentOn(a, base)
                              /\ op'[id] # None /\ op'[id].state = "queued"
                              /\ op'[id].delivery = None
        BY <1>0, <2>5, <3>1, RequestEffect
      <3>4. TakeLock(w, id)
        BY <2>5, <3>3
      <3>5. Hands' /\ WriterTypes'
        BY <1>0, <2>3, <3>2, <3>3, <3>4, TakeHands
      <3> QED
        BY <2>3, <2>5, <3>1, <3>5, RequestStep
    <2> QED
      BY <2>3, <2>4, <2>5
  <1> QED
    BY <1>2, <1>3, <1>4


-----------------------------------------------------------------------------
\* Preparations.

\* A preparation records the content as it is, and a change of it.
Prepares(d, dlv) ==
    /\ dlv \in DeliveryRecord
    /\ dlv.before = ReadDestination(d) /\ dlv.after # dlv.before
    /\ d \in GitDests => /\ dlv.base = BranchBase(ResourceOf[d])
                         /\ dlv.commit = NextCommit(ResourceOf[d])

\* The record of an edit that is not there yet.
LEMMA EditPrepared ==
  ASSUME WorldTypeOK, RefsExist, NEW d \in Dests, NEW p \in Proposals,
         p \notin ReadDestination(d).rules
  PROVE  Prepares(d, PreparedRecord(d, {p})) /\ p \in PreparedRecord(d, {p}).after.rules
  <1>1. ReadDestination(d) \in Content
    BY ReadType
  <1>2. PreparedRecord(d, {p}) \in DeliveryRecord
    BY PreparedType
  <1>3. p \in PreparedRecord(d, {p}).after.rules
    BY <1>1 DEF PreparedRecord, CombineEdits, Content
  <1>4. PreparedRecord(d, {p}).before = ReadDestination(d)
    BY DEF PreparedRecord
  <1>5. d \in GitDests => /\ PreparedRecord(d, {p}).base = BranchBase(ResourceOf[d])
                          /\ PreparedRecord(d, {p}).commit = NextCommit(ResourceOf[d])
    BY DEF PreparedRecord, NextCommit
  <1> QED
    BY <1>2, <1>3, <1>4, <1>5 DEF Prepares

\* The record of taking out an edit that is there.
LEMMA InversePrepared ==
  ASSUME WorldTypeOK, RefsExist, NEW d \in Dests, NEW p \in Proposals,
         p \in ReadDestination(d).rules
  PROVE  Prepares(d, InverseRecord(d, p)) /\ p \notin InverseRecord(d, p).after.rules
  <1> DEFINE base == ReadDestination(d)
             plain == PreparedRecord(d, {})
             dlv == InverseRecord(d, p)
             after == [base EXCEPT !.rules = @ \ {p}]
  <1>1. base \in Content
    BY ReadType
  <1>2. plain \in DeliveryRecord
    BY PreparedType
  <1>3. /\ plain.before = base
        /\ d \in GitDests => /\ plain.base = BranchBase(ResourceOf[d])
                             /\ plain.commit = NextCommit(ResourceOf[d])
    BY DEF PreparedRecord, NextCommit
  <1>4. dlv = [plain EXCEPT !.after = after]
    BY DEF InverseRecord
  <1>5. after \in Content /\ p \notin after.rules /\ after # base
    BY <1>1 DEF Content
  <1> HIDE DEF base, plain, dlv, after
  <1>6. /\ dlv \in DeliveryRecord /\ dlv.after = after /\ dlv.before = plain.before
        /\ dlv.base = plain.base /\ dlv.commit = plain.commit
    BY <1>2, <1>4, <1>5 DEF DeliveryRecord
  <1>7. Prepares(d, dlv) /\ p \notin dlv.after.rules
    BY <1>3, <1>5, <1>6 DEF Prepares, base
  <1> QED
    BY <1>7 DEF dlv

\* What a preparation does to the places: nothing that anybody reads.
LEMMA PrepareKeeps ==
  ASSUME WorldTypeOK, RefsExist, Numbered, NEW d \in Dests, NEW dlv, Prepares(d, dlv),
         PrepareBranchCommit(d, dlv), UNCHANGED <<file, head, branch, checkedOut, external, disturbed>>
  PROVE  /\ WorldTypeOK' /\ RefsExist' /\ Numbered' /\ OldCommitsKept
         /\ \A e \in Dests : SamePlace(e)
         /\ TrueRecord(d, dlv)' /\ Stands(d, dlv, FALSE)'
  <1>1. /\ dlv \in DeliveryRecord
        /\ dlv.before = ReadDestination(d) /\ dlv.after # dlv.before
        /\ d \in GitDests => /\ dlv.base = BranchBase(ResourceOf[d])
                             /\ dlv.commit = NextCommit(ResourceOf[d])
    BY DEF Prepares
  <1> QED
    BY <1>1, PreparedPlaces

\* A resource that is not busy has no open write, but for the exception.
LEMMA NotBusy ==
  ASSUME NEW d \in Dests, NEW x, ~ResourceBusy(d, x)
  PROVE  /\ \A o \in Ops : o # x => ~Opens(o, ResourceOf[d])
         /\ \A p \in Proposals : ~RowOpens(p, ResourceOf[d])
  BY DEF ResourceBusy, Opens, RowOpens, Made, Dest

\* No operation is None.
LEMMA OpsAreNotNone == \A o \in Ops : o # None
  <1>1. Ops \subseteq Nat
    BY Countable, OperationsAssumption
  <1> QED
    BY <1>1, NoneIsNothing

\* An automatic edit is prepared: its record is there before its write.
AutoRecord(n, p, dlv) ==
    op'[n] = [NewOperation("auto_apply", p) EXCEPT !.state = "running",
                 !.delivery = dlv, !.policy = policy.rev, !.eval = evalOf[p]]
LEMMA AutoPrepareEffect ==
  ASSUME IndInv, NEW w \in Writers, NEW p \in Proposals, AutoPrepare(w, p)
  PROVE  \E id \in Ops, dlv \in DeliveryRecord :
            /\ id = NextId /\ op[id] = None /\ AutoRecord(id, p, dlv)
            /\ op' = [op EXCEPT ![id] = op'[id]]
            /\ op'[id] \in Operation /\ op'[id] # None /\ op'[id].kind = "auto_apply"
            /\ op'[id].prop = p /\ op'[id].delivery = dlv /\ op'[id].state = "running"
            /\ op'[id].cancelReq = FALSE
            /\ Prepares(DestOf[p], dlv) /\ p \in dlv.after.rules
            /\ PrepareBranchCommit(DestOf[p], dlv)
            /\ TakeLock(w, id)
  <1>0. /\ OpTyped /\ WorldTypeOK /\ RefsExist /\ ProposalTypes /\ DestOf[p] \in Dests
    BY TypeParts, OperationsAssumption DEF IndInv
  <1>1. PICK id : id = NextId
    OBVIOUS
  <1>2. PICK dlv : dlv = PreparedRecord(DestOf[p], {p})
    OBVIOUS
  <1> DEFINE r == [NewOperation("auto_apply", p) EXCEPT !.state = "running",
                      !.delivery = dlv, !.policy = policy.rev, !.eval = evalOf[p]]
  <1>3. /\ id \in Ops /\ op' = [op EXCEPT ![id] = r]
        /\ PrepareBranchCommit(DestOf[p], dlv) /\ TakeLock(w, id)
        /\ p \notin ReadDestination(DestOf[p]).rules
    BY <1>1, <1>2 DEF AutoPrepare
  <1>4. Prepares(DestOf[p], dlv) /\ p \in dlv.after.rules
    BY <1>0, <1>2, <1>3, EditPrepared
  <1>5. dlv \in DeliveryRecord
    BY <1>4 DEF Prepares
  <1>6. policy.rev \in Nat /\ evalOf[p] \in Nat
    BY <1>0 DEF ProposalTypes
  <1>7. /\ r \in Operation /\ r.kind = "auto_apply" /\ r.prop = p /\ r.delivery = dlv
        /\ r.state = "running" /\ r.cancelReq = FALSE
    BY <1>5, <1>6, BlankType DEF NewOperation, Operation, Claimable
  <1>8. op[id] = None
    BY <1>1, <1>3, NextIsFree DEF IndInv
  <1>9. op'[id] = r
    BY <1>0, <1>3 DEF OpTyped
  <1>10. AutoRecord(id, p, dlv)
    BY <1>9 DEF AutoRecord
  <1> HIDE DEF r
  <1>11. op' = [op EXCEPT ![id] = op'[id]] /\ op'[id] # None
    BY <1>3, <1>7, <1>9, NoneIsNothing
  <1> QED
    BY <1>1, <1>3, <1>4, <1>5, <1>7, <1>8, <1>9, <1>10, <1>11

LEMMA AutoPrepareStep ==
  ASSUME IndInv, NEW w \in Writers, NEW p \in Proposals, AutoPrepare(w, p)
  PROVE  IndInv'
  <1>0. /\ WorldTypeOK /\ OpTyped /\ apps \in Seq(Proposals) /\ ProposalTypes /\ RowTypes
        /\ WriterTypes /\ HistoryTypes /\ events \in Nat /\ OpsInOrder /\ Hands
        /\ CancellationIsTried /\ RefsExist /\ Numbered /\ DestOf[p] \in Dests
    BY TypeParts, OperationsAssumption DEF IndInv
  <1>1. PICK id \in Ops, dlv \in DeliveryRecord :
            /\ id = NextId /\ op[id] = None /\ AutoRecord(id, p, dlv)
            /\ op' = [op EXCEPT ![id] = op'[id]]
            /\ op'[id] \in Operation /\ op'[id] # None /\ op'[id].kind = "auto_apply"
            /\ op'[id].prop = p /\ op'[id].delivery = dlv /\ op'[id].state = "running"
            /\ op'[id].cancelReq = FALSE
            /\ Prepares(DestOf[p], dlv) /\ p \in dlv.after.rules
            /\ PrepareBranchCommit(DestOf[p], dlv)
            /\ TakeLock(w, id)
    BY AutoPrepareEffect
  <1>2. /\ Free(w) /\ ~ResourceBusy(DestOf[p], None)
        /\ UNCHANGED <<file, head, branch, checkedOut, external, disturbed, apps,
                       proposalVars, decisionVars, row, historyVars, events>>
    BY DEF AutoPrepare
  <1>3. /\ WorldTypeOK' /\ RefsExist' /\ Numbered' /\ OldCommitsKept /\ TrueRecord(DestOf[p], dlv)'
    BY <1>0, <1>1, <1>2, PrepareKeeps
  <1>4. OpTyped' /\ \A o \in Ops \ {id} : op'[o] = op[o]
    BY <1>0, <1>1 DEF OpTyped
  <1>5. \A o \in Ops \ {id} : Carried(o) /\ NotStopped(o)
    BY <1>4 DEF Carried, NotStopped, SameEdit, Unreconciled
  <1>6. ProposalTypes' /\ RowTypes' /\ HistoryTypes' /\ RowsStay /\ EventsKept /\ events' \in Nat
    BY <1>0, <1>2, RowsUntouched, EventsGrow
    DEF proposalVars, decisionVars, historyVars, ProposalTypes, RowTypes, HistoryTypes
  <1>7. Hands' /\ WriterTypes'
    <2>1. op'[id].state # "completed" /\ Unreconciled(id)'
      BY <1>1, NoneIsNothing DEF Unreconciled
    <2> QED
      BY <1>0, <1>1, <1>2, <1>4, <2>1, TakeHands
  <1>8. CancellationIsTried'
    <2>1. \A o \in Ops : op'[o] # None => \/ op[o] # None /\ NotStopped(o)
                                          \/ ~op'[o].cancelReq
      BY <1>1, <1>5 DEF Carried
    <2> QED
      BY <1>0, <1>2, <2>1, TriedKept DEF historyVars
  <1>9. RecordFits(id)'
    BY <1>1, <1>3, NoneIsNothing DEF RecordFits, Prepared
  <1>10. \A r \in Resources : Opens(id, r)' => /\ \A o \in Ops \ {id} : ~Opens(o, r)
                                               /\ \A q \in Proposals : ~RowOpens(q, r)
    BY <1>0, <1>1, <1>2, NotBusy, OpsAreNotNone DEF Opens
  <1> QED
    BY <1>1, <1>3, <1>4, <1>5, <1>6, <1>7, <1>8, <1>9, <1>10, NewStep


-----------------------------------------------------------------------------
\* A writer goes on.

\* Whoever is not idle holds the lock and an operation.
LEMMA WriterHolds ==
  ASSUME IndInv, NEW w \in Writers, pc[w] # "idle"
  PROVE  /\ job[w] \in Ops /\ AtWork(w, job[w]) /\ InHand(w, job[w]) /\ writeLock = w
         /\ op[job[w]] \in Operation /\ Dest(job[w]) \in Dests
  <1>1. job[w] \in Ops /\ writeLock = w
    BY DEF IndInv, Hands
  <1>2. PICK o \in Ops : o = job[w]
    BY <1>1
  <1>3. AtWork(w, o) /\ InHand(w, o)
    BY <1>2 DEF IndInv, Hands, AtWork
  <1>4. op[o] \in Operation
    BY <1>3, RecordType, TypeParts DEF IndInv, InHand
  <1>5. DestOf[op[o].prop] \in Dests
    BY <1>4, OperationsAssumption DEF Operation
  <1> QED
    BY <1>1, <1>2, <1>3, <1>4, <1>5 DEF Dest

\* A move that changes only where the writer is.
LEMMA PlainMove ==
  ASSUME IndInv, NEW w \in Writers, NEW o \in Ops, AtWork(w, o),
         NEW l \in Labels \ {"idle"}, pc' = [pc EXCEPT ![w] = l],
         UNCHANGED <<worldVars, opVars, proposalVars, decisionVars, row, writeLock, job, saw,
                     historyVars>>,
         events' \in Nat, txn' \in Writers \cup {NoWriter},
         failAs' \in [Writers -> Stopped \cup {None}], InHand(w, o)'
  PROVE  IndInv'
  <1>0. /\ OpTyped /\ WriterTypes /\ Hands /\ CancellationIsTried /\ UNCHANGED <<op, apps, tried>>
    BY TypeParts DEF IndInv, opVars, historyVars
  <1>1. Eased /\ OpTyped'
    BY <1>0, OpKept
  <1>2. Hands'
    BY <1>0, MoveHands
  <1>3. WriterTypes'
    BY <1>0 DEF WriterTypes
  <1>4. CancellationIsTried'
    BY <1>0, <1>1, TriedKept DEF Eased, Carried
  <1> QED
    BY <1>0, <1>1, <1>2, <1>3, <1>4, EasedStep DEF Eased

\* The failures of an attempt.
Fails(w) == PrepareRefused(w) \/ ObserveRefused(w) \/ RefMoved(w) \/ CallFails(w)

LEMMA FailsEffect ==
  ASSUME NEW w \in Writers, Fails(w)
  PROVE  /\ pc[w] \in {"prepare", "compose", "observe", "publish", "acknowledge"}
         /\ \E s \in Stopped : Fail(w, s)
         /\ Event \/ UNCHANGED events
  BY DEF Fails, PrepareRefused, ObserveRefused, RefMoved, CallFails, Stopped

LEMMA FailStep ==
  ASSUME IndInv, NEW w \in Writers, Fails(w)
  PROVE  IndInv'
  <1>0. /\ pc[w] \in {"prepare", "compose", "observe", "publish", "acknowledge"}
        /\ Event \/ UNCHANGED events
    BY FailsEffect
  <1>1. PICK s \in Stopped : Fail(w, s)
    BY FailsEffect
  <1>2. PICK o \in Ops : o = job[w] /\ AtWork(w, o) /\ InHand(w, o)
    BY <1>0, WriterHolds
  <1>3. WriterTypes /\ events \in Nat
    BY TypeParts DEF IndInv
  <1>4. /\ pc' = [pc EXCEPT ![w] = "failing"] /\ failAs' = [failAs EXCEPT ![w] = s]
        /\ txn' = NoWriter
        /\ UNCHANGED <<worldVars, opVars, proposalVars, decisionVars, row,
                       writeLock, job, saw, historyVars>>
    BY <1>1 DEF Fail, Goto
  <1>5. failAs' \in [Writers -> Stopped \cup {None}] /\ failAs'[w] = s /\ pc'[w] = "failing"
    BY <1>3, <1>4 DEF WriterTypes
  <1>6. UNCHANGED <<op, saw, tried>>
    BY <1>4 DEF opVars, historyVars
  <1>7. InHand(w, o)'
    BY <1>0, <1>2, <1>5, <1>6 DEF InHand, Unreconciled
  <1>8. events' \in Nat
    BY <1>0, <1>3, EventsTyped
  <1> QED
    BY <1>2, <1>4, <1>5, <1>7, <1>8, PlainMove DEF Labels

\* An attempt goes on: the rollback is composed, or the transaction entered.
Proceeds(w) == PrepareUncancelled(w) \/ ObserveDelivered(w) \/ ObserveUnwritten(w)

LEMMA ProceedStep ==
  ASSUME IndInv, NEW w \in Writers, Proceeds(w)
  PROVE  IndInv'
  <1>0. /\ \/ pc[w] = "prepare" /\ pc' = [pc EXCEPT ![w] = "compose"] /\ txn' = txn
           \/ pc[w] = "observe" /\ pc' = [pc EXCEPT ![w] = "acknowledge"] /\ txn' = w
           \/ pc[w] = "observe" /\ pc' = [pc EXCEPT ![w] = "publish"] /\ txn' = w
        /\ UNCHANGED <<worldVars, opVars, proposalVars, decisionVars, row,
                       writeLock, job, saw, failAs, historyVars, events>>
    BY DEF Proceeds, PrepareUncancelled, ObserveDelivered, ObserveUnwritten, Observes,
           EnterTransaction, Goto
  <1>1. PICK o \in Ops : o = job[w] /\ AtWork(w, o) /\ InHand(w, o)
    BY <1>0, WriterHolds
  <1>2. WriterTypes /\ events \in Nat /\ UNCHANGED <<op, tried>>
    BY <1>0, TypeParts DEF IndInv, opVars, historyVars
  <1>3. PICK l \in {"compose", "acknowledge", "publish"} :
            /\ pc' = [pc EXCEPT ![w] = l] /\ pc[w] \in {"prepare", "observe"}
            /\ l = "compose" <=> pc[w] = "prepare"
            /\ l # "compose" => txn' = w
            /\ l = "compose" => txn' = txn
    BY <1>0
  <1>4. pc'[w] = l
    BY <1>2, <1>3 DEF WriterTypes
  <1>5. InHand(w, o)'
    BY <1>0, <1>1, <1>2, <1>3, <1>4 DEF InHand, Unreconciled
  <1>6. txn' \in Writers \cup {NoWriter} /\ failAs' \in [Writers -> Stopped \cup {None}]
    BY <1>0, <1>2, <1>3 DEF WriterTypes
  <1>7. l \in Labels \ {"idle"}
    BY DEF Labels
  <1> QED
    BY <1>0, <1>1, <1>2, <1>3, <1>5, <1>6, <1>7, PlainMove

\* The first transaction of a resume.
LEMMA StartStep ==
  ASSUME IndInv, NEW w \in Writers, Start(w)
  PROVE  IndInv' /\ Eased /\ UNCHANGED worldVars
  <1>0. pc[w] = "start"
    BY DEF Start
  <1>1. PICK o \in Ops : o = job[w] /\ AtWork(w, o) /\ InHand(w, o) /\ op[o] \in Operation
    BY <1>0, WriterHolds
  <1>2. /\ WriterTypes /\ OpTyped /\ HistoryTypes /\ events \in Nat /\ Hands /\ CancellationIsTried
        /\ WorldTypeOK /\ apps \in Seq(Proposals) /\ ProposalTypes /\ RowTypes
    BY TypeParts DEF IndInv
  <1>3. PICK l \in {"prepare", "observe"} :
            /\ pc' = [pc EXCEPT ![w] = l]
            /\ l = "prepare" <=> op[o].delivery = None
    BY <1>1 DEF Start, Goto
  <1>4. /\ op' = [op EXCEPT ![o] = [op[o] EXCEPT !.state = "running"]]
        /\ tried' = IF op[o].cancelReq THEN tried \cup {o} ELSE tried
        /\ UNCHANGED <<worldVars, apps, proposalVars, decisionVars, row, saw,
                       writeLock, txn, job, failAs, published, events>>
    BY <1>1 DEF Start
  <1> DEFINE q == op[o].cancelReq
             c == op[o].cancelled
  <1>5. /\ op' = [op EXCEPT ![o] = [op[o] EXCEPT !.state = "running", !.cancelReq = q, !.cancelled = c]]
        /\ q \in BOOLEAN /\ c \in BOOLEAN /\ op[o] # None
    <2>1. [op[o] EXCEPT !.state = "running"] =
              [op[o] EXCEPT !.state = "running", !.cancelReq = q, !.cancelled = c]
      BY <1>1 DEF Operation
    <2> QED
      BY <1>1, <1>4, <2>1, NoneIsNothing, ZenonT(60) DEF Operation
  <1>6. /\ op[o].state # "completed"
        /\ op[o].delivery # None => Unreconciled(o)
        /\ "running" \in Claimable \cup Stopped \cup Finished
    BY <1>1 DEF InHand, Claimable
  <1>7. /\ OpTyped'
        /\ \A x \in Ops : Carried(x) /\ (x # o => op'[x] = op[x])
        /\ op'[o] # None /\ SameEdit(o) /\ op'[o].state = "running" /\ op'[o].cancelReq = q
    BY <1>2, <1>5, <1>6, OneChanges, ZenonT(60)
  <1>8. \A x \in Ops : LeftOpen(x) /\ NotStopped(x)
    <2>1. LeftOpen(o) /\ NotStopped(o)
      BY <1>6, <1>7 DEF LeftOpen, NotStopped, Unreconciled, SameEdit, Stopped
    <2>2. \A x \in Ops : x # o => LeftOpen(x) /\ NotStopped(x)
      BY <1>7 DEF LeftOpen, NotStopped, Unreconciled
    <2> QED
      BY <2>1, <2>2
  <1>9. pc'[w] = l /\ l \in Labels \ {"idle"}
    BY <1>2, <1>3 DEF WriterTypes, Labels
  <1>10. InHand(w, o)'
    BY <1>1, <1>3, <1>4, <1>6, <1>7, <1>8, <1>9 DEF InHand, LeftOpen, SameEdit
  <1>11. Hands' /\ WriterTypes'
    <2>1. Hands'
      BY <1>1, <1>2, <1>3, <1>4, <1>9, <1>10, MoveHands
    <2>2. WriterTypes'
      BY <1>2, <1>3, <1>4, <1>9 DEF WriterTypes
    <2> QED
      BY <2>1, <2>2
  <1>12. CancellationIsTried'
    BY <1>2, <1>4, <1>7, <1>8, TriedKept DEF Carried
  <1>13. WorldTypeOK' /\ RefsExist' /\ Numbered' /\ OldCommitsKept
    BY <1>2, <1>4, WorldStays DEF IndInv
  <1>14. ProposalTypes' /\ RowTypes' /\ HistoryTypes' /\ RowsStay /\ EventsKept /\ events' \in Nat
    BY <1>2, <1>4, RowsUntouched, EventsGrow
    DEF proposalVars, decisionVars, ProposalTypes, RowTypes, HistoryTypes
  <1> QED
    BY <1>4, <1>7, <1>8, <1>11, <1>12, <1>13, <1>14, CarriedStep DEF Eased


\* The record of a rollback is written: its content still holds the edit.
LEMMA PrepareRollbackEffect ==
  ASSUME IndInv, NEW w \in Writers, PrepareRollback(w)
  PROVE  \E o \in Ops, d \in Dests, dlv \in DeliveryRecord :
            /\ o = job[w] /\ d = Dest(o) /\ AtWork(w, o) /\ InHand(w, o)
            /\ op[o] \in Operation /\ op[o].kind = "rollback" /\ op[o].delivery = None
            /\ op' = [op EXCEPT ![o] = [op[o] EXCEPT !.delivery = dlv, !.cancelled = FALSE]]
            /\ Prepares(d, dlv) /\ op[o].prop \notin dlv.after.rules
            /\ PrepareBranchCommit(d, dlv)
            /\ ~ResourceBusy(d, o)
  <1>0. pc[w] = "compose"
    BY DEF PrepareRollback
  <1>1. PICK o \in Ops : o = job[w] /\ AtWork(w, o) /\ InHand(w, o) /\ op[o] \in Operation
                         /\ Dest(o) \in Dests
    BY <1>0, WriterHolds
  <1>2. PICK d \in Dests : d = Dest(o)
    BY <1>1
  <1>3. PICK dlv : dlv = InverseRecord(d, op[o].prop)
    OBVIOUS
  <1>4. op[o].delivery = None /\ op[o] # None
    BY <1>0, <1>1 DEF InHand
  <1>5. op[o].kind = "rollback" /\ op[o].prop \in op[o].base.rules /\ op[o].prop \in Proposals
    <2>1. RecordFits(o)
      BY <1>4 DEF IndInv, Records
    <2> QED
      BY <1>1, <1>4, <2>1 DEF RecordFits, Operation
  <1>6. /\ op' = [op EXCEPT ![o].delivery = dlv, ![o].cancelled = FALSE]
        /\ PrepareBranchCommit(d, dlv) /\ ~ResourceBusy(d, o)
        /\ ReadDestination(d) = op[o].base
    BY <1>1, <1>2, <1>3 DEF PrepareRollback, Reversible
  <1>7. OpTyped /\ WorldTypeOK /\ RefsExist
    BY TypeParts DEF IndInv
  <1>8. Prepares(d, dlv) /\ op[o].prop \notin dlv.after.rules
    BY <1>3, <1>5, <1>6, <1>7, InversePrepared
  <1>9. dlv \in DeliveryRecord
    BY <1>8 DEF Prepares
  <1>10. op' = [op EXCEPT ![o] = [op[o] EXCEPT !.delivery = dlv, !.cancelled = FALSE]]
    <2>1. [op EXCEPT ![o].delivery = dlv] = [op EXCEPT ![o] = [op[o] EXCEPT !.delivery = dlv]]
      BY <1>7 DEF OpTyped
    <2>2. op' = [[op EXCEPT ![o].delivery = dlv] EXCEPT ![o].cancelled = FALSE]
      BY <1>6
    <2> QED
      BY <1>7, <2>1, <2>2 DEF OpTyped
  <1> QED
    BY <1>1, <1>2, <1>4, <1>5, <1>6, <1>8, <1>9, <1>10

LEMMA PrepareRollbackStep ==
  ASSUME IndInv, NEW w \in Writers, PrepareRollback(w)
  PROVE  IndInv'
  <1>0. /\ WriterTypes /\ OpTyped /\ HistoryTypes /\ events \in Nat /\ Hands /\ CancellationIsTried
        /\ WorldTypeOK /\ apps \in Seq(Proposals) /\ ProposalTypes /\ RowTypes
        /\ RefsExist /\ Numbered /\ OpsInOrder /\ Records /\ RowRecords /\ OneOpen
    BY TypeParts DEF IndInv
  <1>1. PICK o \in Ops, d \in Dests, dlv \in DeliveryRecord :
            /\ o = job[w] /\ d = Dest(o) /\ AtWork(w, o) /\ InHand(w, o)
            /\ op[o] \in Operation /\ op[o].kind = "rollback" /\ op[o].delivery = None
            /\ op' = [op EXCEPT ![o] = [op[o] EXCEPT !.delivery = dlv, !.cancelled = FALSE]]
            /\ Prepares(d, dlv) /\ op[o].prop \notin dlv.after.rules
            /\ PrepareBranchCommit(d, dlv)
            /\ ~ResourceBusy(d, o)
    BY PrepareRollbackEffect
  <1>2. /\ pc[w] = "compose" /\ pc' = [pc EXCEPT ![w] = "observe"]
        /\ UNCHANGED <<file, head, branch, checkedOut, external, disturbed, apps,
                       proposalVars, decisionVars, row, writeLock, txn, job,
                       saw, failAs, historyVars, events>>
    BY DEF PrepareRollback, Goto
  <1>3. /\ WorldTypeOK' /\ RefsExist' /\ Numbered' /\ OldCommitsKept /\ TrueRecord(d, dlv)'
    BY <1>0, <1>1, <1>2, PrepareKeeps
  <1> DEFINE r == [op[o] EXCEPT !.delivery = dlv, !.cancelled = FALSE]
  <1>4. /\ r \in Operation /\ r.kind = "rollback" /\ r.prop = op[o].prop /\ r.delivery = dlv
        /\ r.state = op[o].state /\ r.app = op[o].app /\ r.base = op[o].base
        /\ r.cancelReq = op[o].cancelReq /\ r.cancelled = FALSE
    BY <1>1 DEF Operation
  <1>5. op' = [op EXCEPT ![o] = r]
    BY <1>1
  <1> HIDE DEF r
  <1>6. op'[o] = r /\ r # None /\ OpTyped' /\ \A x \in Ops \ {o} : op'[x] = op[x]
    BY <1>0, <1>4, <1>5, NoneIsNothing DEF OpTyped
  <1>7. \A x \in Ops \ {o} : Carried(x)
    BY <1>6 DEF Carried, SameEdit, Unreconciled
  <1>8. op[o] # None /\ op[o].state # "completed" /\ dlv # None
    BY <1>1, NoneIsNothing DEF InHand
  <1>9. OpsInOrder'
    <2>1. \A x \in Ops : op'[x] = None <=> op[x] = None
      BY <1>6, <1>8
    <2> QED
      BY <1>0, <2>1, OrderKept
  <1>10. EventsKept /\ RowsStay /\ ProposalTypes' /\ RowTypes' /\ HistoryTypes' /\ events' \in Nat
    BY <1>0, <1>2, RowsUntouched, EventsGrow
    DEF proposalVars, decisionVars, historyVars, ProposalTypes, RowTypes, HistoryTypes
  <1>11. Records'
    <2>1. RecordFits(o) /\ DestOf[op[o].prop] = d
      BY <1>0, <1>1, <1>8 DEF Records, Dest
    <2>2. RecordFits(o)'
      BY <1>1, <1>2, <1>3, <1>4, <1>6, <1>8, <2>1 DEF RecordFits, Prepared
    <2>3. \A x \in Ops \ {o} : op'[x] # None => op[x] # None /\ RecordFits(x)
      BY <1>0, <1>7 DEF Carried, Records
    <2>4. \A x \in Ops \ {o} : op'[x] # None => RecordFits(x)'
      BY <1>0, <1>3, <1>7, <1>10, <2>3, FitKept
    <2> QED
      BY <2>2, <2>4 DEF Records
  <1>12. RowRecords'
    BY <1>0, <1>3, <1>10, RowsFit
  <1>13. OneOpen'
    <2>1. \A r1 \in Resources : \A x \in Ops \ {o} : Opens(x, r1)' => Opens(x, r1)
      BY <1>7, OpensBefore
    <2>2. \A r1 \in Resources, p \in Proposals : RowOpens(p, r1)' => RowOpens(p, r1)
      BY <1>2 DEF RowOpens
    <2>3. \A r1 \in Resources : Opens(o, r1)' => r1 = ResourceOf[d]
      BY <1>1, <1>4, <1>6 DEF Opens, Dest
    <2>4. /\ \A x \in Ops : x # o => ~Opens(x, ResourceOf[d])
          /\ \A p \in Proposals : ~RowOpens(p, ResourceOf[d])
      BY <1>1, NotBusy
    <2> QED
      BY <1>0, <2>1, <2>2, <2>3, <2>4 DEF OneOpen
  <1>14. Hands' /\ WriterTypes'
    <2>1. pc'[w] = "observe" /\ "observe" \in Labels \ {"idle"}
      BY <1>0, <1>2 DEF WriterTypes, Labels
    <2>2. InHand(w, o)'
      <3>1. Unreconciled(o)'
        BY <1>4, <1>6, <1>8 DEF Unreconciled
      <3> QED
        BY <1>1, <1>2, <1>4, <1>6, <1>8, <2>1, <3>1 DEF InHand, historyVars
    <2>3. Hands'
      BY <1>0, <1>1, <1>2, <2>1, <2>2, MoveHands
    <2>4. WriterTypes'
      BY <1>0, <1>2 DEF WriterTypes, Labels
    <2> QED
      BY <2>3, <2>4
  <1>15. CancellationIsTried'
    <2>1. \A x \in Ops : op'[x] # None => op[x] # None /\ NotStopped(x)
      BY <1>4, <1>6, <1>8 DEF NotStopped
    <2> QED
      BY <1>0, <1>2, <2>1, TriedKept DEF historyVars
  <1>16. TypeOK'
    BY <1>3, <1>6, <1>10, <1>14, TypeParts DEF EventsKept
  <1> QED
    BY <1>3, <1>9, <1>11, <1>12, <1>13, <1>14, <1>15, <1>16 DEF IndInv

\* The write itself.
LEMMA PublishEffect ==
  ASSUME IndInv, NEW w \in Writers, Publish(w)
  PROVE  \E o \in Ops, d \in Dests, dlv \in DeliveryRecord :
            /\ o = job[w] /\ d = Dest(o) /\ AtWork(w, o) /\ InHand(w, o)
            /\ op[o] \in Operation /\ Prepared(o, d, dlv) /\ Unreconciled(o)
            /\ TrueRecord(d, dlv)
            /\ d \in GitDests => dlv.commit \in 1..Len(log[ResourceOf[d]])
            /\ PublishPreparedWrite(d, dlv)
            /\ published' = published \cup {o}
  <1>0. pc[w] = "publish"
    BY DEF Publish
  <1>1. PICK o \in Ops : o = job[w] /\ AtWork(w, o) /\ InHand(w, o) /\ op[o] \in Operation
                         /\ Dest(o) \in Dests
    BY <1>0, WriterHolds
  <1>2. PICK d \in Dests : d = Dest(o)
    BY <1>1
  <1>3. op[o].delivery # None /\ op[o] # None /\ Unreconciled(o)
    BY <1>0, <1>1 DEF InHand
  <1>4. PICK dlv \in DeliveryRecord : op[o].delivery = dlv
    BY <1>1, <1>3 DEF Operation
  <1>5. Prepared(o, d, dlv)
    BY <1>2, <1>3, <1>4 DEF Prepared, Dest
  <1>6. TrueRecord(d, dlv)
    BY <1>3, <1>5 DEF IndInv, Records, RecordFits
  <1>7. PublishPreparedWrite(d, dlv) /\ published' = published \cup {o}
    BY <1>1, <1>2, <1>4 DEF Publish
  <1> QED
    BY <1>1, <1>2, <1>3, <1>5, <1>6, <1>7 DEF TrueRecord

LEMMA PublishStep ==
  ASSUME IndInv, NEW w \in Writers, Publish(w)
  PROVE  IndInv'
  <1>0. /\ WriterTypes /\ OpTyped /\ HistoryTypes /\ events \in Nat /\ Hands /\ CancellationIsTried
        /\ WorldTypeOK /\ apps \in Seq(Proposals) /\ ProposalTypes /\ RowTypes
        /\ RefsExist /\ Numbered
    BY TypeParts DEF IndInv
  <1>1. PICK o \in Ops, d \in Dests, dlv \in DeliveryRecord :
            /\ o = job[w] /\ d = Dest(o) /\ AtWork(w, o) /\ InHand(w, o)
            /\ op[o] \in Operation /\ Prepared(o, d, dlv) /\ Unreconciled(o)
            /\ TrueRecord(d, dlv)
            /\ d \in GitDests => dlv.commit \in 1..Len(log[ResourceOf[d]])
            /\ PublishPreparedWrite(d, dlv)
            /\ published' = published \cup {o}
    BY PublishEffect
  <1>2. /\ pc[w] = "publish" /\ pc' = [pc EXCEPT ![w] = "acknowledge"]
        /\ UNCHANGED <<op, apps, proposalVars, decisionVars, row, writeLock, txn, job,
                       saw, failAs, tried, events>>
    BY DEF Publish, Goto, opVars
  <1>3. WorldTypeOK' /\ RefsExist' /\ Numbered' /\ OldCommitsKept
    BY <1>0, <1>1, PublishedPlaces
  <1>4. Eased /\ OpTyped'
    BY <1>0, <1>2, OpKept
  <1>5. EventsKept /\ RowsStay /\ ProposalTypes' /\ RowTypes' /\ HistoryTypes' /\ events' \in Nat
    BY <1>0, <1>1, <1>2, RowsUntouched, EventsGrow
    DEF proposalVars, decisionVars, ProposalTypes, RowTypes, HistoryTypes
  <1>6. pc'[w] = "acknowledge" /\ "acknowledge" \in Labels \ {"idle"}
    BY <1>0, <1>2 DEF WriterTypes, Labels
  <1>7. InHand(w, o)'
    BY <1>1, <1>2, <1>6 DEF InHand, Unreconciled
  <1>8. Hands'
    BY <1>0, <1>1, <1>2, <1>6, <1>7, MoveHands
  <1>9. WriterTypes'
    BY <1>0, <1>2 DEF WriterTypes, Labels
  <1>10. CancellationIsTried'
    BY <1>0, <1>2, <1>4, TriedKept DEF Eased, Carried
  <1> QED
    BY <1>3, <1>4, <1>5, <1>8, <1>9, <1>10, CarriedStep DEF Eased


-----------------------------------------------------------------------------
\* A writer leaves.

\* What is left to show of a step in which a writer gives its lock back.
LEMMA LeaveStep ==
  ASSUME IndInv, NEW w \in Writers, pc[w] # "idle", Leave(w),
         UNCHANGED <<worldVars, row, historyVars>>, ProposalTypes', EventsKept,
         events' \in Nat, OpTyped', \A o \in Ops : Carried(o), CancellationIsTried'
  PROVE  IndInv'
  <1>0. /\ WriterTypes /\ HistoryTypes /\ Hands /\ WorldTypeOK /\ RowTypes /\ RefsExist /\ Numbered
    BY TypeParts DEF IndInv
  <1>1. WorldTypeOK' /\ RefsExist' /\ Numbered' /\ OldCommitsKept
    BY <1>0, WorldStays
  <1>2. Hands' /\ WriterTypes'
    BY <1>0, LeaveHands
  <1>3. RowTypes' /\ HistoryTypes' /\ RowsStay
    BY <1>0, RowsUntouched DEF historyVars, RowTypes, HistoryTypes
  <1> QED
    BY <1>1, <1>2, <1>3, CarriedStep

\* Nothing was written, and the record says so.
LEMMA CloseEffect ==
  ASSUME IndInv, NEW w \in Writers, pc[w] # "idle", CloseUnwritten(w)
  PROVE  \E o \in Ops :
            /\ o = job[w] /\ AtWork(w, o) /\ InHand(w, o) /\ op[o] \in Operation
            /\ OpTyped' /\ \A x \in Ops : Carried(x) /\ (x # o => op'[x] = op[x])
            /\ op'[o] # None /\ op'[o].state = "cancelled" /\ op'[o].cancelled
  <1>1. PICK o \in Ops : o = job[w] /\ AtWork(w, o) /\ InHand(w, o) /\ op[o] \in Operation
    BY WriterHolds
  <1>2. OpTyped
    BY TypeParts DEF IndInv
  <1> DEFINE q == op[o].cancelReq
  <1>3. op' = [op EXCEPT ![o] = [op[o] EXCEPT !.state = "cancelled", !.cancelReq = q, !.cancelled = TRUE]]
        /\ q \in BOOLEAN /\ op[o] # None
    <2>1. op' = [[op EXCEPT ![o].state = "cancelled"] EXCEPT ![o].cancelled = TRUE]
      BY <1>1 DEF CloseUnwritten
    <2>2. op' = [op EXCEPT ![o] = [op[o] EXCEPT !.state = "cancelled", !.cancelled = TRUE]]
      BY <1>2, <2>1 DEF OpTyped
    <2>3. [op[o] EXCEPT !.state = "cancelled", !.cancelled = TRUE] =
              [op[o] EXCEPT !.state = "cancelled", !.cancelReq = q, !.cancelled = TRUE]
      BY <1>1 DEF Operation
    <2> QED
      BY <1>1, <2>2, <2>3, NoneIsNothing, ZenonT(60) DEF Operation
  <1>4. /\ op[o].state # "completed"
        /\ "cancelled" \in Claimable \cup Stopped \cup Finished
    BY <1>1 DEF InHand, Finished
  <1> HIDE DEF q
  <1>5. op[o].cancelReq => q
    BY DEF q
  <1>6. /\ OpTyped' /\ \A x \in Ops : Carried(x) /\ (x # o => op'[x] = op[x])
        /\ op'[o] # None /\ op'[o].state = "cancelled" /\ op'[o].cancelled = TRUE
    BY <1>2, <1>3, <1>4, <1>5, OneChanges
  <1> QED
    BY <1>1, <1>6

Closes(w) == PrepareCancelled(w) \/ ObserveClosed(w)

LEMMA CloseStep ==
  ASSUME IndInv, NEW w \in Writers, Closes(w)
  PROVE  IndInv'
  <1>1. pc[w] # "idle" /\ CloseUnwritten(w)
    BY DEF Closes, PrepareCancelled, ObserveClosed, Observes
  <1>2. PICK o \in Ops :
            /\ o = job[w] /\ op[o] \in Operation
            /\ OpTyped' /\ \A x \in Ops : Carried(x) /\ (x # o => op'[x] = op[x])
            /\ op'[o] # None /\ op'[o].state = "cancelled"
    BY <1>1, CloseEffect
  <1>3. ProposalTypes /\ apps \in Seq(Proposals) /\ events \in Nat /\ CancellationIsTried
    BY TypeParts DEF IndInv
  <1>4. /\ Leave(w)
        /\ UNCHANGED <<worldVars, apps, evalOf, createdAt, inRun, decisionVars,
                       row, historyVars, events>>
        /\ Hold(op[o].prop) \/ UNCHANGED pstatus
    BY <1>1, <1>2 DEF CloseUnwritten
  <1>5. pstatus' \in [Proposals -> {"none"} \cup Undecided \cup Decided]
    BY <1>3, <1>4 DEF Hold, ProposalTypes, Undecided
  <1>6. ProposalTypes' /\ EventsKept /\ events' \in Nat
    BY <1>3, <1>4, <1>5, EventsGrow DEF decisionVars, ProposalTypes
  <1>7. CancellationIsTried'
    <2>1. \A x \in Ops : op'[x] # None => \/ op[x] # None /\ NotStopped(x)
                                          \/ op'[x].state \notin Stopped
      BY <1>2 DEF Carried, NotStopped, Stopped
    <2> QED
      BY <1>3, <1>4, <2>1, TriedKept DEF historyVars
  <1> QED
    BY <1>1, <1>2, <1>4, <1>6, <1>7, LeaveStep

\* The operation is completed, and its event recorded with it.
LEMMA AcknowledgeEffect ==
  ASSUME IndInv, NEW w \in Writers, Acknowledge(w)
  PROVE  \E o \in Ops :
            /\ o = job[w] /\ AtWork(w, o) /\ InHand(w, o) /\ op[o] \in Operation
            /\ op[o].delivery # None /\ Unreconciled(o) /\ op[o].prop \in Proposals
            /\ OpTyped' /\ \A x \in Ops : Carried(x) /\ (x # o => op'[x] = op[x])
            /\ op'[o] # None /\ op'[o].state = "completed" /\ SameEdit(o)
  <1>0. pc[w] = "acknowledge"
    BY DEF Acknowledge
  <1>1. PICK o \in Ops : o = job[w] /\ AtWork(w, o) /\ InHand(w, o) /\ op[o] \in Operation
    BY <1>0, WriterHolds
  <1>2. OpTyped
    BY TypeParts DEF IndInv
  <1> DEFINE q == op[o].cancelReq
             c == op[o].cancelled
  <1>3. op' = [op EXCEPT ![o] = [op[o] EXCEPT !.state = "completed", !.cancelReq = q, !.cancelled = c]]
        /\ q \in BOOLEAN /\ c \in BOOLEAN /\ op[o] # None
    <2>1. op' = [op EXCEPT ![o] = [op[o] EXCEPT !.state = "completed"]]
      BY <1>1 DEF Acknowledge
    <2>2. [op[o] EXCEPT !.state = "completed"] =
              [op[o] EXCEPT !.state = "completed", !.cancelReq = q, !.cancelled = c]
      BY <1>1 DEF Operation
    <2>3. q \in BOOLEAN /\ c \in BOOLEAN /\ op[o] # None
      BY <1>1, NoneIsNothing DEF Operation
    <2> QED
      BY <2>1, <2>2, <2>3
  <1>4. "completed" \in Claimable \cup Stopped \cup Finished
    BY DEF Finished
  <1>5. /\ OpTyped' /\ \A x \in Ops : Carried(x) /\ (x # o => op'[x] = op[x])
        /\ op'[o] # None /\ op'[o].state = "completed" /\ SameEdit(o)
    BY <1>2, <1>3, <1>4, OneChanges
  <1>6. op[o].delivery # None /\ Unreconciled(o) /\ op[o].prop \in Proposals
    BY <1>0, <1>1 DEF InHand, Operation
  <1> QED
    BY <1>1, <1>5, <1>6

LEMMA AcknowledgeStep ==
  ASSUME IndInv, NEW w \in Writers, Acknowledge(w)
  PROVE  IndInv'
  <1>1. PICK o \in Ops :
            /\ o = job[w] /\ op[o].prop \in Proposals
            /\ OpTyped' /\ \A x \in Ops : Carried(x) /\ (x # o => op'[x] = op[x])
            /\ op'[o] # None /\ op'[o].state = "completed"
    BY AcknowledgeEffect
  <1>2. ProposalTypes /\ apps \in Seq(Proposals) /\ events \in Nat /\ CancellationIsTried
    BY TypeParts DEF IndInv
  <1>3. /\ Leave(w) /\ pc[w] # "idle"
        /\ UNCHANGED <<worldVars, evalOf, createdAt, inRun, decisionVars, row,
                       historyVars, events>>
        /\ \E s \in {"applied", "rolled_back", pstatus[op[o].prop]} :
               pstatus' = [pstatus EXCEPT ![op[o].prop] = s]
        /\ UNCHANGED apps \/ apps' = Append(apps, op[o].prop)
    <2>1. CASE op[o].kind = "auto_apply"
      BY <1>1, <2>1 DEF Acknowledge
    <2>2. CASE op[o].kind # "auto_apply"
      BY <1>1, <2>2 DEF Acknowledge
    <2> QED
      BY <2>1, <2>2
  <1>4. pstatus' \in [Proposals -> {"none"} \cup Undecided \cup Decided]
    BY <1>1, <1>2, <1>3 DEF ProposalTypes, Decided
  <1>5. ProposalTypes' /\ EventsKept /\ events' \in Nat
    BY <1>1, <1>2, <1>3, <1>4, EventsGrow DEF decisionVars, ProposalTypes
  <1>6. CancellationIsTried'
    <2>1. \A x \in Ops : op'[x] # None => \/ op[x] # None /\ NotStopped(x)
                                          \/ op'[x].state \notin Stopped
      BY <1>1 DEF Carried, NotStopped, Stopped
    <2> QED
      BY <1>2, <1>3, <2>1, TriedKept DEF historyVars
  <1> QED
    BY <1>1, <1>3, <1>5, <1>6, LeaveStep

\* A failure is recorded; a cancellation that arrived meanwhile gets its pass.
LEMMA RecordFailureEffect ==
  ASSUME IndInv, NEW w \in Writers, RecordFailure(w)
  PROVE  /\ OpTyped' /\ \A x \in Ops : Carried(x)
         /\ \A x \in Ops : Unreconciled(x)' => op'[x] = None \/ Unreconciled(x)
         /\ \A x \in Ops : op'[x] # None /\ op'[x].state \in {"completed", "cancelled"}
                            => op'[x].state = op[x].state
         /\ CancellationIsTried'
         /\ Leave(w) /\ pc[w] # "idle"
         /\ UNCHANGED <<worldVars, apps, proposalVars, decisionVars, row, historyVars, events>>
  <1>0. pc[w] = "failing"
    BY DEF RecordFailure
  <1>1. PICK o \in Ops : o = job[w] /\ AtWork(w, o) /\ InHand(w, o) /\ op[o] \in Operation
    BY <1>0, WriterHolds
  <1>2. OpTyped /\ CancellationIsTried
    BY TypeParts DEF IndInv
  <1> DEFINE s == IF op[o].cancelReq /\ ~saw[w] THEN "queued" ELSE failAs[w]
             q == op[o].cancelReq
             c == op[o].cancelled
  <1>3. /\ op' = [op EXCEPT ![o] = [op[o] EXCEPT !.state = s]]
        /\ Leave(w)
        /\ UNCHANGED <<worldVars, apps, proposalVars, decisionVars, row, historyVars, events>>
    BY <1>1 DEF RecordFailure
  <1>4. /\ s \in {"queued"} \cup Stopped
        /\ op[o].cancelReq /\ s \in Stopped => o \in tried
    BY <1>0, <1>1 DEF InHand, Stopped
  <1> HIDE DEF s
  <1>5. op' = [op EXCEPT ![o] = [op[o] EXCEPT !.state = s, !.cancelReq = q, !.cancelled = c]]
        /\ q \in BOOLEAN /\ c \in BOOLEAN /\ op[o] # None
    <2>1. [op[o] EXCEPT !.state = s] =
              [op[o] EXCEPT !.state = s, !.cancelReq = q, !.cancelled = c]
      BY <1>1 DEF Operation
    <2> QED
      BY <1>1, <1>3, <2>1, NoneIsNothing, ZenonT(60) DEF Operation
  <1>6. /\ s \in Claimable \cup Stopped \cup Finished
        /\ op[o].state # "completed" /\ (op[o].delivery # None => Unreconciled(o))
        /\ s \notin {"completed", "cancelled"}
    BY <1>1, <1>4 DEF InHand, Claimable, Stopped
  <1>7. /\ OpTyped' /\ \A x \in Ops : Carried(x) /\ (x # o => op'[x] = op[x])
        /\ op'[o] # None /\ op'[o].state = s /\ op'[o].cancelReq = q
    BY <1>2, <1>5, <1>6, OneChanges, ZenonT(60)
  <1>8. CancellationIsTried'
    <2>1. UNCHANGED tried
      BY <1>3 DEF historyVars
    <2>2. \A x \in Ops : op'[x] # None => \/ op[x] # None /\ NotStopped(x)
                                          \/ op'[x].state \notin Stopped
                                          \/ ~op'[x].cancelReq \/ x \in tried'
      BY <1>4, <1>7, <2>1 DEF Carried, NotStopped
    <2> QED
      BY <1>2, <2>1, <2>2, TriedKept
  <1> QED
    BY <1>0, <1>3, <1>6, <1>7, <1>8 DEF Carried

LEMMA RecordFailureStep ==
  ASSUME IndInv, NEW w \in Writers, RecordFailure(w)
  PROVE  IndInv'
  <1>1. ProposalTypes /\ apps \in Seq(Proposals) /\ events \in Nat
    BY TypeParts DEF IndInv
  <1>2. UNCHANGED <<worldVars, apps, proposalVars, decisionVars, row, historyVars, events>>
    BY RecordFailureEffect
  <1>3. ProposalTypes' /\ EventsKept /\ events' \in Nat
    BY <1>1, <1>2, EventsGrow DEF proposalVars, decisionVars, ProposalTypes
  <1> QED
    BY <1>2, <1>3, RecordFailureEffect, LeaveStep

\* A crash forgets the hand and keeps the records.
LEMMA CrashStep ==
  ASSUME IndInv, NEW w \in Writers, Crash(w)
  PROVE  IndInv'
  <1>1. /\ pc[w] # "idle" /\ Leave(w) /\ (Event \/ UNCHANGED events)
        /\ UNCHANGED <<worldVars, opVars, proposalVars, decisionVars, row, historyVars>>
    BY DEF Crash
  <1>2. ProposalTypes /\ apps \in Seq(Proposals) /\ events \in Nat /\ OpTyped /\ CancellationIsTried
        /\ UNCHANGED <<op, apps, tried>>
    BY <1>1, TypeParts DEF IndInv, opVars, historyVars
  <1>3. Eased /\ OpTyped'
    BY <1>2, OpKept
  <1>4. ProposalTypes' /\ EventsKept /\ events' \in Nat
    BY <1>1, <1>2, EventsGrow, EventsTyped DEF proposalVars, decisionVars, ProposalTypes
  <1>5. CancellationIsTried'
    BY <1>2, <1>3, TriedKept DEF Eased, Carried
  <1> QED
    BY <1>1, <1>3, <1>4, <1>5, LeaveStep DEF Eased


-----------------------------------------------------------------------------
\* The reviewed rows.

\* A row is prepared: nothing else is open there, and no place reads otherwise.
LEMMA PrepareRowEffect ==
  ASSUME IndInv, NEW w \in Writers, NEW p \in Proposals, PrepareRow(w, p)
  PROVE  \E dlv \in DeliveryRecord :
            /\ row[p].state = "queued" /\ DestOf[p] \in Dests
            /\ row' = [row EXCEPT ![p] = [row[p] EXCEPT !.state = "prepared", !.delivery = dlv]]
            /\ Prepares(DestOf[p], dlv) /\ PrepareBranchCommit(DestOf[p], dlv)
            /\ WorldTypeOK' /\ RefsExist' /\ Numbered' /\ OldCommitsKept
            /\ \A e \in Dests : SamePlace(e)
            /\ TrueRecord(DestOf[p], dlv)'
            /\ ~ResourceBusy(DestOf[p], None)
            /\ UNCHANGED <<opVars, proposalVars, decisionVars, writerVars, historyVars, events>>
            /\ RowTypes'
            /\ \A q \in Proposals : q # p => row'[q] = row[q]
            /\ row'[p].state = "prepared" /\ row'[p].delivery = dlv
  <1>0. /\ WorldTypeOK /\ RefsExist /\ Numbered /\ RowTypes /\ RowFits(p) /\ DestOf[p] \in Dests
    BY TypeParts, OperationsAssumption DEF IndInv, RowRecords
  <1>1. PICK dlv : dlv = PreparedRecord(DestOf[p], {p})
    OBVIOUS
  <1>2. /\ row[p].state = "queued" /\ ReadDestination(DestOf[p]) = row[p].preview
        /\ row' = [row EXCEPT ![p].state = "prepared", ![p].delivery = dlv]
        /\ PrepareBranchCommit(DestOf[p], dlv) /\ ~ResourceBusy(DestOf[p], None)
        /\ UNCHANGED <<file, head, branch, checkedOut, external, disturbed, opVars,
                       proposalVars, decisionVars, writerVars, historyVars, events>>
    BY <1>1 DEF PrepareRow
  <1>3. Prepares(DestOf[p], dlv)
    BY <1>0, <1>1, <1>2, EditPrepared DEF RowFits
  <1>4. dlv \in DeliveryRecord
    BY <1>3 DEF Prepares
  <1>5. /\ WorldTypeOK' /\ RefsExist' /\ Numbered' /\ OldCommitsKept
        /\ \A e \in Dests : SamePlace(e)
        /\ TrueRecord(DestOf[p], dlv)'
    BY <1>0, <1>2, <1>3, PrepareKeeps
  <1> DEFINE r == [row[p] EXCEPT !.state = "prepared", !.delivery = dlv]
  <1>6. row' = [row EXCEPT ![p] = r]
    <2>1. [row EXCEPT ![p].state = "prepared"] =
              [row EXCEPT ![p] = [row[p] EXCEPT !.state = "prepared"]]
      BY <1>0 DEF RowTypes
    <2>2. row' = [[row EXCEPT ![p].state = "prepared"] EXCEPT ![p].delivery = dlv]
      BY <1>2
    <2> QED
      BY <1>0, <2>1, <2>2 DEF RowTypes
  <1>7. row[p] \in [state : {"none", "queued", "prepared", "completed", "cancelled"},
                    delivery : DeliveryRecord \cup {None}, preview : Content,
                    was : {"none"} \cup Undecided]
    BY <1>0 DEF RowTypes
  <1>8. /\ r \in [state : {"none", "queued", "prepared", "completed", "cancelled"},
                  delivery : DeliveryRecord \cup {None}, preview : Content,
                  was : {"none"} \cup Undecided]
        /\ r.state = "prepared" /\ r.delivery = dlv
    BY <1>4, <1>7
  <1>9. /\ RowTypes' /\ row'[p] = r /\ \A q \in Proposals : q # p => row'[q] = row[q]
    BY <1>0, <1>6, <1>8 DEF RowTypes
  <1> QED
    BY <1>0, <1>2, <1>3, <1>4, <1>5, <1>6, <1>8, <1>9

LEMMA PrepareRowStep ==
  ASSUME IndInv, NEW w \in Writers, NEW p \in Proposals, PrepareRow(w, p)
  PROVE  IndInv'
  <1>0. /\ OpTyped /\ apps \in Seq(Proposals) /\ ProposalTypes /\ RowTypes /\ WriterTypes
        /\ HistoryTypes /\ events \in Nat /\ Hands /\ CancellationIsTried /\ OpsInOrder
        /\ Records /\ RowRecords /\ OneOpen
    BY TypeParts DEF IndInv
  <1>1. PICK dlv \in DeliveryRecord :
            /\ row[p].state = "queued" /\ DestOf[p] \in Dests
            /\ WorldTypeOK' /\ RefsExist' /\ Numbered' /\ OldCommitsKept
            /\ TrueRecord(DestOf[p], dlv)'
            /\ ~ResourceBusy(DestOf[p], None)
            /\ UNCHANGED <<opVars, proposalVars, decisionVars, writerVars, historyVars, events>>
            /\ RowTypes'
            /\ \A q \in Proposals : q # p => row'[q] = row[q]
            /\ row'[p].state = "prepared" /\ row'[p].delivery = dlv
    BY PrepareRowEffect
  <1>2. UNCHANGED <<op, apps, published, tried>>
    BY <1>1 DEF opVars, historyVars
  <1>3. Eased /\ OpTyped'
    BY <1>0, <1>2, OpKept
  <1>4. EventsKept /\ ProposalTypes' /\ HistoryTypes' /\ events' \in Nat
    BY <1>0, <1>1, <1>2, EventsGrow DEF proposalVars, decisionVars, ProposalTypes, HistoryTypes
  <1>5. WriterTypes' /\ Hands'
    BY <1>0, <1>1, <1>2, <1>3, HandsKept DEF writerVars, WriterTypes
  <1>6. CancellationIsTried'
    BY <1>0, <1>2, <1>3, TriedKept DEF Eased, Carried
  <1>7. TypeOK'
    BY <1>1, <1>3, <1>4, <1>5, TypeParts DEF EventsKept
  <1>8. OpsInOrder'
    BY <1>0, <1>3, OrderKept DEF Eased, Carried
  <1>9. Records'
    <2>1. \A o \in Ops : op'[o] # None => op[o] # None /\ RecordFits(o)
      BY <1>0, <1>3 DEF Eased, Carried, Records
    <2>2. \A o \in Ops : op'[o] # None => RecordFits(o)'
      BY <1>0, <1>1, <1>3, <1>4, <2>1, FitKept DEF Eased
    <2> QED
      BY <2>2 DEF Records
  <1>10. RowRecords'
    <2>1. RowFits(p)'
      <3>1. DestOf[p] \in GitDests => dlv.commit \in 1..Len(log'[ResourceOf[DestOf[p]]])
        BY <1>1 DEF TrueRecord
      <3> QED
        BY <1>1, <3>1 DEF RowFits
    <2>2. ASSUME NEW q \in Proposals, q # p
          PROVE  RowFits(q)'
      <3>1. RowFits(q) /\ row'[q] = row[q]
        BY <1>0, <1>1, <2>2 DEF RowRecords
      <3>2. DestOf[q] \in GitDests => ResourceOf[DestOf[q]] \in Repos
        BY DEF Repos
      <3> QED
        BY <1>1, <3>1, <3>2 DEF RowFits, OldCommitsKept
    <2> QED
      BY <2>1, <2>2 DEF RowRecords
  <1>11. OneOpen'
    <2>1. \A r \in Resources, o \in Ops : Opens(o, r)' => Opens(o, r)
      BY <1>3, OpensBefore DEF Eased
    <2>2. \A r \in Resources, q \in Proposals : q # p => (RowOpens(q, r)' => RowOpens(q, r))
      BY <1>1 DEF RowOpens
    <2>3. \A r \in Resources : RowOpens(p, r)' => r = ResourceOf[DestOf[p]]
      BY DEF RowOpens
    <2>4. /\ \A o \in Ops : ~Opens(o, ResourceOf[DestOf[p]])
          /\ \A q \in Proposals : ~RowOpens(q, ResourceOf[DestOf[p]])
      BY <1>1, NotBusy, OpsAreNotNone
    <2> QED
      BY <1>0, <2>1, <2>2, <2>3, <2>4 DEF OneOpen
  <1> QED
    BY <1>1, <1>5, <1>6, <1>7, <1>8, <1>9, <1>10, <1>11 DEF IndInv

\* A row is delivered, or found delivered.
LEMMA DeliverRowEffect ==
  ASSUME IndInv, NEW w \in Writers, NEW p \in Proposals, DeliverRow(w, p)
  PROVE  \E dlv \in DeliveryRecord :
            /\ DestOf[p] \in Dests
            /\ \A o \in Ops : ~Opens(o, ResourceOf[DestOf[p]])
            /\ UNCHANGED worldVars \/ PublishPreparedWrite(DestOf[p], dlv)
            /\ WorldTypeOK' /\ RefsExist' /\ Numbered' /\ OldCommitsKept
            /\ \A e \in Dests : ResourceOf[e] # ResourceOf[DestOf[p]] => SamePlace(e)
            /\ UNCHANGED <<op, evalOf, createdAt, inRun, decisionVars, writerVars, historyVars, events>>
            /\ row[p].state = "prepared"
            /\ row' = [row EXCEPT ![p].state = "completed"]
            /\ pstatus' = [pstatus EXCEPT ![p] = IF @ = "approved_user" THEN "applied" ELSE @]
            /\ apps' = Append(apps, p)
  <1>0. /\ WorldTypeOK /\ RefsExist /\ Numbered /\ RowTypes /\ RowFits(p) /\ DestOf[p] \in Dests
    BY TypeParts, OperationsAssumption DEF IndInv, RowRecords
  <1>1. PICK dlv : dlv = row[p].delivery
    OBVIOUS
  <1>2. /\ row[p].state = "prepared"
        /\ UNCHANGED worldVars \/ PublishPreparedWrite(DestOf[p], dlv)
        /\ UNCHANGED <<op, evalOf, createdAt, inRun, decisionVars, writerVars, historyVars, events>>
        /\ row' = [row EXCEPT ![p].state = "completed"]
        /\ pstatus' = [pstatus EXCEPT ![p] = IF @ = "approved_user" THEN "applied" ELSE @]
        /\ apps' = Append(apps, p)
    BY <1>1 DEF DeliverRow
  <1>3. dlv \in DeliveryRecord /\ (DestOf[p] \in GitDests => dlv.commit \in 1..Len(log[ResourceOf[DestOf[p]]]))
    BY <1>0, <1>1, <1>2 DEF RowFits
  <1>4. /\ WorldTypeOK' /\ RefsExist' /\ Numbered' /\ OldCommitsKept
        /\ \A e \in Dests : ResourceOf[e] # ResourceOf[DestOf[p]] => SamePlace(e)
    <2>1. CASE UNCHANGED worldVars
      BY <1>0, <2>1, WorldStays
    <2>2. CASE PublishPreparedWrite(DestOf[p], dlv)
      BY <1>0, <1>3, <2>2, PublishedPlaces
    <2> QED
      BY <1>2, <2>1, <2>2
  <1>5. \A o \in Ops : ~Opens(o, ResourceOf[DestOf[p]])
    <2>1. RowOpens(p, ResourceOf[DestOf[p]]) /\ ResourceOf[DestOf[p]] \in Resources
      BY <1>0, <1>2 DEF RowOpens, Resources
    <2> QED
      BY <2>1 DEF IndInv, OneOpen
  <1> QED
    BY <1>0, <1>2, <1>3, <1>4, <1>5

LEMMA DeliverRowStep ==
  ASSUME IndInv, NEW w \in Writers, NEW p \in Proposals, DeliverRow(w, p)
  PROVE  IndInv'
  <1>0. /\ OpTyped /\ apps \in Seq(Proposals) /\ ProposalTypes /\ RowTypes /\ WriterTypes
        /\ HistoryTypes /\ events \in Nat /\ Hands /\ CancellationIsTried
    BY TypeParts DEF IndInv
  <1>1. PICK dlv \in DeliveryRecord :
            /\ WorldTypeOK' /\ RefsExist' /\ Numbered' /\ OldCommitsKept
            /\ UNCHANGED <<op, evalOf, createdAt, inRun, decisionVars, writerVars, historyVars, events>>
            /\ row' = [row EXCEPT ![p].state = "completed"]
            /\ pstatus' = [pstatus EXCEPT ![p] = IF @ = "approved_user" THEN "applied" ELSE @]
            /\ apps' = Append(apps, p)
    BY DeliverRowEffect
  <1>2. UNCHANGED <<published, tried>>
    BY <1>1 DEF historyVars
  <1>3. Eased /\ OpTyped'
    BY <1>0, <1>1, OpKept
  <1>4. pstatus' \in [Proposals -> {"none"} \cup Undecided \cup Decided]
    BY <1>0, <1>1 DEF ProposalTypes, Decided
  <1>5. EventsKept /\ ProposalTypes' /\ HistoryTypes' /\ events' \in Nat
    BY <1>0, <1>1, <1>2, <1>4, EventsGrow DEF decisionVars, ProposalTypes, HistoryTypes
  <1>6. WriterTypes' /\ Hands'
    BY <1>0, <1>1, <1>2, <1>3, HandsKept DEF writerVars, WriterTypes
  <1>7. CancellationIsTried'
    BY <1>0, <1>2, <1>3, TriedKept DEF Eased, Carried
  <1>8. RowTypes' /\ RowsStay
    BY <1>0, <1>1 DEF RowTypes, RowsStay
  <1> QED
    BY <1>1, <1>3, <1>5, <1>6, <1>7, <1>8, CarriedStep DEF Eased

-----------------------------------------------------------------------------
\* IndInv, for every step.

\* The operator changes only his places.
LEMMA OperatorKeeps ==
  ASSUME IndInv, Operator,
         UNCHANGED <<opVars, proposalVars, decisionVars, row, writerVars, historyVars, events>>
  PROVE  IndInv' /\ ByHand
  <1>0. /\ OpTyped /\ apps \in Seq(Proposals) /\ ProposalTypes /\ RowTypes /\ WriterTypes
        /\ HistoryTypes /\ events \in Nat /\ Hands /\ CancellationIsTried
        /\ WorldTypeOK /\ RefsExist /\ Numbered
    BY TypeParts DEF IndInv
  <1>1. WorldTypeOK' /\ RefsExist' /\ ByHand
    BY <1>0, OperatorStep, OperatorByHand
  <1>2. Numbered' /\ OldCommitsKept
    BY <1>1 DEF ByHand
  <1>3. UNCHANGED <<op, apps, published, tried>>
    BY DEF opVars, historyVars
  <1>4. Eased /\ OpTyped'
    BY <1>0, <1>3, OpKept
  <1>5. EventsKept /\ ProposalTypes' /\ HistoryTypes' /\ events' \in Nat /\ RowTypes' /\ RowsStay
    BY <1>0, <1>3, EventsGrow, RowsUntouched
    DEF proposalVars, decisionVars, ProposalTypes, HistoryTypes, RowTypes
  <1>6. WriterTypes' /\ Hands'
    BY <1>0, <1>3, <1>4, HandsKept DEF writerVars, WriterTypes
  <1>7. CancellationIsTried'
    BY <1>0, <1>3, <1>4, TriedKept DEF Eased, Carried
  <1> QED
    BY <1>1, <1>2, <1>4, <1>5, <1>6, <1>7, CarriedStep DEF Eased

\* The steps of the program, sorted by what they do.
LEMMA Steps ==
  ASSUME Next
  PROVE  \/ Decides
         \/ \E o \in Ops : RetryOperation(o) \/ CancelOperation(o)
         \/ \E p \in Proposals : SubmitRollback(p)
         \/ \E w \in Writers :
             \/ ClaimOperation(w)
             \/ \E o \in Ops : ResumeNamed(w, o)
             \/ \E p \in Proposals : RollbackNow(w, p)
             \/ \E p \in Proposals : AutoPrepare(w, p)
             \/ Start(w) \/ Proceeds(w) \/ Fails(w) \/ PrepareRollback(w) \/ Publish(w)
             \/ Closes(w) \/ Acknowledge(w) \/ RecordFailure(w) \/ Crash(w)
             \/ \E p \in Proposals : PrepareRow(w, p) \/ DeliverRow(w, p)
         \/ Operator /\ UNCHANGED <<opVars, proposalVars, decisionVars, row,
                                    writerVars, historyVars, events>>
  <1>1. CASE Web
    BY <1>1 DEF Web, Decides
  <1>2. ASSUME NEW w \in Writers, Work(w)
        PROVE  \/ ClaimOperation(w) \/ Start(w) \/ Proceeds(w) \/ Fails(w) \/ PrepareRollback(w)
               \/ Publish(w) \/ Closes(w) \/ Acknowledge(w) \/ RecordFailure(w)
    BY <1>2 DEF Work, Proceeds, Fails, Closes
  <1>3. ASSUME NEW w \in Writers, CallFails(w)
        PROVE  Fails(w)
    BY <1>3 DEF Fails
  <1>4. ASSUME NEW w \in Writers, NEW p \in Proposals, AutoHold(w, p) \/ DropRow(w, p)
        PROVE  Decides
    BY <1>4 DEF Decides
  <1> QED
    BY <1>1, <1>2, <1>3, <1>4 DEF Next

\* A step that changes nothing.
LEMMA StutterStep == IndInv /\ UNCHANGED vars => IndInv'
  <1> SUFFICES ASSUME IndInv, UNCHANGED vars
               PROVE  IndInv'
    OBVIOUS
  <1>1. UNCHANGED <<worldVars, opVars, proposalVars, decisionVars, row, writerVars, historyVars, events>>
    BY DEF vars
  <1>2. ProposalTypes /\ RowTypes /\ events \in Nat
    BY TypeParts DEF IndInv
  <1>3. ProposalTypes' /\ RowTypes' /\ events' \in Nat /\ RowsStay
    BY <1>1, <1>2, RowsUntouched DEF proposalVars, decisionVars, ProposalTypes, RowTypes
  <1> QED
    BY <1>1, <1>3, QuietStep

LEMMA NextIndInv == IndInv /\ [Next]_vars => IndInv'
  <1>1. ASSUME IndInv, Next
        PROVE  IndInv'
    <2>1. ASSUME NEW w \in Writers,
                 \/ Start(w) \/ Proceeds(w) \/ Fails(w) \/ PrepareRollback(w) \/ Publish(w)
                 \/ Closes(w) \/ Acknowledge(w) \/ RecordFailure(w) \/ Crash(w)
          PROVE  IndInv'
      BY <1>1, <2>1, StartStep, ProceedStep, FailStep, PrepareRollbackStep, PublishStep,
         CloseStep, AcknowledgeStep, RecordFailureStep, CrashStep
    <2>2. ASSUME NEW w \in Writers,
                 \/ ClaimOperation(w)
                 \/ \E o \in Ops : ResumeNamed(w, o)
                 \/ \E p \in Proposals : RollbackNow(w, p)
          PROVE  IndInv'
      BY <1>1, <2>2, TakeStep
    <2>3. ASSUME NEW w \in Writers, NEW p \in Proposals,
                 AutoPrepare(w, p) \/ PrepareRow(w, p) \/ DeliverRow(w, p)
          PROVE  IndInv'
      BY <1>1, <2>3, AutoPrepareStep, PrepareRowStep, DeliverRowStep
    <2>4. CASE \/ \E o \in Ops : RetryOperation(o) \/ CancelOperation(o)
               \/ \E p \in Proposals : SubmitRollback(p)
      BY <1>1, <2>4, WebRequestStep
    <2>5. CASE Decides
      BY <1>1, <2>5, DecideStep
    <2>6. CASE Operator /\ UNCHANGED <<opVars, proposalVars, decisionVars, row,
                                       writerVars, historyVars, events>>
      BY <1>1, <2>6, OperatorKeeps
    <2> QED
      BY <1>1, <2>1, <2>2, <2>3, <2>4, <2>5, <2>6, Steps
  <1> QED
    BY <1>1, StutterStep

\* The initial state: no record, no row, and nobody at work.
LEMMA WorldStarts == WorldInit => WorldTypeOK /\ RefsExist /\ Numbered
  <1> SUFFICES ASSUME WorldInit
               PROVE  WorldTypeOK /\ RefsExist /\ Numbered
    OBVIOUS
  <1> DEFINE first == [anc |-> {1}, tree |-> [d \in GitDests |-> Blank]]
  <1>1. first \in Commit
    BY BlankType DEF Commit
  <1>2. \A r \in Repos : log[r] = <<first>>
    BY DEF WorldInit
  <1>3. first.anc = {1}
    OBVIOUS
  <1>4. log = [r \in Repos |-> <<first>>]
    BY DEF WorldInit
  <1> HIDE DEF first
  <1>5. log \in [Repos -> Seq(Commit)]
    BY <1>1, <1>4
  <1>6. \A r \in Repos : Len(log[r]) = 1 /\ log[r][1] = first
    BY <1>2
  <1>7. Numbered
    BY <1>3, <1>6 DEF Numbered
  <1>8. RefsExist
    BY <1>6 DEF WorldInit, RefsExist
  <1>9. WorldTypeOK
    BY <1>5, BlankType DEF WorldInit, WorldTypeOK
  <1> QED
    BY <1>7, <1>8, <1>9

LEMMA InitIndInv == Init => IndInv
  <1> SUFFICES ASSUME Init
               PROVE  IndInv
    OBVIOUS
  <1>1. WorldTypeOK /\ RefsExist /\ Numbered
    BY WorldStarts DEF Init
  <1>2. \A o \in Ops : op[o] = None
    BY DEF Init
  <1>3. OpTyped /\ apps \in Seq(Proposals) /\ events \in Nat /\ HistoryTypes
    BY DEF Init, OpTyped, HistoryTypes
  <1>4. ProposalTypes
    BY DEF Init, ProposalTypes
  <1>5. RowTypes /\ \A p \in Proposals : row[p].state = "none"
    BY BlankType DEF Init, RowTypes
  <1>6. WriterTypes /\ \A w \in Writers : pc[w] = "idle"
    BY DEF Init, WriterTypes, Labels
  <1>7. OpsInOrder
    <2>1. Made = {}
      BY <1>2 DEF Made
    <2>2. Cardinality({}) = 0
      BY FS_EmptySet
    <2>3. 1..0 = {}
      OBVIOUS
    <2> QED
      BY <2>1, <2>2, <2>3 DEF OpsInOrder
  <1>8. Records /\ OneOpen /\ RowRecords /\ Hands /\ CancellationIsTried
    BY <1>2, <1>5, <1>6 DEF Records, OneOpen, Opens, RowOpens, RowRecords, RowFits, Hands, AtWork,
       CancellationIsTried, Made
  <1>9. TypeOK
    BY <1>1, <1>3, <1>4, <1>5, <1>6, TypeParts
  <1> QED
    BY <1>1, <1>7, <1>8, <1>9 DEF IndInv

\* What a record says and what a writer has in hand, in every reachable state.
THEOREM IndInvHolds == Spec => []IndInv
  BY InitIndInv, NextIndInv, PTL DEF Spec

\* Every variable has its type: the operations and rows a writer resumes are
\* always records the program can read field by field (operations.py).
THEOREM TypesHold == Spec => []TypeOK
  <1>1. IndInv => TypeOK
    BY DEF IndInv
  <1> QED
    BY <1>1, IndInvHolds, PTL

\* A cancellation that arrives during an attempt that fails is resumed once
\* more before the operation rests (_record_instruction_failure).
THEOREM CancellationsAreTried == Spec => []CancellationIsTried
  <1>1. IndInv => CancellationIsTried
    BY DEF IndInv
  <1> QED
    BY <1>1, IndInvHolds, PTL

\* Automatic edits, rollbacks and reviewed rows together have one prepared
\* write open per file or branch (_refuse_unreconciled_delivery).
THEOREM OneOpenWrite == Spec => []OneOpenWritePerResource
  <1>1. IndInv => OneOpenWritePerResource
    <2> SUFFICES ASSUME IndInv, NEW d \in Dests
                 PROVE  Cardinality(OpenWrites(ResourceOf[d])) <= 1
      BY DEF OneOpenWritePerResource
    <2>1. ResourceOf[d] \in Resources
      BY DEF Resources
    <2>2. OpenWrites(ResourceOf[d]) = {o \in Ops : Opens(o, ResourceOf[d])}
                                       \cup {p \in Proposals : RowOpens(p, ResourceOf[d])}
      BY DEF OpenWrites, Opens, RowOpens, Made, Dest
    <2>3. \A x, y \in OpenWrites(ResourceOf[d]) : x = y
      BY <2>1, <2>2 DEF IndInv, OneOpen
    <2>4. OpenWrites(ResourceOf[d]) = {} \/ \E x : OpenWrites(ResourceOf[d]) = {x}
      BY <2>3
    <2>5. CASE OpenWrites(ResourceOf[d]) = {}
      BY <2>5, FS_EmptySet
    <2>6. ASSUME NEW x, OpenWrites(ResourceOf[d]) = {x}
          PROVE  Cardinality(OpenWrites(ResourceOf[d])) <= 1
      <3>1. Cardinality({x}) = 1
        BY FS_Singleton
      <3> QED
        BY <2>6, <3>1
    <2> QED
      BY <2>4, <2>5, <2>6
  <1> QED
    BY <1>1, IndInvHolds, PTL


-----------------------------------------------------------------------------
\* The status of a proposal against its events.

\* A record is carried and not completed by this step, or it is a rollback that
\* this step records or prepares.
CarriedOpen(o) ==
    Carried(o) /\ (op'[o] # None /\ op'[o].state = "completed" => op[o].state = "completed")
Fresh(n) ==
    /\ op'[n] # None /\ op'[n].kind = "rollback" /\ op'[n].state # "completed"
    /\ op[n] # None => op[n].kind = "rollback" /\ op[n].state # "completed"
Tame(n) == (\A o \in Ops \ {n} : CarriedOpen(o)) /\ (n \in Ops => Fresh(n))

\* An eased record, or one left alone, is carried open.
LEMMA EasedIsTame ==
  ASSUME IndInv, Eased \/ UNCHANGED op
  PROVE  Tame(0)
  <1>1. Eased
    BY OpKept, TypeParts DEF IndInv
  <1>2. 0 \notin Ops
    BY Countable, OperationsAssumption
  <1> QED
    BY <1>1, <1>2 DEF Eased, Tame, CarriedOpen, Carried, LeftOpen

LEMMA RequestIsTame ==
  ASSUME IndInv, NEW p \in Proposals, LatestApp(p) # 0,
         RequestRollback(p, LatestApp(p), ReadDestination(DestOf[p]))
  PROVE  \E n \in Ops \cup {0} : Tame(n) /\ (n \in Ops => op[n] = None /\ op'[n].delivery = None)
  <1>1. PICK a : a = LatestApp(p)
    OBVIOUS
  <1>2. PICK base : base = ReadDestination(DestOf[p])
    OBVIOUS
  <1>3. a \in Nat /\ base \in Content /\ LastOf(apps, p, a) /\ RequestRollback(p, a, base)
    BY <1>1, <1>2, RequestBase
  <1>4. WorldTypeOK /\ OpTyped /\ OpsInOrder /\ 0 \notin Ops
    BY TypeParts, Countable, OperationsAssumption DEF IndInv
  <1>5. PICK id \in Ops :
             /\ op'[id] # None /\ op'[id].state = "queued" /\ op'[id].delivery = None
             /\ \/ Eased
                \/ /\ op[id] = None /\ NewRollback(id, p, a, base)
                   /\ \A o \in Ops \ {id} : Carried(o) /\ LeftOpen(o) /\ NotStopped(o)
    BY <1>3, <1>4, RequestEffect
  <1>6. CASE Eased
    BY <1>4, <1>6, EasedIsTame
  <1>7. CASE /\ op[id] = None /\ NewRollback(id, p, a, base)
             /\ \A o \in Ops \ {id} : Carried(o) /\ LeftOpen(o) /\ NotStopped(o)
    <2>1. op'[id].kind = "rollback"
      BY <1>7 DEF NewRollback, NewOperation
    <2>2. Tame(id)
      BY <1>5, <1>7, <2>1 DEF Tame, CarriedOpen, Carried, LeftOpen, Fresh
    <2> QED
      BY <1>5, <1>7, <2>2
  <1> QED
    BY <1>5, <1>6, <1>7

\* No proposal becomes applied or rolled back.
Settled == \A p \in Proposals : pstatus'[p] \in {"applied", "rolled_back"} => pstatus'[p] = pstatus[p]

\* The statuses of a step that decides, and of one that closes an operation.
LEMMA DecideStatus ==
  ASSUME IndInv, RowIsDecided, Decides
  PROVE  Settled /\ RowIsDecided' /\ UNCHANGED <<op, apps>>
  <1>0. ProposalTypes /\ RowTypes
    BY TypeParts DEF IndInv
  <1> DEFINE Good == Settled /\ RowIsDecided' /\ UNCHANGED <<op, apps>>
  <1>1. RunEnds \/ SetClassPolicy => Good
    BY DEF RunEnds, SetClassPolicy, proposalVars, opVars, Settled, RowIsDecided
  <1>2. ASSUME NEW p \in Proposals
        PROVE  UndoElsewhere(LessonOf[p]) => Good
    BY DEF UndoElsewhere, proposalVars, opVars, Settled, RowIsDecided
  <1>3. ASSUME NEW p \in Proposals, BuildProposal(p) \/ Regate(p)
        PROVE  Good
    <2>1. PICK verdict \in {"gated_pass", "gated_fail"} :
              pstatus' = [pstatus EXCEPT ![p] = verdict]
      BY <1>3 DEF BuildProposal, Regate
    <2>2. pstatus[p] \notin {"approved_user", "rejected_user"}
      BY <1>3 DEF BuildProposal, Regate, Undecided
    <2>3. UNCHANGED <<op, apps, row>>
      BY <1>3 DEF BuildProposal, Regate, opVars
    <2> QED
      BY <1>0, <2>1, <2>2, <2>3 DEF ProposalTypes, Settled, RowIsDecided
  <1>4. ASSUME NEW p \in Proposals, RejectLesson(p)
        PROVE  Good
    <2>1. /\ UNCHANGED <<op, apps, row>>
          /\ \A q \in Proposals : \/ pstatus'[q] = pstatus[q]
                                  \/ pstatus'[q] = "rejected_user"
      BY <1>4 DEF RejectLesson, opVars
    <2> QED
      BY <2>1 DEF Settled, RowIsDecided
  <1>5. ASSUME NEW p \in Proposals, ApproveEdit(p)
        PROVE  Good
    <2>1. /\ pstatus' = [pstatus EXCEPT ![p] = "approved_user"]
          /\ UNCHANGED <<op, apps>>
          /\ \A q \in Proposals : q # p => row'[q] = row[q]
      BY <1>0, <1>5 DEF ApproveEdit, opVars, RowTypes
    <2> QED
      BY <1>0, <2>1 DEF ProposalTypes, Settled, RowIsDecided
  <1>6. ASSUME NEW w \in Writers, NEW p \in Proposals, AutoHold(w, p)
        PROVE  Good
    <2>1. UNCHANGED <<op, apps, row>> /\ pstatus[p] = "gated_pass"
      BY <1>6 DEF AutoHold, opVars
    <2>2. pstatus' = [pstatus EXCEPT ![p] = "held"]
      BY <1>0, <1>6, <2>1 DEF AutoHold, Hold, Decided, ProposalTypes
    <2> QED
      BY <1>0, <2>1, <2>2 DEF ProposalTypes, Settled, RowIsDecided
  <1>7. ASSUME NEW w \in Writers, NEW p \in Proposals, DropRow(w, p)
        PROVE  Good
    <2>1. /\ UNCHANGED <<op, apps>>
          /\ row'[p].state = "cancelled" /\ \A q \in Proposals : q # p => row'[q] = row[q]
      BY <1>0, <1>7 DEF DropRow, opVars, RowTypes
    <2>2. row[p].was \in {"none"} \cup Undecided
      BY <1>0 DEF RowTypes
    <2>3. \E s \in {pstatus[p], row[p].was} : pstatus' = [pstatus EXCEPT ![p] = s]
      BY <1>7 DEF DropRow
    <2>4. Settled /\ \A q \in Proposals : q # p => pstatus'[q] = pstatus[q]
      BY <1>0, <2>2, <2>3 DEF ProposalTypes, Settled, Undecided
    <2> QED
      BY <2>1, <2>4 DEF RowIsDecided
  <1> QED
    BY <1>1, <1>2, <1>3, <1>4, <1>5, <1>6, <1>7 DEF Decides

\* Nothing is applied or undone: the statuses agree with the events as before.
LEMMA StatusKept ==
  ASSUME StatusInv, IndInv', UNCHANGED apps, Settled, RowIsDecided',
         NEW n \in Ops \cup {0}, Tame(n)
  PROVE  StatusInv'
  <1>1. ASSUME NEW o \in Ops, op'[o] # None, op'[o].kind = "auto_apply"
        PROVE  o # n /\ op[o] # None /\ op[o].kind = "auto_apply" /\ op'[o].prop = op[o].prop
               /\ (Unreconciled(o)' => Unreconciled(o))
    BY <1>1 DEF Tame, Fresh, CarriedOpen, Carried, SameEdit
  <1>2. OneAuto'
    BY <1>1 DEF StatusInv, OneAuto
  <1>3. AppliedIsClosed'
    <2>1. ASSUME NEW o \in Ops, op'[o] # None, op'[o].kind = "auto_apply", Unreconciled(o)'
          PROVE  pstatus'[op'[o].prop] \notin {"applied", "rolled_back"}
      <3>1. op[o] # None /\ op[o].kind = "auto_apply" /\ op'[o].prop = op[o].prop /\ Unreconciled(o)
        BY <1>1, <2>1
      <3>2. pstatus[op[o].prop] \notin {"applied", "rolled_back"} /\ op[o].prop \in Proposals
        BY <3>1, RecordType, TypeParts DEF StatusInv, IndInv, AppliedIsClosed
      <3> QED
        BY <3>1, <3>2 DEF Settled
    <2> QED
      BY <2>1 DEF AppliedIsClosed
  <1>4. \A p \in Proposals : LatestApp(p)' = LatestApp(p)
    BY DEF LatestApp, AppsOf
  <1>5. ASSUME NEW a
        PROVE  (\E o \in Ops : op'[o] # None /\ op'[o].kind = "rollback" /\ op'[o].app = a
                                /\ op'[o].state = "completed")
               <=> (\E o \in Ops : op[o] # None /\ op[o].kind = "rollback" /\ op[o].app = a
                                /\ op[o].state = "completed")
    BY DEF Tame, Fresh, CarriedOpen, Carried, SameEdit
  <1>6. StatusMatchesEvents'
    <2> SUFFICES ASSUME NEW p \in Proposals
                 PROVE  /\ pstatus'[p] = "applied" => LatestApp(p)' # 0 /\ ~Undone(LatestApp(p))'
                        /\ pstatus'[p] = "rolled_back" => LatestApp(p)' # 0 /\ Undone(LatestApp(p))'
      BY DEF StatusMatchesEvents
    <2>1. PICK a : a = LatestApp(p)
      OBVIOUS
    <2>2. /\ pstatus[p] = "applied" => a # 0 /\ ~Undone(a)
          /\ pstatus[p] = "rolled_back" => a # 0 /\ Undone(a)
      BY <2>1 DEF StatusInv, StatusMatchesEvents
    <2>3. Undone(a) <=> \E o \in Ops : op[o] # None /\ op[o].kind = "rollback" /\ op[o].app = a
                                /\ op[o].state = "completed"
      BY DEF Undone, RollbacksOf, Made
    <2>4. Undone(LatestApp(p))' <=> \E o \in Ops : op'[o] # None /\ op'[o].kind = "rollback"
                                /\ op'[o].app = a /\ op'[o].state = "completed"
      BY <1>4, <2>1 DEF Undone, RollbacksOf, Made
    <2> QED
      BY <1>4, <1>5, <2>1, <2>2, <2>3, <2>4 DEF Settled
  <1> QED
    BY <1>2, <1>3, <1>6 DEF StatusInv


\* One more application of a proposal is its latest; the others have theirs.
LEMMA AppendLatest ==
  ASSUME apps \in Seq(Proposals), NEW p \in Proposals, apps' = Append(apps, p)
  PROVE  /\ LatestApp(p)' = Len(apps) + 1 /\ LatestApp(p)' \in Nat \ {0}
         /\ \A q \in Proposals : q # p => LatestApp(q)' = LatestApp(q)
  <1>1. /\ Len(apps) \in Nat /\ Len(apps') = Len(apps) + 1
        /\ apps'[Len(apps) + 1] = p /\ \A a \in 1..Len(apps) : apps'[a] = apps[a]
    OBVIOUS
  <1>2. PICK n \in Nat : n = Len(apps) + 1
    BY <1>1
  <1>3. n \in AppsOf(p)' /\ \A x \in AppsOf(p)' : x \in 1..n /\ x <= n
    BY <1>1, <1>2 DEF AppsOf
  <1>4. ASSUME NEW S, S = AppsOf(p)', NEW m \in S, \A b \in S : b <= m
        PROVE  m = n
    BY <1>2, <1>3, <1>4
  <1>5. LatestApp(p)' = n
    <2>1. PICK S : S = AppsOf(p)'
      OBVIOUS
    <2>2. LatestApp(p)' = CHOOSE a \in S : \A b \in S : b <= a
      BY <1>3, <2>1 DEF LatestApp
    <2>3. \E a \in S : \A b \in S : b <= a
      BY <1>3, <2>1
    <2> QED
      BY <1>4, <2>1, <2>2, <2>3
  <1>6. ASSUME NEW q \in Proposals, q # p
        PROVE  LatestApp(q)' = LatestApp(q)
    <2>1. AppsOf(q)' = AppsOf(q)
      <3>1. AppsOf(q) = {a \in 1..Len(apps) : apps[a] = q}
        BY DEF AppsOf
      <3>2. AppsOf(q)' = {a \in 1..(Len(apps) + 1) : apps'[a] = q}
        BY <1>1 DEF AppsOf
      <3>3. \A a \in 1..(Len(apps) + 1) : a \in 1..Len(apps) \/ a = Len(apps) + 1
        BY <1>1
      <3>4. \A a \in 1..Len(apps) : a \in 1..(Len(apps) + 1)
        BY <1>1
      <3> QED
        BY <1>1, <1>6, <3>1, <3>2, <3>3, <3>4
    <2> QED
      BY <2>1 DEF LatestApp
  <1> QED
    BY <1>1, <1>2, <1>5, <1>6

\* The completed rollbacks of an application, record by record.
LEMMA UndoneIs ==
  /\ \A a : Undone(a) <=> \E o \in Ops : op[o] # None /\ op[o].kind = "rollback"
                              /\ op[o].app = a /\ op[o].state = "completed"
  /\ \A p \in Proposals : \A a : a = LatestApp(p)' =>
        (Undone(LatestApp(p))' <=> \E o \in Ops : op'[o] # None /\ op'[o].kind = "rollback"
                              /\ op'[o].app = a /\ op'[o].state = "completed")
  BY DEF Undone, RollbacksOf, Made

LEMMA AutoPrepareStatus ==
  ASSUME StatusInv, IndInv', NEW w \in Writers, NEW p \in Proposals, AutoPrepare(w, p)
  PROVE  StatusInv'
  <1>1. PICK id \in Ops, dlv \in DeliveryRecord :
            /\ id = NextId /\ op[id] = None /\ AutoRecord(id, p, dlv)
            /\ op' = [op EXCEPT ![id] = op'[id]]
            /\ op'[id] \in Operation /\ op'[id] # None /\ op'[id].kind = "auto_apply"
            /\ op'[id].prop = p /\ op'[id].delivery = dlv /\ op'[id].state = "running"
            /\ op'[id].cancelReq = FALSE
            /\ Prepares(DestOf[p], dlv) /\ p \in dlv.after.rules
            /\ PrepareBranchCommit(DestOf[p], dlv)
            /\ TakeLock(w, id)
    BY AutoPrepareEffect DEF StatusInv
  <1>2. /\ ~\E o \in Ops : op[o] # None /\ op[o].kind = "auto_apply" /\ op[o].prop = p
        /\ pstatus[p] = "gated_pass"
        /\ UNCHANGED <<apps, pstatus, row>>
    BY DEF AutoPrepare, Permitted, proposalVars, Made
  <1>3. \A o \in Ops : o # id => op'[o] = op[o]
    BY <1>1, TypeParts DEF StatusInv, IndInv, OpTyped
  <1>4. OneAuto'
    BY <1>1, <1>2, <1>3 DEF StatusInv, OneAuto
  <1>5. AppliedIsClosed'
    BY <1>1, <1>2, <1>3 DEF StatusInv, AppliedIsClosed, Unreconciled
  <1>6. RowIsDecided'
    BY <1>2 DEF StatusInv, RowIsDecided
  <1>7. StatusMatchesEvents'
    <2> SUFFICES ASSUME NEW q \in Proposals
                 PROVE  /\ pstatus'[q] = "applied" => LatestApp(q)' # 0 /\ ~Undone(LatestApp(q))'
                        /\ pstatus'[q] = "rolled_back" => LatestApp(q)' # 0 /\ Undone(LatestApp(q))'
      BY DEF StatusMatchesEvents
    <2>0. LatestApp(q)' = LatestApp(q)
      BY <1>2 DEF LatestApp, AppsOf
    <2>1. PICK a : a = LatestApp(q)
      OBVIOUS
    <2>2. /\ pstatus[q] = "applied" => a # 0 /\ ~Undone(a)
          /\ pstatus[q] = "rolled_back" => a # 0 /\ Undone(a)
      BY <2>1 DEF StatusInv, StatusMatchesEvents
    <2>3. Undone(LatestApp(q))' <=> Undone(a)
      BY <1>1, <1>3, <2>0, <2>1, UndoneIs
    <2> QED
      BY <1>2, <2>0, <2>1, <2>2, <2>3
  <1> QED
    BY <1>4, <1>5, <1>6, <1>7 DEF StatusInv

LEMMA DeliverRowStatus ==
  ASSUME StatusInv, IndInv', NEW w \in Writers, NEW p \in Proposals, DeliverRow(w, p)
  PROVE  StatusInv'
  <1>0. ProposalTypes /\ RowTypes /\ OpTyped /\ apps \in Seq(Proposals)
    BY TypeParts DEF StatusInv, IndInv
  <1>1. /\ DestOf[p] \in Dests /\ \A o \in Ops : ~Opens(o, ResourceOf[DestOf[p]])
        /\ UNCHANGED op
        /\ row[p].state = "prepared"
        /\ row' = [row EXCEPT ![p].state = "completed"]
        /\ pstatus' = [pstatus EXCEPT ![p] = IF @ = "approved_user" THEN "applied" ELSE @]
        /\ apps' = Append(apps, p)
    BY DeliverRowEffect DEF StatusInv
  <1>2. pstatus[p] \in {"approved_user", "rejected_user"}
    BY <1>1 DEF StatusInv, RowIsDecided
  <1>3. /\ pstatus'[p] \in {"applied", "rejected_user"}
        /\ \A q \in Proposals : q # p => pstatus'[q] = pstatus[q]
    BY <1>0, <1>1, <1>2 DEF ProposalTypes
  <1>4. OneAuto'
    BY <1>1 DEF StatusInv, OneAuto
  <1>5. AppliedIsClosed'
    <2>1. ASSUME NEW o \in Ops, op[o] # None, op[o].kind = "auto_apply", Unreconciled(o)
          PROVE  op[o].prop # p /\ op[o].prop \in Proposals
      BY <1>0, <1>1, <2>1, RecordType DEF Opens
    <2>2. ASSUME NEW o \in Ops, op[o] # None, op[o].kind = "auto_apply", Unreconciled(o)
          PROVE  pstatus'[op[o].prop] \notin {"applied", "rolled_back"}
      BY <1>3, <2>1, <2>2 DEF StatusInv, AppliedIsClosed
    <2> QED
      BY <1>1, <2>2 DEF AppliedIsClosed, Unreconciled
  <1>6. RowIsDecided'
    BY <1>0, <1>1, <1>3 DEF StatusInv, RowIsDecided, RowTypes
  <1>7. StatusMatchesEvents'
    <2> SUFFICES ASSUME NEW q \in Proposals
                 PROVE  /\ pstatus'[q] = "applied" => LatestApp(q)' # 0 /\ ~Undone(LatestApp(q))'
                        /\ pstatus'[q] = "rolled_back" => LatestApp(q)' # 0 /\ Undone(LatestApp(q))'
      BY DEF StatusMatchesEvents
    <2>1. CASE q = p
      <3>1. PICK a \in Nat \ {0} : a = LatestApp(p)' /\ a = Len(apps) + 1
        BY <1>0, <1>1, AppendLatest
      <3>2. ASSUME NEW o \in Ops, op[o] # None, op[o].kind = "rollback"
            PROVE  op[o].app # a
        <4>1. op[o].app \in 1..Len(apps) /\ Len(apps) \in Nat
          BY <1>0, <3>2 DEF StatusInv, IndInv, Records, RecordFits
        <4> QED
          BY <3>1, <4>1
      <3>3. Undone(LatestApp(p))' <=> \E o \in Ops : op'[o] # None /\ op'[o].kind = "rollback"
                              /\ op'[o].app = a /\ op'[o].state = "completed"
        BY <3>1 DEF Undone, RollbacksOf, Made
      <3>4. ~Undone(LatestApp(p))'
        BY <1>1, <3>2, <3>3
      <3> QED
        BY <1>3, <2>1, <3>1, <3>4
    <2>2. CASE q # p
      <3>1. LatestApp(q)' = LatestApp(q)
        BY <1>0, <1>1, <2>2, AppendLatest
      <3>2. PICK a : a = LatestApp(q)
        OBVIOUS
      <3>3. Undone(LatestApp(q))' <=> Undone(a)
        BY <1>1, <3>1, <3>2, UndoneIs
      <3>4. /\ pstatus[q] = "applied" => a # 0 /\ ~Undone(a)
            /\ pstatus[q] = "rolled_back" => a # 0 /\ Undone(a)
        BY <3>2 DEF StatusInv, StatusMatchesEvents
      <3> QED
        BY <1>3, <2>2, <3>1, <3>2, <3>3, <3>4
    <2> QED
      BY <2>1, <2>2
  <1> QED
    BY <1>4, <1>5, <1>6, <1>7 DEF StatusInv


\* An operation is completed: an automatic edit becomes the latest application
\* of its proposal, a rollback undoes the application it names.
LEMMA AcknowledgeStatus ==
  ASSUME StatusInv, IndInv', NEW w \in Writers, Acknowledge(w)
  PROVE  StatusInv'
  <1>0. ProposalTypes /\ RowTypes /\ OpTyped /\ apps \in Seq(Proposals) /\ Len(apps) \in Nat
    BY TypeParts DEF StatusInv, IndInv
  <1>1. PICK o \in Ops :
            /\ o = job[w] /\ AtWork(w, o) /\ InHand(w, o) /\ op[o] \in Operation
            /\ op[o].delivery # None /\ Unreconciled(o) /\ op[o].prop \in Proposals
            /\ OpTyped' /\ \A x \in Ops : Carried(x) /\ (x # o => op'[x] = op[x])
            /\ op'[o] # None /\ op'[o].state = "completed" /\ SameEdit(o)
    BY AcknowledgeEffect DEF StatusInv
  <1>2. PICK p \in Proposals : p = op[o].prop
    BY <1>1
  <1>3. UNCHANGED row
    BY DEF Acknowledge
  <1>4. /\ op[o] # None /\ op[o].kind \in {"auto_apply", "rollback"}
        /\ op'[o].kind = op[o].kind /\ op'[o].prop = p /\ op'[o].app = op[o].app
        /\ ~Unreconciled(o)'
    BY <1>1, <1>2, NoneIsNothing DEF SameEdit, Operation, Unreconciled
  <1>5. OneAuto'
    BY <1>1, <1>2, <1>4 DEF StatusInv, OneAuto
  <1>6. ASSUME NEW x \in Ops, op'[x] # None, op'[x].kind = "auto_apply", Unreconciled(x)'
        PROVE  /\ x # o /\ op'[x] = op[x] /\ op[x].prop \in Proposals
               /\ pstatus[op[x].prop] \notin {"applied", "rolled_back"}
    <2>1. x # o /\ op'[x] = op[x] /\ Unreconciled(x)
      BY <1>1, <1>4, <1>6 DEF Unreconciled
    <2> QED
      BY <1>0, <1>6, <2>1, RecordType DEF StatusInv, AppliedIsClosed
  <1>7. ASSUME NEW q \in Proposals
        PROVE  /\ pstatus[q] = "applied" => LatestApp(q) # 0 /\ ~Undone(LatestApp(q))
               /\ pstatus[q] = "rolled_back" => LatestApp(q) # 0 /\ Undone(LatestApp(q))
    BY DEF StatusInv, StatusMatchesEvents
  <1>8. CASE op[o].kind = "auto_apply"
    <2>1. /\ pstatus' = [pstatus EXCEPT ![p] = IF Unchanged(o) THEN "applied" ELSE @]
          /\ apps' = Append(apps, p)
      BY <1>1, <1>2, <1>8 DEF Acknowledge
    <2>2. pstatus[p] \notin {"applied", "rolled_back"}
      BY <1>1, <1>2, <1>4, <1>8 DEF StatusInv, AppliedIsClosed
    <2>3. /\ (pstatus'[p] = "applied" /\ pstatus[p] = "gated_pass") \/ pstatus'[p] = pstatus[p]
          /\ \A q \in Proposals : q # p => pstatus'[q] = pstatus[q]
      BY <1>0, <1>2, <2>1 DEF ProposalTypes, Unchanged
    <2>4. AppliedIsClosed'
      <3>1. ASSUME NEW x \in Ops, op'[x] # None, op'[x].kind = "auto_apply", Unreconciled(x)'
            PROVE  pstatus'[op'[x].prop] \notin {"applied", "rolled_back"}
        <4>1. op[x].prop # p
          BY <1>2, <1>4, <1>6, <1>8, <3>1 DEF StatusInv, OneAuto
        <4> QED
          BY <1>6, <2>3, <3>1, <4>1
      <3> QED
        BY <3>1 DEF AppliedIsClosed
    <2>5. RowIsDecided'
      BY <1>3, <2>3 DEF StatusInv, RowIsDecided
    <2>6. StatusMatchesEvents'
      <3> SUFFICES ASSUME NEW q \in Proposals
                   PROVE  /\ pstatus'[q] = "applied" => LatestApp(q)' # 0 /\ ~Undone(LatestApp(q))'
                          /\ pstatus'[q] = "rolled_back" => LatestApp(q)' # 0 /\ Undone(LatestApp(q))'
        BY DEF StatusMatchesEvents
      <3>1. CASE q = p
        <4>1. PICK a \in Nat \ {0} : a = LatestApp(p)' /\ a = Len(apps) + 1
          BY <1>0, <2>1, AppendLatest
        <4>2. ASSUME NEW x \in Ops, op'[x] # None, op'[x].kind = "rollback"
              PROVE  op'[x].app # a
          <5>1. op'[x] = op[x]
            BY <1>1, <1>4, <1>8, <4>2
          <5>2. op[x].app \in 1..Len(apps)
            BY <4>2, <5>1 DEF StatusInv, IndInv, Records, RecordFits
          <5> QED
            BY <1>0, <4>1, <5>1, <5>2
        <4>3. Undone(LatestApp(p))' <=> \E x \in Ops : op'[x] # None /\ op'[x].kind = "rollback"
                              /\ op'[x].app = a /\ op'[x].state = "completed"
          BY <4>1 DEF Undone, RollbacksOf, Made
        <4>4. ~Undone(LatestApp(p))'
          BY <4>2, <4>3
        <4> QED
          BY <2>2, <2>3, <3>1, <4>1, <4>4
      <3>2. CASE q # p
        <4>1. LatestApp(q)' = LatestApp(q)
          BY <1>0, <2>1, <3>2, AppendLatest
        <4>2. PICK a : a = LatestApp(q)
          OBVIOUS
        <4>3. Undone(LatestApp(q))' <=> \E x \in Ops : op'[x] # None /\ op'[x].kind = "rollback"
                              /\ op'[x].app = a /\ op'[x].state = "completed"
          BY <4>1, <4>2, UndoneIs
        <4>4. Undone(a) <=> \E x \in Ops : op[x] # None /\ op[x].kind = "rollback"
                              /\ op[x].app = a /\ op[x].state = "completed"
          BY UndoneIs
        <4>5. Undone(LatestApp(q))' <=> Undone(a)
          BY <1>1, <1>4, <1>8, <4>3, <4>4
        <4> QED
          BY <1>7, <2>3, <3>2, <4>1, <4>2, <4>5
      <3> QED
        BY <3>1, <3>2
    <2> QED
      BY <1>5, <2>4, <2>5, <2>6 DEF StatusInv
  <1>9. CASE op[o].kind = "rollback"
    <2>1. /\ pstatus' = [pstatus EXCEPT ![p] =
                 IF SameApplication(o) /\ @ = "applied" THEN "rolled_back" ELSE @]
          /\ apps' = apps
      BY <1>1, <1>2, <1>9 DEF Acknowledge
    <2>2. /\ \/ pstatus'[p] = pstatus[p] /\ ~(SameApplication(o) /\ pstatus[p] = "applied")
             \/ pstatus'[p] = "rolled_back" /\ SameApplication(o) /\ pstatus[p] = "applied"
          /\ \A q \in Proposals : q # p => pstatus'[q] = pstatus[q]
      BY <1>0, <2>1 DEF ProposalTypes
    <2>3. AppliedIsClosed'
      <3>1. ASSUME NEW x \in Ops, op'[x] # None, op'[x].kind = "auto_apply", Unreconciled(x)'
            PROVE  pstatus'[op'[x].prop] \notin {"applied", "rolled_back"}
        <4>1. /\ op'[x] = op[x] /\ op[x].prop \in Proposals
              /\ pstatus[op[x].prop] \notin {"applied", "rolled_back"}
          BY <1>6, <3>1
        <4> QED
          BY <2>2, <4>1
      <3> QED
        BY <3>1 DEF AppliedIsClosed
    <2>4. RowIsDecided'
      BY <1>3, <2>2 DEF StatusInv, RowIsDecided
    <2>5. op[o].app \in 1..Len(apps) /\ apps[op[o].app] = p
      BY <1>2, <1>4, <1>9 DEF StatusInv, IndInv, Records, RecordFits
    <2>6. StatusMatchesEvents'
      <3> SUFFICES ASSUME NEW q \in Proposals
                   PROVE  /\ pstatus'[q] = "applied" => LatestApp(q)' # 0 /\ ~Undone(LatestApp(q))'
                          /\ pstatus'[q] = "rolled_back" => LatestApp(q)' # 0 /\ Undone(LatestApp(q))'
        BY DEF StatusMatchesEvents
      <3>1. LatestApp(q)' = LatestApp(q)
        BY <2>1 DEF LatestApp, AppsOf
      <3>2. PICK a : a = LatestApp(q)
        OBVIOUS
      <3>3. Undone(LatestApp(q))' <=> \E x \in Ops : op'[x] # None /\ op'[x].kind = "rollback"
                            /\ op'[x].app = a /\ op'[x].state = "completed"
        BY <3>1, <3>2, UndoneIs
      <3>4. Undone(a) <=> \E x \in Ops : op[x] # None /\ op[x].kind = "rollback"
                            /\ op[x].app = a /\ op[x].state = "completed"
        BY UndoneIs
      <3>5. Undone(LatestApp(q))' <=> Undone(a) \/ op[o].app = a
        BY <1>1, <1>4, <1>9, <3>3, <3>4
      <3>6. a # 0 => a \in 1..Len(apps) /\ apps[a] = q
        BY <1>0, <3>2, LatestIsLast DEF LastOf
      <3>7. CASE q # p
        <4>1. a # 0 => op[o].app # a
          BY <2>5, <3>6, <3>7
        <4> QED
          BY <1>7, <2>2, <3>1, <3>2, <3>5, <3>7, <4>1
      <3>8. CASE q = p
        <4>1. SameApplication(o) <=> a = op[o].app
          BY <1>2, <3>2, <3>8 DEF SameApplication
        <4>2. op[o].app # 0
          BY <2>5
        <4> QED
          BY <1>7, <2>2, <3>1, <3>2, <3>5, <3>8, <4>1, <4>2
      <3> QED
        BY <3>7, <3>8
    <2> QED
      BY <1>5, <2>3, <2>4, <2>6 DEF StatusInv
  <1> QED
    BY <1>4, <1>8, <1>9

\* Nothing about a proposal changes, and no record is newly completed.
LEMMA QuietStatus ==
  ASSUME StatusInv, IndInv', UNCHANGED <<apps, pstatus, row>>, NEW n \in Ops \cup {0}, Tame(n)
  PROVE  StatusInv'
  <1>1. Settled /\ RowIsDecided'
    BY DEF StatusInv, RowIsDecided, Settled
  <1> QED
    BY <1>1, StatusKept

LEMMA WorkStatus ==
  ASSUME StatusInv, IndInv', NEW w \in Writers,
         \/ Start(w) \/ Proceeds(w) \/ Fails(w) \/ Publish(w) \/ Crash(w)
         \/ RecordFailure(w) \/ PrepareRollback(w)
  PROVE  StatusInv'
  <1>0. IndInv
    BY DEF StatusInv
  <1>1. CASE Start(w)
    <2>1. Eased
      BY <1>0, <1>1, StartStep
    <2>2. UNCHANGED <<apps, pstatus, row>>
      BY <1>1 DEF Start, proposalVars
    <2> QED
      BY <1>0, <2>1, <2>2, EasedIsTame, QuietStatus
  <1>2. CASE Proceeds(w) \/ Fails(w) \/ Publish(w) \/ Crash(w)
    <2>1. UNCHANGED <<op, apps, pstatus, row>>
      BY <1>2 DEF Proceeds, PrepareUncancelled, ObserveDelivered, ObserveUnwritten, Observes,
         EnterTransaction, Fails, PrepareRefused, ObserveRefused, RefMoved, CallFails, Fail,
         Publish, Crash, opVars, proposalVars
    <2>2. Tame(0)
      BY <1>0, <2>1, EasedIsTame
    <2> QED
      BY <2>1, <2>2, QuietStatus
  <1>3. CASE RecordFailure(w)
    <2>1. /\ \A x \in Ops : Carried(x)
          /\ \A x \in Ops : op'[x] # None /\ op'[x].state \in {"completed", "cancelled"}
                            => op'[x].state = op[x].state
      BY <1>0, <1>3, RecordFailureEffect
    <2>2. UNCHANGED <<apps, pstatus, row>>
      BY <1>3 DEF RecordFailure, proposalVars
    <2>3. Tame(0)
      <3>1. 0 \notin Ops
        BY Countable, OperationsAssumption
      <3> QED
        BY <2>1, <3>1 DEF Tame, CarriedOpen
    <2> QED
      BY <2>2, <2>3, QuietStatus
  <1>4. CASE PrepareRollback(w)
    <2>1. PICK o \in Ops, d \in Dests, dlv \in DeliveryRecord :
            /\ o = job[w] /\ d = Dest(o) /\ AtWork(w, o) /\ InHand(w, o)
            /\ op[o] \in Operation /\ op[o].kind = "rollback" /\ op[o].delivery = None
            /\ op' = [op EXCEPT ![o] = [op[o] EXCEPT !.delivery = dlv, !.cancelled = FALSE]]
            /\ Prepares(d, dlv) /\ op[o].prop \notin dlv.after.rules
            /\ PrepareBranchCommit(d, dlv)
            /\ ~ResourceBusy(d, o)
      BY <1>0, <1>4, PrepareRollbackEffect
    <2>2. UNCHANGED <<apps, pstatus, row>>
      BY <1>4 DEF PrepareRollback, proposalVars
    <2>3. OpTyped /\ OpTyped'
      BY <1>0, TypeParts DEF IndInv
    <2>4. /\ \A x \in Ops : x # o => op'[x] = op[x]
          /\ op'[o] = [op[o] EXCEPT !.delivery = dlv, !.cancelled = FALSE]
      BY <2>1, <2>3 DEF OpTyped
    <2>5. op'[o].kind = "rollback" /\ op'[o].state = op[o].state /\ op'[o] \in Operation
      <3> DEFINE r == [op[o] EXCEPT !.delivery = dlv, !.cancelled = FALSE]
      <3>1. FALSE \in BOOLEAN /\ dlv \in DeliveryRecord \cup {None}
        OBVIOUS
      <3>2. r \in Operation
        BY <2>1, <3>1 DEF Operation
      <3>3. r.kind = op[o].kind /\ r.state = op[o].state
        BY <2>1 DEF Operation
      <3> QED
        BY <2>1, <2>4, <3>2, <3>3
    <2>6. Fresh(o)
      BY <2>1, <2>5, NoneIsNothing DEF Fresh, InHand
    <2>7. Tame(o)
      BY <2>4, <2>6 DEF Tame, CarriedOpen, Carried, SameEdit, Unreconciled
    <2> QED
      BY <2>2, <2>7, QuietStatus
  <1> QED
    BY <1>1, <1>2, <1>3, <1>4

LEMMA CloseStatus ==
  ASSUME StatusInv, IndInv', NEW w \in Writers, Closes(w)
  PROVE  StatusInv'
  <1>0. IndInv /\ ProposalTypes /\ RowIsDecided /\ 0 \notin Ops
    BY TypeParts, Countable, OperationsAssumption DEF StatusInv, IndInv
  <1>1. pc[w] # "idle" /\ CloseUnwritten(w)
    BY DEF Closes, PrepareCancelled, ObserveClosed, Observes
  <1>2. PICK o \in Ops :
            /\ o = job[w] /\ AtWork(w, o) /\ InHand(w, o) /\ op[o] \in Operation
            /\ OpTyped' /\ \A x \in Ops : Carried(x) /\ (x # o => op'[x] = op[x])
            /\ op'[o] # None /\ op'[o].state = "cancelled" /\ op'[o].cancelled
    BY <1>0, <1>1, CloseEffect
  <1>3. PICK p \in Proposals : p = op[o].prop
    BY <1>2 DEF Operation
  <1>4. /\ UNCHANGED <<apps, row>>
        /\ \/ UNCHANGED pstatus
           \/ pstatus[p] = "gated_pass" /\ Hold(p)
    BY <1>1, <1>2, <1>3 DEF CloseUnwritten, Unchanged
  <1>5. \A q \in Proposals : \/ pstatus'[q] = pstatus[q]
                             \/ pstatus'[q] = "held" /\ pstatus[q] = "gated_pass"
    BY <1>0, <1>4 DEF Hold, Decided, ProposalTypes
  <1>6. Settled /\ RowIsDecided'
    BY <1>0, <1>4, <1>5 DEF Settled, RowIsDecided
  <1>7. Tame(0)
    BY <1>0, <1>2 DEF Tame, CarriedOpen
  <1> QED
    BY <1>4, <1>6, <1>7, StatusKept

LEMMA RequestStatus ==
  ASSUME StatusInv, IndInv',
         \/ \E o \in Ops : RetryOperation(o) \/ CancelOperation(o)
         \/ \E p \in Proposals : SubmitRollback(p)
         \/ \E w \in Writers : \/ ClaimOperation(w)
                               \/ \E o \in Ops : ResumeNamed(w, o)
                               \/ \E p \in Proposals : RollbackNow(w, p)
  PROVE  StatusInv'
  <1>0. IndInv
    BY DEF StatusInv
  <1>1. ASSUME UNCHANGED <<apps, pstatus, row>>, Eased \/ UNCHANGED op
        PROVE  StatusInv'
    BY <1>0, <1>1, EasedIsTame, QuietStatus
  <1>2. ASSUME UNCHANGED <<apps, pstatus, row>>, NEW p \in Proposals,
               RequestRollback(p, LatestApp(p), ReadDestination(DestOf[p]))
        PROVE  StatusInv'
    <2>1. LatestApp(p) # 0
      BY <1>2 DEF RequestRollback
    <2>2. PICK n \in Ops \cup {0} : Tame(n)
      BY <1>0, <1>2, <2>1, RequestIsTame
    <2> QED
      BY <1>2, <2>2, QuietStatus
  <1>3. ASSUME NEW o \in Ops, RetryOperation(o) \/ CancelOperation(o)
        PROVE  StatusInv'
    <2>1. Eased /\ UNCHANGED <<apps, pstatus, row>>
      BY <1>0, <1>3, RetryEffect DEF proposalVars
    <2> QED
      BY <1>1, <2>1
  <1>4. ASSUME NEW p \in Proposals, SubmitRollback(p)
        PROVE  StatusInv'
    BY <1>2, <1>4 DEF SubmitRollback, proposalVars
  <1>5. ASSUME NEW w \in Writers, ClaimOperation(w) \/ \E o \in Ops : ResumeNamed(w, o)
        PROVE  StatusInv'
    <2>1. UNCHANGED <<op, apps, pstatus, row>>
      BY <1>5 DEF ClaimOperation, ResumeNamed, proposalVars
    <2> QED
      BY <1>1, <2>1
  <1>6. ASSUME NEW w \in Writers, NEW p \in Proposals, RollbackNow(w, p)
        PROVE  StatusInv'
    <2>1. UNCHANGED <<apps, pstatus, row>>
      BY <1>6 DEF RollbackNow, proposalVars
    <2>2. \/ RequestRollback(p, LatestApp(p), ReadDestination(DestOf[p]))
          \/ UNCHANGED op
      BY <1>6 DEF RollbackNow
    <2> QED
      BY <1>1, <1>2, <2>1, <2>2
  <1> QED
    BY <1>3, <1>4, <1>5, <1>6

LEMMA PrepareRowStatus ==
  ASSUME StatusInv, IndInv', NEW w \in Writers, NEW p \in Proposals, PrepareRow(w, p)
  PROVE  StatusInv'
  <1>0. IndInv /\ RowTypes
    BY TypeParts DEF StatusInv, IndInv
  <1>1. /\ UNCHANGED <<op, apps, pstatus>> /\ row[p].state = "queued"
        /\ \A q \in Proposals : q # p => row'[q] = row[q]
    BY <1>0 DEF PrepareRow, opVars, proposalVars, RowTypes
  <1>2. Settled /\ RowIsDecided'
    BY <1>1 DEF StatusInv, RowIsDecided, Settled
  <1>3. Tame(0)
    BY <1>0, <1>1, EasedIsTame
  <1> QED
    BY <1>1, <1>2, <1>3, StatusKept

LEMMA NextStatusInv == StatusInv /\ [Next]_vars => StatusInv'
  <1>0. ASSUME StatusInv, [Next]_vars
        PROVE  IndInv'
    BY <1>0, NextIndInv DEF StatusInv
  <1>1. ASSUME StatusInv, Next, IndInv'
        PROVE  StatusInv'
    <2>1. ASSUME NEW w \in Writers,
                 \/ Start(w) \/ Proceeds(w) \/ Fails(w) \/ PrepareRollback(w) \/ Publish(w)
                 \/ Closes(w) \/ Acknowledge(w) \/ RecordFailure(w) \/ Crash(w)
          PROVE  StatusInv'
      BY <1>1, <2>1, WorkStatus, CloseStatus, AcknowledgeStatus
    <2>2. CASE \/ \E o \in Ops : RetryOperation(o) \/ CancelOperation(o)
               \/ \E p \in Proposals : SubmitRollback(p)
               \/ \E w \in Writers : \/ ClaimOperation(w)
                                     \/ \E o \in Ops : ResumeNamed(w, o)
                                     \/ \E p \in Proposals : RollbackNow(w, p)
      BY <1>1, <2>2, RequestStatus
    <2>3. ASSUME NEW w \in Writers, NEW p \in Proposals,
                 AutoPrepare(w, p) \/ PrepareRow(w, p) \/ DeliverRow(w, p)
          PROVE  StatusInv'
      BY <1>1, <2>3, AutoPrepareStatus, PrepareRowStatus, DeliverRowStatus
    <2>4. CASE Decides
      <3>1. Settled /\ RowIsDecided' /\ UNCHANGED <<op, apps>>
        BY <1>1, <2>4, DecideStatus DEF StatusInv
      <3>2. Tame(0)
        BY <1>1, <3>1, EasedIsTame DEF StatusInv
      <3> QED
        BY <1>1, <3>1, <3>2, StatusKept
    <2>5. CASE Operator /\ UNCHANGED <<opVars, proposalVars, decisionVars, row,
                                       writerVars, historyVars, events>>
      <3>1. UNCHANGED <<op, apps, pstatus, row>>
        BY <2>5 DEF opVars, proposalVars
      <3>2. Tame(0)
        BY <1>1, <3>1, EasedIsTame DEF StatusInv
      <3> QED
        BY <1>1, <3>1, <3>2, QuietStatus
    <2> QED
      BY <1>1, <2>1, <2>2, <2>3, <2>4, <2>5, Steps
  <1>2. ASSUME StatusInv, UNCHANGED vars, IndInv'
        PROVE  StatusInv'
    <2>1. UNCHANGED <<op, apps, pstatus, row>>
      BY <1>2 DEF vars, opVars, proposalVars
    <2>2. Tame(0)
      BY <1>2, <2>1, EasedIsTame DEF StatusInv
    <2> QED
      BY <1>2, <2>1, <2>2, QuietStatus
  <1> QED
    BY <1>0, <1>1, <1>2

LEMMA InitStatusInv == Init => StatusInv
  <1> SUFFICES ASSUME Init
               PROVE  StatusInv
    OBVIOUS
  <1>1. IndInv
    BY InitIndInv
  <1>2. /\ \A o \in Ops : op[o] = None
        /\ \A p \in Proposals : pstatus[p] = "none" /\ row[p].state = "none"
    BY DEF Init
  <1>3. OneAuto /\ AppliedIsClosed /\ RowIsDecided /\ StatusMatchesEvents
    BY <1>2 DEF OneAuto, AppliedIsClosed, RowIsDecided, StatusMatchesEvents
  <1> QED
    BY <1>1, <1>3 DEF StatusInv

\* One automatic edit for each proposal, none of them open once its proposal is
\* applied or rolled back (_resume_write_operation, apply_proposal).
THEOREM StatusInvHolds == Spec => []StatusInv
  BY InitStatusInv, NextStatusInv, PTL DEF Spec

\* The status the dashboard shows agrees with the recorded applications and
\* rollbacks (_resume_rollback_operation, apply_proposal).
THEOREM StatusesMatchEvents == Spec => []StatusMatchesEvents
  <1>1. StatusInv => StatusMatchesEvents
    BY DEF StatusInv
  <1> QED
    BY <1>1, StatusInvHolds, PTL


-----------------------------------------------------------------------------
\* The places and the records of the writes to them.

\* An open write whose place reads as it did, or that only the operator
\* touched, stands as before.
LEMMA InPlaceKept ==
  ASSUME Records, OpTyped, NEW o \in Ops, op[o] # None, InPlace(o), Carried(o),
         o \in published' <=> o \in published,
         \/ ByHand
         \/ \A d \in Dests : Opens(o, ResourceOf[d]) /\ DestOf[op[o].prop] = d => SamePlace(d)
  PROVE  InPlace(o)'
  <1>1. op'[o] # None /\ SameEdit(o) /\ (Unreconciled(o)' => Unreconciled(o))
    BY DEF Carried
  <1>2. ASSUME NEW d \in Dests, NEW dlv \in DeliveryRecord, NEW written \in BOOLEAN,
               Prepared(o, d, dlv)', Unreconciled(o)', written <=> o \in published'
        PROVE  Stands(d, dlv, written)'
    <2>1. Prepared(o, d, dlv) /\ Unreconciled(o)
      BY <1>1, <1>2 DEF Prepared, SameEdit
    <2>2. Stands(d, dlv, written)
      BY <1>2, <2>1 DEF InPlace
    <2>3. TrueRecord(d, dlv)
      BY <2>1 DEF Records, RecordFits, Prepared
    <2>4. CASE ByHand
      BY <2>2, <2>3, <2>4, StandsByHand
    <2>5. CASE \A e \in Dests : Opens(o, ResourceOf[e]) /\ DestOf[op[o].prop] = e => SamePlace(e)
      <3>1. Opens(o, ResourceOf[d]) /\ DestOf[op[o].prop] = d
        BY <2>1 DEF Opens, Prepared
      <3>2. SamePlace(d)
        BY <2>5, <3>1
      <3> QED
        BY <2>2, <3>2, StandsInSamePlace
    <2> QED
      BY <2>4, <2>5
  <1> QED
    BY <1>2 DEF InPlace

\* A step that carries the records, but for one of its own, and makes no write.
LEMMA PlacedKept ==
  ASSUME IndInv, Placed, UNCHANGED published, NEW n \in Ops \cup {0},
         \A o \in Ops \ {n} : Carried(o),
         n \in Ops => n \notin published /\ InPlace(n)',
         \/ ByHand
         \/ \A o \in Ops, d \in Dests : Opens(o, ResourceOf[d]) /\ DestOf[op[o].prop] = d => SamePlace(d)
  PROVE  Placed'
  <1>0. OpTyped /\ Records /\ published \subseteq Ops
    BY TypeParts DEF IndInv, HistoryTypes
  <1>1. ASSUME NEW o \in Ops, o # n, op'[o] # None
        PROVE  InPlace(o)'
    <2>1. op[o] # None /\ Carried(o) /\ InPlace(o)
      BY <1>1 DEF Carried, Placed
    <2> QED
      BY <1>0, <2>1, InPlaceKept
  <1>2. \A o \in published' : op'[o] # None /\ op'[o].delivery # None
    BY <1>0 DEF Placed, Carried, SameEdit
  <1> QED
    BY <1>1, <1>2 DEF Placed

\* The steps of the web process and of a writer that touch no place, in which
\* no operation is prepared.
LEMMA StillPlaced ==
  ASSUME IndInv, Placed, UNCHANGED worldVars, UNCHANGED published,
         NEW n \in Ops \cup {0}, \A o \in Ops \ {n} : Carried(o),
         n \in Ops => op[n] = None /\ op'[n].delivery = None
  PROVE  Placed'
  <1>1. \A d \in Dests : SamePlace(d)
    BY WorldStays, TypeParts DEF IndInv
  <1>2. n \in Ops => n \notin published /\ InPlace(n)'
    BY NoneIsNothing DEF Placed, InPlace, Prepared
  <1> QED
    BY <1>1, <1>2, PlacedKept

\* What is prepared is not written: its place holds what it held.
LEMMA PreparedInPlace ==
  ASSUME IndInv, Placed, UNCHANGED published, NEW n \in Ops,
         \A o \in Ops \ {n} : Carried(o), n \notin published,
         \A e \in Dests : SamePlace(e),
         NEW d \in Dests, NEW dlv \in DeliveryRecord, op'[n] # None, op'[n].delivery = dlv,
         DestOf[op'[n].prop] = d, Stands(d, dlv, FALSE)'
  PROVE  Placed'
  <1>1. InPlace(n)'
    <2>1. ASSUME NEW e \in Dests, NEW x \in DeliveryRecord, NEW written \in BOOLEAN,
                 Prepared(n, e, x)', Unreconciled(n)', written <=> n \in published'
          PROVE  Stands(e, x, written)'
      <3>1. e = d /\ x = dlv
        BY <2>1 DEF Prepared
      <3>2. written = FALSE
        BY <2>1
      <3> QED
        BY <3>1, <3>2
    <2> QED
      BY <2>1 DEF InPlace
  <1> QED
    BY <1>1, PlacedKept

LEMMA AutoPreparePlaced ==
  ASSUME IndInv, Placed, NEW w \in Writers, NEW p \in Proposals, AutoPrepare(w, p)
  PROVE  Placed'
  <1>0. /\ WorldTypeOK /\ OpTyped /\ RefsExist /\ Numbered /\ DestOf[p] \in Dests
    BY TypeParts, OperationsAssumption DEF IndInv
  <1>1. PICK id \in Ops, dlv \in DeliveryRecord :
            /\ id = NextId /\ op[id] = None /\ AutoRecord(id, p, dlv)
            /\ op' = [op EXCEPT ![id] = op'[id]]
            /\ op'[id] \in Operation /\ op'[id] # None /\ op'[id].kind = "auto_apply"
            /\ op'[id].prop = p /\ op'[id].delivery = dlv /\ op'[id].state = "running"
            /\ op'[id].cancelReq = FALSE
            /\ Prepares(DestOf[p], dlv) /\ p \in dlv.after.rules
            /\ PrepareBranchCommit(DestOf[p], dlv)
            /\ TakeLock(w, id)
    BY AutoPrepareEffect
  <1>2. UNCHANGED <<file, head, branch, checkedOut, external, disturbed, published>>
    BY DEF AutoPrepare, historyVars
  <1>3. (\A e \in Dests : SamePlace(e)) /\ Stands(DestOf[p], dlv, FALSE)'
    BY <1>0, <1>1, <1>2, PrepareKeeps
  <1>4. \A o \in Ops \ {id} : op'[o] = op[o]
    BY <1>0, <1>1 DEF OpTyped
  <1>5. \A o \in Ops \ {id} : Carried(o)
    BY <1>4 DEF Carried, SameEdit, Unreconciled
  <1>6. id \notin published
    BY <1>1 DEF Placed
  <1> QED
    BY <1>0, <1>1, <1>2, <1>3, <1>5, <1>6, PreparedInPlace

LEMMA PrepareRollbackPlaced ==
  ASSUME IndInv, Placed, NEW w \in Writers, PrepareRollback(w)
  PROVE  Placed'
  <1>0. /\ WorldTypeOK /\ OpTyped /\ RefsExist /\ Numbered
    BY TypeParts DEF IndInv
  <1>1. PICK o \in Ops, d \in Dests, dlv \in DeliveryRecord :
            /\ o = job[w] /\ d = Dest(o) /\ AtWork(w, o) /\ InHand(w, o)
            /\ op[o] \in Operation /\ op[o].kind = "rollback" /\ op[o].delivery = None
            /\ op' = [op EXCEPT ![o] = [op[o] EXCEPT !.delivery = dlv, !.cancelled = FALSE]]
            /\ Prepares(d, dlv) /\ op[o].prop \notin dlv.after.rules
            /\ PrepareBranchCommit(d, dlv)
            /\ ~ResourceBusy(d, o)
    BY PrepareRollbackEffect
  <1>2. UNCHANGED <<file, head, branch, checkedOut, external, disturbed, published>>
    BY DEF PrepareRollback, historyVars
  <1>3. (\A e \in Dests : SamePlace(e)) /\ Stands(d, dlv, FALSE)'
    BY <1>0, <1>1, <1>2, PrepareKeeps
  <1>4. /\ \A x \in Ops \ {o} : op'[x] = op[x]
        /\ op'[o] = [op[o] EXCEPT !.delivery = dlv, !.cancelled = FALSE]
    BY <1>0, <1>1 DEF OpTyped
  <1>5. \A x \in Ops \ {o} : Carried(x)
    BY <1>4 DEF Carried, SameEdit, Unreconciled
  <1>6. o \notin published
    BY <1>1 DEF Placed
  <1>7. op'[o] # None /\ op'[o].delivery = dlv /\ op'[o].prop = op[o].prop
    <2> DEFINE r == [op[o] EXCEPT !.delivery = dlv, !.cancelled = FALSE]
    <2>1. FALSE \in BOOLEAN /\ dlv \in DeliveryRecord \cup {None}
      OBVIOUS
    <2>2. r \in Operation
      BY <1>1, <2>1 DEF Operation
    <2>3. r.delivery = dlv /\ r.prop = op[o].prop
      BY <1>1 DEF Operation
    <2> QED
      BY <1>4, <2>2, <2>3, NoneIsNothing
  <1>8. DestOf[op'[o].prop] = d
    BY <1>1, <1>7 DEF Dest
  <1> QED
    BY <1>1, <1>2, <1>3, <1>5, <1>6, <1>7, <1>8, PreparedInPlace

\* A write is made: the others are on other files and branches.
LEMMA PublishPlaced ==
  ASSUME IndInv, Placed, NEW w \in Writers, Publish(w)
  PROVE  Placed'
  <1>0. /\ WorldTypeOK /\ OpTyped /\ RefsExist /\ Numbered /\ OneOpen /\ Records
        /\ published \subseteq Ops
    BY TypeParts DEF IndInv, HistoryTypes
  <1>1. PICK o \in Ops, d \in Dests, dlv \in DeliveryRecord :
            /\ o = job[w] /\ d = Dest(o) /\ AtWork(w, o) /\ InHand(w, o)
            /\ op[o] \in Operation /\ Prepared(o, d, dlv) /\ Unreconciled(o)
            /\ TrueRecord(d, dlv)
            /\ d \in GitDests => dlv.commit \in 1..Len(log[ResourceOf[d]])
            /\ PublishPreparedWrite(d, dlv)
            /\ published' = published \cup {o}
    BY PublishEffect
  <1>2. UNCHANGED op
    BY DEF Publish, opVars
  <1>3. /\ \A e \in Dests : ResourceOf[e] # ResourceOf[d] => SamePlace(e)
        /\ Stands(d, dlv, TRUE)'
    BY <1>0, <1>1, PublishedPlaces
  <1>4. Eased
    BY <1>0, <1>2, OpKept
  <1>5. Opens(o, ResourceOf[d]) /\ ResourceOf[d] \in Resources
    BY <1>1 DEF Opens, Prepared, Resources
  <1>6. ASSUME NEW x \in Ops, x # o, op'[x] # None
        PROVE  InPlace(x)'
    <2>1. op[x] # None /\ InPlace(x) /\ Carried(x)
      BY <1>2, <1>4, <1>6 DEF Placed, Eased
    <2>2. \A e \in Dests : Opens(x, ResourceOf[e]) /\ DestOf[op[x].prop] = e => SamePlace(e)
      BY <1>0, <1>3, <1>5, <1>6 DEF OneOpen
    <2>3. x \in published' <=> x \in published
      BY <1>1, <1>6
    <2> QED
      BY <1>0, <2>1, <2>2, <2>3, InPlaceKept
  <1>7. InPlace(o)'
    <2>1. ASSUME NEW e \in Dests, NEW y \in DeliveryRecord, NEW written \in BOOLEAN,
                 Prepared(o, e, y)', Unreconciled(o)', written <=> o \in published'
          PROVE  Stands(e, y, written)'
      <3>1. e = d /\ y = dlv
        BY <1>1, <1>2, <2>1 DEF Prepared
      <3>2. written = TRUE
        BY <1>1, <2>1
      <3> QED
        BY <1>3, <3>1, <3>2
    <2> QED
      BY <2>1 DEF InPlace
  <1>8. \A x \in published' : op'[x] # None /\ op'[x].delivery # None
    BY <1>1, <1>2, NoneIsNothing DEF Placed, Prepared
  <1> QED
    BY <1>6, <1>7, <1>8 DEF Placed

\* A row is prepared or delivered: no operation has an open write there.
LEMMA RowPlaced ==
  ASSUME IndInv, Placed, NEW w \in Writers, NEW p \in Proposals, PrepareRow(w, p) \/ DeliverRow(w, p)
  PROVE  Placed'
  <1>0. OpTyped
    BY TypeParts DEF IndInv
  <1>1. UNCHANGED <<op, published>>
    BY DEF PrepareRow, DeliverRow, opVars, historyVars
  <1>2. \A o \in Ops : Carried(o)
    BY <1>0, <1>1, OpKept DEF Eased
  <1>3. CASE PrepareRow(w, p)
    <2>1. \A e \in Dests : SamePlace(e)
      BY <1>3, PrepareRowEffect
    <2>2. 0 \notin Ops
      BY Countable, OperationsAssumption
    <2> QED
      BY <1>1, <1>2, <2>1, <2>2, PlacedKept
  <1>4. CASE DeliverRow(w, p)
    <2>1. /\ \A o \in Ops : ~Opens(o, ResourceOf[DestOf[p]])
          /\ \A e \in Dests : ResourceOf[e] # ResourceOf[DestOf[p]] => SamePlace(e)
      BY <1>4, DeliverRowEffect
    <2>2. 0 \notin Ops
      BY Countable, OperationsAssumption
    <2>3. \A o \in Ops, d \in Dests : Opens(o, ResourceOf[d]) /\ DestOf[op[o].prop] = d => SamePlace(d)
      BY <2>1
    <2> QED
      BY <1>1, <1>2, <2>2, <2>3, PlacedKept
  <1> QED
    BY <1>3, <1>4

\* The steps that touch no place.
LEMMA QuietPlaced ==
  ASSUME IndInv, Placed,
         \/ Decides
         \/ \E o \in Ops : RetryOperation(o) \/ CancelOperation(o)
         \/ \E p \in Proposals : SubmitRollback(p)
         \/ \E w \in Writers :
             \/ ClaimOperation(w)
             \/ \E o \in Ops : ResumeNamed(w, o)
             \/ \E p \in Proposals : RollbackNow(w, p)
             \/ Start(w) \/ Proceeds(w) \/ Fails(w)
             \/ Closes(w) \/ Acknowledge(w) \/ RecordFailure(w) \/ Crash(w)
  PROVE  Placed'
  <1>0. OpTyped /\ 0 \notin Ops
    BY TypeParts, Countable, OperationsAssumption DEF IndInv
  <1>1. ASSUME UNCHANGED worldVars, UNCHANGED published, \A o \in Ops : Carried(o)
        PROVE  Placed'
    BY <1>0, <1>1, StillPlaced
  <1>2. ASSUME UNCHANGED worldVars, UNCHANGED published, UNCHANGED op
        PROVE  Placed'
    BY <1>0, <1>1, <1>2, OpKept DEF Eased
  <1>3. CASE Decides
    BY <1>2, <1>3, DecideTypes DEF opVars, historyVars
  <1>4. ASSUME NEW o \in Ops, RetryOperation(o) \/ CancelOperation(o)
        PROVE  Placed'
    BY <1>1, <1>4, RetryEffect DEF Eased, historyVars
  <1>5. ASSUME UNCHANGED worldVars, UNCHANGED published, NEW p \in Proposals,
               RequestRollback(p, LatestApp(p), ReadDestination(DestOf[p]))
        PROVE  Placed'
    <2>1. LatestApp(p) # 0
      BY <1>5 DEF RequestRollback
    <2>2. PICK n \in Ops \cup {0} : Tame(n) /\ (n \in Ops => op[n] = None /\ op'[n].delivery = None)
      BY <1>5, <2>1, RequestIsTame
    <2>3. \A o \in Ops \ {n} : Carried(o)
      BY <2>2 DEF Tame, CarriedOpen
    <2> QED
      BY <1>5, <2>2, <2>3, StillPlaced
  <1>6. ASSUME NEW p \in Proposals, SubmitRollback(p)
        PROVE  Placed'
    BY <1>5, <1>6 DEF SubmitRollback, historyVars
  <1>7. ASSUME NEW w \in Writers, ClaimOperation(w) \/ \E o \in Ops : ResumeNamed(w, o)
        PROVE  Placed'
    <2>1. UNCHANGED worldVars /\ UNCHANGED published /\ UNCHANGED op
      BY <1>7 DEF ClaimOperation, ResumeNamed, historyVars
    <2> QED
      BY <1>2, <2>1
  <1>8. ASSUME NEW w \in Writers, NEW p \in Proposals, RollbackNow(w, p)
        PROVE  Placed'
    <2>1. UNCHANGED worldVars /\ UNCHANGED published
      BY <1>8 DEF RollbackNow, historyVars
    <2>2. \/ RequestRollback(p, LatestApp(p), ReadDestination(DestOf[p]))
          \/ UNCHANGED op
      BY <1>8 DEF RollbackNow
    <2> QED
      BY <1>2, <1>5, <2>1, <2>2
  <1>9. ASSUME NEW w \in Writers, Start(w)
        PROVE  Placed'
    <2>1. Eased /\ UNCHANGED worldVars /\ UNCHANGED published
      BY <1>9, StartStep DEF Start
    <2> QED
      BY <1>1, <2>1 DEF Eased
  <1>10. ASSUME NEW w \in Writers, Proceeds(w) \/ Fails(w) \/ Crash(w)
         PROVE  Placed'
    <2>1. UNCHANGED worldVars /\ UNCHANGED published /\ UNCHANGED op
      BY <1>10 DEF Proceeds, PrepareUncancelled, ObserveDelivered, ObserveUnwritten, Observes,
         EnterTransaction, Fails, PrepareRefused, ObserveRefused, RefMoved, CallFails, Fail,
         Crash, opVars, historyVars
    <2> QED
      BY <1>2, <2>1
  <1>11. ASSUME NEW w \in Writers, Closes(w)
         PROVE  Placed'
    <2>1. pc[w] # "idle" /\ CloseUnwritten(w)
      BY <1>11 DEF Closes, PrepareCancelled, ObserveClosed, Observes
    <2>2. \A x \in Ops : Carried(x)
      BY <2>1, CloseEffect
    <2>3. UNCHANGED worldVars /\ UNCHANGED published
      BY <2>1 DEF CloseUnwritten, historyVars
    <2> QED
      BY <1>1, <2>2, <2>3
  <1>12. ASSUME NEW w \in Writers, Acknowledge(w)
         PROVE  Placed'
    <2>1. \A x \in Ops : Carried(x)
      BY <1>12, AcknowledgeEffect
    <2>2. UNCHANGED worldVars /\ UNCHANGED published
      BY <1>12 DEF Acknowledge, historyVars
    <2> QED
      BY <1>1, <2>1, <2>2
  <1>13. ASSUME NEW w \in Writers, RecordFailure(w)
         PROVE  Placed'
    BY <1>1, <1>13, RecordFailureEffect DEF historyVars
  <1> QED
    BY <1>3, <1>4, <1>6, <1>7, <1>8, <1>9, <1>10, <1>11, <1>12, <1>13


LEMMA NextPlaced ==
  ASSUME IndInv, Placed, [Next]_vars
  PROVE  Placed'
  <1>1. CASE Operator /\ UNCHANGED <<opVars, proposalVars, decisionVars, row,
                                     writerVars, historyVars, events>>
    <2>1. UNCHANGED <<op, published>> /\ ByHand /\ 0 \notin Ops
      BY <1>1, OperatorKeeps, Countable, OperationsAssumption DEF opVars, historyVars
    <2>2. \A o \in Ops : Carried(o)
      BY <2>1, OpKept, TypeParts DEF IndInv, Eased
    <2> QED
      BY <2>1, <2>2, PlacedKept
  <1>2. CASE UNCHANGED vars
    <2>1. UNCHANGED worldVars /\ UNCHANGED op /\ UNCHANGED published /\ 0 \notin Ops
      BY <1>2, Countable, OperationsAssumption DEF vars, opVars, historyVars
    <2>2. \A o \in Ops : Carried(o)
      BY <2>1, OpKept, TypeParts DEF IndInv, Eased
    <2> QED
      BY <2>1, <2>2, StillPlaced
  <1>3. CASE Next
    <2>1. ASSUME NEW w \in Writers,
                 \/ ClaimOperation(w)
                 \/ \E o \in Ops : ResumeNamed(w, o)
                 \/ \E p \in Proposals : RollbackNow(w, p)
                 \/ Start(w) \/ Proceeds(w) \/ Fails(w)
                 \/ Closes(w) \/ Acknowledge(w) \/ RecordFailure(w) \/ Crash(w)
          PROVE  Placed'
      BY <2>1, QuietPlaced
    <2>2. ASSUME NEW w \in Writers, PrepareRollback(w) \/ Publish(w)
          PROVE  Placed'
      BY <2>2, PrepareRollbackPlaced, PublishPlaced
    <2>3. ASSUME NEW w \in Writers, NEW p \in Proposals,
                 AutoPrepare(w, p) \/ PrepareRow(w, p) \/ DeliverRow(w, p)
          PROVE  Placed'
      BY <2>3, AutoPreparePlaced, RowPlaced
    <2>4. CASE \/ Decides
               \/ \E o \in Ops : RetryOperation(o) \/ CancelOperation(o)
               \/ \E p \in Proposals : SubmitRollback(p)
      BY <2>4, QuietPlaced
    <2> QED
      BY <1>1, <1>3, <2>1, <2>2, <2>3, <2>4, Steps
  <1> QED
    BY <1>1, <1>2, <1>3

\* While a writer is in the transaction around its write, only the operator,
\* the end of a run and the writer itself go on.
Aside == UNCHANGED <<op, apps, pstatus, evalOf, createdAt, rejected, undone, policy,
                     txn, pc, job, published>> /\ disturbed \subseteq disturbed'

\* How a writer comes to stand before or after its write.
LEMMA NearWrite ==
  ASSUME IndInv, Next, NEW w \in Writers, pc'[w] \in {"publish", "acknowledge"}
  PROVE  \/ pc'[w] = "publish" /\ ObserveUnwritten(w)
         \/ pc'[w] = "acknowledge" /\ (ObserveDelivered(w) \/ Publish(w))
         \/ Aside
  <1>0. WriterTypes /\ Hands
    BY TypeParts DEF IndInv
  <1>1. pc[w] # "idle" => job[w] \in Ops /\ writeLock = w
    BY <1>0 DEF Hands
  <1>2. pc[w] \in {"publish", "acknowledge"} => txn = w /\ w # NoWriter
    <2>1. pc[w] # "idle" => InHand(w, job[w])
      BY WriterHolds
    <2> QED
      BY <2>1, OperationsAssumption DEF InHand
  <1>3. ASSUME UNCHANGED pc, txn = NoWriter \/ writeLock = NoWriter
        PROVE  FALSE
    BY <1>1, <1>2, <1>3, OperationsAssumption
  <1>4. CASE Decides
    <2>1. CASE RunEnds
      BY <2>1 DEF RunEnds, Aside, worldVars, opVars, decisionVars, writerVars, historyVars
    <2>2. CASE ~RunEnds
      <3>1. UNCHANGED pc
        BY <1>4, DecideTypes DEF writerVars
      <3>2. txn = NoWriter \/ writeLock = NoWriter
        BY <1>4, <2>2
        DEF Decides, SetClassPolicy, UndoElsewhere, BuildProposal, Regate, RejectLesson,
            ApproveEdit, AutoHold, DropRow, RowStep, Free
      <3> QED
        BY <1>3, <3>1, <3>2
    <2> QED
      BY <2>1, <2>2
  <1>5. CASE \/ \E o \in Ops : RetryOperation(o) \/ CancelOperation(o)
             \/ \E p \in Proposals : SubmitRollback(p)
    <2>1. txn = NoWriter /\ UNCHANGED pc
      BY <1>5 DEF RetryOperation, CancelOperation, SubmitRollback, writerVars
    <2> QED
      BY <1>3, <2>1
  <1>6. ASSUME NEW v \in Writers,
               \/ ClaimOperation(v)
               \/ \E o \in Ops : ResumeNamed(v, o)
               \/ \E p \in Proposals : RollbackNow(v, p)
               \/ \E p \in Proposals : AutoPrepare(v, p)
        PROVE  FALSE
    <2>1. writeLock = NoWriter /\ pc' = [pc EXCEPT ![v] = "start"]
      BY <1>6 DEF ClaimOperation, ResumeNamed, RollbackNow, AutoPrepare, Free, TakeLock, Goto
    <2>2. pc[w] = "idle"
      BY <1>1, <2>1, OperationsAssumption
    <2> QED
      BY <1>0, <2>1, <2>2 DEF WriterTypes
  <1>7. ASSUME NEW v \in Writers, NEW p \in Proposals, PrepareRow(v, p) \/ DeliverRow(v, p)
        PROVE  FALSE
    <2>1. txn = NoWriter /\ UNCHANGED pc
      BY <1>7 DEF PrepareRow, DeliverRow, RowStep, writerVars
    <2> QED
      BY <1>3, <2>1
  <1>8. ASSUME NEW v \in Writers,
               \/ Start(v) \/ Proceeds(v) \/ Fails(v) \/ PrepareRollback(v) \/ Publish(v)
               \/ Closes(v) \/ Acknowledge(v) \/ RecordFailure(v) \/ Crash(v)
        PROVE  \/ pc'[w] = "publish" /\ ObserveUnwritten(w)
               \/ pc'[w] = "acknowledge" /\ (ObserveDelivered(w) \/ Publish(w))
    <2>1. pc[v] # "idle"
      BY <1>8 DEF Start, Proceeds, PrepareUncancelled, ObserveDelivered, ObserveUnwritten,
         Observes, Fails, PrepareRefused, ObserveRefused, RefMoved, CallFails, PrepareRollback,
         Publish, Closes, PrepareCancelled, ObserveClosed, Acknowledge, RecordFailure, Crash
    <2>2. \E l \in Labels :
              /\ pc' = [pc EXCEPT ![v] = l]
              /\ \/ l \notin {"publish", "acknowledge"}
                 \/ l = "publish" /\ ObserveUnwritten(v)
                 \/ l = "acknowledge" /\ (ObserveDelivered(v) \/ Publish(v))
      <3>1. CASE Start(v)
        BY <3>1 DEF Start, Goto, Labels
      <3>2. CASE Proceeds(v)
        BY <3>2 DEF Proceeds, PrepareUncancelled, ObserveDelivered, ObserveUnwritten,
           EnterTransaction, Goto, Labels
      <3>3. CASE Fails(v)
        BY <3>3, FailsEffect DEF Fail, Goto, Labels
      <3>4. CASE PrepareRollback(v) \/ Publish(v)
        BY <3>4 DEF PrepareRollback, Publish, Goto, Labels
      <3>5. CASE Closes(v) \/ Acknowledge(v) \/ RecordFailure(v) \/ Crash(v)
        BY <3>5 DEF Closes, PrepareCancelled, ObserveClosed, CloseUnwritten, Acknowledge,
           RecordFailure, Crash, Leave, Goto, Labels
      <3> QED
        BY <1>8, <3>1, <3>2, <3>3, <3>4, <3>5
    <2>3. CASE v = w
      BY <1>0, <2>2, <2>3 DEF WriterTypes
    <2>4. CASE v # w
      <3>1. pc[w] = "idle"
        BY <1>0, <2>1, <2>4, OthersIdle
      <3> QED
        BY <1>0, <2>2, <2>4, <3>1 DEF WriterTypes
    <2> QED
      BY <2>3, <2>4
  <1>9. CASE Operator /\ UNCHANGED <<opVars, proposalVars, decisionVars, row,
                                     writerVars, historyVars, events>>
    <2>1. ByHand
      BY <1>9, OperatorKeeps
    <2> QED
      BY <1>9, <2>1 DEF ByHand, Aside, opVars, proposalVars, decisionVars, writerVars, historyVars
  <1> QED
    BY <1>4, <1>5, <1>6, <1>7, <1>8, <1>9, Steps

\* The reason a writer had is still good.
LEMMA ReasonKept ==
  ASSUME Aside, NEW w \in Writers, NEW o \in Ops, Reason(w, o)
  PROVE  Reason(w, o)'
  BY DEF Aside, Reason, MayWrite, SameApplication, LatestApp, AppsOf, StillPermitted, Unchanged,
     Permitted, Suppressed, UndoneElsewhere, Dest

LEMMA NextReasoned ==
  ASSUME IndInv, Placed, Reasoned, [Next]_vars
  PROVE  Reasoned'
  <1>1. CASE UNCHANGED vars
    <2>1. Aside
      BY <1>1 DEF vars, Aside, worldVars, opVars, proposalVars, decisionVars, writerVars, historyVars
    <2>2. ASSUME NEW w \in Writers, NEW o \in Ops, AtWork(w, o)'
          PROVE  Reason(w, o)'
      <3>1. AtWork(w, o)
        BY <2>1, <2>2 DEF Aside, AtWork
      <3> QED
        BY <2>1, <3>1, ReasonKept DEF Reasoned
    <2> QED
      BY <2>2 DEF Reasoned
  <1>2. CASE Next
    <2> SUFFICES ASSUME NEW w \in Writers, NEW o \in Ops, AtWork(w, o)',
                        pc'[w] \in {"publish", "acknowledge"}
                 PROVE  Reason(w, o)'
      BY DEF Reasoned, Reason
    <2>1. CASE pc'[w] = "publish" /\ ObserveUnwritten(w)
      <3>1. /\ UNCHANGED <<op, apps, pstatus, evalOf, createdAt, rejected, undone, policy, job>>
            /\ MayWrite(job[w])
        BY <2>1 DEF ObserveUnwritten, EnterTransaction, opVars, proposalVars, decisionVars
      <3>2. MayWrite(o)
        BY <3>1 DEF AtWork
      <3>3. MayWrite(o)'
        BY <3>1, <3>2 DEF MayWrite, SameApplication, LatestApp, AppsOf, StillPermitted, Unchanged,
           Permitted, Suppressed, UndoneElsewhere
      <3> QED
        BY <2>1, <3>3 DEF Reason
    <2>2. CASE pc'[w] = "acknowledge" /\ ObserveDelivered(w)
      <3>1. /\ UNCHANGED <<op, published, job, disturbed>>
            /\ Seen(job[w]) /\ pc[w] = "observe"
        BY <2>2 DEF ObserveDelivered, Observes, EnterTransaction, opVars, historyVars, worldVars
      <3>2. o = job[w] /\ AtWork(w, o) /\ InHand(w, o) /\ op[o] \in Operation /\ Dest(o) \in Dests
        BY <3>1, WriterHolds DEF AtWork
      <3>3. PICK d \in Dests, dlv \in DeliveryRecord : d = Dest(o) /\ dlv = op[o].delivery
        BY <3>1, <3>2 DEF InHand, Operation
      <3>4. Prepared(o, d, dlv) /\ Unreconciled(o)
        BY <3>1, <3>2, <3>3, NoneIsNothing DEF InHand, Prepared, Dest
      <3>5. PICK written \in BOOLEAN : written <=> o \in published
        OBVIOUS
      <3>6. Stands(d, dlv, written)
        BY <3>2, <3>4, <3>5 DEF Placed, InPlace, InHand
      <3>7. Delivered(d, dlv)
        BY <3>1, <3>2, <3>3 DEF Seen
      <3>8. o \in published \/ d \in disturbed
        BY <3>5, <3>6, <3>7, SeenMeansWritten
      <3> QED
        BY <2>2, <3>1, <3>3, <3>8 DEF Reason, Dest
    <2>3. CASE pc'[w] = "acknowledge" /\ Publish(w)
      <3>1. UNCHANGED job /\ published' = published \cup {job[w]}
        BY <2>3 DEF Publish
      <3> QED
        BY <2>3, <3>1 DEF Reason, AtWork
    <2>4. CASE Aside
      <3>1. AtWork(w, o)
        BY <2>4 DEF Aside, AtWork
      <3> QED
        BY <2>4, <3>1, ReasonKept DEF Reasoned
    <2> QED
      BY <1>2, <2>1, <2>2, <2>3, <2>4, NearWrite
  <1> QED
    BY <1>1, <1>2

LEMMA InitPlaceInv == Init => PlaceInv
  <1> SUFFICES ASSUME Init
               PROVE  PlaceInv
    OBVIOUS
  <1>1. IndInv
    BY InitIndInv
  <1>2. /\ \A o \in Ops : op[o] = None
        /\ published = {}
        /\ \A w \in Writers : pc[w] = "idle"
    BY DEF Init
  <1>3. Placed /\ Reasoned
    BY <1>2 DEF Placed, Reasoned, AtWork
  <1> QED
    BY <1>1, <1>3 DEF PlaceInv

LEMMA NextPlaceInv == PlaceInv /\ [Next]_vars => PlaceInv'
  BY NextIndInv, NextPlaced, NextReasoned DEF PlaceInv

\* Every open write stands as the writes of this program say, and a writer
\* between its observation and its acknowledgement has reason to go on
\* (_observe_prepared_write, _resume_write_operation).
THEOREM PlaceInvHolds == Spec => []PlaceInv
  BY InitPlaceInv, NextPlaceInv, PTL DEF Spec

\* What a writer that is about to write may rely on.
LEMMA WriterMayWrite ==
  ASSUME PlaceInv, NEW w \in Writers, Writes(w)
  PROVE  job[w] \in Ops /\ op[job[w]] \in Operation /\ MayWrite(job[w])
  <1>1. pc[w] = "publish"
    BY DEF Writes
  <1>2. job[w] \in Ops /\ AtWork(w, job[w]) /\ op[job[w]] \in Operation
    BY <1>1, WriterHolds DEF PlaceInv
  <1> QED
    BY <1>1, <1>2 DEF PlaceInv, Reasoned, Reason

\* The policy, the evaluation, the lesson and the status that authorized an
\* automatic edit are in force at its write (_resume_write_operation).
THEOREM AutomaticWritesHaveAuthority == Spec => AutomaticWriteHasAuthority
  <1> DEFINE Good(w) ==
        LET o == job[w]
            p == op[o].prop
        IN  /\ pstatus[p] = "gated_pass" /\ evalOf[p] = op[o].eval
            /\ policy.enabled /\ policy.rev = op[o].policy
            /\ LessonOf[p] \notin rejected
            /\ ~UndoneElsewhere(p)
  <1>1. ASSUME PlaceInv, NEW w \in Writers, Writes(w), op[job[w]].kind = "auto_apply"
        PROVE  Good(w)
    <2>1. StillPermitted(job[w])
      BY <1>1, WriterMayWrite DEF MayWrite
    <2> QED
      BY <2>1 DEF StillPermitted, Unchanged, Permitted, Suppressed
  <1>2. PlaceInv => [\A w \in Writers : Writes(w) /\ op[job[w]].kind = "auto_apply" => Good(w)]_vars
    BY <1>1
  <1> QED
    BY <1>2, PlaceInvHolds, PTL DEF AutomaticWriteHasAuthority

\* A rollback is written only while the application it names is the latest one
\* of its proposal (_rollback_applications).
THEOREM RollbacksUndoTheirApplication == Spec => RollbackUndoesItsApplication
  <1>1. ASSUME PlaceInv, NEW w \in Writers, Writes(w), op[job[w]].kind = "rollback"
        PROVE  op[job[w]].app = LatestApp(op[job[w]].prop)
    BY <1>1, WriterMayWrite DEF MayWrite, SameApplication
  <1>2. PlaceInv => [\A w \in Writers : Writes(w) /\ op[job[w]].kind = "rollback" =>
                         op[job[w]].app = LatestApp(op[job[w]].prop)]_vars
    BY <1>1
  <1> QED
    BY <1>2, PlaceInvHolds, PTL DEF RollbackUndoesItsApplication


\* Who closes an operation, and what is then known of it.

\* A superseded intent has no prepared write.
LEMMA RequestCancels ==
  ASSUME OpTyped, NEW p, NEW a, NEW base, RequestRollback(p, a, base),
         NEW o \in Ops, op[o] # None, op[o].state # "cancelled", op'[o].state = "cancelled"
  PROVE  op[o].delivery = None
  <1>1. op[o] \in Operation
    BY RecordType
  <1>2. o \notin Uncancelled(a) => op'[o].state # "cancelled"
    <2>1. CASE o = IntentOn(a, base)
      <3>1. o \in Made
        BY DEF Made
      <3>2. op'[o] = CASE o = IntentOn(a, base) /\ o \in Made -> [op[o] EXCEPT !.state = "queued"]
                       [] o = IntentOn(a, base) /\ o \notin Made ->
                              [NewOperation("rollback", p) EXCEPT
                                  !.app = a, !.base = base, !.ref = BaseRef(DestOf[p])]
                       [] o \in Uncancelled(a) /\ (o > IntentOn(a, base) \/ IntentOn(a, base) \notin Made) ->
                              [op[o] EXCEPT !.state = "cancelled", !.cancelled = TRUE]
                       [] OTHER -> op[o]
        BY DEF RequestRollback
      <3>3. \/ op'[o] = [op[o] EXCEPT !.state = "queued"]
            \/ op'[o] = [op[o] EXCEPT !.state = "cancelled", !.cancelled = TRUE] /\ o \in Uncancelled(a)
        BY <2>1, <3>1, <3>2
      <3> QED
        BY <1>1, <3>3 DEF Operation
    <2>2. CASE o # IntentOn(a, base)
      <3>1. o \notin Uncancelled(a) => op'[o] = op[o]
        BY <2>2 DEF RequestRollback
      <3> QED
        BY <3>1
    <2> QED
      BY <2>1, <2>2
  <1>3. CommittedOrPrepared(a) = {}
    BY DEF RequestRollback
  <1> QED
    BY <1>2, <1>3 DEF CommittedOrPrepared

\* An operation is completed by its acknowledgement; it is cancelled by the
\* close of its writer, or before anything was prepared.
LEMMA WhoCloses ==
  ASSUME IndInv, Next, NEW o \in Ops, op[o] # None, op'[o].state # op[o].state
  PROVE  /\ op'[o].state = "completed" => \E w \in Writers : Acknowledge(w) /\ job[w] = o
         /\ op'[o].state = "cancelled" =>
                \/ op[o].delivery = None
                \/ \E w \in Writers : ObserveClosed(w) /\ job[w] = o
  <1>0. OpTyped /\ op[o] \in Operation
    BY TypeParts, RecordType DEF IndInv
  <1> DEFINE Good ==
        /\ op'[o].state = "completed" => \E w \in Writers : Acknowledge(w) /\ job[w] = o
        /\ op'[o].state = "cancelled" =>
                \/ op[o].delivery = None
                \/ \E w \in Writers : ObserveClosed(w) /\ job[w] = o
  <1>1. CASE Decides
    BY <1>1, DecideTypes DEF opVars
  <1>2. ASSUME NEW x \in Ops, RetryOperation(x) \/ CancelOperation(x)
        PROVE  Good
    <2>1. CASE RetryOperation(x)
      <3>1. op' = [op EXCEPT ![x] = [op[x] EXCEPT !.state = "queued"]]
        BY <2>1 DEF RetryOperation
      <3>2. op'[o].state = "queued"
        BY <1>0, <3>1 DEF OpTyped, Operation
      <3> QED
        BY <3>2
    <2>2. CASE CancelOperation(x)
      <3>1. op' = [op EXCEPT ![x] = [op[x] EXCEPT !.cancelReq = TRUE,
                        !.state = IF op[x].state = "running" THEN op[x].state ELSE "queued"]]
        BY <1>0, <2>2 DEF CancelOperation, OpTyped
      <3>2. op'[o].state \in {"queued", "running"}
        BY <1>0, <3>1 DEF OpTyped, Operation
      <3> QED
        BY <3>2
    <2> QED
      BY <1>2, <2>1, <2>2
  <1>3. ASSUME NEW p \in Proposals, RequestRollback(p, LatestApp(p), ReadDestination(DestOf[p]))
        PROVE  Good
    <2>1. LatestApp(p) # 0
      BY <1>3 DEF RequestRollback
    <2>2. PICK n \in Ops \cup {0} : Tame(n) /\ (n \in Ops => op[n] = None /\ op'[n].delivery = None)
      BY <1>3, <2>1, RequestIsTame
    <2>3. op'[o].state # "completed"
      BY <2>2 DEF Tame, CarriedOpen, Carried
    <2>4. op'[o].state = "cancelled" => op[o].delivery = None
      BY <1>0, <1>3, RequestCancels
    <2> QED
      BY <2>3, <2>4
  <1>4. ASSUME NEW w \in Writers,
               \/ ClaimOperation(w)
               \/ \E x \in Ops : ResumeNamed(w, x)
               \/ Proceeds(w) \/ Fails(w) \/ Publish(w) \/ Crash(w)
               \/ \E p \in Proposals : PrepareRow(w, p) \/ DeliverRow(w, p)
        PROVE  FALSE
    BY <1>4 DEF ClaimOperation, ResumeNamed, Proceeds, PrepareUncancelled, ObserveDelivered,
       ObserveUnwritten, EnterTransaction, Fails, PrepareRefused, ObserveRefused, RefMoved,
       CallFails, Fail, Publish, Crash, PrepareRow, DeliverRow, opVars
  <1>5. ASSUME NEW p \in Proposals, SubmitRollback(p)
        PROVE  Good
    BY <1>3, <1>5 DEF SubmitRollback
  <1>6. ASSUME NEW w \in Writers, NEW p \in Proposals, RollbackNow(w, p)
        PROVE  Good
    <2>1. RequestRollback(p, LatestApp(p), ReadDestination(DestOf[p])) \/ UNCHANGED op
      BY <1>6 DEF RollbackNow
    <2> QED
      BY <1>3, <2>1
  <1>7. ASSUME NEW w \in Writers, NEW p \in Proposals, AutoPrepare(w, p)
        PROVE  FALSE
    <2>1. PICK id \in Ops, dlv \in DeliveryRecord :
            /\ id = NextId /\ op[id] = None /\ AutoRecord(id, p, dlv)
            /\ op' = [op EXCEPT ![id] = op'[id]]
            /\ op'[id] \in Operation /\ op'[id] # None /\ op'[id].kind = "auto_apply"
            /\ op'[id].prop = p /\ op'[id].delivery = dlv /\ op'[id].state = "running"
            /\ op'[id].cancelReq = FALSE
            /\ Prepares(DestOf[p], dlv) /\ p \in dlv.after.rules
            /\ PrepareBranchCommit(DestOf[p], dlv)
            /\ TakeLock(w, id)
      BY <1>7, AutoPrepareEffect
    <2>2. op'[o] = op[o]
      BY <1>0, <2>1 DEF OpTyped
    <2> QED
      BY <2>2
  <1>8. ASSUME NEW w \in Writers, Start(w) \/ PrepareRollback(w)
        PROVE  op'[o].state \in {op[o].state, "running"}
    <2>1. CASE Start(w)
      <3>1. op' = [op EXCEPT ![job[w]] = [op[job[w]] EXCEPT !.state = "running"]]
        BY <2>1 DEF Start
      <3> QED
        BY <1>0, <3>1 DEF OpTyped, Operation
    <2>2. CASE PrepareRollback(w)
      <3>1. PICK x \in Ops, d \in Dests, dlv \in DeliveryRecord :
            /\ x = job[w] /\ d = Dest(x) /\ AtWork(w, x) /\ InHand(w, x)
            /\ op[x] \in Operation /\ op[x].kind = "rollback" /\ op[x].delivery = None
            /\ op' = [op EXCEPT ![x] = [op[x] EXCEPT !.delivery = dlv, !.cancelled = FALSE]]
            /\ Prepares(d, dlv) /\ op[x].prop \notin dlv.after.rules
            /\ PrepareBranchCommit(d, dlv)
            /\ ~ResourceBusy(d, x)
        BY <2>2, PrepareRollbackEffect
      <3>2. CASE x # o
        BY <1>0, <3>1, <3>2 DEF OpTyped
      <3>3. CASE x = o
        <4>1. op'[o] = [op[o] EXCEPT !.delivery = dlv, !.cancelled = FALSE]
          BY <1>0, <3>1, <3>3 DEF OpTyped
        <4> QED
          BY <1>0, <4>1 DEF Operation
      <3> QED
        BY <3>2, <3>3
    <2> QED
      BY <1>8, <2>1, <2>2
  <1>9. ASSUME NEW w \in Writers, Closes(w)
        PROVE  Good
    <2>1. pc[w] # "idle" /\ CloseUnwritten(w)
      BY <1>9 DEF Closes, PrepareCancelled, ObserveClosed, Observes
    <2>2. PICK x \in Ops :
            /\ x = job[w] /\ AtWork(w, x) /\ InHand(w, x) /\ op[x] \in Operation
            /\ OpTyped' /\ \A y \in Ops : Carried(y) /\ (y # x => op'[y] = op[y])
            /\ op'[x] # None /\ op'[x].state = "cancelled" /\ op'[x].cancelled
      BY <2>1, CloseEffect
    <2>3. o = x
      BY <2>2
    <2>4. PrepareCancelled(w) => op[o].delivery = None
      BY <2>2, <2>3 DEF PrepareCancelled, InHand
    <2> QED
      BY <1>9, <2>2, <2>3, <2>4 DEF Closes
  <1>10. ASSUME NEW w \in Writers, Acknowledge(w)
         PROVE  Good
    <2>1. PICK x \in Ops :
            /\ x = job[w] /\ AtWork(w, x) /\ InHand(w, x) /\ op[x] \in Operation
            /\ op[x].delivery # None /\ Unreconciled(x) /\ op[x].prop \in Proposals
            /\ OpTyped' /\ \A y \in Ops : Carried(y) /\ (y # x => op'[y] = op[y])
            /\ op'[x] # None /\ op'[x].state = "completed" /\ SameEdit(x)
      BY <1>10, AcknowledgeEffect
    <2>2. o = x
      BY <2>1
    <2> QED
      BY <1>10, <2>1, <2>2
  <1>11. ASSUME NEW w \in Writers, RecordFailure(w)
         PROVE  Good
    <2>1. op'[o] # None => (op'[o].state \in {"completed", "cancelled"} => op'[o].state = op[o].state)
      BY <1>11, RecordFailureEffect
    <2>2. op'[o] # None
      BY <1>11, RecordFailureEffect DEF Carried
    <2> QED
      BY <2>1, <2>2
  <1>12. CASE Operator /\ UNCHANGED <<opVars, proposalVars, decisionVars, row,
                                      writerVars, historyVars, events>>
    BY <1>12 DEF opVars
  <1>13. \A w \in Writers : Start(w) \/ PrepareRollback(w) => Good
    BY <1>8
  <1>14. Good
    BY <1>1, <1>2, <1>4, <1>5, <1>6, <1>7, <1>9, <1>10, <1>11, <1>12, <1>13, Steps
  <1> QED
    BY <1>14

\* What the record of an operation says when it is closed.
TrulyClosed(o) ==
    /\ op[o].state # "cancelled" /\ op'[o].state = "cancelled" /\ o \in published
       => Dest(o) \in disturbed
    /\ op[o].state # "completed" /\ op'[o].state = "completed"
       => \/ (op[o].prop \in ReadDestination(Dest(o)).rules) = (op[o].kind = "auto_apply")
          \/ Dest(o) \in disturbed

LEMMA ClosesTruly ==
  ASSUME PlaceInv, Next, NEW o \in Ops, op[o] # None
  PROVE  TrulyClosed(o)
  <1>0. IndInv /\ Placed /\ OpTyped
    BY TypeParts DEF PlaceInv, IndInv
  <1>1. ASSUME op[o].state # "cancelled", op'[o].state = "cancelled", o \in published
        PROVE  Dest(o) \in disturbed
    <2>1. op[o].delivery # None
      BY <1>0, <1>1 DEF Placed
    <2>2. PICK w \in Writers : ObserveClosed(w) /\ job[w] = o
      BY <1>0, <1>1, <2>1, WhoCloses
    <2>3. pc[w] = "observe" /\ Unseen(o)
      BY <2>2 DEF ObserveClosed, Observes
    <2>4. AtWork(w, o) /\ InHand(w, o) /\ op[o] \in Operation /\ Dest(o) \in Dests
      BY <1>0, <2>2, <2>3, WriterHolds
    <2>5. PICK d \in Dests, dlv \in DeliveryRecord : d = Dest(o) /\ dlv = op[o].delivery
      BY <2>1, <2>4 DEF Operation
    <2>6. Prepared(o, d, dlv) /\ Unreconciled(o)
      BY <2>1, <2>4, <2>5 DEF Prepared, Dest, InHand
    <2>7. Stands(d, dlv, TRUE) /\ TrueRecord(d, dlv)
      <3>1. TRUE \in BOOLEAN /\ (TRUE <=> o \in published)
        BY <1>1
      <3>2. InPlace(o) /\ RecordFits(o)
        BY <1>0 DEF Placed, IndInv, Records
      <3>3. Stands(d, dlv, TRUE)
        BY <2>6, <3>1, <3>2 DEF InPlace
      <3> QED
        BY <2>6, <3>2, <3>3 DEF RecordFits
    <2>8. ~Delivered(d, dlv) /\ Untouched(d, dlv)
      BY <2>3, <2>5 DEF Unseen, Seen
    <2>9. d \in disturbed
      BY <2>7, <2>8, UntouchedMeansUnwritten
    <2> QED
      BY <2>5, <2>9
  <1>2. ASSUME op[o].state # "completed", op'[o].state = "completed", Dest(o) \notin disturbed
        PROVE  (op[o].prop \in ReadDestination(Dest(o)).rules) = (op[o].kind = "auto_apply")
    <2>1. PICK w \in Writers : Acknowledge(w) /\ job[w] = o
      BY <1>0, <1>2, WhoCloses
    <2>2. pc[w] = "acknowledge"
      BY <2>1 DEF Acknowledge
    <2>3. AtWork(w, o) /\ InHand(w, o) /\ op[o] \in Operation /\ Dest(o) \in Dests
      BY <1>0, <2>1, <2>2, WriterHolds
    <2>4. op[o].delivery # None /\ o \in published
      BY <1>2, <2>2, <2>3 DEF InHand, PlaceInv, Reasoned, Reason
    <2>5. PICK d \in Dests, dlv \in DeliveryRecord : d = Dest(o) /\ dlv = op[o].delivery
      BY <2>3, <2>4 DEF Operation
    <2>6. Prepared(o, d, dlv) /\ Unreconciled(o)
      BY <2>3, <2>4, <2>5 DEF Prepared, Dest, InHand
    <2>7. Stands(d, dlv, TRUE)
      <3>1. TRUE \in BOOLEAN /\ (TRUE <=> o \in published)
        BY <2>4
      <3>2. InPlace(o)
        BY <1>0 DEF Placed
      <3> QED
        BY <2>6, <3>1, <3>2 DEF InPlace
    <2>8. (op[o].prop \in dlv.after.rules) <=> (op[o].kind = "auto_apply")
      BY <1>0, <2>6 DEF IndInv, Records, RecordFits
    <2>9. ReadDestination(d) = dlv.after
      BY <1>2, <2>5, <2>7 DEF Stands
    <2> QED
      BY <2>5, <2>8, <2>9
  <1> QED
    BY <1>1, <1>2 DEF TrulyClosed

\* An operation that is recorded as cancelled left nothing behind, and one that
\* is recorded as completed can be read in its place, unless the operator
\* changed it by hand (_cancel_instruction_operation, _resume_write_operation).
THEOREM OutcomesAreTrue == Spec => OutcomeIsTrue
  <1>1. ASSUME PlaceInv, Next
        PROVE  \A o \in Made : TrulyClosed(o)
    BY <1>1, ClosesTruly DEF Made
  <1>2. PlaceInv /\ [Next]_vars => [\A o \in Made : TrulyClosed(o)]_vars
    BY <1>1
  <1>3. PlaceInv /\ [Next]_vars =>
            [\A o \in Made :
                /\ op[o].state # "cancelled" /\ op'[o].state = "cancelled" /\ o \in published
                   => Dest(o) \in disturbed
                /\ op[o].state # "completed" /\ op'[o].state = "completed"
                   => \/ (op[o].prop \in ReadDestination(Dest(o)).rules) = (op[o].kind = "auto_apply")
                      \/ Dest(o) \in disturbed]_vars
    BY <1>2 DEF TrulyClosed
  <1> QED
    BY <1>3, PlaceInvHolds, PTL DEF Spec, OutcomeIsTrue

=============================================================================
