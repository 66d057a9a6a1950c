---------------------------- MODULE Destinations ----------------------------
(***************************************************************************)
(* Where an instruction edit lands: a plain file, or one path on the       *)
(* delivery branch of a git repository (destinations.py, and the observe   *)
(* and publish halves of apply.py).  The operator owns these places too    *)
(* and changes them at any moment, without any lock of the program.        *)
(*                                                                         *)
(* The text of a file is abstracted to what the properties tell apart: a   *)
(* version of the operator's own words, and the set of proposals whose     *)
(* edit the file holds.  Equal contents stand for equal SHA-256 hashes.    *)
(***************************************************************************)
EXTENDS Naturals, Sequences, FiniteSets

CONSTANTS
    Proposals,    \* reviewable edits
    Dests,        \* canonical destinations (destination_identity)
    GitDests,     \* those inside a git repository, written through a branch
    ResourceOf,   \* file -> itself, git path -> its repository and branch
    Texts,        \* versions of the operator's own text
    MaxExternal   \* BOUND: operator steps in a behaviour

ASSUME DestsAssumption ==
    /\ GitDests \subseteq Dests
    /\ \A d \in Dests \ GitDests : ResourceOf[d] = d
    /\ \A d \in GitDests : ResourceOf[d] \notin Dests
    /\ Texts # {}
    /\ MaxExternal \in Nat

VARIABLES
    file,        \* content of each plain-file destination
    log,         \* commits of each repository, by number
    head,        \* HEAD of each repository
    branch,      \* tip of its delivery branch, 0 when the ref is absent
    checkedOut,  \* repositories whose delivery branch a working copy has out
    external,    \* operator steps so far
    disturbed    \* history: destinations whose content the operator changed
                 \* by hand since the program last published there

worldVars == <<file, log, head, branch, checkedOut, external, disturbed>>

-----------------------------------------------------------------------------
Files == Dests \ GitDests
Repos == {ResourceOf[d] : d \in GitDests}
Paths(repo) == {d \in GitDests : ResourceOf[d] = repo}

Content == [text : Texts, rules : SUBSET Proposals]
Blank == [text |-> CHOOSE t \in Texts : TRUE, rules |-> {}]

\* A commit: itself and its ancestors, by number, and the tree it holds.
Commit == [anc : SUBSET Nat, tree : [GitDests -> Content]]

\* The tip a delivery is based on: the branch if it exists, else HEAD.
BranchBase(repo) == IF branch[repo] # 0 THEN branch[repo] ELSE head[repo]

\* read_destination: what the file, or the branch (or else HEAD), holds now.
ReadDestination(d) ==
    IF d \in GitDests
    THEN log[ResourceOf[d]][BranchBase(ResourceOf[d])].tree[d]
    ELSE file[d]

\* combine_edits over the base content; ready only for edits not there yet.
CombineEdits(base, proposals) == [base EXCEPT !.rules = @ \cup proposals]

-----------------------------------------------------------------------------
\* A prepared write: before and after content, and for git the base commit,
\* whether the branch existed, and the commit object made but not published.
DeliveryRecord == [before : Content, after : Content,
                   base : Nat, existed : BOOLEAN, commit : Nat]

FileDelivered(d, dlv) == file[d] = dlv.after
FileUntouched(d, dlv) == file[d] = dlv.before

\* Faulty variant: a squashed edit is not recognised once the branch is gone.
NoTreeHoldsAfterState(d, dlv) == FALSE

\* The branch is gone, but HEAD holds exactly the prepared after-state.
TreeHoldsAfterState(d, dlv) ==
    /\ branch[ResourceOf[d]] = 0
    /\ ReadDestination(d) = dlv.after

\* Faulty variant: the commit object is taken for the published commit.
ObjectDelivered(d, dlv) == dlv.commit <= Len(log[ResourceOf[d]])

GitDelivered(d, dlv) ==
    LET repo == ResourceOf[d]
    IN  \/ dlv.commit \in log[repo][BranchBase(repo)].anc
        \/ TreeHoldsAfterState(d, dlv)

GitUntouched(d, dlv) ==
    LET repo == ResourceOf[d]
    IN  \/ /\ BranchBase(repo) = dlv.base
           /\ (branch[repo] # 0) = dlv.existed
        \/ branch[repo] = 0 /\ ~dlv.existed

\* _observe_prepared_write: is the prepared write there, or provably not?
Delivered(d, dlv) ==
    IF d \in GitDests THEN GitDelivered(d, dlv) ELSE FileDelivered(d, dlv)
Untouched(d, dlv) ==
    IF d \in GitDests THEN GitUntouched(d, dlv) ELSE FileUntouched(d, dlv)

\* _refuse_checked_out_branch and _refuse_changed_moved_base.
BranchCheckedOut(d) == d \in GitDests /\ ResourceOf[d] \in checkedOut
ChangedMovedBase(d, dlv) ==
    /\ d \in GitDests
    /\ ~dlv.existed
    /\ branch[ResourceOf[d]] = 0
    /\ head[ResourceOf[d]] # dlv.base
    /\ ReadDestination(d) # dlv.before

\* Faulty variant: the ref is forced.
ForcedRef(d, dlv) == TRUE

\* git update-ref with its expected old value; an empty one means "absent".
RefMatches(d, dlv) ==
    branch[ResourceOf[d]] = IF dlv.existed THEN dlv.base ELSE 0

\* _prepare_write_checkpoint: the record, and the commit object it needs.
PreparedRecord(d, proposals) ==
    LET repo == ResourceOf[d]
        base == ReadDestination(d)
    IN  [before  |-> base,
         after   |-> CombineEdits(base, proposals),
         base    |-> IF d \in GitDests THEN BranchBase(repo) ELSE 0,
         existed |-> d \in GitDests /\ branch[repo] # 0,
         commit  |-> IF d \in GitDests THEN Len(log[repo]) + 1 ELSE 0]

ChildOf(repo, parents, tree) ==
    [anc  |-> (UNION {log[repo][k].anc : k \in parents}) \cup {Len(log[repo]) + 1},
     tree |-> tree]

PrepareBranchCommit(d, dlv) ==
    log' = IF d \in GitDests
           THEN LET repo == ResourceOf[d]
                IN  [log EXCEPT ![repo] = Append(@, ChildOf(repo, {dlv.base},
                        [log[repo][dlv.base].tree EXCEPT ![d] = dlv.after]))]
           ELSE log

\* _publish_prepared_write: an atomic rename, or one compare-and-swap of the
\* ref.  Only the ref is checked at the instant of the write.
PublishPreparedWrite(d, dlv) ==
    /\ disturbed' = disturbed \ {d}
    /\ IF d \in GitDests
       THEN /\ branch' = [branch EXCEPT ![ResourceOf[d]] = dlv.commit]
            /\ UNCHANGED file
       ELSE /\ file' = [file EXCEPT ![d] = dlv.after]
            /\ UNCHANGED branch
    /\ UNCHANGED <<log, head, checkedOut, external>>

-----------------------------------------------------------------------------
WorldInit ==
    /\ file = [d \in Files |-> Blank]
    /\ log = [r \in Repos |-> <<[anc |-> {1}, tree |-> [d \in GitDests |-> Blank]]>>]
    /\ head = [r \in Repos |-> 1]
    /\ branch = [r \in Repos |-> 0]
    /\ checkedOut = {}
    /\ external = 0
    /\ disturbed = {}

\* What a hand edit can make of a content: other words, or rules taken out.
HandEdits(c) == {e \in Content : e.rules \subseteq c.rules /\ e # c}

External == external < MaxExternal /\ external' = external + 1

EditFile(d) ==
    /\ External
    /\ \E c \in HandEdits(file[d]) : file' = [file EXCEPT ![d] = c]
    /\ disturbed' = disturbed \cup {d}
    /\ UNCHANGED <<log, head, branch, checkedOut>>

AddCommit(repo, parents, tree) ==
    log' = [log EXCEPT ![repo] = Append(@, ChildOf(repo, parents, tree))]
NextCommit(repo) == Len(log[repo]) + 1

\* A commit on HEAD that leaves every instruction file alone.
CommitElsewhere(repo) ==
    /\ External
    /\ AddCommit(repo, {head[repo]}, log[repo][head[repo]].tree)
    /\ head' = [head EXCEPT ![repo] = NextCommit(repo)]
    /\ UNCHANGED <<file, branch, checkedOut, disturbed>>

\* A commit that edits an instruction file by hand, on HEAD or on the branch.
HandCommit(repo, tip) ==
    /\ External
    /\ \E d \in Paths(repo) : \E c \in HandEdits(log[repo][tip].tree[d]) :
        /\ AddCommit(repo, {tip}, [log[repo][tip].tree EXCEPT ![d] = c])
        /\ disturbed' = disturbed \cup {d}
    /\ UNCHANGED <<file, checkedOut>>

CommitOnHead(repo) ==
    /\ HandCommit(repo, head[repo])
    /\ head' = [head EXCEPT ![repo] = NextCommit(repo)]
    /\ UNCHANGED branch

CommitOnBranch(repo) ==
    /\ branch[repo] # 0
    /\ HandCommit(repo, branch[repo])
    /\ branch' = [branch EXCEPT ![repo] = NextCommit(repo)]
    /\ UNCHANGED head

\* Merge the branch into HEAD, keeping its commits or squashing them away.
MergedTree(repo) ==
    LET mine == log[repo][head[repo]].tree
        theirs == log[repo][branch[repo]].tree
    IN  [d \in GitDests |-> [mine[d] EXCEPT !.rules = @ \cup theirs[d].rules]]

MergeBranch(repo, parents) ==
    /\ External
    /\ branch[repo] # 0
    /\ branch[repo] \notin log[repo][head[repo]].anc
    /\ AddCommit(repo, parents, MergedTree(repo))
    /\ head' = [head EXCEPT ![repo] = NextCommit(repo)]
    /\ UNCHANGED <<file, branch, checkedOut, disturbed>>

Merge(repo) == MergeBranch(repo, {head[repo], branch[repo]})
SquashMerge(repo) == MergeBranch(repo, {head[repo]})

\* Deleting the branch: HEAD is read from now on, and wherever it holds
\* something else the operator has changed the content.
DeleteBranch(repo) ==
    /\ External
    /\ branch[repo] # 0
    /\ repo \notin checkedOut
    /\ branch' = [branch EXCEPT ![repo] = 0]
    /\ disturbed' = disturbed \cup {d \in Paths(repo) :
           log[repo][branch[repo]].tree[d] # log[repo][head[repo]].tree[d]}
    /\ UNCHANGED <<file, log, head, checkedOut>>

\* git branch, at HEAD: it reads as before, and later deliveries build on it.
CreateBranch(repo) ==
    /\ External
    /\ branch[repo] = 0
    /\ branch' = [branch EXCEPT ![repo] = head[repo]]
    /\ UNCHANGED <<file, log, head, checkedOut, disturbed>>

SwitchBranch(repo) ==
    /\ External
    /\ branch[repo] # 0
    /\ checkedOut' = IF repo \in checkedOut THEN checkedOut \ {repo}
                     ELSE checkedOut \cup {repo}
    /\ UNCHANGED <<file, log, head, branch, disturbed>>

Operator ==
    \/ \E d \in Files : EditFile(d)
    \/ \E repo \in Repos :
        \/ CommitElsewhere(repo) \/ CommitOnHead(repo) \/ CommitOnBranch(repo)
        \/ Merge(repo) \/ SquashMerge(repo)
        \/ DeleteBranch(repo) \/ CreateBranch(repo) \/ SwitchBranch(repo)

-----------------------------------------------------------------------------
WorldTypeOK ==
    /\ file \in [Files -> Content]
    /\ log \in [Repos -> Seq(Commit)]
    /\ head \in [Repos -> Nat]
    /\ branch \in [Repos -> Nat]
    /\ checkedOut \subseteq Repos
    /\ external \in Nat
    /\ disturbed \subseteq Dests

\* Every ref names a commit that exists.
RefsExist ==
    \A repo \in Repos : /\ head[repo] \in 1..Len(log[repo])
                        /\ branch[repo] \in 0..Len(log[repo])
=============================================================================
