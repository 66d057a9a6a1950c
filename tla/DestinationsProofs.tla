-------------------------- MODULE DestinationsProofs --------------------------
(***************************************************************************)
(* Lemmas about Destinations, cited by the proofs about the modules that   *)
(* deliver to these places: what a read and a prepared record are made of, *)
(* that the operator leaves the repositories well formed, and that what he *)
(* does is by hand: no place he leaves undisturbed reads otherwise, and no *)
(* commit that nobody published enters a history.                          *)
(***************************************************************************)
EXTENDS Destinations, TLAPS

-----------------------------------------------------------------------------
\* Lemmas about the operator's places.

\* The blank content is a content.
LEMMA BlankType == Blank \in Content
  BY DestsAssumption DEF Blank, Content

\* Adding edits to a content gives a content.
LEMMA CombineType ==
  ASSUME NEW base \in Content, NEW chosen \in SUBSET Proposals
  PROVE  CombineEdits(base, chosen) \in Content
  BY DEF CombineEdits, Content

\* The commit a delivery is based on exists.
LEMMA TipExists ==
  ASSUME WorldTypeOK, RefsExist, NEW repo \in Repos
  PROVE  BranchBase(repo) \in 1..Len(log[repo])
  BY DEF WorldTypeOK, RefsExist, BranchBase

\* A numbered commit has a tree of contents and a set of ancestors.
LEMMA TreeType ==
  ASSUME WorldTypeOK, NEW repo \in Repos, NEW k \in 1..Len(log[repo])
  PROVE  /\ log[repo][k] \in Commit
         /\ log[repo][k].tree \in [GitDests -> Content]
         /\ log[repo][k].anc \in SUBSET Nat
  <1>1. log[repo] \in Seq(Commit)
    BY DEF WorldTypeOK
  <1>2. log[repo][k] \in Commit
    BY <1>1
  <1> QED
    BY <1>2 DEF Commit

\* What a destination holds is a content.
LEMMA ReadType ==
  ASSUME WorldTypeOK, RefsExist, NEW d \in Dests
  PROVE  ReadDestination(d) \in Content
  <1>1. CASE d \in GitDests
    <2>1. ResourceOf[d] \in Repos
      BY <1>1 DEF Repos
    <2>2. log[ResourceOf[d]][BranchBase(ResourceOf[d])].tree \in [GitDests -> Content]
      BY <2>1, TipExists, TreeType
    <2> QED
      BY <1>1, <2>2 DEF ReadDestination
  <1>2. CASE d \notin GitDests
    BY <1>2 DEF ReadDestination, WorldTypeOK, Files
  <1> QED
    BY <1>1, <1>2

\* A child of commits that exist is a commit, and appending it keeps the log
\* typed and every earlier number valid.
LEMMA ChildType ==
  ASSUME WorldTypeOK, NEW repo \in Repos,
         NEW parents \in SUBSET (1..Len(log[repo])),
         NEW tree \in [GitDests -> Content]
  PROVE  ChildOf(repo, parents, tree) \in Commit
  <1>1. log[repo] \in Seq(Commit)
    BY DEF WorldTypeOK
  <1>2. Len(log[repo]) \in Nat
    BY <1>1
  <1>3. \A k \in parents : log[repo][k].anc \in SUBSET Nat
    BY TreeType
  <1>4. (UNION {log[repo][k].anc : k \in parents}) \cup {Len(log[repo]) + 1} \in SUBSET Nat
    BY <1>2, <1>3
  <1> QED
    BY <1>4 DEF ChildOf, Commit

\* A log with one more commit.
LEMMA AppendedLog ==
  ASSUME WorldTypeOK, NEW repo \in Repos, NEW c \in Commit,
         log' = [log EXCEPT ![repo] = Append(@, c)]
  PROVE  /\ log' \in [Repos -> Seq(Commit)]
         /\ \A q \in Repos : Len(log'[q]) \in Nat /\ Len(log[q]) \in Nat
                             /\ Len(log[q]) <= Len(log'[q])
         /\ Len(log'[repo]) = Len(log[repo]) + 1
  <1>1. log \in [Repos -> Seq(Commit)]
    BY DEF WorldTypeOK
  <1>2. \A q \in Repos : log'[q] = IF q = repo THEN Append(log[q], c) ELSE log[q]
    BY <1>1
  <1>3. \A q \in Repos : log[q] \in Seq(Commit)
    BY <1>1
  <1>4. Append(log[repo], c) \in Seq(Commit) /\ Len(Append(log[repo], c)) = Len(log[repo]) + 1
    BY <1>3
  <1>5. \A q \in Repos : log'[q] \in Seq(Commit)
    BY <1>2, <1>3, <1>4
  <1>6. log' \in [Repos -> Seq(Commit)]
    BY <1>1, <1>5
  <1> QED
    BY <1>2, <1>3, <1>4, <1>5, <1>6

\* No commit is ever forgotten: a log only grows.
LogsGrow ==
    \A q \in Repos : /\ Len(log[q]) \in Nat /\ Len(log'[q]) \in Nat
                     /\ Len(log[q]) <= Len(log'[q])

\* A log left alone does not shrink.
LEMMA LogsKept ==
  ASSUME WorldTypeOK, UNCHANGED log
  PROVE  LogsGrow
  <1>1. \A q \in Repos : log[q] \in Seq(Commit)
    BY DEF WorldTypeOK
  <1>2. \A q \in Repos : Len(log[q]) \in Nat
    BY <1>1
  <1> QED
    BY <1>2 DEF LogsGrow

\* One more commit, with HEAD, the branch or neither moved onto it.
LEMMA CommitStep ==
  ASSUME WorldTypeOK, RefsExist, NEW repo \in Repos,
         NEW parents \in SUBSET (1..Len(log[repo])),
         NEW tree \in [GitDests -> Content],
         AddCommit(repo, parents, tree),
         \/ head' = head
         \/ head' = [head EXCEPT ![repo] = NextCommit(repo)],
         \/ branch' = branch
         \/ branch' = [branch EXCEPT ![repo] = NextCommit(repo)]
  PROVE  /\ log' \in [Repos -> Seq(Commit)]
         /\ head' \in [Repos -> Nat] /\ branch' \in [Repos -> Nat]
         /\ RefsExist'
         /\ LogsGrow
  <1> DEFINE c == ChildOf(repo, parents, tree)
  <1>1. c \in Commit
    BY ChildType
  <1>2. log' = [log EXCEPT ![repo] = Append(@, c)]
    BY DEF AddCommit
  <1> HIDE DEF c
  <1>3. /\ log' \in [Repos -> Seq(Commit)]
        /\ \A q \in Repos : Len(log'[q]) \in Nat /\ Len(log[q]) \in Nat
                            /\ Len(log[q]) <= Len(log'[q])
        /\ Len(log'[repo]) = Len(log[repo]) + 1
    BY <1>1, <1>2, AppendedLog
  <1>4. LogsGrow
    BY <1>3 DEF LogsGrow
  <1>5. NextCommit(repo) \in 1..Len(log'[repo])
    BY <1>3 DEF NextCommit
  <1>6. head' \in [Repos -> Nat] /\ \A q \in Repos : head'[q] \in 1..Len(log'[q])
    <2>1. \A q \in Repos : head[q] \in 1..Len(log'[q])
      BY <1>3, SMTT(30) DEF RefsExist
    <2>2. \A q \in Repos : head'[q] \in 1..Len(log'[q])
      <3>1. CASE head' = head
        BY <2>1, <3>1
      <3>2. CASE head' = [head EXCEPT ![repo] = NextCommit(repo)]
        BY <1>5, <2>1, <3>2 DEF WorldTypeOK
      <3> QED
        BY <3>1, <3>2
    <2> QED
      BY <1>3, <2>2 DEF WorldTypeOK, NextCommit
  <1>7. branch' \in [Repos -> Nat] /\ \A q \in Repos : branch'[q] \in 0..Len(log'[q])
    <2>1. \A q \in Repos : branch[q] \in 0..Len(log'[q])
      BY <1>3 DEF RefsExist
    <2>2. \A q \in Repos : branch'[q] \in 0..Len(log'[q])
      <3>1. CASE branch' = branch
        BY <2>1, <3>1
      <3>2. CASE branch' = [branch EXCEPT ![repo] = NextCommit(repo)]
        BY <1>5, <2>1, <3>2 DEF WorldTypeOK
      <3> QED
        BY <3>1, <3>2
    <2> QED
      BY <1>3, <2>2 DEF WorldTypeOK, NextCommit
  <1> QED
    BY <1>3, <1>4, <1>6, <1>7 DEF RefsExist

\* A step of the operator leaves the places well formed.
LEMMA OperatorStep ==
  ASSUME WorldTypeOK, RefsExist, Operator
  PROVE  WorldTypeOK' /\ RefsExist' /\ LogsGrow
  <1> USE DestsAssumption
  <1>0. external \in Nat /\ (External => external' \in Nat)
    BY DEF External, WorldTypeOK
  <1>1. ASSUME NEW d \in Files, EditFile(d)
        PROVE  WorldTypeOK' /\ RefsExist' /\ LogsGrow
    <2>1. file' \in [Files -> Content]
      BY <1>1 DEF EditFile, HandEdits, WorldTypeOK
    <2>2. LogsGrow
      BY <1>1, LogsKept DEF EditFile
    <2>3. RefsExist'
      BY <1>1 DEF EditFile, RefsExist
    <2> QED
      BY <1>0, <1>1, <2>1, <2>2, <2>3 DEF EditFile, WorldTypeOK, Files
  <1> DEFINE Kept == WorldTypeOK' /\ RefsExist' /\ LogsGrow
  <1>2. ASSUME NEW repo \in Repos, CommitElsewhere(repo)
        PROVE  Kept
    <2>1. {head[repo]} \in SUBSET (1..Len(log[repo]))
      BY DEF RefsExist
    <2>2. log[repo][head[repo]].tree \in [GitDests -> Content]
      BY TreeType DEF RefsExist
    <2>3. /\ log' \in [Repos -> Seq(Commit)]
          /\ head' \in [Repos -> Nat] /\ branch' \in [Repos -> Nat]
          /\ RefsExist' /\ LogsGrow
      BY <1>2, <2>1, <2>2, CommitStep DEF CommitElsewhere
    <2> QED
      BY <1>0, <1>2, <2>3 DEF CommitElsewhere, WorldTypeOK
  <1>3. ASSUME NEW repo \in Repos, NEW tip \in 1..Len(log[repo]), HandCommit(repo, tip),
               \/ head' = head
               \/ head' = [head EXCEPT ![repo] = NextCommit(repo)],
               \/ branch' = branch
               \/ branch' = [branch EXCEPT ![repo] = NextCommit(repo)]
        PROVE  Kept
    <2>1. PICK d \in Paths(repo) : \E c \in HandEdits(log[repo][tip].tree[d]) :
              /\ AddCommit(repo, {tip}, [log[repo][tip].tree EXCEPT ![d] = c])
              /\ disturbed' = disturbed \cup {d}
      BY <1>3 DEF HandCommit
    <2>2. PICK c \in HandEdits(log[repo][tip].tree[d]) :
              /\ AddCommit(repo, {tip}, [log[repo][tip].tree EXCEPT ![d] = c])
              /\ disturbed' = disturbed \cup {d}
      BY <2>1
    <2> DEFINE tree == [log[repo][tip].tree EXCEPT ![d] = c]
    <2>3. c \in Content
      BY <2>2 DEF HandEdits
    <2>4. tree \in [GitDests -> Content]
      BY <2>3, TreeType
    <2>5. {tip} \in SUBSET (1..Len(log[repo]))
      OBVIOUS
    <2>6. AddCommit(repo, {tip}, tree)
      BY <2>2
    <2> HIDE DEF tree
    <2>7. /\ log' \in [Repos -> Seq(Commit)]
          /\ head' \in [Repos -> Nat] /\ branch' \in [Repos -> Nat]
          /\ RefsExist' /\ LogsGrow
      BY <1>3, <2>4, <2>5, <2>6, CommitStep
    <2>8. disturbed' \subseteq Dests
      BY <2>1, <2>2 DEF Paths, WorldTypeOK
    <2> QED
      BY <1>0, <1>3, <2>7, <2>8 DEF HandCommit, WorldTypeOK
  <1>4. ASSUME NEW repo \in Repos, CommitOnHead(repo)
        PROVE  Kept
    BY <1>3, <1>4 DEF CommitOnHead, RefsExist
  <1>5. ASSUME NEW repo \in Repos, CommitOnBranch(repo)
        PROVE  Kept
    <2>1. branch[repo] \in 1..Len(log[repo])
      <3>1. log[repo] \in Seq(Commit)
        BY DEF WorldTypeOK
      <3> QED
        BY <1>5, <3>1 DEF CommitOnBranch, RefsExist
    <2> QED
      BY <1>3, <1>5, <2>1 DEF CommitOnBranch
  <1>6. ASSUME NEW repo \in Repos, NEW parents \in SUBSET {head[repo], branch[repo]},
               MergeBranch(repo, parents)
        PROVE  Kept
    <2>0. log[repo] \in Seq(Commit)
      BY DEF WorldTypeOK
    <2>1. head[repo] \in 1..Len(log[repo]) /\ branch[repo] \in 1..Len(log[repo])
      BY <1>6, <2>0 DEF MergeBranch, RefsExist
    <2>2. parents \in SUBSET (1..Len(log[repo]))
      BY <2>1
    <2>3. /\ log[repo][head[repo]].tree \in [GitDests -> Content]
          /\ log[repo][branch[repo]].tree \in [GitDests -> Content]
      BY <2>1, TreeType
    <2>4. MergedTree(repo) \in [GitDests -> Content]
      BY <2>3, ZenonT(60) DEF MergedTree, Content
    <2>5. /\ log' \in [Repos -> Seq(Commit)]
          /\ head' \in [Repos -> Nat] /\ branch' \in [Repos -> Nat]
          /\ RefsExist' /\ LogsGrow
      BY <1>6, <2>2, <2>4, CommitStep DEF MergeBranch
    <2> QED
      BY <1>0, <1>6, <2>5 DEF MergeBranch, WorldTypeOK
  <1>7. ASSUME NEW repo \in Repos, DeleteBranch(repo) \/ CreateBranch(repo) \/ SwitchBranch(repo)
        PROVE  Kept
    <2>1. LogsGrow
      BY <1>7, LogsKept DEF DeleteBranch, CreateBranch, SwitchBranch
    <2>2. \A q \in Repos : log[q] \in Seq(Commit)
      BY DEF WorldTypeOK
    <2>3. \/ branch' = branch
          \/ \E k \in {0, head[repo]} : branch' = [branch EXCEPT ![repo] = k]
      BY <1>7 DEF DeleteBranch, CreateBranch, SwitchBranch
    <2>5. \A q \in Repos : branch[q] \in 0..Len(log[q]) /\ head[q] \in 0..Len(log[q])
                            /\ Len(log[q]) \in Nat
      BY <2>2 DEF RefsExist
    <2>6. \A q \in Repos : branch'[q] \in 0..Len(log[q])
      <3>1. CASE branch' = branch
        BY <2>5, <3>1
      <3>2. ASSUME NEW k \in {0, head[repo]}, branch' = [branch EXCEPT ![repo] = k]
            PROVE  \A q \in Repos : branch'[q] \in 0..Len(log[q])
        <4>1. k \in 0..Len(log[repo])
          BY <2>5
        <4> QED
          BY <2>5, <3>2, <4>1 DEF WorldTypeOK
      <3> QED
        BY <2>3, <3>1, <3>2
    <2>7. branch' \in [Repos -> Nat]
      <3>1. head[repo] \in Nat
        BY DEF WorldTypeOK
      <3> QED
        BY <2>3, <3>1 DEF WorldTypeOK
    <2>4. checkedOut' \subseteq Repos /\ disturbed' \subseteq Dests
      BY <1>7 DEF DeleteBranch, CreateBranch, SwitchBranch, WorldTypeOK, Paths
    <2>8. log' = log /\ file' = file /\ (head' = head) /\ External
      BY <1>7 DEF DeleteBranch, CreateBranch, SwitchBranch
    <2>9. RefsExist'
      BY <2>6, <2>8 DEF RefsExist
    <2> QED
      BY <1>0, <2>1, <2>4, <2>7, <2>8, <2>9 DEF WorldTypeOK
  <1> QED
    BY <1>1, <1>2, <1>4, <1>5, <1>6, <1>7 DEF Operator, Merge, SquashMerge

-----------------------------------------------------------------------------
\* Lemmas about prepared records.

\* Preparation makes a well-formed record; for git its commit is the next one,
\* and it is appended to the log.
LEMMA PreparedType ==
  ASSUME WorldTypeOK, RefsExist, NEW d \in Dests, NEW chosen \in SUBSET Proposals
  PROVE  /\ PreparedRecord(d, chosen) \in DeliveryRecord
         /\ d \in GitDests =>
              /\ PreparedRecord(d, chosen).base \in 1..Len(log[ResourceOf[d]])
              /\ PreparedRecord(d, chosen).commit = Len(log[ResourceOf[d]]) + 1
  <1>1. ReadDestination(d) \in Content
    BY ReadType
  <1>2. CombineEdits(ReadDestination(d), chosen) \in Content
    BY <1>1, CombineType
  <1>3. CASE d \in GitDests
    <2>1. ResourceOf[d] \in Repos
      BY <1>3 DEF Repos
    <2>2. log[ResourceOf[d]] \in Seq(Commit)
      BY <2>1 DEF WorldTypeOK
    <2>3. BranchBase(ResourceOf[d]) \in 1..Len(log[ResourceOf[d]])
      BY <2>1, TipExists
    <2> QED
      BY <1>1, <1>2, <1>3, <2>2, <2>3 DEF PreparedRecord, DeliveryRecord
  <1>4. CASE d \notin GitDests
    BY <1>1, <1>2, <1>4 DEF PreparedRecord, DeliveryRecord
  <1> QED
    BY <1>3, <1>4

\* Preparing a delivery adds at most its own commit object to the log.
LEMMA PreparedStep ==
  ASSUME WorldTypeOK, RefsExist, NEW d \in Dests, NEW chosen \in SUBSET Proposals,
         PrepareBranchCommit(d, PreparedRecord(d, chosen))
  PROVE  /\ log' \in [Repos -> Seq(Commit)] /\ LogsGrow
         /\ d \in GitDests => Len(log'[ResourceOf[d]]) = Len(log[ResourceOf[d]]) + 1
  <1> DEFINE dlv == PreparedRecord(d, chosen)
  <1>0. dlv \in DeliveryRecord
        /\ (d \in GitDests => dlv.base \in 1..Len(log[ResourceOf[d]]))
    BY PreparedType
  <1>1. CASE d \in GitDests
    <2> DEFINE repo == ResourceOf[d]
               tree == [log[repo][dlv.base].tree EXCEPT ![d] = dlv.after]
               c == ChildOf(repo, {dlv.base}, tree)
    <2>1. repo \in Repos
      BY <1>1 DEF Repos
    <2>2. dlv.base \in 1..Len(log[repo]) /\ dlv.after \in Content
      BY <1>0, <1>1 DEF DeliveryRecord
    <2>3. log' = [log EXCEPT ![repo] = Append(@, c)]
      BY <1>1 DEF PrepareBranchCommit
    <2> HIDE DEF dlv
    <2>4. tree \in [GitDests -> Content]
      BY <2>1, <2>2, TreeType
    <2>5. {dlv.base} \in SUBSET (1..Len(log[repo]))
      BY <2>2
    <2> HIDE DEF tree
    <2>6. c \in Commit
      BY <2>1, <2>4, <2>5, ChildType
    <2> HIDE DEF c
    <2>7. /\ log' \in [Repos -> Seq(Commit)]
          /\ \A q \in Repos : Len(log'[q]) \in Nat /\ Len(log[q]) \in Nat
                              /\ Len(log[q]) <= Len(log'[q])
          /\ Len(log'[repo]) = Len(log[repo]) + 1
      BY <2>1, <2>3, <2>6, AppendedLog
    <2> QED
      BY <2>7 DEF LogsGrow
  <1>2. CASE d \notin GitDests
    <2>1. UNCHANGED log
      BY <1>2 DEF PrepareBranchCommit
    <2> QED
      BY <1>2, <2>1, LogsKept DEF WorldTypeOK
  <1> QED
    BY <1>1, <1>2

-----------------------------------------------------------------------------
\* What the operator and git may do to the places.

\* A commit is its own ancestor, and no ancestor is yet to be made.
Numbered ==
    \A repo \in Repos : \A k \in 1..Len(log[repo]) :
        k \in log[repo][k].anc /\ log[repo][k].anc \subseteq 1..Len(log[repo])

\* A commit in the history of HEAD or of the delivery branch.
Reached(repo, k) ==
    \/ k \in log[repo][head[repo]].anc
    \/ branch[repo] # 0 /\ k \in log[repo][branch[repo]].anc

\* Old commits keep their number, tree and ancestors.
OldCommitsKept ==
    \A repo \in Repos : \A k \in 1..Len(log[repo]) :
        k \in 1..Len(log'[repo]) /\ log'[repo][k] = log[repo][k]

\* A commit is appended: the old ones stay, and the new one is the child.
LEMMA CommitAdded ==
  ASSUME WorldTypeOK, Numbered, NEW repo \in Repos,
         NEW parents \in SUBSET (1..Len(log[repo])), NEW tree \in [GitDests -> Content],
         AddCommit(repo, parents, tree)
  PROVE  /\ OldCommitsKept /\ Numbered'
         /\ \A q \in Repos : q # repo => log'[q] = log[q]
         /\ NextCommit(repo) \in 1..Len(log'[repo])
         /\ NextCommit(repo) \notin 1..Len(log[repo])
         /\ log'[repo][NextCommit(repo)].tree = tree
         /\ log'[repo][NextCommit(repo)].anc =
                (UNION {log[repo][k].anc : k \in parents}) \cup {NextCommit(repo)}
  <1> DEFINE c == ChildOf(repo, parents, tree)
             n == NextCommit(repo)
  <1>1. \A q \in Repos : log'[q] = IF q = repo THEN Append(log[q], c) ELSE log[q]
    BY DEF AddCommit, WorldTypeOK
  <1>2. \A q \in Repos : log[q] \in Seq(Commit) /\ Len(log[q]) \in Nat
    BY DEF WorldTypeOK
  <1>3. n = Len(log[repo]) + 1 /\ n \in Nat
    BY <1>2 DEF NextCommit
  <1>4. c.tree = tree /\ c.anc = (UNION {log[repo][k].anc : k \in parents}) \cup {n}
    BY DEF ChildOf, NextCommit
  <1>a. c \in Commit
    BY ChildType
  <1> HIDE DEF c, n
  <1>5. /\ Len(log'[repo]) = n /\ log'[repo][n] = c
        /\ \A k \in 1..Len(log[repo]) : log'[repo][k] = log[repo][k]
    <2>1. log'[repo] = Append(log[repo], c)
      BY <1>1
    <2> QED
      BY <1>2, <1>3, <1>a, <2>1
  <1>6. OldCommitsKept
    <2>1. ASSUME NEW q \in Repos, NEW k \in 1..Len(log[q])
          PROVE  k \in 1..Len(log'[q]) /\ log'[q][k] = log[q][k]
      <3>1. CASE q = repo
        BY <1>2, <1>3, <1>5, <3>1
      <3>2. CASE q # repo
        BY <1>1, <3>2
      <3> QED
        BY <3>1, <3>2
    <2> QED
      BY <2>1 DEF OldCommitsKept
  <1>7. Numbered'
    <2>1. ASSUME NEW k \in 1..n
          PROVE  k \in log'[repo][k].anc /\ log'[repo][k].anc \subseteq 1..n
      <3>0. 1..Len(log[repo]) \subseteq 1..n
        BY <1>2, <1>3
      <3>1. CASE k = n
        <4>1. \A j \in parents : log[repo][j].anc \subseteq 1..Len(log[repo])
          BY DEF Numbered
        <4>2. UNION {log[repo][j].anc : j \in parents} \subseteq 1..n
          BY <3>0, <4>1
        <4>3. n \in 1..n
          BY <2>1, <3>1
        <4> QED
          BY <1>4, <1>5, <3>1, <4>2, <4>3
      <3>2. CASE k # n
        <4>1. k \in 1..Len(log[repo])
          BY <1>2, <1>3, <3>2
        <4> QED
          BY <1>5, <3>0, <4>1 DEF Numbered
      <3> QED
        BY <3>1, <3>2
    <2>2. ASSUME NEW q \in Repos, q # repo
          PROVE  \A k \in 1..Len(log'[q]) :
                     k \in log'[q][k].anc /\ log'[q][k].anc \subseteq 1..Len(log'[q])
      BY <1>1, <2>2 DEF Numbered
    <2> QED
      BY <1>5, <2>1, <2>2 DEF Numbered
  <1>8. n \in 1..Len(log'[repo]) /\ n \notin 1..Len(log[repo])
    BY <1>2, <1>3, <1>5
  <1> QED
    BY <1>1, <1>4, <1>5, <1>6, <1>7, <1>8 DEF n

\* The operator changes what a place holds only by hand, in the sense of
\* disturbed, and puts no unpublished commit into a history.
ByHand ==
    /\ OldCommitsKept /\ Numbered'
    /\ disturbed \subseteq disturbed'
    /\ \A d \in Dests \ disturbed' : ReadDestination(d)' = ReadDestination(d)
    /\ \A repo \in Repos : \A k \in 1..Len(log[repo]) : Reached(repo, k)' => Reached(repo, k)

\* A step on one repository is by hand when it keeps what its paths read.
LEMMA RepoByHand ==
  ASSUME WorldTypeOK, RefsExist, OldCommitsKept, Numbered',
         disturbed \subseteq disturbed', UNCHANGED file, NEW repo \in Repos,
         \A q \in Repos : q # repo => /\ log'[q] = log[q] /\ head'[q] = head[q]
                                      /\ branch'[q] = branch[q],
         \A d \in Paths(repo) \ disturbed' :
             log'[repo][BranchBase(repo)'].tree[d] = log[repo][BranchBase(repo)].tree[d],
         \A k \in 1..Len(log[repo]) : Reached(repo, k)' => Reached(repo, k)
  PROVE  ByHand
  <1>1. ASSUME NEW d \in Dests \ disturbed'
        PROVE  ReadDestination(d)' = ReadDestination(d)
    <2>1. CASE d \notin GitDests
      BY <2>1 DEF ReadDestination
    <2>2. CASE d \in Paths(repo)
      <3>1. log'[repo][BranchBase(repo)'].tree[d] = log[repo][BranchBase(repo)].tree[d]
        BY <1>1, <2>2
      <3> QED
        BY <2>2, <3>1 DEF ReadDestination, Paths, BranchBase
    <2>3. CASE d \in GitDests \ Paths(repo)
      <3>1. ResourceOf[d] \in Repos /\ ResourceOf[d] # repo
        BY <2>3 DEF Paths, Repos
      <3> QED
        BY <2>3, <3>1 DEF ReadDestination, BranchBase
    <2> QED
      BY <2>1, <2>2, <2>3
  <1>2. ASSUME NEW q \in Repos, NEW k \in 1..Len(log[q]), Reached(q, k)'
        PROVE  Reached(q, k)
    <2>1. CASE q = repo
      BY <1>2, <2>1
    <2>2. CASE q # repo
      BY <1>2, <2>2 DEF Reached
    <2> QED
      BY <2>1, <2>2
  <1> QED
    BY <1>1, <1>2 DEF ByHand

\* A log left alone keeps its commits.
LEMMA SameLog ==
  ASSUME UNCHANGED log, Numbered
  PROVE  OldCommitsKept /\ Numbered'
  BY DEF OldCommitsKept, Numbered

\* A hand commit on a tip disturbs the path it edits.
LEMMA HandCommitTree ==
  ASSUME WorldTypeOK, Numbered, NEW repo \in Repos, NEW tip \in 1..Len(log[repo]),
         HandCommit(repo, tip)
  PROVE  /\ OldCommitsKept /\ Numbered' /\ disturbed \subseteq disturbed' /\ UNCHANGED file
         /\ \A q \in Repos : q # repo => log'[q] = log[q]
         /\ NextCommit(repo) \in 1..Len(log'[repo]) /\ NextCommit(repo) \notin 1..Len(log[repo])
         /\ \A d \in Paths(repo) \ disturbed' :
                log'[repo][NextCommit(repo)].tree[d] = log[repo][tip].tree[d]
         /\ log'[repo][NextCommit(repo)].anc = log[repo][tip].anc \cup {NextCommit(repo)}
  <1>1. PICK d \in Paths(repo) : \E c \in HandEdits(log[repo][tip].tree[d]) :
            /\ AddCommit(repo, {tip}, [log[repo][tip].tree EXCEPT ![d] = c])
            /\ disturbed' = disturbed \cup {d}
    BY DEF HandCommit
  <1>2. PICK c \in HandEdits(log[repo][tip].tree[d]) :
            /\ AddCommit(repo, {tip}, [log[repo][tip].tree EXCEPT ![d] = c])
            /\ disturbed' = disturbed \cup {d}
    BY <1>1
  <1> DEFINE tree == [log[repo][tip].tree EXCEPT ![d] = c]
  <1>3. log[repo][tip].tree \in [GitDests -> Content] /\ c \in Content
    BY <1>2, TreeType DEF HandEdits
  <1>4. tree \in [GitDests -> Content]
        /\ \A e \in GitDests : e # d => tree[e] = log[repo][tip].tree[e]
    BY <1>3
  <1>5. AddCommit(repo, {tip}, tree) /\ {tip} \in SUBSET (1..Len(log[repo]))
    BY <1>2
  <1> HIDE DEF tree
  <1>6. /\ OldCommitsKept /\ Numbered'
        /\ \A q \in Repos : q # repo => log'[q] = log[q]
        /\ NextCommit(repo) \in 1..Len(log'[repo]) /\ NextCommit(repo) \notin 1..Len(log[repo])
        /\ log'[repo][NextCommit(repo)].tree = tree
        /\ log'[repo][NextCommit(repo)].anc =
               (UNION {log[repo][k].anc : k \in {tip}}) \cup {NextCommit(repo)}
    BY <1>4, <1>5, CommitAdded
  <1>7. UNION {log[repo][k].anc : k \in {tip}} = log[repo][tip].anc
    OBVIOUS
  <1>8. UNCHANGED file
    BY DEF HandCommit
  <1> QED
    BY <1>2, <1>4, <1>6, <1>7, <1>8 DEF Paths

\* Whatever the operator does, it is by hand.
LEMMA OperatorByHand ==
  ASSUME WorldTypeOK, RefsExist, Numbered, Operator
  PROVE  ByHand
  <1>1. ASSUME NEW d \in Files, EditFile(d)
        PROVE  ByHand
    <2>1. OldCommitsKept /\ Numbered'
      BY <1>1, SameLog DEF EditFile
    <2>2. \A e \in Dests \ disturbed' : ReadDestination(e)' = ReadDestination(e)
      BY <1>1 DEF EditFile, ReadDestination, BranchBase, WorldTypeOK, Files
    <2>3. \A repo \in Repos : \A k \in 1..Len(log[repo]) : Reached(repo, k)' => Reached(repo, k)
      BY <1>1 DEF EditFile, Reached
    <2> QED
      BY <1>1, <2>1, <2>2, <2>3 DEF ByHand, EditFile
  <1>2. SUFFICES ASSUME NEW repo \in Repos,
                        \/ CommitElsewhere(repo) \/ CommitOnHead(repo) \/ CommitOnBranch(repo)
                        \/ Merge(repo) \/ SquashMerge(repo)
                        \/ DeleteBranch(repo) \/ CreateBranch(repo) \/ SwitchBranch(repo)
                 PROVE  ByHand
    BY <1>1 DEF Operator
  <1> DEFINE n == NextCommit(repo)
  <1>3. /\ log[repo] \in Seq(Commit) /\ Len(log[repo]) \in Nat
        /\ head[repo] \in 1..Len(log[repo]) /\ branch[repo] \in 0..Len(log[repo])
        /\ branch[repo] # 0 => branch[repo] \in 1..Len(log[repo])
    <2>1. log[repo] \in Seq(Commit)
      BY DEF WorldTypeOK
    <2>2. Len(log[repo]) \in Nat /\ head[repo] \in 1..Len(log[repo])
          /\ branch[repo] \in 0..Len(log[repo])
      BY <2>1 DEF RefsExist
    <2> QED
      BY <2>1, <2>2
  <1>4. ASSUME OldCommitsKept, NEW k \in 1..Len(log[repo])
        PROVE  log'[repo][k] = log[repo][k]
    BY <1>4 DEF OldCommitsKept
  <1>5. CASE CommitElsewhere(repo)
    <2>1. {head[repo]} \in SUBSET (1..Len(log[repo]))
          /\ log[repo][head[repo]].tree \in [GitDests -> Content]
      BY <1>3, TreeType
    <2>2. /\ OldCommitsKept /\ Numbered'
          /\ \A q \in Repos : q # repo => log'[q] = log[q]
          /\ n \in 1..Len(log'[repo]) /\ n \notin 1..Len(log[repo])
          /\ log'[repo][n].tree = log[repo][head[repo]].tree
          /\ log'[repo][n].anc = (UNION {log[repo][k].anc : k \in {head[repo]}}) \cup {n}
      BY <1>5, <2>1, CommitAdded DEF CommitElsewhere
    <2>3. UNION {log[repo][k].anc : k \in {head[repo]}} = log[repo][head[repo]].anc
      OBVIOUS
    <2>4. /\ head'[repo] = n /\ branch' = branch /\ UNCHANGED <<file, disturbed>>
          /\ \A q \in Repos : q # repo => head'[q] = head[q]
      BY <1>5 DEF CommitElsewhere, WorldTypeOK
    <2> HIDE DEF n
    <2>5. \A d \in Paths(repo) :
            log'[repo][BranchBase(repo)'].tree[d] = log[repo][BranchBase(repo)].tree[d]
      BY <1>3, <1>4, <2>2, <2>4 DEF BranchBase
    <2>6. \A k \in 1..Len(log[repo]) : Reached(repo, k)' => Reached(repo, k)
      BY <1>3, <1>4, <2>2, <2>3, <2>4 DEF Reached
    <2> QED
      BY <2>2, <2>4, <2>5, <2>6, RepoByHand
  <1>6. CASE CommitOnHead(repo)
    <2>1. /\ OldCommitsKept /\ Numbered' /\ disturbed \subseteq disturbed' /\ UNCHANGED file
          /\ \A q \in Repos : q # repo => log'[q] = log[q]
          /\ n \in 1..Len(log'[repo]) /\ n \notin 1..Len(log[repo])
          /\ \A d \in Paths(repo) \ disturbed' :
                 log'[repo][n].tree[d] = log[repo][head[repo]].tree[d]
          /\ log'[repo][n].anc = log[repo][head[repo]].anc \cup {n}
      BY <1>3, <1>6, HandCommitTree DEF CommitOnHead
    <2>2. /\ head'[repo] = n /\ branch' = branch
          /\ \A q \in Repos : q # repo => head'[q] = head[q]
      BY <1>6 DEF CommitOnHead, WorldTypeOK
    <2> HIDE DEF n
    <2>3. \A d \in Paths(repo) \ disturbed' :
            log'[repo][BranchBase(repo)'].tree[d] = log[repo][BranchBase(repo)].tree[d]
      BY <1>3, <1>4, <2>1, <2>2 DEF BranchBase
    <2>4. \A k \in 1..Len(log[repo]) : Reached(repo, k)' => Reached(repo, k)
      BY <1>3, <1>4, <2>1, <2>2 DEF Reached
    <2> QED
      BY <2>1, <2>2, <2>3, <2>4, RepoByHand
  <1>7. CASE CommitOnBranch(repo)
    <2>1. /\ OldCommitsKept /\ Numbered' /\ disturbed \subseteq disturbed' /\ UNCHANGED file
          /\ \A q \in Repos : q # repo => log'[q] = log[q]
          /\ n \in 1..Len(log'[repo]) /\ n \notin 1..Len(log[repo])
          /\ \A d \in Paths(repo) \ disturbed' :
                 log'[repo][n].tree[d] = log[repo][branch[repo]].tree[d]
          /\ log'[repo][n].anc = log[repo][branch[repo]].anc \cup {n}
      BY <1>3, <1>7, HandCommitTree DEF CommitOnBranch
    <2>2. /\ branch'[repo] = n /\ head' = head /\ branch[repo] # 0
          /\ \A q \in Repos : q # repo => branch'[q] = branch[q]
      BY <1>7 DEF CommitOnBranch, WorldTypeOK
    <2>3. n # 0
      BY <1>3 DEF NextCommit
    <2> HIDE DEF n
    <2>4. \A d \in Paths(repo) \ disturbed' :
            log'[repo][BranchBase(repo)'].tree[d] = log[repo][BranchBase(repo)].tree[d]
      BY <2>1, <2>2, <2>3 DEF BranchBase
    <2>5. \A k \in 1..Len(log[repo]) : Reached(repo, k)' => Reached(repo, k)
      BY <1>3, <1>4, <2>1, <2>2, ZenonT(60) DEF Reached
    <2> QED
      BY <2>1, <2>2, <2>4, <2>5, RepoByHand
  <1>8. CASE Merge(repo) \/ SquashMerge(repo)
    <2>1. PICK parents \in SUBSET {head[repo], branch[repo]} : MergeBranch(repo, parents)
      BY <1>8 DEF Merge, SquashMerge
    <2>2. branch[repo] # 0 /\ branch' = branch /\ UNCHANGED <<file, disturbed>>
      BY <2>1 DEF MergeBranch
    <2>3. parents \in SUBSET (1..Len(log[repo]))
      BY <1>3, <2>2
    <2>4. MergedTree(repo) \in [GitDests -> Content]
      <3>1. /\ log[repo][head[repo]].tree \in [GitDests -> Content]
            /\ log[repo][branch[repo]].tree \in [GitDests -> Content]
        BY <1>3, <2>2, TreeType
      <3> QED
        BY <3>1 DEF MergedTree, Content
    <2>5. /\ OldCommitsKept /\ Numbered'
          /\ \A q \in Repos : q # repo => log'[q] = log[q]
          /\ n \in 1..Len(log'[repo]) /\ n \notin 1..Len(log[repo])
          /\ log'[repo][n].anc = (UNION {log[repo][k].anc : k \in parents}) \cup {n}
      BY <2>1, <2>3, <2>4, CommitAdded DEF MergeBranch
    <2>6. head'[repo] = n /\ \A q \in Repos : q # repo => head'[q] = head[q]
      BY <2>1 DEF MergeBranch, WorldTypeOK
    <2> HIDE DEF n
    <2>7. \A d \in Paths(repo) :
            log'[repo][BranchBase(repo)'].tree[d] = log[repo][BranchBase(repo)].tree[d]
      BY <1>3, <1>4, <2>2, <2>5 DEF BranchBase
    <2>8. ASSUME NEW k \in 1..Len(log[repo]), Reached(repo, k)' PROVE Reached(repo, k)
      <3>1. log'[repo][branch[repo]] = log[repo][branch[repo]]
        BY <1>3, <1>4, <2>2, <2>5
      <3>2. CASE k \in log'[repo][n].anc
        BY <2>2, <2>5, <3>2 DEF Reached
      <3> QED
        BY <2>2, <2>6, <2>8, <3>1, <3>2 DEF Reached
    <2> QED
      BY <2>2, <2>5, <2>6, <2>7, <2>8, RepoByHand
  <1>9. CASE DeleteBranch(repo) \/ CreateBranch(repo) \/ SwitchBranch(repo)
    <2>1. /\ log' = log /\ head' = head /\ UNCHANGED file /\ disturbed \subseteq disturbed'
          /\ \A q \in Repos : q # repo => branch'[q] = branch[q]
      BY <1>9 DEF DeleteBranch, CreateBranch, SwitchBranch, WorldTypeOK
    <2>2. \/ branch'[repo] = 0 \/ branch'[repo] = head[repo] \/ branch'[repo] = branch[repo]
      BY <1>9 DEF DeleteBranch, CreateBranch, SwitchBranch, WorldTypeOK
    <2>3. \A k \in 1..Len(log[repo]) : Reached(repo, k)' => Reached(repo, k)
      BY <2>1, <2>2 DEF Reached
    <2>4. ASSUME NEW d \in Paths(repo) \ disturbed'
          PROVE  log'[repo][BranchBase(repo)'].tree[d] = log[repo][BranchBase(repo)].tree[d]
      <3>1. CASE DeleteBranch(repo)
        BY <1>3, <2>1, <3>1 DEF DeleteBranch, BranchBase, WorldTypeOK
      <3>2. CASE CreateBranch(repo)
        BY <1>3, <2>1, <3>2 DEF CreateBranch, BranchBase, WorldTypeOK
      <3>3. CASE SwitchBranch(repo)
        BY <2>1, <3>3 DEF SwitchBranch, BranchBase
      <3> QED
        BY <1>9, <3>1, <3>2, <3>3
    <2>5. OldCommitsKept /\ Numbered'
      BY <2>1, SameLog
    <2> QED
      BY <2>1, <2>3, <2>4, <2>5, RepoByHand
  <1> QED
    BY <1>2, <1>5, <1>6, <1>7, <1>8, <1>9


-----------------------------------------------------------------------------
\* Prepared records and the places they are for.

\* A record holds an edit, and its commit object is the child of its base with
\* that edit.
TrueRecord(d, dlv) ==
    /\ dlv.after # dlv.before
    /\ d \in GitDests =>
        LET commits == log[ResourceOf[d]]
        IN  /\ dlv.base \in 1..Len(commits) /\ dlv.commit \in 1..Len(commits)
            /\ commits[dlv.base].tree[d] = dlv.before
            /\ commits[dlv.commit].tree[d] = dlv.after
            /\ commits[dlv.commit].anc = commits[dlv.base].anc \cup {dlv.commit}

\* Unless somebody changed the place by hand, it holds the after-content exactly
\* when this program has written it, and a commit that nobody published is in
\* nobody's history.
Stands(d, dlv, written) ==
    /\ d \notin disturbed => (written <=> ReadDestination(d) = dlv.after)
    /\ d \in GitDests /\ ~written => ~Reached(ResourceOf[d], dlv.commit)

\* What is observed there has been written, unless a hand was there.
LEMMA SeenMeansWritten ==
  ASSUME NEW d \in Dests, NEW dlv, NEW written \in BOOLEAN,
         Stands(d, dlv, written), Delivered(d, dlv)
  PROVE  written \/ d \in disturbed
  <1> SUFFICES ASSUME ~written, d \notin disturbed PROVE FALSE
    OBVIOUS
  <1>1. /\ ReadDestination(d) # dlv.after
        /\ d \in GitDests => ~Reached(ResourceOf[d], dlv.commit)
    BY DEF Stands
  <1>2. CASE d \in GitDests
    BY <1>1, <1>2 DEF Delivered, GitDelivered, TreeHoldsAfterState, Reached, BranchBase
  <1>3. CASE d \notin GitDests
    BY <1>1, <1>3 DEF Delivered, FileDelivered, ReadDestination
  <1> QED
    BY <1>2, <1>3

\* What is proved untouched there has not, unless a hand was there.
LEMMA UntouchedMeansUnwritten ==
  ASSUME NEW d \in Dests, NEW dlv, NEW written \in BOOLEAN,
         TrueRecord(d, dlv), Stands(d, dlv, written), ~Delivered(d, dlv), Untouched(d, dlv)
  PROVE  ~written \/ d \in disturbed
  <1> SUFFICES ASSUME written, d \notin disturbed PROVE FALSE
    OBVIOUS
  <1>1. /\ ReadDestination(d) = dlv.after /\ dlv.after # dlv.before
        /\ d \in GitDests => log[ResourceOf[d]][dlv.base].tree[d] = dlv.before
    BY DEF Stands, TrueRecord
  <1>2. CASE d \in GitDests
    <2>1. CASE BranchBase(ResourceOf[d]) = dlv.base
      BY <1>1, <1>2, <2>1 DEF ReadDestination
    <2>2. CASE branch[ResourceOf[d]] = 0
      BY <1>1, <1>2, <2>2 DEF Delivered, GitDelivered, TreeHoldsAfterState
    <2> QED
      BY <1>2, <2>1, <2>2 DEF Untouched, GitUntouched
  <1>3. CASE d \notin GitDests
    BY <1>1, <1>3 DEF Untouched, FileUntouched, ReadDestination
  <1> QED
    BY <1>2, <1>3

\* A record stays true while commits keep their numbers.
LEMMA TrueRecordKept ==
  ASSUME OldCommitsKept, NEW d \in Dests, NEW dlv, TrueRecord(d, dlv)
  PROVE  TrueRecord(d, dlv)'
  <1>1. CASE d \in GitDests
    <2>1. ResourceOf[d] \in Repos
      BY <1>1 DEF Repos
    <2> QED
      BY <1>1, <2>1 DEF TrueRecord, OldCommitsKept
  <1>2. CASE d \notin GitDests
    BY <1>2 DEF TrueRecord
  <1> QED
    BY <1>1, <1>2

\* By hand a place is left as it stands.
LEMMA StandsByHand ==
  ASSUME ByHand, NEW d \in Dests, NEW dlv, NEW written \in BOOLEAN,
         TrueRecord(d, dlv), Stands(d, dlv, written)
  PROVE  Stands(d, dlv, written)'
  <1>1. d \in GitDests => ResourceOf[d] \in Repos /\ dlv.commit \in 1..Len(log[ResourceOf[d]])
    BY DEF TrueRecord, Repos
  <1> QED
    BY <1>1 DEF Stands, ByHand

\* A place reads as it did, and nothing enters its history.
SamePlace(d) ==
    /\ ReadDestination(d)' = ReadDestination(d)
    /\ d \in GitDests => \A k : Reached(ResourceOf[d], k)' <=> Reached(ResourceOf[d], k)
    /\ d \in disturbed' <=> d \in disturbed

LEMMA StandsInSamePlace ==
  ASSUME NEW d \in Dests, NEW dlv, NEW written \in BOOLEAN, SamePlace(d), Stands(d, dlv, written)
  PROVE  Stands(d, dlv, written)'
  BY DEF Stands, SamePlace

\* A preparation records an edit of the content as it is, and makes a commit that
\* is in nobody's history yet; every place reads as before.
LEMMA PreparedPlaces ==
  ASSUME WorldTypeOK, RefsExist, Numbered, NEW d \in Dests, NEW dlv \in DeliveryRecord,
         dlv.before = ReadDestination(d), dlv.after # dlv.before,
         d \in GitDests => /\ dlv.base = BranchBase(ResourceOf[d])
                           /\ dlv.commit = NextCommit(ResourceOf[d]),
         PrepareBranchCommit(d, dlv), UNCHANGED <<file, head, branch, checkedOut, external, disturbed>>
  PROVE  /\ WorldTypeOK' /\ RefsExist' /\ Numbered' /\ OldCommitsKept
         /\ \A e \in Dests : SamePlace(e)
         /\ TrueRecord(d, dlv)' /\ Stands(d, dlv, FALSE)'
  <1> DEFINE repo == ResourceOf[d]
             tree == [log[repo][dlv.base].tree EXCEPT ![d] = dlv.after]
  <1>1. dlv.after \in Content /\ dlv.base \in Nat /\ dlv.commit \in Nat
    BY DEF DeliveryRecord
  <1>2. ASSUME d \in GitDests
        PROVE  /\ repo \in Repos /\ dlv.base \in 1..Len(log[repo])
               /\ log[repo][dlv.base].tree \in [GitDests -> Content]
               /\ tree \in [GitDests -> Content] /\ tree[d] = dlv.after
               /\ AddCommit(repo, {dlv.base}, tree) /\ {dlv.base} \in SUBSET (1..Len(log[repo]))
    <2>1. repo \in Repos
      BY <1>2 DEF Repos
    <2>2. dlv.base \in 1..Len(log[repo])
      BY <1>2, <2>1, TipExists
    <2>3. log[repo][dlv.base].tree \in [GitDests -> Content]
      BY <2>1, <2>2, TreeType
    <2>4. tree \in [GitDests -> Content] /\ tree[d] = dlv.after
      BY <1>1, <1>2, <2>3
    <2>5. AddCommit(repo, {dlv.base}, tree)
      BY <1>2 DEF PrepareBranchCommit, AddCommit
    <2> QED
      BY <2>1, <2>2, <2>3, <2>4, <2>5
  <1>3. ASSUME d \in GitDests
        PROVE  /\ log' \in [Repos -> Seq(Commit)] /\ RefsExist'
               /\ OldCommitsKept /\ Numbered'
               /\ dlv.commit \in 1..Len(log'[repo]) /\ dlv.commit \notin 1..Len(log[repo])
               /\ log'[repo][dlv.commit].tree[d] = dlv.after
               /\ log'[repo][dlv.commit].anc = log[repo][dlv.base].anc \cup {dlv.commit}
    <2> HIDE DEF tree, repo
    <2>0. dlv.commit = NextCommit(repo)
      BY <1>3 DEF repo
    <2>1. /\ log' \in [Repos -> Seq(Commit)] /\ RefsExist'
      BY <1>2, <1>3, CommitStep
    <2>2. /\ OldCommitsKept /\ Numbered'
          /\ NextCommit(repo) \in 1..Len(log'[repo]) /\ NextCommit(repo) \notin 1..Len(log[repo])
          /\ log'[repo][NextCommit(repo)].tree = tree
          /\ log'[repo][NextCommit(repo)].anc =
                 (UNION {log[repo][k].anc : k \in {dlv.base}}) \cup {NextCommit(repo)}
      BY <1>2, <1>3, CommitAdded
    <2>3. UNION {log[repo][k].anc : k \in {dlv.base}} = log[repo][dlv.base].anc
      OBVIOUS
    <2> QED
      BY <1>2, <1>3, <2>0, <2>1, <2>2, <2>3
  <1> HIDE DEF tree, repo
  <1>4. /\ log' \in [Repos -> Seq(Commit)] /\ RefsExist' /\ OldCommitsKept /\ Numbered'
    <2>1. CASE d \in GitDests
      BY <1>3, <2>1
    <2>2. CASE d \notin GitDests
      <3>1. UNCHANGED log
        BY <2>2 DEF PrepareBranchCommit
      <3> QED
        BY <3>1, SameLog DEF WorldTypeOK, RefsExist
    <2> QED
      BY <2>1, <2>2
  <1>5. WorldTypeOK'
    BY <1>4 DEF WorldTypeOK
  <1>6. \A q \in Repos : /\ log'[q][head[q]] = log[q][head[q]]
                         /\ branch[q] # 0 => log'[q][branch[q]] = log[q][branch[q]]
                         /\ log'[q][BranchBase(q)] = log[q][BranchBase(q)]
    <2>1. ASSUME NEW q \in Repos
          PROVE  head[q] \in 1..Len(log[q]) /\ (branch[q] # 0 => branch[q] \in 1..Len(log[q]))
      <3>1. log[q] \in Seq(Commit)
        BY DEF WorldTypeOK
      <3>2. head[q] \in 1..Len(log[q]) /\ branch[q] \in 0..Len(log[q]) /\ Len(log[q]) \in Nat
        BY <3>1 DEF RefsExist
      <3> QED
        BY <3>2
    <2> QED
      BY <1>4, <2>1 DEF OldCommitsKept, BranchBase
  <1>7. ASSUME NEW e \in Dests
        PROVE  SamePlace(e)
    <2>1. e \in GitDests => ResourceOf[e] \in Repos
      BY DEF Repos
    <2>2. \A q \in Repos : BranchBase(q)' = BranchBase(q)
      BY DEF BranchBase
    <2>3. ReadDestination(e)' = ReadDestination(e)
      BY <1>6, <2>1, <2>2 DEF ReadDestination
    <2>4. e \in GitDests => \A k : Reached(ResourceOf[e], k)' <=> Reached(ResourceOf[e], k)
      BY <1>6, <2>1 DEF Reached
    <2> QED
      BY <2>3, <2>4 DEF SamePlace
  <1>8. TrueRecord(d, dlv)'
    <2>1. d \in GitDests => log'[repo][dlv.base] = log[repo][dlv.base]
                            /\ dlv.base \in 1..Len(log'[repo])
      BY <1>2, <1>4 DEF OldCommitsKept
    <2>2. d \in GitDests => log[repo][dlv.base].tree[d] = dlv.before
      BY DEF ReadDestination, repo
    <2> QED
      BY <1>3, <2>1, <2>2 DEF TrueRecord, repo
  <1>9. Stands(d, dlv, FALSE)'
    <2>1. ReadDestination(d)' # dlv.after
      BY <1>7 DEF SamePlace
    <2>2. ASSUME d \in GitDests, Reached(repo, dlv.commit) PROVE FALSE
      <3>1. repo \in Repos /\ dlv.commit \notin 1..Len(log[repo])
        BY <1>2, <1>3, <2>2
      <3>2. log[repo] \in Seq(Commit)
        BY <3>1 DEF WorldTypeOK
      <3>3. head[repo] \in 1..Len(log[repo]) /\ branch[repo] \in 0..Len(log[repo])
            /\ Len(log[repo]) \in Nat
        BY <3>1, <3>2 DEF RefsExist
      <3>4. branch[repo] # 0 => branch[repo] \in 1..Len(log[repo])
        BY <3>3
      <3> QED
        BY <2>2, <3>1, <3>3, <3>4 DEF Reached, Numbered
    <2>3. d \in GitDests => ~Reached(ResourceOf[d], dlv.commit)'
      BY <1>7, <2>2 DEF SamePlace, repo
    <2> QED
      BY <2>1, <2>3 DEF Stands
  <1> QED
    BY <1>4, <1>5, <1>7, <1>8, <1>9

\* A write puts its place as its record says, and leaves every place of another
\* file or branch alone.
LEMMA PublishedPlaces ==
  ASSUME WorldTypeOK, RefsExist, Numbered, NEW d \in Dests, NEW dlv \in DeliveryRecord,
         d \in GitDests => dlv.commit \in 1..Len(log[ResourceOf[d]]),
         PublishPreparedWrite(d, dlv)
  PROVE  /\ WorldTypeOK' /\ RefsExist' /\ Numbered' /\ OldCommitsKept
         /\ \A e \in Dests : ResourceOf[e] # ResourceOf[d] => SamePlace(e)
         /\ TrueRecord(d, dlv) => Stands(d, dlv, TRUE)'
  <1> DEFINE repo == ResourceOf[d]
  <1>1. /\ log' = log /\ head' = head /\ disturbed' = disturbed \ {d}
        /\ UNCHANGED <<checkedOut, external>>
        /\ d \in GitDests => branch' = [branch EXCEPT ![repo] = dlv.commit] /\ file' = file
        /\ d \notin GitDests => file' = [file EXCEPT ![d] = dlv.after] /\ branch' = branch
    BY DEF PublishPreparedWrite
  <1>2. OldCommitsKept /\ Numbered'
    BY <1>1, SameLog
  <1>3. d \in GitDests => repo \in Repos
    BY DEF Repos
  <1>4. dlv.after \in Content /\ dlv.commit \in Nat
    BY DEF DeliveryRecord
  <1>5. /\ branch' \in [Repos -> Nat] /\ file' \in [Files -> Content]
        /\ \A q \in Repos : q # repo => branch'[q] = branch[q]
        /\ d \in GitDests => branch'[repo] = dlv.commit
    <2>1. CASE d \in GitDests
      BY <1>1, <1>3, <1>4, <2>1 DEF WorldTypeOK
    <2>2. CASE d \notin GitDests
      BY <1>1, <1>4, <2>2 DEF WorldTypeOK, Files
    <2> QED
      BY <2>1, <2>2
  <1>6. WorldTypeOK'
    BY <1>1, <1>5 DEF WorldTypeOK
  <1>7. RefsExist'
    <2>1. ASSUME NEW q \in Repos
          PROVE  branch'[q] \in 0..Len(log[q])
      <3>1. CASE q = repo /\ d \in GitDests
        <4>1. branch'[q] \in 1..Len(log[q])
          BY <1>5, <3>1
        <4> QED
          BY <4>1
      <3>2. CASE q # repo
        BY <1>5, <3>2 DEF RefsExist
      <3>3. CASE d \notin GitDests
        BY <1>1, <3>3 DEF RefsExist
      <3> QED
        BY <3>1, <3>2, <3>3
    <2> QED
      BY <1>1, <2>1 DEF RefsExist
  <1>8. ASSUME NEW e \in Dests, ResourceOf[e] # repo
        PROVE  SamePlace(e)
    <2>1. e # d /\ (e \in GitDests => ResourceOf[e] \in Repos)
      BY <1>8 DEF Repos
    <2>2. e \in GitDests => branch'[ResourceOf[e]] = branch[ResourceOf[e]]
      BY <1>5, <1>8, <2>1
    <2>3. e \notin GitDests => file'[e] = file[e]
      BY <1>1, <2>1 DEF WorldTypeOK, Files
    <2>4. ReadDestination(e)' = ReadDestination(e)
      BY <1>1, <2>2, <2>3 DEF ReadDestination, BranchBase
    <2>5. e \in GitDests => \A k : Reached(ResourceOf[e], k)' <=> Reached(ResourceOf[e], k)
      BY <1>1, <2>2 DEF Reached
    <2> QED
      BY <1>1, <2>1, <2>4, <2>5 DEF SamePlace
  <1>9. ASSUME TrueRecord(d, dlv)
        PROVE  Stands(d, dlv, TRUE)'
    <2>1. ReadDestination(d)' = dlv.after
      <3>1. CASE d \in GitDests
        <4>1. dlv.commit # 0
          BY <3>1, <1>4
        <4>2. log[repo][dlv.commit].tree[d] = dlv.after
          BY <1>9, <3>1 DEF TrueRecord
        <4> QED
          BY <1>1, <1>5, <3>1, <4>1, <4>2 DEF ReadDestination, BranchBase
      <3>2. CASE d \notin GitDests
        BY <1>1, <3>2 DEF ReadDestination, WorldTypeOK, Files
      <3> QED
        BY <3>1, <3>2
    <2> QED
      BY <2>1 DEF Stands
  <1> QED
    BY <1>2, <1>6, <1>7, <1>8, <1>9
=============================================================================
