---------------------------- MODULE NightlyProofs ----------------------------
(***************************************************************************)
(* Proofs about Nightly, for every set of transcripts, runs and worker     *)
(* processes and every value of the bounds: the types, with where a run is *)
(* in the code; that a line makes one incident; that an incident leaves    *)
(* the queue once and with what it led to; that the reaper leaves a living *)
(* run alone; that no checkpoint passes a signal without an incident; and  *)
(* when none passes an error or a line that is not counted and measured.   *)
(***************************************************************************)
EXTENDS Nightly, FiniteSetTheorems, SequenceTheorems, TLAPS

-----------------------------------------------------------------------------
\* The inductive invariant, in parts.

\* Where a run or a worker is in the code tells what it has at hand: the file
\* it reads is still in its list, the lines it read end within the transcript,
\* and its row exists.
Places ==
    /\ \A f \in Files : Len(content[f]) <= written
    /\ \A r \in Runs :
         /\ pc[r] \in {"parse", "publish"} => file[r] \in todo[r]
         /\ pc[r] = "publish" => Start(r) + Len(read[r].lines) <= MaxWrites
         /\ pc[r] \in {"scan", "parse", "publish", "mining"} => run[r] \in RunRow
    /\ \A w \in Workers :
         wpc[w] = "drafting" => run[Job] \in RunRow /\ draftOf \in Key

TypesInv == TypeOK /\ Places

\* IncidentOncePerLine without counting.
OneIncident ==
    \A f \in Files, id \in LineIds : \A r, q \in Runs :
        incident[<<f, id, r>>] # "none" /\ incident[<<f, id, q>>] # "none" => r = q

\* A run that has still to publish a transcript has stored none of its
\* incidents, so no incident it stores later has a receipt already.
Fresh ==
    \A f \in Files, id \in LineIds, r \in Runs :
        pc[r] \in {"off", "reap"} \/ f \in todo[r] =>
            incident[<<f, id, r>>] = "none" /\ receipts[<<f, id, r>>] = 0

\* Processes start once and die once.  A row names a process that was started,
\* so one that a reaper found without life is over for good.
At(p) == IF p \in Runs THEN pc[p] ELSE wpc[p]
DeadStayDead ==
    /\ \A q \in RunIds, p \in Processes :
         run[q] \in RunRow /\ run[q].owner = p => At(p) # "off"
    /\ \A r \in Runs, q \in RunIds, p \in Processes :
         <<q, p>> \in judged[r] => At(p) = "ended"

\* Every signal in the first n lines of a transcript has an incident.
KnownTo(f, n) ==
    \A k \in 1..n : content[f][k].kind = "signal" => Known(f, content[f][k].id)

\* The checkpoint of a transcript that only grows, and the copy of it that a
\* run resumes from, cover no signal without an incident; and what the run
\* read is what the transcript holds behind that copy.
Checkpoints ==
    \A f \in Files \ (rewritten \cup torn) :
        /\ session[f] # None =>
             session[f].bytes <= Len(content[f]) /\ KnownTo(f, session[f].bytes)
        /\ \A r \in Runs : pc[r] \in {"parse", "publish"} /\ file[r] = f =>
             /\ Existing(r) # None =>
                  Existing(r).bytes <= Len(content[f]) /\ KnownTo(f, Existing(r).bytes)
             /\ pc[r] = "publish" =>
                  /\ Start(r) + Len(read[r].lines) <= Len(content[f])
                  /\ \A k \in 1..Len(read[r].lines) :
                       read[r].lines[k] = content[f][Start(r) + k]

-----------------------------------------------------------------------------
\* Lines of a transcript.

\* The lines of one kind are finitely many line numbers.
LEMMA OfType ==
  ASSUME NEW lines \in Seq(Line), NEW kind
  PROVE  Of(lines, kind) \subseteq LineIds /\ Cardinality(Of(lines, kind)) \in Nat
  <1>0. \A k \in DOMAIN lines : lines[k] \in Line
    BY LenProperties, ElementOfSeq
  <1>1. Of(lines, kind) \subseteq LineIds
    BY <1>0 DEF Of, Line
  <1>2. IsFiniteSet(LineIds)
    BY FS_Interval, ScanAssumption DEF LineIds
  <1> QED
    BY <1>1, <1>2, FS_Subset, FS_CardinalityType

\* So are all of them.
LEMMA IdsType ==
  ASSUME NEW lines \in Seq(Line)
  PROVE  Ids(lines) \subseteq LineIds
  <1>1. \A k \in DOMAIN lines : lines[k] \in Line
    BY LenProperties, ElementOfSeq
  <1> QED
    BY <1>1 DEF Ids, Line

\* What a run reads behind an offset.
LEMMA TailType ==
  ASSUME NEW lines \in Seq(Line), NEW n \in Nat
  PROVE  LET tail == SubSeq(lines, n + 1, Len(lines))
         IN  /\ tail \in Seq(Line)
             /\ Len(tail) = IF n < Len(lines) THEN Len(lines) - n ELSE 0
             /\ \A k \in 1..Len(tail) : n + k \in 1..Len(lines) /\ tail[k] = lines[n + k]
  <1>1. Len(lines) \in Nat /\ \A k \in 1..Len(lines) : lines[k] \in Line
    BY LenProperties, ElementOfSeq
  <1> DEFINE tail == SubSeq(lines, n + 1, Len(lines))
  <1>2. \A i \in (n + 1)..Len(lines) : lines[i] \in Line
    BY <1>1
  <1>3. /\ tail \in Seq(Line)
        /\ Len(tail) = IF n + 1 <= Len(lines) THEN Len(lines) - (n + 1) + 1 ELSE 0
        /\ \A i \in 1..(Len(lines) - (n + 1) + 1) : tail[i] = lines[(n + 1) + i - 1]
    BY <1>1, <1>2, SubSeqProperties
  <1>4. Len(tail) = IF n < Len(lines) THEN Len(lines) - n ELSE 0
    BY <1>1, <1>3
  <1>5. ASSUME NEW k \in 1..Len(tail)
        PROVE  n + k \in 1..Len(lines) /\ tail[k] = lines[n + k]
    BY <1>1, <1>3, <1>4, SMTT(30)
  <1> QED
    BY <1>3, <1>4, <1>5

\* What is left of a transcript that is cut down.
LEMMA HeadType ==
  ASSUME NEW lines \in Seq(Line), NEW n \in 0..(Len(lines) - 1)
  PROVE  SubSeq(lines, 1, n) \in Seq(Line) /\ Len(SubSeq(lines, 1, n)) = n
  <1>1. Len(lines) \in Nat /\ \A k \in 1..n : lines[k] \in Line
    BY LenProperties, ElementOfSeq
  <1> QED
    BY <1>1, SubSeqProperties

-----------------------------------------------------------------------------
\* The types, and the places of the runs and workers.

LEMMA InitTypes == Init => TypesInv
  <1> SUFFICES ASSUME Init PROVE TypesInv
    OBVIOUS
  <1> USE ScanAssumption, NightlyAssumption DEF Init, ScanInit
  <1>1. content \in [Files -> Seq(Line)] /\ \A f \in Files : Len(content[f]) <= written
    OBVIOUS
  <1>2. TypeOK
    BY <1>1 DEF TypeOK, NoStat, Unread, IncidentStatus, Over, RunRow
  <1>3. Places
    BY <1>1 DEF Places
  <1> QED
    BY <1>2, <1>3 DEF TypesInv

\* A run that stops has no locals.
LEMMA StopTypes ==
  ASSUME TypeOK, NEW r \in Runs, Stop(r)
  PROVE  /\ pc' \in [Runs -> Over \cup {"reap", "scan", "parse", "publish", "mining"}]
         /\ pc' = [pc EXCEPT ![r] = "ended"]
         /\ judged' \in [Runs -> SUBSET (RunIds \X Processes)]
         /\ queue' \in [Runs -> SUBSET Key]
         /\ todo' \in [Runs -> SUBSET Files] /\ file' \in [Runs -> Files \cup {None}]
         /\ stat' \in [Runs -> [Files -> [size : 0..MaxWrites, mtime : 0..MaxWrites]]]
         /\ read' \in [Runs -> [row : SessionRow \cup {None}, lines : Seq(Line)]]
         /\ \A q \in Runs \ {r} : /\ pc'[q] = pc[q] /\ file'[q] = file[q] /\ stat'[q] = stat[q]
                                /\ todo'[q] = todo[q] /\ read'[q] = read[q]
         /\ todo'[r] = {}
  <1> USE ScanAssumption DEF Stop, Goto, Forget, TypeOK, Over
  <1>1. NoStat \in [Files -> [size : 0..MaxWrites, mtime : 0..MaxWrites]]
    BY DEF NoStat
  <1>2. Unread \in [row : SessionRow \cup {None}, lines : Seq(Line)]
    BY EmptySeq DEF Unread
  <1>3. /\ stat' \in [Runs -> [Files -> [size : 0..MaxWrites, mtime : 0..MaxWrites]]]
        /\ read' \in [Runs -> [row : SessionRow \cup {None}, lines : Seq(Line)]]
    BY <1>1, <1>2
  <1> QED
    BY <1>3

LEMMA TranscriptTypes ==
  ASSUME TypesInv, Transcript
  PROVE  TypesInv'
  <1> USE ScanAssumption
  <1>0. PICK f \in Files : CutLines(f) \/ \E k \in Kinds : WriteLine(f, k)
    BY DEF Transcript
  <1>1. content[f] \in Seq(Line) /\ Len(content[f]) \in Nat /\ Len(content[f]) <= written
    BY LenProperties DEF TypesInv, TypeOK, Places
  <1>2. /\ written' = written + 1 /\ written' \in LineIds /\ written' \in 0..MaxWrites
        /\ mtime' = [mtime EXCEPT ![f] = written']
    <2>1. /\ written < MaxWrites /\ written' = written + 1
          /\ mtime' = [mtime EXCEPT ![f] = written']
      BY <1>0 DEF CutLines, WriteLine
    <2> QED
      BY <2>1 DEF TypesInv, TypeOK, LineIds
  <1>3. \E text \in Seq(Line) : /\ content' = [content EXCEPT ![f] = text]
                               /\ Len(text) <= written'
    <2>1. CASE CutLines(f)
      <3>1. PICK n \in 0..(Len(content[f]) - 1) :
               content' = [content EXCEPT ![f] = SubSeq(content[f], 1, n)]
        BY <2>1 DEF CutLines
      <3>2. SubSeq(content[f], 1, n) \in Seq(Line) /\ Len(SubSeq(content[f], 1, n)) <= written'
        BY <1>1, <1>2, HeadType DEF TypesInv, TypeOK
      <3> QED
        BY <3>1, <3>2
    <2>2. ASSUME NEW k \in Kinds, WriteLine(f, k)
          PROVE  \E text \in Seq(Line) : /\ content' = [content EXCEPT ![f] = text]
                                        /\ Len(text) <= written'
      <3> DEFINE text == Append(content[f], [id |-> written', kind |-> k])
      <3>1. text \in Seq(Line) /\ Len(text) = Len(content[f]) + 1
        BY <1>1, <1>2 DEF Line
      <3>2. content' = [content EXCEPT ![f] = text] /\ Len(text) <= written'
        BY <1>1, <1>2, <2>2, <3>1 DEF WriteLine, TypesInv, TypeOK
      <3> QED
        BY <3>1, <3>2
    <2> QED
      BY <1>0, <2>1, <2>2
  <1>4. /\ content' \in [Files -> Seq(Line)]
        /\ \A g \in Files : Len(content'[g]) <= written'
    BY <1>1, <1>2, <1>3, LenProperties DEF TypesInv, TypeOK, Places
  <1>5. mtime' \in [Files -> 0..MaxWrites]
    BY <1>2 DEF TypesInv, TypeOK
  <1>6. rewritten' \subseteq Files
    BY <1>0 DEF TypesInv, TypeOK, CutLines, WriteLine
  <1>7. UNCHANGED <<torn, scanRows, scannerVars, faults, commands, pc, recordVars,
                   queueVars, workerVars>>
    BY DEF Transcript
  <1>8. TypeOK'
    BY <1>2, <1>4, <1>5, <1>6, <1>7
       DEF TypesInv, TypeOK, scanRows, scannerVars, recordVars, queueVars, workerVars
  <1>9. Places'
    BY <1>4, <1>7 DEF TypesInv, Places, Start, Existing, Size, scanRows, scannerVars,
       recordVars, queueVars, workerVars
  <1> QED
    BY <1>8, <1>9 DEF TypesInv

\* A step of one run leaves the places of the others alone.
LEMMA PlacesKept ==
  ASSUME Places, NEW r \in Runs,
         UNCHANGED <<content, written, workerVars>>,
         \A q \in Runs \ {r} : /\ pc'[q] = pc[q] /\ file'[q] = file[q] /\ stat'[q] = stat[q]
                               /\ todo'[q] = todo[q] /\ read'[q] = read[q],
         \A q \in RunIds : run[q] \in RunRow => run'[q] \in RunRow,
         pc'[r] \in {"parse", "publish"} => file'[r] \in todo'[r],
         pc'[r] = "publish" => Start(r)' + Len(read'[r].lines) <= MaxWrites,
         pc'[r] \in {"scan", "parse", "publish", "mining"} => run'[r] \in RunRow
  PROVE  Places'
  <1>1. \A f \in Files : Len(content'[f]) <= written'
    BY DEF Places
  <1>2. ASSUME NEW q \in Runs
        PROVE  /\ pc'[q] \in {"parse", "publish"} => file'[q] \in todo'[q]
               /\ pc'[q] = "publish" => Start(q)' + Len(read'[q].lines) <= MaxWrites
               /\ pc'[q] \in {"scan", "parse", "publish", "mining"} => run'[q] \in RunRow
    <2>1. CASE q = r
      BY <2>1
    <2>2. CASE q # r
      <3>1. Start(q)' = Start(q)
        BY <2>2 DEF Start, Existing, Size
      <3> QED
        BY <2>2, <3>1 DEF Places, RunIds
    <2> QED
      BY <2>1, <2>2
  <1>3. \A w \in Workers : wpc'[w] = "drafting" => run'[Job] \in RunRow /\ draftOf' \in Key
    BY DEF Places, workerVars, RunIds
  <1> QED
    BY <1>1, <1>2, <1>3 DEF Places

\* The offset a run resumes at lies within what transcripts can hold.
LEMMA StartType ==
  ASSUME TypeOK, NEW r \in Runs, file[r] \in Files
  PROVE  /\ Size(r) \in 0..MaxWrites /\ Start(r) \in 0..MaxWrites
         /\ stat[r][file[r]].mtime \in 0..MaxWrites
         /\ Existing(r) \in SessionRow \cup {None}
  <1>1. /\ stat[r][file[r]] \in [size : 0..MaxWrites, mtime : 0..MaxWrites]
        /\ read[r].row \in SessionRow \cup {None}
    BY DEF TypeOK
  <1>2. Existing(r) # None => Existing(r).bytes \in 0..MaxWrites
    BY <1>1 DEF Existing, SessionRow
  <1> QED
    BY <1>1, <1>2, ScanAssumption DEF Start, Size, Existing

LEMMA RecordTypes ==
  ASSUME TypesInv, NEW r \in Runs, RecordStep(r)
  PROVE  TypesInv'
  <1> USE ScanAssumption, NightlyAssumption DEF TypesInv
  <1>0. UNCHANGED <<transcriptVars, historyVars, scanRows, faults, commands, queueVars, workerVars>>
    BY DEF RecordStep
  <1>1. CASE Judge(r) /\ UNCHANGED scannerVars
    <2>1. {<<q, run[q].owner>> : q \in {p \in RunIds : Running(p) /\ run[p].owner \notin Living}}
              \in SUBSET (RunIds \X Processes)
      <3>1. \A q \in RunIds : Running(q) => run[q].owner \in Processes
        BY DEF TypeOK, Running, RunRow
      <3> QED
        BY <3>1
    <2>2. /\ judged' \in [Runs -> SUBSET (RunIds \X Processes)]
          /\ pc' \in [Runs -> Over \cup {"reap", "scan", "parse", "publish", "mining"}]
          /\ pc' = [pc EXCEPT ![r] = "reap"]
      BY <1>1, <2>1 DEF Judge, Goto, TypeOK
    <2>3. TypeOK'
      BY <1>0, <1>1, <2>2 DEF Judge, TypeOK, transcriptVars, historyVars, scanRows, scannerVars,
         queueVars, workerVars
    <2>4. Places'
      BY <1>0, <1>1, <2>2, PlacesKept
         DEF Judge, TypeOK, transcriptVars, scannerVars
    <2> QED
      BY <2>3, <2>4
  <1>2. CASE Begin(r)
    <2>1. /\ Reaped(r) \in [RunIds -> RunRow \cup {None}]
          /\ \A q \in RunIds : run[q] \in RunRow => Reaped(r)[q] \in RunRow
      <3>1. ASSUME NEW q \in RunIds
            PROVE  /\ Reaped(r)[q] \in RunRow \cup {None}
                   /\ run[q] \in RunRow => Reaped(r)[q] \in RunRow
        <4>1. CASE AsJudged(r, q)
          <5>1. run[q] \in RunRow
            BY <4>1 DEF AsJudged, Running, TypeOK
          <5>2. [run[q] EXCEPT !.status = "abandoned"] \in RunRow
            BY <5>1 DEF RunRow, RunStatus
          <5> QED
            BY <4>1, <5>2 DEF Reaped
        <4>2. CASE ~AsJudged(r, q)
          BY <4>2 DEF Reaped, TypeOK
        <4> QED
          BY <4>1, <4>2
      <3>2. Reaped(r) = [q \in RunIds |-> Reaped(r)[q]]
        BY DEF Reaped
      <3> QED
        BY <3>1, <3>2
    <2>2. /\ run' \in [RunIds -> RunRow \cup {None}] /\ run'[r] \in RunRow
          /\ \A q \in RunIds : run[q] \in RunRow => run'[q] \in RunRow
      <3>1. [status |-> "running", owner |-> r] \in RunRow
        BY DEF RunRow, RunStatus, Processes
      <3> QED
        BY <1>2, <2>1, <3>1 DEF Begin, RunIds
    <2>3. \A f \in Files : Len(content[f]) \in 0..MaxWrites /\ mtime[f] \in 0..MaxWrites
      BY LenProperties DEF TypeOK, Places
    <2>4. /\ stat' \in [Runs -> [Files -> [size : 0..MaxWrites, mtime : 0..MaxWrites]]]
          /\ todo' \in [Runs -> SUBSET Files]
          /\ stat' = [stat EXCEPT ![r] = stat'[r]] /\ todo' = [todo EXCEPT ![r] = todo'[r]]
      BY <1>2, <2>3 DEF Begin, Discover, TypeOK
    <2>5. /\ judged' \in [Runs -> SUBSET (RunIds \X Processes)]
          /\ pc' \in [Runs -> Over \cup {"reap", "scan", "parse", "publish", "mining"}]
          /\ pc' = [pc EXCEPT ![r] = "scan"]
          /\ UNCHANGED <<file, read>>
      BY <1>2 DEF Begin, Discover, Goto, TypeOK
    <2>6. TypeOK'
      BY <1>0, <2>2, <2>4, <2>5 DEF TypeOK, transcriptVars, historyVars, scanRows,
         queueVars, workerVars
    <2>7. Places'
      BY <1>0, <2>2, <2>4, <2>5, PlacesKept DEF TypeOK, transcriptVars
    <2> QED
      BY <2>6, <2>7
  <1> QED
    BY <1>1, <1>2 DEF RecordStep

LEMMA LookTypes ==
  ASSUME TypesInv, NEW r \in Runs, LookStep(r)
  PROVE  TypesInv'
  <1> USE ScanAssumption, NightlyAssumption DEF TypesInv
  <1>0. UNCHANGED <<transcriptVars, historyVars, scanRows, faults, commands, recordVars,
                    queueVars, workerVars>>
    BY DEF LookStep
  <1>1. CASE Parse(r)
    <2> DEFINE text == content[file[r]]
               tail == SubSeq(text, Start(r) + 1, Len(text))
    <2>1. file[r] \in Files /\ file[r] \in todo[r] /\ run[r] \in RunRow
      BY <1>1 DEF Parse, TypeOK, Places
    <2>2. Start(r) \in 0..MaxWrites /\ text \in Seq(Line) /\ Len(text) \in 0..MaxWrites
      BY <2>1, StartType, LenProperties, SMTT(30) DEF TypeOK, Places
    <2>3. tail \in Seq(Line) /\ Start(r) + Len(tail) <= MaxWrites
      BY <2>2, TailType
    <2>4. /\ read' = [read EXCEPT ![r].lines = tail]
          /\ pc' = [pc EXCEPT ![r] = "publish"] /\ UNCHANGED <<stat, todo, file>>
      BY <1>1 DEF Parse, Goto
    <2>5. /\ read' \in [Runs -> [row : SessionRow \cup {None}, lines : Seq(Line)]]
          /\ read'[r].lines = tail /\ read'[r].row = read[r].row
          /\ \A q \in Runs \ {r} : read'[q] = read[q]
      <3>1. read[r] \in [row : SessionRow \cup {None}, lines : Seq(Line)]
        BY DEF TypeOK
      <3>2. /\ [read[r] EXCEPT !.lines = tail] \in [row : SessionRow \cup {None}, lines : Seq(Line)]
            /\ [read[r] EXCEPT !.lines = tail].lines = tail
            /\ [read[r] EXCEPT !.lines = tail].row = read[r].row
        BY <2>3, <3>1
      <3>3. read' = [read EXCEPT ![r] = [read[r] EXCEPT !.lines = tail]]
        BY <2>4
      <3> HIDE DEF tail
      <3> QED
        BY <3>2, <3>3, SMTT(30) DEF TypeOK
    <2>6. Start(r)' = Start(r)
      BY <2>4, <2>5, ZenonT(60) DEF Start, Existing, Size
    <2>7. TypeOK'
      BY <1>0, <2>4, <2>5 DEF TypeOK, transcriptVars, historyVars, scanRows, recordVars,
         queueVars, workerVars
    <2>8. Places'
      BY <1>0, <2>1, <2>3, <2>4, <2>5, <2>6, PlacesKept DEF TypeOK, transcriptVars, recordVars
    <2> QED
      BY <2>7, <2>8
  <1>2. ASSUME NEW f \in Files, SkipUnchanged(r, f)
        PROVE  TypesInv'
    <2>1. TypeOK'
      BY <1>0, <1>2 DEF SkipUnchanged, TypeOK, transcriptVars, historyVars, scanRows, recordVars,
         queueVars, workerVars
    <2>2. Places'
      BY <1>0, <1>2, PlacesKept DEF SkipUnchanged, Places, TypeOK, transcriptVars, recordVars
    <2> QED
      BY <2>1, <2>2
  <1>3. ASSUME NEW f \in Files, ReadSession(r, f)
        PROVE  TypesInv'
    <2>1. read' \in [Runs -> [row : SessionRow \cup {None}, lines : Seq(Line)]]
      <3>1. [row |-> session[f], lines |-> <<>>] \in [row : SessionRow \cup {None}, lines : Seq(Line)]
        BY EmptySeq DEF TypeOK
      <3> QED
        BY <1>3, <3>1 DEF ReadSession, TypeOK
    <2>2. /\ file' = [file EXCEPT ![r] = f] /\ pc' = [pc EXCEPT ![r] = "parse"]
          /\ \A q \in Runs \ {r} : read'[q] = read[q]
          /\ pc[r] = "scan" /\ f \in todo[r] /\ UNCHANGED <<stat, todo>>
      BY <1>3 DEF ReadSession, Goto, TypeOK
    <2>3. TypeOK'
      BY <1>0, <2>1, <2>2 DEF TypeOK, transcriptVars, historyVars, scanRows, recordVars,
         queueVars, workerVars
    <2>4. Places'
      BY <1>0, <2>2, PlacesKept DEF Places, TypeOK, transcriptVars, recordVars
    <2> QED
      BY <2>3, <2>4
  <1> QED
    BY <1>1, <1>2, <1>3 DEF LookStep

\* What a run stores about a transcript has its type.
LEMMA PublishedType ==
  ASSUME TypesInv, NEW r \in Runs, pc[r] = "publish"
  PROVE  /\ file[r] \in Files /\ run[r] \in RunRow
         /\ ScannedRow(r) \in SessionRow
         /\ ErrorCount(r) \in Nat /\ Projection(r) \subseteq LineIds
  <1> USE ScanAssumption DEF TypesInv
  <1>1. file[r] \in Files /\ run[r] \in RunRow
    BY DEF TypeOK, Places
  <1>2. /\ Size(r) \in 0..MaxWrites /\ Start(r) \in 0..MaxWrites
        /\ stat[r][file[r]].mtime \in 0..MaxWrites
        /\ Existing(r) \in SessionRow \cup {None}
    BY <1>1, StartType
  <1>3. read[r].lines \in Seq(Line) /\ content[file[r]] \in Seq(Line)
    BY <1>1 DEF TypeOK
  <1>4. Start(r) + Len(read[r].lines) \in 0..MaxWrites
    BY <1>2, <1>3, LenProperties, SMTT(30) DEF Places
  <1>5. ScannedRow(r) \in SessionRow
    BY <1>2, <1>4 DEF ScannedRow, SessionRow
  <1>6. ErrorCount(r) \in Nat
    BY <1>1, <1>3, OfType DEF ErrorCount, TypeOK
  <1>7. Projection(r) \subseteq LineIds
    BY <1>3, IdsType DEF Projection
  <1> QED
    BY <1>1, <1>5, <1>6, <1>7

\* A run that fails on a file has a row of it to store.
LEMMA ErrorRowType ==
  ASSUME TypesInv, NEW r \in Runs, pc[r] \in {"parse", "publish"}
  PROVE  file[r] \in Files /\ run[r] \in RunRow /\ ErrorRow(r) \in SessionRow
  <1> USE ScanAssumption DEF TypesInv
  <1>1. file[r] \in Files /\ run[r] \in RunRow
    BY DEF TypeOK, Places
  <1>2. Existing(r) \in SessionRow \cup {None}
    BY <1>1, StartType
  <1>3. CASE Existing(r) = None
    BY <1>1, <1>3 DEF ErrorRow, SessionRow
  <1>4. CASE Existing(r) # None
    <2>1. /\ Existing(r) \in SessionRow
          /\ ErrorRow(r) = [Existing(r) EXCEPT !.mtime = 0, !.status = "error"]
      BY <1>2, <1>4 DEF ErrorRow
    <2>2. ASSUME NEW row \in SessionRow
          PROVE  [row EXCEPT !.mtime = 0, !.status = "error"] \in SessionRow
      <3>1. [row EXCEPT !.mtime = 0] \in SessionRow
        BY DEF SessionRow
      <3>2. ASSUME NEW late \in SessionRow
            PROVE  [late EXCEPT !.status = "error"] \in SessionRow
        BY DEF SessionRow
      <3> QED
        BY <3>1, <3>2
    <2> QED
      BY <1>1, <2>1, <2>2
  <1> QED
    BY <1>3, <1>4

\* A run goes on to its next transcript.
LEMMA NextFileTypes ==
  ASSUME TypeOK, NEW r \in Runs, NextFile(r)
  PROVE  /\ todo' \in [Runs -> SUBSET Files] /\ file' \in [Runs -> Files \cup {None}]
         /\ read' \in [Runs -> [row : SessionRow \cup {None}, lines : Seq(Line)]]
         /\ pc' \in [Runs -> Over \cup {"reap", "scan", "parse", "publish", "mining"}]
         /\ pc'[r] = "scan" /\ UNCHANGED stat
         /\ \A q \in Runs \ {r} : /\ pc'[q] = pc[q] /\ file'[q] = file[q] /\ stat'[q] = stat[q]
                                  /\ todo'[q] = todo[q] /\ read'[q] = read[q]
  <1>1. Unread \in [row : SessionRow \cup {None}, lines : Seq(Line)]
    BY EmptySeq DEF Unread
  <1> QED
    BY <1>1 DEF NextFile, Goto, TypeOK, Over

\* New incidents wait for the miner.
LEMMA StoredType ==
  ASSUME TypeOK, NEW new, StoreIncidents(new)
  PROVE  incident' \in [Key -> IncidentStatus]
  BY DEF StoreIncidents, TypeOK, IncidentStatus

LEMMA StoreTypes ==
  ASSUME TypesInv, NEW r \in Runs, StoreStep(r)
  PROVE  TypesInv'
  <1> USE ScanAssumption, NightlyAssumption DEF TypesInv
  <1>0. UNCHANGED <<transcriptVars, historyVars, commands, recordVars, queueVars, workerVars>>
    BY DEF StoreStep
  <1>1. CASE Publish(r) /\ UNCHANGED faults
    <2>1. pc[r] = "publish" /\ NextFile(r) /\ StoreIncidents(Detected(r))
      BY <1>1 DEF Publish
    <2>2. /\ session' \in [Files -> SessionRow \cup {None}]
          /\ errors' \in [Files -> Nat] /\ measured' \in [Files -> SUBSET LineIds]
      <3>1. /\ session' = [session EXCEPT ![file[r]] = ScannedRow(r)]
            /\ errors' = [errors EXCEPT ![file[r]] = ErrorCount(r)]
            /\ measured' = [measured EXCEPT ![file[r]] = Projection(r)]
        BY <1>1 DEF Publish
      <3> QED
        BY <2>1, <3>1, PublishedType DEF TypeOK
    <2>3. incident' \in [Key -> IncidentStatus]
      BY <2>1, StoredType
    <2>4. TypeOK'
      BY <1>0, <1>1, <2>1, <2>2, <2>3, NextFileTypes DEF TypeOK, transcriptVars, historyVars,
         recordVars, queueVars, workerVars
    <2>5. Places'
      BY <1>0, <2>1, NextFileTypes, PlacesKept, PublishedType
         DEF transcriptVars, recordVars
    <2> QED
      BY <2>4, <2>5
  <1>2. CASE FailFile(r)
    <2>1. pc[r] \in {"parse", "publish"} /\ NextFile(r) /\ UNCHANGED <<incident, errors, measured>>
      BY <1>2 DEF FailFile
    <2>2. session' \in [Files -> SessionRow \cup {None}]
      BY <1>2, <2>1, ErrorRowType DEF FailFile, TypeOK
    <2>3. faults' \in 0..MaxFaults
      BY <1>2 DEF FailFile, Fault, TypeOK
    <2>4. TypeOK'
      BY <1>0, <2>1, <2>2, <2>3, NextFileTypes DEF TypeOK, transcriptVars, historyVars,
         recordVars, queueVars, workerVars
    <2>5. Places'
      BY <1>0, <2>1, NextFileTypes, PlacesKept, ErrorRowType
         DEF transcriptVars, recordVars
    <2> QED
      BY <2>4, <2>5
  <1> QED
    BY <1>1, <1>2 DEF StoreStep

\* The transaction that settles one incident keeps its tables typed.
LEMMA ProcessedTypes ==
  ASSUME TypeOK, NEW i \in Key, NEW status \in Handled, SetProcessed(i, status)
  PROVE  incident' \in [Key -> IncidentStatus] /\ receipts' \in [Key -> Nat]
  BY DEF SetProcessed, TypeOK, IncidentStatus

LEMMA MineTypes ==
  ASSUME TypesInv, NEW r \in Runs, MineStep(r)
  PROVE  TypesInv'
  <1> USE ScanAssumption, NightlyAssumption DEF TypesInv
  <1>0. UNCHANGED <<transcriptVars, historyVars, session, errors, measured, scannerVars,
                    faults, commands, recordVars, workerVars>>
    BY DEF MineStep
  <1>1. /\ queue' \in [Runs -> SUBSET Key]
        /\ pc' = pc \/ (pc[r] = "scan" /\ pc' = [pc EXCEPT ![r] = "mining"])
    <2>1. CASE TakeQueue(r)
      BY <2>1 DEF TakeQueue, Goto, Waiting, TypeOK
    <2>2. ASSUME NEW i \in Key, Answered(r, i)
          PROVE  queue' \in [Runs -> SUBSET Key] /\ pc' = pc
      BY <2>2 DEF Answered, TypeOK
    <2>3. TakeQueue(r) \/ \E i \in Key : Answered(r, i)
      BY DEF MineStep, Dismiss, Learn
    <2> QED
      BY <2>1, <2>2, <2>3
  <1>2. /\ incident' \in [Key -> IncidentStatus] /\ receipts' \in [Key -> Nat]
        /\ links' \subseteq Key
    <2>1. CASE TakeQueue(r)
      BY <2>1 DEF TakeQueue, TypeOK
    <2>2. ASSUME NEW i \in Key, Dismiss(r, i)
          PROVE  /\ incident' \in [Key -> IncidentStatus] /\ receipts' \in [Key -> Nat]
                 /\ links' \subseteq Key
      BY <2>2, ProcessedTypes DEF Dismiss, TypeOK, Handled
    <2>3. ASSUME NEW i \in Key, Learn(r, i)
          PROVE  /\ incident' \in [Key -> IncidentStatus] /\ receipts' \in [Key -> Nat]
                 /\ links' \subseteq Key
      BY <2>3, ProcessedTypes DEF Learn, TypeOK, Handled
    <2> QED
      BY <2>1, <2>2, <2>3 DEF MineStep
  <1>3. TypeOK'
    BY <1>0, <1>1, <1>2 DEF TypeOK, transcriptVars, historyVars, scannerVars, recordVars, workerVars
  <1>4. Places'
    BY <1>0, <1>1, PlacesKept DEF TypeOK, Places, transcriptVars, scannerVars, recordVars, Start,
       Existing, Size
  <1> QED
    BY <1>3, <1>4

LEMMA EndTypes ==
  ASSUME TypesInv, NEW r \in Runs, EndStep(r)
  PROVE  TypesInv'
  <1> USE ScanAssumption, NightlyAssumption DEF TypesInv
  <1>0. UNCHANGED <<transcriptVars, rewritten, commands, receipts, workerVars>>
    BY DEF EndStep
  <1>1. Stop(r) /\ faults' \in 0..MaxFaults
    BY DEF EndStep, Finish, Crash, Interrupt, End, Fault, TypeOK
  <1>2. /\ run' \in [RunIds -> RunRow \cup {None}]
        /\ \A q \in RunIds : run[q] \in RunRow => run'[q] \in RunRow
    <2>1. ASSUME NEW status \in RunStatus, run' = [run EXCEPT ![r].status = status],
                 run[r] \in RunRow
          PROVE  /\ run' \in [RunIds -> RunRow \cup {None}]
                 /\ \A q \in RunIds : run[q] \in RunRow => run'[q] \in RunRow
      <3>1. [run[r] EXCEPT !.status = status] \in RunRow
        BY <2>1 DEF RunRow
      <3>2. run' = [run EXCEPT ![r] = [run[r] EXCEPT !.status = status]]
        BY <2>1
      <3> QED
        BY <3>1, <3>2 DEF TypeOK
    <2>2. CASE Finish(r)
      <3>1. run[r] \in RunRow
        BY <2>2 DEF Finish, Places
      <3> QED
        BY <2>1, <2>2, <3>1 DEF Finish, End, RunStatus
    <2>3. CASE Crash(r)
      BY <2>3 DEF Crash, TypeOK
    <2>4. CASE Interrupt(r)
      <3>1. run[r] \in RunRow
        BY <2>4 DEF Interrupt, Places, TypeOK
      <3> QED
        BY <2>1, <2>4, <3>1 DEF Interrupt, End, RunStatus
    <2> QED
      BY <2>2, <2>3, <2>4 DEF EndStep
  <1>3. /\ session' \in [Files -> SessionRow \cup {None}] /\ incident' \in [Key -> IncidentStatus]
        /\ errors' \in [Files -> Nat] /\ measured' \in [Files -> SUBSET LineIds]
        /\ torn' \subseteq Files /\ links' \subseteq Key
    <2>1. CASE UNCHANGED <<scanRows, torn, links>>
      BY <2>1 DEF TypeOK, scanRows
    <2>2. CASE HalfPublished(r) /\ UNCHANGED links
      <3>1. /\ pc[r] = "publish" /\ session' = [session EXCEPT ![file[r]] = ScannedRow(r)]
            /\ torn' = torn \cup {file[r]} /\ UNCHANGED <<errors, measured, links>>
        BY <2>2 DEF HalfPublished
      <3>2. incident' \in [Key -> IncidentStatus]
        BY <2>2, StoredType DEF HalfPublished
      <3> QED
        BY <3>1, <3>2, PublishedType DEF TypeOK
    <2> QED
      BY <2>1, <2>2 DEF EndStep, Finish, Crash, Interrupt, LeavesPending
  <1>4. TypeOK'
    BY <1>0, <1>1, <1>2, <1>3, StopTypes DEF TypeOK, transcriptVars, workerVars
  <1>5. Places'
    <2>1. pc'[r] = "ended"
      BY <1>1, StopTypes DEF TypeOK
    <2>2. \A q \in Runs \ {r} : /\ pc'[q] = pc[q] /\ file'[q] = file[q] /\ stat'[q] = stat[q]
                                /\ todo'[q] = todo[q] /\ read'[q] = read[q]
      BY <1>1, StopTypes
    <2>3. UNCHANGED <<content, written, workerVars>>
      BY <1>0 DEF transcriptVars
    <2> QED
      BY <2>1, <2>2, <2>3, <1>2, PlacesKept
  <1> QED
    BY <1>4, <1>5

LEMMA OperatorTypes ==
  ASSUME TypesInv, Operator
  PROVE  TypesInv'
  <1> USE ScanAssumption, NightlyAssumption DEF TypesInv
  <1>0. UNCHANGED <<transcriptVars, torn, scannerVars, faults, pc, recordVars, queueVars, workerVars>>
    BY DEF Operator
  <1>1. PICK f \in Files : MarkForRescan(f, Referenced) \/ MarkForReverify(f)
    BY DEF Operator
  <1>2. commands' \in 0..MaxCommands /\ rewritten' \subseteq Files /\ UNCHANGED <<errors, measured>>
    BY <1>1 DEF MarkForRescan, MarkForReverify, Command, TypeOK
  <1>3. session' \in [Files -> SessionRow \cup {None}]
    <2>1. session[f] \in SessionRow /\ session' = [session EXCEPT ![f] = Reset(f)]
      BY <1>1 DEF MarkForRescan, MarkForReverify, TypeOK
    <2>2. ASSUME NEW row \in SessionRow
          PROVE  [row EXCEPT !.bytes = 0, !.mtime = 0] \in SessionRow
      <3>1. [row EXCEPT !.bytes = 0] \in SessionRow
        BY DEF SessionRow
      <3>2. ASSUME NEW late \in SessionRow
            PROVE  [late EXCEPT !.mtime = 0] \in SessionRow
        BY DEF SessionRow
      <3> QED
        BY <3>1, <3>2
    <2> QED
      BY <2>1, <2>2 DEF Reset, TypeOK
  <1>4. incident' \in [Key -> IncidentStatus]
    BY <1>1 DEF MarkForRescan, MarkForReverify, TypeOK, IncidentStatus
  <1>5. TypeOK'
    BY <1>0, <1>2, <1>3, <1>4 DEF TypeOK, transcriptVars, scannerVars, recordVars, queueVars, workerVars
  <1>6. Places'
    BY <1>0 DEF Places, transcriptVars, scannerVars, recordVars, workerVars, Start, Existing, Size
  <1> QED
    BY <1>5, <1>6

\* A step of the draft leaves the runs of the pipeline alone.
LEMMA DraftTypes ==
  ASSUME TypesInv, DraftStep
  PROVE  TypesInv'
  <1> USE ScanAssumption, NightlyAssumption DEF TypesInv
  <1>0. UNCHANGED <<transcriptVars, historyVars, session, errors, measured, scannerVars,
                    commands, pc, judged, queue>>
    BY DEF DraftStep
  <1> DEFINE Rows == /\ run' \in [RunIds -> RunRow \cup {None}]
                     /\ \A r \in Runs : run[r] \in RunRow => run'[r] \in RunRow
             Tables == /\ faults' \in 0..MaxFaults /\ incident' \in [Key -> IncidentStatus]
                       /\ receipts' \in [Key -> Nat] /\ links' \subseteq Key
             Locals == /\ draftOf' \in Key \cup {None}
                       /\ wpc' \in [Workers -> Over \cup {"idle", "drafting"}]
                       /\ \A w \in Workers : wpc'[w] = "drafting" =>
                            run'[Job] \in RunRow /\ draftOf' \in Key
  <1>1. CASE /\ RequestDraft \/ \E w \in Workers : StartWorker(w)
             /\ UNCHANGED <<faults, incident, run, receipts, links>>
    <2>1. Rows /\ Tables
      BY <1>1 DEF TypeOK
    <2>2. Locals
      BY <1>1 DEF TypeOK, Places, RequestDraft, StartWorker, Waiting, Over
    <2> QED
      BY <2>1, <2>2, <1>0 DEF TypeOK, Places, transcriptVars, historyVars, scannerVars,
         Start, Existing, Size
  <1>2. ASSUME NEW w \in Workers,
               \/ WorkerDies(w) /\ UNCHANGED <<incident, run, receipts, links>>
               \/ (TakeJob(w) \/ RefuseDraft(w)) /\ UNCHANGED <<faults, incident, receipts, links>>
               \/ SaveDraft(w) /\ UNCHANGED faults
        PROVE  TypesInv'
    <2>1. Job \in RunIds /\ \A r \in Runs : r # Job
      BY DEF RunIds
    <2>2. ASSUME NEW status \in {"ok", "error"}, EndJob(w, status), wpc[w] = "drafting"
          PROVE  Rows /\ Locals
      <3>1. run[Job] \in RunRow
        BY <2>2 DEF Places
      <3>2. [run[Job] EXCEPT !.status = status] \in RunRow
        BY <3>1 DEF RunRow, RunStatus
      <3>3. run' = [run EXCEPT ![Job] = [run[Job] EXCEPT !.status = status]]
        BY <2>2 DEF EndJob
      <3>4. wpc' = [wpc EXCEPT ![w] = "idle"] /\ UNCHANGED draftOf
        BY <2>2 DEF EndJob
      <3>5. Rows /\ run'[Job] \in RunRow
        BY <2>1, <3>2, <3>3 DEF TypeOK
      <3>6. Locals
        BY <3>4, <3>5 DEF TypeOK, Places, Over
      <3> QED
        BY <3>5, <3>6
    <2>3. Rows
      <3>1. CASE TakeJob(w)
        <4>1. [status |-> "running", owner |-> w] \in RunRow
          BY DEF RunRow, RunStatus, Processes
        <4> QED
          BY <2>1, <3>1, <4>1 DEF TakeJob, TypeOK
      <3>2. CASE RefuseDraft(w) \/ SaveDraft(w)
        BY <2>2, <3>2 DEF RefuseDraft, SaveDraft
      <3> QED
        BY <1>2, <3>1, <3>2 DEF TypeOK
    <2>4. Locals
      <3>1. CASE TakeJob(w)
        <4>1. [status |-> "running", owner |-> w] \in RunRow
          BY DEF RunRow, RunStatus, Processes
        <4>2. run'[Job] \in RunRow /\ draftOf' \in Key
          BY <2>1, <3>1, <4>1 DEF TakeJob, TypeOK
        <4> QED
          BY <3>1, <4>2 DEF TakeJob, TypeOK, Over
      <3>2. CASE RefuseDraft(w) \/ SaveDraft(w)
        BY <2>2, <3>2 DEF RefuseDraft, SaveDraft
      <3>3. CASE WorkerDies(w) /\ UNCHANGED run
        BY <3>3 DEF WorkerDies, TypeOK, Places, Over
      <3> QED
        BY <1>2, <3>1, <3>2, <3>3
    <2>5. Tables
      <3>1. CASE SaveDraft(w) /\ UNCHANGED faults
        <4>1. draftOf \in Key
          BY <3>1 DEF SaveDraft, Places
        <4> QED
          BY <3>1, <4>1, ProcessedTypes DEF SaveDraft, TypeOK, Handled
      <3> QED
        BY <1>2, <3>1 DEF TypeOK, WorkerDies, Fault
    <2> QED
      BY <2>3, <2>4, <2>5, <1>0 DEF TypeOK, Places, transcriptVars, historyVars, scannerVars,
         Start, Existing, Size
  <1> QED
    BY <1>1, <1>2 DEF DraftStep

LEMMA NextTypes == TypesInv /\ [Next]_vars => TypesInv'
  <1> SUFFICES ASSUME TypesInv, [Next]_vars PROVE TypesInv'
    OBVIOUS
  <1>1. ASSUME NEW r \in Runs, RunStep(r)
        PROVE  TypesInv'
    BY <1>1, RecordTypes, LookTypes, StoreTypes, MineTypes, EndTypes DEF RunStep
  <1>2. CASE UNCHANGED vars
    <2>1. TypeOK'
      BY <1>2 DEF TypesInv, TypeOK, vars, scanVars, transcriptVars, historyVars, scanRows, scannerVars,
         recordVars, queueVars, workerVars
    <2>2. Places'
      BY <1>2 DEF TypesInv, Places, Start, Existing, Size, vars, scanVars, transcriptVars, scannerVars,
         recordVars, workerVars
    <2> QED
      BY <2>1, <2>2 DEF TypesInv
  <1> QED
    BY <1>1, <1>2, TranscriptTypes, OperatorTypes, DraftTypes DEF Next

\* Every table, and every local of a run or a worker, keeps its type; a run
\* that reads a transcript has it in its list and its row on record.
THEOREM TypesInvHolds == Spec => []TypesInv
  BY InitTypes, NextTypes, PTL DEF Spec

\* In particular the type invariant of the model holds.
THEOREM TypesHold == Spec => []TypeOK
  <1>1. TypesInv => TypeOK
    BY DEF TypesInv
  <1> QED
    BY <1>1, TypesInvHolds, PTL

-----------------------------------------------------------------------------
\* The incidents.  Every step does one of five things to them.

\* A run publishes a transcript, or is interrupted half way: incidents of lines
\* that have none, and the transcript is off the run's list.
StoresNew ==
    \E r \in Runs, new \in SUBSET Key :
        /\ pc[r] = "publish" /\ new \subseteq Detected(r) /\ StoreIncidents(new)
        /\ pc'[r] \notin {"off", "reap"} /\ file[r] \notin todo'[r]
        /\ UNCHANGED <<receipts, links>>

\* A miner settles one that exists, with a link if it is mined.
Settles ==
    \E i \in Key, status \in Handled :
        /\ incident[i] # "none" /\ SetProcessed(i, status)
        /\ links' = links \cup {i} \/ (status = "dismissed" /\ UNCHANGED links)

\* A rescan of a transcript drops some of its own that nothing refers to.
Drops ==
    \E f \in Files, dropped \in SUBSET Key :
        /\ MarkForRescan(f, Referenced) /\ \A i \in dropped : i[1] = f
        /\ dropped \cap links = {} /\ UNCHANGED <<receipts, links>>
        /\ incident' = [i \in Key |-> IF i \in dropped THEN "none" ELSE incident[i]]

LEMMA IncidentSteps ==
  ASSUME TypesInv, [Next]_vars
  PROVE  \/ StoresNew \/ Settles \/ Drops
         \/ UNCHANGED <<incident, receipts, links>>
  <1> DEFINE Goal == \/ StoresNew \/ Settles \/ Drops
                     \/ UNCHANGED <<incident, receipts, links>>
  <1> SUFFICES Goal
    OBVIOUS
  <1>0. TypeOK
    BY DEF TypesInv
  <1>1. CASE Transcript
    BY <1>1 DEF Transcript, scanRows, queueVars
  <1>2. CASE Operator
    <2>1. PICK f \in Files : MarkForRescan(f, Referenced) \/ MarkForReverify(f)
      BY <1>2 DEF Operator
    <2>2. UNCHANGED <<receipts, links>>
      BY <1>2 DEF Operator, queueVars
    <2>3. CASE MarkForRescan(f, Referenced)
      BY <2>2, <2>3 DEF MarkForRescan, Referenced, Drops
    <2>4. CASE MarkForReverify(f)
      BY <2>2, <2>4 DEF MarkForReverify
    <2> QED
      BY <2>1, <2>3, <2>4
  <1>3. CASE DraftStep
    <2>1. ASSUME NEW w \in Workers, SaveDraft(w)
          PROVE  Settles
      <3>1. draftOf \in Key /\ incident[draftOf] # "none"
        BY <2>1 DEF SaveDraft, TypesInv, Places
      <3> QED
        BY <2>1, <3>1 DEF SaveDraft, Settles, Handled
    <2> QED
      BY <1>3, <2>1 DEF DraftStep
  <1>4. ASSUME NEW r \in Runs, RunStep(r)
        PROVE  Goal
    <2>1. CASE RecordStep(r) \/ LookStep(r)
      BY <2>1 DEF RecordStep, LookStep, scanRows, queueVars
    <2>2. CASE StoreStep(r)
      <3>1. UNCHANGED <<receipts, links>>
        BY <2>2 DEF StoreStep, queueVars
      <3>2. CASE Publish(r)
        <4>1. pc[r] = "publish" /\ StoreIncidents(Detected(r)) /\ NextFile(r)
          BY <3>2 DEF Publish
        <4>2. Detected(r) \in SUBSET Key
          <5>1. file[r] \in Files /\ read[r].lines \in Seq(Line)
            BY <1>0, <4>1, PublishedType DEF TypeOK
          <5> QED
            BY <5>1, OfType DEF Detected, Key
        <4>3. pc'[r] = "scan" /\ file[r] \notin todo'[r]
          BY <1>0, <4>1 DEF NextFile, Goto, TypeOK
        <4> QED
          BY <3>1, <4>1, <4>2, <4>3 DEF StoresNew
      <3>3. CASE FailFile(r)
        BY <3>1, <3>3 DEF FailFile
      <3> QED
        BY <2>2, <3>2, <3>3 DEF StoreStep
    <2>3. CASE MineStep(r)
      <3>1. CASE TakeQueue(r)
        BY <3>1 DEF TakeQueue
      <3>2. ASSUME NEW i \in Key, Dismiss(r, i)
            PROVE  Goal
        BY <3>2 DEF Dismiss, Settles, Handled
      <3>3. ASSUME NEW i \in Key, Learn(r, i)
            PROVE  Goal
        BY <3>3 DEF Learn, Settles, Handled
      <3> QED
        BY <2>3, <3>1, <3>2, <3>3 DEF MineStep
    <2>4. CASE EndStep(r)
      <3>1. UNCHANGED receipts
        BY <2>4 DEF EndStep
      <3>2. CASE UNCHANGED <<scanRows, torn, links>>
        BY <3>1, <3>2 DEF scanRows
      <3>3. CASE Interrupt(r) /\ HalfPublished(r) /\ UNCHANGED links
        <4>1. pc[r] = "publish" /\ Stop(r)
          BY <3>3 DEF HalfPublished, Interrupt, End
        <4>2. PICK last \in 0..MaxWrites : StoreIncidents({i \in Detected(r) : i[2] <= last})
          BY <3>3 DEF HalfPublished
        <4>3. Detected(r) \in SUBSET Key
          <5>1. file[r] \in Files /\ read[r].lines \in Seq(Line)
            BY <1>0, <4>1, PublishedType DEF TypeOK
          <5> QED
            BY <5>1, OfType DEF Detected, Key
        <4>4. pc'[r] = "ended" /\ file[r] \notin todo'[r]
          BY <1>0, <4>1, StopTypes DEF TypeOK
        <4> QED
          BY <3>1, <3>3, <4>1, <4>2, <4>3, <4>4 DEF StoresNew
      <3> QED
        BY <2>4, <3>2, <3>3 DEF EndStep, Finish, Crash, Interrupt, LeavesPending
    <2> QED
      BY <1>4, <2>1, <2>2, <2>3, <2>4 DEF RunStep
  <1>5. CASE UNCHANGED vars
    BY <1>5 DEF vars, scanVars, scanRows, queueVars
  <1> QED
    BY <1>1, <1>2, <1>3, <1>4, <1>5 DEF Next

\* Only a run that publishes makes an incident where there was none, and it
\* makes all of one step.
LEMMA IncidentsAppear ==
  ASSUME TypesInv, [Next]_vars, NEW i \in Key, incident[i] = "none", incident'[i] # "none"
  PROVE  StoresNew
  <1>1. incident \in [Key -> IncidentStatus]
    BY DEF TypesInv, TypeOK
  <1> QED
    BY <1>1, IncidentSteps DEF Settles, Drops, SetProcessed

LEMMA NextOneIncident == TypesInv /\ OneIncident /\ [Next]_vars => OneIncident'
  <1> SUFFICES ASSUME TypesInv, OneIncident, [Next]_vars,
                      NEW f \in Files, NEW id \in LineIds, NEW r \in Runs, NEW q \in Runs,
                      incident'[<<f, id, r>>] # "none", incident'[<<f, id, q>>] # "none"
               PROVE  r = q
    BY DEF OneIncident
  <1>1. <<f, id, r>> \in Key /\ <<f, id, q>> \in Key
    BY DEF Key
  <1>2. CASE incident[<<f, id, r>>] # "none" /\ incident[<<f, id, q>>] # "none"
    BY <1>2 DEF OneIncident
  <1>3. CASE incident[<<f, id, r>>] = "none" \/ incident[<<f, id, q>>] = "none"
    <2>1. StoresNew
      BY <1>1, <1>3, IncidentsAppear
    <2>2. PICK s \in Runs, new \in SUBSET Key : new \subseteq Detected(s) /\ StoreIncidents(new)
      BY <2>1 DEF StoresNew
    <2>3. <<f, id, r>> \in new \/ <<f, id, q>> \in new
      BY <1>1, <1>3, <2>2 DEF StoreIncidents
    <2>4. ~Known(f, id)
      BY <2>2, <2>3 DEF Detected
    <2>5. incident[<<f, id, r>>] = "none" /\ incident[<<f, id, q>>] = "none"
      BY <2>4 DEF Known
    <2>6. <<f, id, r>> \in new /\ <<f, id, q>> \in new
      BY <1>1, <2>2, <2>5 DEF StoreIncidents
    <2>7. r = s /\ q = s
      BY <2>2, <2>6 DEF Detected
    <2> QED
      BY <2>7
  <1> QED
    BY <1>2, <1>3

\* A set of which any two elements are one has at most one.
LEMMA AtMostOne ==
  ASSUME NEW S, \A x, y \in S : x = y
  PROVE  Cardinality(S) <= 1
  <1>1. CASE S = {}
    BY <1>1, FS_EmptySet
  <1>2. ASSUME NEW x \in S
        PROVE  Cardinality(S) <= 1
    <2>1. S = {x}
      OBVIOUS
    <2> QED
      BY <2>1, FS_Singleton
  <1> QED
    BY <1>1, <1>2

\* A line that makes an incident makes one, whatever number of runs read it and
\* however often it is read (scan.py, the look before insert_incident).
THEOREM IncidentsAreOnce == Spec => []IncidentOncePerLine
  <1>1. Init => OneIncident
    BY DEF Init, ScanInit, OneIncident, Key
  <1>2. OneIncident => IncidentOncePerLine
    BY AtMostOne DEF OneIncident, IncidentOncePerLine
  <1>3. Spec => []OneIncident
    BY <1>1, NextOneIncident, TypesInvHolds, PTL DEF Spec
  <1> QED
    BY <1>2, <1>3, PTL

LEMMA NextMined == TypesInv /\ MinedHasLearning /\ [Next]_vars => MinedHasLearning'
  <1> SUFFICES ASSUME TypesInv, MinedHasLearning, [Next]_vars PROVE MinedHasLearning'
    OBVIOUS
  <1>0. incident \in [Key -> IncidentStatus] /\ links \subseteq Key
    BY DEF TypesInv, TypeOK
  <1> USE <1>0 DEF MinedHasLearning
  <1>1. CASE StoresNew
    BY <1>1 DEF StoresNew, StoreIncidents
  <1>2. CASE Settles
    BY <1>2 DEF Settles, SetProcessed, Handled
  <1>3. CASE Drops
    BY <1>3 DEF Drops
  <1>4. CASE UNCHANGED <<incident, receipts, links>>
    BY <1>4
  <1> QED
    BY <1>1, <1>2, <1>3, <1>4, IncidentSteps

\* A mined incident names a learning, and a learning's incident exists, through
\* rescans, interrupts and two miners of one incident (miner.py's transaction,
\* the keys of incident_learnings).
THEOREM LearningsAreLinked == Spec => []MinedHasLearning
  <1>1. Init => MinedHasLearning
    BY DEF Init, ScanInit, MinedHasLearning
  <1> QED
    BY <1>1, NextMined, TypesInvHolds, PTL DEF Spec

-----------------------------------------------------------------------------
\* Receipts.

\* The transcripts a run has still to publish.
Ahead(r, f) == pc[r] \in {"off", "reap"} \/ f \in todo[r]

\* A run's list of transcripts is made once and only gets shorter.
LEMMA AheadShrinks ==
  ASSUME TypesInv, [Next]_vars, NEW r \in Runs, NEW f \in Files, Ahead(r, f)'
  PROVE  Ahead(r, f)
  <1>0. TypeOK /\ \A q \in Runs : pc[q] \in {"parse", "publish"} => file[q] \in todo[q]
    BY DEF TypesInv, Places
  <1>1. CASE UNCHANGED <<pc, todo>>
    BY <1>1 DEF Ahead
  <1>2. ASSUME NEW s \in Runs, RunStep(s)
        PROVE  Ahead(r, f)
    <2>1. CASE RecordStep(s)
      <3>1. CASE Judge(s) /\ UNCHANGED scannerVars
        BY <1>0, <3>1 DEF Ahead, Judge, Goto, TypeOK, scannerVars
      <3>2. CASE Begin(s)
        <4>1. pc[s] = "reap" /\ \A q \in Runs \ {s} : pc'[q] = pc[q] /\ todo'[q] = todo[q]
          BY <1>0, <3>2 DEF Begin, Discover, Goto, TypeOK
        <4> QED
          BY <4>1 DEF Ahead
      <3> QED
        BY <2>1, <3>1, <3>2 DEF RecordStep
    <2>2. CASE LookStep(s)
      <3>1. CASE Parse(s)
        BY <1>0, <3>1 DEF Ahead, Parse, Goto, TypeOK
      <3>2. ASSUME NEW g \in Files, SkipUnchanged(s, g)
            PROVE  Ahead(r, f)
        BY <1>0, <3>2 DEF Ahead, SkipUnchanged, TypeOK
      <3>3. ASSUME NEW g \in Files, ReadSession(s, g)
            PROVE  Ahead(r, f)
        BY <1>0, <3>3 DEF Ahead, ReadSession, Goto, TypeOK
      <3> QED
        BY <2>2, <3>1, <3>2, <3>3 DEF LookStep
    <2>3. CASE NextFile(s)
      BY <1>0, <2>3 DEF Ahead, NextFile, Goto, TypeOK
    <2>4. CASE MineStep(s)
      <3>1. UNCHANGED todo /\ (pc' = pc \/ pc' = [pc EXCEPT ![s] = "mining"])
        BY <2>4 DEF MineStep, TakeQueue, Dismiss, Learn, Answered, Goto, scannerVars
      <3> QED
        BY <1>0, <3>1 DEF Ahead, TypeOK
    <2>5. CASE Stop(s)
      BY <1>0, <2>5, StopTypes DEF Ahead, TypeOK
    <2> QED
      BY <1>2, <2>1, <2>2, <2>3, <2>4, <2>5
         DEF RunStep, RecordStep, StoreStep, Publish, FailFile, EndStep, Finish, Crash, Interrupt, End
  <1>3. CASE Transcript \/ Operator \/ DraftStep \/ UNCHANGED vars
    BY <1>1, <1>3 DEF Transcript, Operator, DraftStep, vars, scanVars, scannerVars
  <1> QED
    BY <1>2, <1>3 DEF Next

LEMMA NextFresh == TypesInv /\ Fresh /\ [Next]_vars => Fresh'
  <1> SUFFICES ASSUME TypesInv, Fresh, [Next]_vars,
                      NEW f \in Files, NEW id \in LineIds, NEW r \in Runs, Ahead(r, f)'
               PROVE  incident'[<<f, id, r>>] = "none" /\ receipts'[<<f, id, r>>] = 0
    BY DEF Fresh, Ahead
  <1> DEFINE i == <<f, id, r>>
  <1>1. i \in Key
    BY DEF Key
  <1>2. incident[i] = "none" /\ receipts[i] = 0
    BY AheadShrinks DEF Fresh, Ahead
  <1>3. incident \in [Key -> IncidentStatus] /\ receipts \in [Key -> Nat]
    BY DEF TypesInv, TypeOK
  <1> HIDE DEF i
  <1>4. CASE StoresNew
    <2>1. PICK s \in Runs, new \in SUBSET Key :
             /\ pc'[s] \notin {"off", "reap"} /\ file[s] \notin todo'[s] /\ UNCHANGED receipts
             /\ new \subseteq Detected(s) /\ StoreIncidents(new)
      BY <1>4 DEF StoresNew
    <2>2. i \notin new
      BY <2>1 DEF i, Detected, Ahead
    <2> QED
      BY <1>1, <1>2, <2>1, <2>2 DEF StoreIncidents, i
  <1>5. CASE Settles
    BY <1>1, <1>2, <1>3, <1>5 DEF Settles, SetProcessed, i
  <1>6. CASE Drops
    BY <1>1, <1>2, <1>6 DEF Drops, i
  <1>7. CASE UNCHANGED <<incident, receipts, links>>
    BY <1>2, <1>7 DEF i
  <1> QED
    BY <1>4, <1>5, <1>6, <1>7, IncidentSteps

\* What an interrupt has cut stays marked.
LEMMA TornGrows == [Next]_vars => torn \subseteq torn'
  <1> SUFFICES ASSUME [Next]_vars PROVE torn \subseteq torn'
    OBVIOUS
  <1>1. CASE UNCHANGED torn
    BY <1>1
  <1>2. ASSUME NEW r \in Runs, EndStep(r)
        PROVE  torn \subseteq torn'
    BY <1>2 DEF EndStep, Interrupt, LeavesPending, HalfPublished
  <1>3. ASSUME NEW r \in Runs, RunStep(r)
        PROVE  torn \subseteq torn'
    BY <1>1, <1>2, <1>3 DEF RunStep, RecordStep, LookStep, StoreStep, MineStep, historyVars
  <1> QED
    BY <1>1, <1>3 DEF Next, Transcript, Operator, DraftStep, historyVars, vars, scanVars

LEMMA NextReceipts ==
  TypesInv /\ Fresh /\ LeftQueueWithOneReceipt /\ [Next]_vars => LeftQueueWithOneReceipt'
  <1> SUFFICES ASSUME TypesInv, Fresh, LeftQueueWithOneReceipt, [Next]_vars,
                      NEW i \in Key, incident'[i] # "none"
               PROVE  receipts'[i] = IF incident'[i] \in Handled THEN 1 ELSE 0
    BY DEF LeftQueueWithOneReceipt
  <1>1. incident[i] # "none" => receipts[i] = IF incident[i] \in Handled THEN 1 ELSE 0
    BY DEF LeftQueueWithOneReceipt
  <1>2. incident \in [Key -> IncidentStatus] /\ receipts \in [Key -> Nat]
    BY DEF TypesInv, TypeOK
  <1>3. incident[i] \in {"none", "new"} \/ incident[i] \in Handled
    BY <1>2 DEF IncidentStatus
  <1>4. CASE StoresNew
    <2>1. PICK s \in Runs, new \in SUBSET Key :
             /\ pc[s] = "publish" /\ UNCHANGED receipts
             /\ new \subseteq Detected(s) /\ StoreIncidents(new)
      BY <1>4 DEF StoresNew
    <2>2. CASE i \notin new
      BY <1>1, <2>1, <2>2 DEF StoreIncidents
    <2>3. CASE i \in new
      <3>1. file[s] \in todo[s] /\ file[s] \in Files /\ read[s].lines \in Seq(Line)
        BY <2>1 DEF TypesInv, TypeOK, Places
      <3>2. PICK id \in LineIds : i = <<file[s], id, s>>
        BY <2>1, <2>3, <3>1, OfType DEF Detected
      <3>3. receipts[i] = 0
        BY <3>1, <3>2 DEF Fresh
      <3> QED
        BY <2>1, <2>3, <3>3 DEF StoreIncidents, Handled
    <2> QED
      BY <2>2, <2>3
  <1>5. CASE Settles
    <2>1. PICK j \in Key, status \in Handled : incident[j] # "none" /\ SetProcessed(j, status)
      BY <1>5 DEF Settles
    <2>2. CASE i = j
      BY <1>1, <1>2, <1>3, <2>1, <2>2 DEF SetProcessed, Handled
    <2>3. CASE i # j
      BY <1>1, <1>2, <2>1, <2>3 DEF SetProcessed
    <2> QED
      BY <2>2, <2>3
  <1>6. CASE Drops
    BY <1>1, <1>6 DEF Drops
  <1>7. CASE UNCHANGED <<incident, receipts, links>>
    BY <1>1, <1>7
  <1> QED
    BY <1>4, <1>5, <1>6, <1>7, IncidentSteps

\* Exactly the incidents that have left the queue have a receipt, and one only,
\* however many miners settle one incident, whatever a rescan drops and wherever
\* an interrupt falls (set_processed_status, queue_history.py, and the rollback
\* of _persist_mine_payload, miner.py).
THEOREM ReceiptsAddUp == Spec => []LeftQueueWithOneReceipt
  <1>1. Init => Fresh /\ LeftQueueWithOneReceipt
    BY DEF Init, ScanInit, Fresh, LeftQueueWithOneReceipt, Key
  <1>2. TypesInv /\ (Fresh /\ LeftQueueWithOneReceipt) /\ [Next]_vars
            => (Fresh /\ LeftQueueWithOneReceipt)'
    BY NextFresh, NextReceipts
  <1> QED
    BY <1>1, <1>2, TypesInvHolds, PTL DEF Spec

-----------------------------------------------------------------------------
\* The reaper.

\* A process that has started has, and one that is over is over for good.
LEMMA ProcessesAge ==
  ASSUME TypesInv, [Next]_vars, NEW p \in Processes
  PROVE  /\ At(p) # "off" => At(p)' # "off"
         /\ At(p) = "ended" => At(p)' = "ended"
  <1>0. TypeOK
    BY DEF TypesInv
  <1> USE <1>0, NightlyAssumption DEF At, Processes
  <1>1. CASE UNCHANGED <<pc, wpc>>
    BY <1>1
  <1>2. ASSUME NEW s \in Runs, UNCHANGED wpc,
               NEW label \in {"reap", "scan", "parse", "publish", "mining", "ended"},
               pc' = [pc EXCEPT ![s] = label], pc[s] # "ended"
        PROVE  /\ At(p) # "off" => At(p)' # "off"
               /\ At(p) = "ended" => At(p)' = "ended"
    BY <1>2 DEF TypeOK
  <1>3. ASSUME NEW s \in Runs, RunStep(s)
        PROVE  /\ At(p) # "off" => At(p)' # "off"
               /\ At(p) = "ended" => At(p)' = "ended"
    <2>1. UNCHANGED wpc
      BY <1>3 DEF RunStep, RecordStep, LookStep, StoreStep, MineStep, EndStep, workerVars
    <2>2. CASE RecordStep(s)
      BY <1>2, <2>1, <2>2 DEF RecordStep, Judge, Begin, Discover, Goto
    <2>3. CASE LookStep(s)
      BY <1>1, <1>2, <2>1, <2>3 DEF LookStep, Parse, SkipUnchanged, ReadSession, Goto
    <2>4. CASE StoreStep(s)
      BY <1>2, <2>1, <2>4 DEF StoreStep, Publish, FailFile, NextFile, Goto
    <2>5. CASE MineStep(s)
      BY <1>1, <1>2, <2>1, <2>5 DEF MineStep, TakeQueue, Dismiss, Learn, Answered, Goto
    <2>6. CASE EndStep(s)
      BY <1>2, <2>1, <2>6 DEF EndStep, Finish, Crash, Interrupt, End, Stop, Goto, Over
    <2> QED
      BY <1>3, <2>2, <2>3, <2>4, <2>5, <2>6 DEF RunStep
  <1>4. ASSUME NEW w \in Workers, UNCHANGED pc,
               NEW label \in {"idle", "drafting", "ended"},
               wpc' = [wpc EXCEPT ![w] = label], wpc[w] # "ended"
        PROVE  /\ At(p) # "off" => At(p)' # "off"
               /\ At(p) = "ended" => At(p)' = "ended"
    BY <1>4 DEF TypeOK
  <1>5. CASE DraftStep
    <2>1. UNCHANGED pc
      BY <1>5 DEF DraftStep
    <2>2. CASE UNCHANGED wpc
      BY <1>1, <2>1, <2>2
    <2>3. ASSUME NEW w \in Workers,
                 \/ StartWorker(w) \/ WorkerDies(w) \/ TakeJob(w) \/ RefuseDraft(w) \/ SaveDraft(w)
          PROVE  /\ At(p) # "off" => At(p)' # "off"
                 /\ At(p) = "ended" => At(p)' = "ended"
      BY <1>4, <2>1, <2>3 DEF StartWorker, WorkerDies, TakeJob, RefuseDraft, SaveDraft, EndJob, Over
    <2> QED
      BY <1>5, <2>2, <2>3 DEF DraftStep, RequestDraft
  <1>6. CASE Transcript \/ Operator \/ UNCHANGED vars
    BY <1>1, <1>6 DEF Transcript, Operator, vars, workerVars
  <1> QED
    BY <1>3, <1>5, <1>6 DEF Next

\* A row keeps its owner, or gets the process that starts or takes over its run.
LEMMA OwnersChange ==
  ASSUME TypesInv, [Next]_vars, NEW q \in RunIds, run'[q] \in RunRow
  PROVE  \/ run[q] \in RunRow /\ run'[q].owner = run[q].owner
         \/ \E p \in Processes : run'[q].owner = p /\ At(p)' \in {"scan", "drafting"}
  <1>0. TypeOK
    BY DEF TypesInv
  <1> DEFINE Goal == \/ run[q] \in RunRow /\ run'[q].owner = run[q].owner
                     \/ \E p \in Processes : run'[q].owner = p /\ At(p)' \in {"scan", "drafting"}
  <1> SUFFICES Goal
    OBVIOUS
  <1>1. CASE UNCHANGED run
    BY <1>1
  <1>2. ASSUME NEW p \in RunIds, NEW status, run[p] \in RunRow,
               run' = [run EXCEPT ![p].status = status]
        PROVE  Goal
    <2>1. [run[p] EXCEPT !.status = status].owner = run[p].owner
      BY <1>2 DEF RunRow
    <2>2. run' = [run EXCEPT ![p] = [run[p] EXCEPT !.status = status]]
      BY <1>2
    <2> QED
      BY <1>0, <1>2, <2>1, <2>2 DEF TypeOK
  <1>3. ASSUME NEW r \in Runs, Begin(r)
        PROVE  Goal
    <2>1. run' = [Reaped(r) EXCEPT ![r] = [status |-> "running", owner |-> r]]
      BY <1>3 DEF Begin
    <2>2. CASE q = r
      <3>1. run'[q].owner = r
        BY <2>1, <2>2 DEF Reaped, RunIds
      <3>2. pc'[r] = "scan"
        BY <1>0, <1>3 DEF Begin, Discover, Goto, TypeOK
      <3> QED
        BY <3>1, <3>2 DEF At, Processes
    <2>3. CASE q # r
      <3>1. run'[q] = IF AsJudged(r, q) THEN [run[q] EXCEPT !.status = "abandoned"] ELSE run[q]
        BY <2>1, <2>3 DEF Reaped
      <3>2. CASE AsJudged(r, q)
        <4>1. run[q] \in RunRow
          BY <1>0, <3>2 DEF AsJudged, Running, TypeOK
        <4> QED
          BY <3>1, <3>2, <4>1 DEF RunRow
      <3>3. CASE ~AsJudged(r, q)
        BY <3>1, <3>3
      <3> QED
        BY <3>2, <3>3
    <2> QED
      BY <2>2, <2>3
  <1>4. ASSUME NEW r \in Runs, EndStep(r)
        PROVE  Goal
    <2>1. CASE UNCHANGED run
      BY <1>1, <2>1
    <2>2. ASSUME NEW status, End(r, status), pc[r] \in {"scan", "parse", "publish", "mining"}
          PROVE  Goal
      <3>1. run[r] \in RunRow /\ r \in RunIds
        BY <2>2 DEF TypesInv, Places, RunIds
      <3>2. run' = [run EXCEPT ![r].status = status]
        BY <2>2 DEF End
      <3> QED
        BY <1>2, <3>1, <3>2
    <2>3. pc[r] \in Over \cup {"reap", "scan", "parse", "publish", "mining"}
      BY <1>0 DEF TypeOK
    <2> QED
      BY <1>4, <2>1, <2>2, <2>3 DEF EndStep, Finish, Crash, Interrupt
  <1>5. ASSUME NEW w \in Workers, TakeJob(w)
        PROVE  Goal
    <2>1. /\ run' = [run EXCEPT ![Job] = [status |-> "running", owner |-> w]]
          /\ wpc' = [wpc EXCEPT ![w] = "drafting"]
      BY <1>5 DEF TakeJob
    <2>2. CASE q = Job
      <3>1. run'[q].owner = w /\ wpc'[w] = "drafting"
        BY <1>0, <2>1, <2>2 DEF TypeOK
      <3>2. w \notin Runs
        BY NightlyAssumption
      <3> QED
        BY <3>1, <3>2 DEF At, Processes
    <2>3. CASE q # Job
      BY <1>0, <2>1, <2>3 DEF TypeOK
    <2> QED
      BY <2>2, <2>3
  <1>6. ASSUME NEW w \in Workers, RefuseDraft(w) \/ SaveDraft(w)
        PROVE  Goal
    <2>1. run[Job] \in RunRow /\ Job \in RunIds
      BY <1>6 DEF RefuseDraft, SaveDraft, TypesInv, Places, RunIds
    <2>2. \E status : run' = [run EXCEPT ![Job].status = status]
      BY <1>6 DEF RefuseDraft, SaveDraft, EndJob
    <2> QED
      BY <1>2, <2>1, <2>2
  <1>7. ASSUME NEW r \in Runs, RunStep(r)
        PROVE  Goal
    BY <1>1, <1>3, <1>4, <1>7
       DEF RunStep, RecordStep, Judge, LookStep, StoreStep, MineStep, recordVars
  <1>8. CASE DraftStep
    BY <1>1, <1>5, <1>6, <1>8 DEF DraftStep
  <1>9. CASE Transcript \/ Operator \/ UNCHANGED vars
    BY <1>1, <1>9 DEF Transcript, Operator, vars, recordVars
  <1> QED
    BY <1>7, <1>8, <1>9 DEF Next

\* A run judges only when it starts, and then rows of processes without life.
LEMMA JudgedChange ==
  ASSUME TypesInv, [Next]_vars, NEW r \in Runs, NEW j \in judged'[r]
  PROVE  \/ j \in judged[r]
         \/ \E q \in RunIds : /\ run[q] \in RunRow /\ j = <<q, run[q].owner>>
                             /\ run[q].owner \notin Living
  <1>0. TypeOK
    BY DEF TypesInv
  <1>1. CASE UNCHANGED judged
    BY <1>1
  <1>2. ASSUME NEW s \in Runs, judged' = [judged EXCEPT ![s] = {}]
        PROVE  j \in judged[r]
    BY <1>0, <1>2 DEF TypeOK
  <1>3. ASSUME NEW s \in Runs, Judge(s)
        PROVE  \/ j \in judged[r]
               \/ \E q \in RunIds : /\ run[q] \in RunRow /\ j = <<q, run[q].owner>>
                                   /\ run[q].owner \notin Living
    BY <1>0, <1>3 DEF Judge, Running, TypeOK
  <1>4. ASSUME NEW s \in Runs, RunStep(s)
        PROVE  \/ j \in judged[r]
               \/ \E q \in RunIds : /\ run[q] \in RunRow /\ j = <<q, run[q].owner>>
                                   /\ run[q].owner \notin Living
    BY <1>1, <1>2, <1>3, <1>4
       DEF RunStep, RecordStep, Begin, LookStep, StoreStep, MineStep, EndStep, Finish, Crash,
           Interrupt, End, Stop, recordVars
  <1>5. CASE Transcript \/ Operator \/ DraftStep \/ UNCHANGED vars
    BY <1>1, <1>5 DEF Transcript, Operator, DraftStep, vars, recordVars
  <1> QED
    BY <1>4, <1>5 DEF Next

\* A process without life that has started is over.
LEMMA NotLiving ==
  ASSUME TypeOK, NEW p \in Processes, p \notin Living, At(p) # "off"
  PROVE  At(p) = "ended"
  BY NightlyAssumption DEF At, Living, Over, Processes

LEMMA NextDeadStayDead == TypesInv /\ DeadStayDead /\ [Next]_vars => DeadStayDead'
  <1> SUFFICES ASSUME TypesInv, DeadStayDead, [Next]_vars PROVE DeadStayDead'
    OBVIOUS
  <1>0. TypeOK
    BY DEF TypesInv
  <1>1. ASSUME NEW q \in RunIds, NEW p \in Processes, run'[q] \in RunRow, run'[q].owner = p
        PROVE  At(p)' # "off"
    <2>1. CASE run[q] \in RunRow /\ run'[q].owner = run[q].owner
      <3>1. At(p) # "off"
        BY <1>1, <2>1 DEF DeadStayDead
      <3> QED
        BY <3>1, ProcessesAge
    <2>2. CASE \E o \in Processes : run'[q].owner = o /\ At(o)' \in {"scan", "drafting"}
      BY <1>1, <2>2
    <2> QED
      BY <1>1, <2>1, <2>2, OwnersChange
  <1>2. ASSUME NEW r \in Runs, NEW q \in RunIds, NEW p \in Processes, <<q, p>> \in judged'[r]
        PROVE  At(p)' = "ended"
    <2>1. CASE <<q, p>> \in judged[r]
      <3>1. At(p) = "ended"
        BY <2>1 DEF DeadStayDead
      <3> QED
        BY <3>1, ProcessesAge
    <2>2. ASSUME NEW o \in RunIds, run[o] \in RunRow, <<q, p>> = <<o, run[o].owner>>,
                 run[o].owner \notin Living
          PROVE  At(p)' = "ended"
      <3>1. p = run[o].owner
        BY <2>2
      <3>2. At(p) # "off"
        BY <2>2, <3>1 DEF DeadStayDead
      <3>3. At(p) = "ended"
        BY <1>0, <2>2, <3>1, <3>2, NotLiving
      <3> QED
        BY <3>3, ProcessesAge
    <2> QED
      BY <1>2, <2>1, <2>2, JudgedChange
  <1> QED
    BY <1>1, <1>2 DEF DeadStayDead

\* The one step that abandons a row abandons it as it was judged.
LEMMA AbandonedStep ==
  ASSUME TypesInv, DeadStayDead, [Next]_vars, NEW q \in RunIds,
         Running(q), run'[q] # None, run'[q].status = "abandoned"
  PROVE  run[q].owner \notin Living
  <1>0. TypeOK
    BY DEF TypesInv
  <1>1. run[q] \in RunRow /\ run[q].status = "running"
    BY <1>0 DEF Running, TypeOK
  <1>2. ASSUME NEW p \in RunIds, NEW status \in {"ok", "error", "interrupted"}, run[p] \in RunRow,
               run' = [run EXCEPT ![p].status = status]
        PROVE  FALSE
    <2>1. [run[p] EXCEPT !.status = status].status = status
      BY <1>2 DEF RunRow
    <2>2. run' = [run EXCEPT ![p] = [run[p] EXCEPT !.status = status]]
      BY <1>2
    <2> QED
      BY <1>0, <1>1, <1>2, <2>1, <2>2 DEF TypeOK
  <1>3. ASSUME NEW r \in Runs, Begin(r)
        PROVE  run[q].owner \notin Living
    <2>1. run' = [Reaped(r) EXCEPT ![r] = [status |-> "running", owner |-> r]]
      BY <1>3 DEF Begin
    <2>2. q # r
      BY <2>1 DEF Reaped
    <2>3. AsJudged(r, q)
      BY <1>1, <2>1, <2>2 DEF Reaped
    <2>4. run[q].owner \in Processes /\ At(run[q].owner) = "ended"
      BY <1>1, <2>3 DEF AsJudged, DeadStayDead, RunRow
    <2> QED
      BY <2>4, NightlyAssumption DEF At, Living, Over
  <1>4. ASSUME NEW r \in Runs, EndStep(r)
        PROVE  UNCHANGED run
    <2>1. ASSUME NEW status \in {"ok", "error", "interrupted"}, End(r, status),
                 pc[r] \in {"scan", "parse", "publish", "mining"}
          PROVE  FALSE
      <3>1. run[r] \in RunRow /\ r \in RunIds
        BY <2>1 DEF TypesInv, Places, RunIds
      <3> QED
        BY <1>2, <2>1, <3>1 DEF End
    <2>2. pc[r] \in Over \cup {"reap", "scan", "parse", "publish", "mining"}
      BY <1>0 DEF TypeOK
    <2> QED
      BY <1>4, <2>1, <2>2 DEF EndStep, Finish, Crash, Interrupt
  <1>5. ASSUME NEW w \in Workers, TakeJob(w)
        PROVE  FALSE
    BY <1>0, <1>1, <1>5 DEF TakeJob, TypeOK
  <1>6. ASSUME NEW w \in Workers, RefuseDraft(w) \/ SaveDraft(w)
        PROVE  FALSE
    <2>1. run[Job] \in RunRow /\ Job \in RunIds
      BY <1>6 DEF RefuseDraft, SaveDraft, TypesInv, Places, RunIds
    <2> QED
      BY <1>2, <1>6, <2>1 DEF RefuseDraft, SaveDraft, EndJob
  <1>7. ~UNCHANGED run
    BY <1>1
  <1>8. ASSUME NEW r \in Runs, RunStep(r)
        PROVE  run[q].owner \notin Living
    BY <1>3, <1>4, <1>7, <1>8
       DEF RunStep, RecordStep, Judge, LookStep, StoreStep, MineStep, recordVars
  <1>9. ~DraftStep
    BY <1>5, <1>6, <1>7 DEF DraftStep
  <1>10. ~(Transcript \/ Operator \/ UNCHANGED vars)
    BY <1>7 DEF Transcript, Operator, vars, recordVars
  <1> QED
    BY <1>8, <1>9, <1>10 DEF Next

\* The reaper never abandons a run whose recorded process lives at that moment,
\* although it judged the rows before, and a worker may have taken a run over
\* since (finalize_stale_runs, run_liveness.py).
THEOREM LiveRunsAreKept == Spec => LiveRunIsNotAbandoned
  <1>1. Init => DeadStayDead
    BY NoneIsNoRow DEF Init, DeadStayDead
  <1>2. TypesInv /\ DeadStayDead /\ [Next]_vars =>
          (\A q \in RunIds : (Running(q) /\ run'[q] # None /\ run'[q].status = "abandoned")
                                => run[q].owner \notin Living)
    BY AbandonedStep
  <1> QED
    BY <1>1, <1>2, NextDeadStayDead, TypesInvHolds, PTL DEF Spec, LiveRunIsNotAbandoned


-----------------------------------------------------------------------------
\* The checkpoints.

\* A transcript that has not been cut down has only grown.
LEMMA ContentGrows ==
  ASSUME TypesInv, [Next]_vars, NEW f \in Files, f \notin rewritten'
  PROVE  /\ f \notin rewritten
         /\ Len(content[f]) \in Nat /\ Len(content'[f]) \in Nat
         /\ Len(content[f]) <= Len(content'[f])
         /\ \A k \in 1..Len(content[f]) : content'[f][k] = content[f][k] /\ content[f][k] \in Line
  <1>0. content \in [Files -> Seq(Line)] /\ content' \in [Files -> Seq(Line)]
    BY NextTypes DEF TypesInv, TypeOK
  <1>9. rewritten \subseteq rewritten'
    <2>1. CASE UNCHANGED rewritten
      BY <2>1
    <2>2. CASE Transcript
      BY <2>2 DEF Transcript, CutLines, WriteLine
    <2>3. CASE Operator
      BY <2>3 DEF Operator, MarkForRescan, MarkForReverify
    <2>4. ASSUME NEW r \in Runs, RunStep(r)
          PROVE  UNCHANGED rewritten
      BY <2>4 DEF RunStep, RecordStep, LookStep, StoreStep, MineStep, EndStep, historyVars
    <2>5. CASE DraftStep \/ UNCHANGED vars
      BY <2>5 DEF DraftStep, vars, scanVars, historyVars
    <2> QED
      BY <2>1, <2>2, <2>3, <2>4, <2>5 DEF Next
  <1>1. /\ content[f] \in Seq(Line) /\ Len(content[f]) \in Nat /\ Len(content'[f]) \in Nat
        /\ \A k \in 1..Len(content[f]) : content[f][k] \in Line
    BY <1>0, LenProperties, ElementOfSeq
  <1>2. CASE content'[f] = content[f]
    BY <1>0, <1>1, <1>2, <1>9
  <1>3. ASSUME NEW g \in Files, CutLines(g)
        PROVE  content'[f] = content[f]
    BY <1>0, <1>3 DEF CutLines
  <1>4. ASSUME NEW k \in Kinds, WriteLine(f, k)
        PROVE  /\ Len(content[f]) <= Len(content'[f])
               /\ \A n \in 1..Len(content[f]) : content'[f][n] = content[f][n]
    <2>1. content'[f] = Append(content[f], [id |-> written', kind |-> k])
      BY <1>0, <1>4 DEF WriteLine
    <2>2. [id |-> written', kind |-> k] \in Line
      BY <1>4, ScanAssumption DEF WriteLine, Line, LineIds, TypesInv, TypeOK
    <2> QED
      BY <1>1, <2>1, <2>2
  <1>5. ASSUME NEW g \in Files, g # f, NEW k \in Kinds, WriteLine(g, k)
        PROVE  content'[f] = content[f]
    BY <1>0, <1>5 DEF WriteLine
  <1>6. CASE Transcript
    BY <1>0, <1>1, <1>2, <1>3, <1>4, <1>5, <1>6, <1>9 DEF Transcript
  <1>7. CASE Operator \/ DraftStep \/ UNCHANGED vars
    BY <1>2, <1>7 DEF Operator, DraftStep, vars, scanVars, transcriptVars
  <1>8. ASSUME NEW r \in Runs, RunStep(r)
        PROVE  content'[f] = content[f]
    BY <1>8 DEF RunStep, RecordStep, LookStep, StoreStep, MineStep, EndStep, transcriptVars
  <1> QED
    BY <1>2, <1>6, <1>7, <1>8, <1>9 DEF Next

\* Only a rescan of its own transcript takes the incident of a line away.
LEMMA KnownKept ==
  ASSUME TypesInv, [Next]_vars, NEW f \in Files, NEW id \in LineIds,
         Known(f, id), ~MarkForRescan(f, Referenced)
  PROVE  Known(f, id)'
  <1>0. incident \in [Key -> IncidentStatus]
    BY DEF TypesInv, TypeOK
  <1>1. PICK r \in Runs : incident[<<f, id, r>>] # "none"
    BY DEF Known
  <1> DEFINE i == <<f, id, r>>
  <1>2. i \in Key
    BY DEF Key
  <1>3. ASSUME StoresNew PROVE incident'[i] # "none"
    BY <1>1, <1>2, <1>3 DEF StoresNew, StoreIncidents
  <1>4. ASSUME Settles PROVE incident'[i] # "none"
    BY <1>0, <1>1, <1>2, <1>4 DEF Settles, SetProcessed, Handled
  <1>5. ASSUME Drops PROVE incident'[i] # "none"
    <2>1. PICK g \in Files, dropped \in SUBSET Key :
             /\ MarkForRescan(g, Referenced) /\ \A j \in dropped : j[1] = g
             /\ incident' = [j \in Key |-> IF j \in dropped THEN "none" ELSE incident[j]]
      BY <1>5 DEF Drops
    <2>2. i \notin dropped
      BY <2>1
    <2> QED
      BY <1>1, <1>2, <2>1, <2>2
  <1>8. incident'[i] # "none"
    <2>1. CASE UNCHANGED <<incident, receipts, links>>
      BY <1>1, <2>1
    <2> QED
      BY <1>3, <1>4, <1>5, <2>1, IncidentSteps
  <1> QED
    BY <1>8 DEF Known

\* So what is covered stays covered.
LEMMA KnownToKept ==
  ASSUME TypesInv, [Next]_vars, NEW f \in Files, f \notin rewritten',
         ~MarkForRescan(f, Referenced),
         NEW n \in Nat, n <= Len(content[f]), KnownTo(f, n)
  PROVE  n <= Len(content'[f]) /\ KnownTo(f, n)'
  <1>1. ASSUME NEW k \in 1..n, content'[f][k].kind = "signal"
        PROVE  \E r \in Runs : incident'[<<f, content'[f][k].id, r>>] # "none"
    <2>1. k \in 1..Len(content[f]) /\ content'[f][k] = content[f][k] /\ content[f][k] \in Line
      BY ContentGrows
    <2> DEFINE id == content[f][k].id
    <2>2. Known(f, id) /\ id \in LineIds
      BY <1>1, <2>1 DEF KnownTo, Line
    <2> HIDE DEF id
    <2>3. \E r \in Runs : incident'[<<f, id, r>>] # "none"
      BY <2>2, KnownKept DEF Known
    <2> QED
      BY <2>1, <2>3 DEF id
  <1>2. n <= Len(content'[f])
    BY ContentGrows
  <1> QED
    BY <1>1, <1>2 DEF KnownTo, Known


\* The locals of a run are its own.
LEMMA OthersKept ==
  ASSUME TypesInv, NEW s \in Runs, RunStep(s), NEW r \in Runs, r # s
  PROVE  /\ pc'[r] = pc[r] /\ file'[r] = file[r]
         /\ stat'[r] = stat[r] /\ read'[r] = read[r]
  <1>0. TypeOK
    BY DEF TypesInv
  <1> USE <1>0 DEF TypeOK
  <1>1. CASE RecordStep(s)
    BY <1>1 DEF RecordStep, Judge, Begin, Discover, Goto, scannerVars
  <1>2. CASE LookStep(s)
    BY <1>2 DEF LookStep, Parse, SkipUnchanged, ReadSession, Goto
  <1>3. CASE StoreStep(s)
    BY <1>3 DEF StoreStep, Publish, FailFile, NextFile, Goto
  <1>4. CASE MineStep(s)
    BY <1>4 DEF MineStep, TakeQueue, Dismiss, Learn, Answered, Goto, scannerVars
  <1>5. CASE EndStep(s)
    <2>1. Stop(s)
      BY <1>5 DEF EndStep, Finish, Crash, Interrupt, End
    <2> QED
      BY <2>1, StopTypes
  <1> QED
    BY <1>1, <1>2, <1>3, <1>4, <1>5 DEF RunStep

\* A run that has a transcript at hand has just opened it, has just read it, or
\* had it before.
LEMMA ReadingSteps ==
  ASSUME TypesInv, [Next]_vars, NEW r \in Runs, pc'[r] \in {"parse", "publish"}
  PROVE  \/ /\ pc'[r] = pc[r] /\ file'[r] = file[r]
            /\ stat'[r] = stat[r] /\ read'[r] = read[r]
         \/ /\ LookStep(r)
            /\ Parse(r) \/ \E g \in Files : ReadSession(r, g)
  <1> DEFINE Same == /\ pc'[r] = pc[r] /\ file'[r] = file[r]
                     /\ stat'[r] = stat[r] /\ read'[r] = read[r]
             Goal == Same \/ (LookStep(r) /\ (Parse(r) \/ \E g \in Files : ReadSession(r, g)))
  <1> SUFFICES Goal
    OBVIOUS
  <1>0. TypeOK
    BY DEF TypesInv
  <1>1. CASE Transcript \/ Operator \/ DraftStep \/ UNCHANGED vars
    BY <1>1 DEF Transcript, Operator, DraftStep, vars, scanVars, scannerVars
  <1>2. ASSUME NEW s \in Runs, RunStep(s), s # r
        PROVE  Same
    BY <1>2, OthersKept
  <1>3. ASSUME RunStep(r)
        PROVE  Goal
    <2>1. ASSUME NEW label \in {"reap", "scan", "mining", "ended"}, Goto(r, label)
          PROVE  FALSE
      BY <1>0, <2>1 DEF Goto, TypeOK
    <2>2. CASE RecordStep(r)
      BY <2>1, <2>2 DEF RecordStep, Judge, Begin, Discover
    <2>3. CASE LookStep(r)
      BY <2>3 DEF LookStep, SkipUnchanged
    <2>4. CASE StoreStep(r)
      BY <2>1, <2>4 DEF StoreStep, Publish, FailFile, NextFile
    <2>5. CASE MineStep(r)
      BY <2>1, <2>5 DEF MineStep, TakeQueue, Dismiss, Learn, Answered, scannerVars
    <2>6. CASE EndStep(r)
      BY <2>1, <2>6 DEF EndStep, Finish, Crash, Interrupt, End, Stop
    <2> QED
      BY <1>3, <2>2, <2>3, <2>4, <2>5, <2>6 DEF RunStep
  <1> QED
    BY <1>1, <1>2, <1>3 DEF Next

\* What becomes of the session row of a transcript, unless an interrupt cuts
\* its transaction.
LEMMA SessionSteps ==
  ASSUME TypesInv, [Next]_vars, NEW f \in Files, f \notin torn'
  PROVE  \/ session'[f] = session[f]
         \/ \E r \in Runs : /\ file[r] = f /\ session'[f] = ScannedRow(r)
                            /\ pc[r] = "publish" /\ StoreIncidents(Detected(r))
         \/ \E r \in Runs : /\ file[r] = f /\ session'[f] = ErrorRow(r)
                            /\ pc[r] \in {"parse", "publish"}
         \/ session[f] # None /\ session'[f] = Reset(f)
  <1> DEFINE Goal ==
         \/ session'[f] = session[f]
         \/ \E r \in Runs : /\ file[r] = f /\ session'[f] = ScannedRow(r)
                            /\ pc[r] = "publish" /\ StoreIncidents(Detected(r))
         \/ \E r \in Runs : /\ file[r] = f /\ session'[f] = ErrorRow(r)
                            /\ pc[r] \in {"parse", "publish"}
         \/ session[f] # None /\ session'[f] = Reset(f)
  <1> SUFFICES Goal
    OBVIOUS
  <1>0. session \in [Files -> SessionRow \cup {None}]
    BY DEF TypesInv, TypeOK
  <1>1. CASE Transcript \/ DraftStep \/ UNCHANGED vars
    BY <1>1 DEF Transcript, DraftStep, vars, scanVars, scanRows
  <1>2. CASE Operator
    BY <1>0, <1>2 DEF Operator, MarkForRescan, MarkForReverify
  <1>3. ASSUME NEW r \in Runs, RunStep(r)
        PROVE  Goal
    <2>1. CASE RecordStep(r) \/ LookStep(r) \/ MineStep(r)
      BY <2>1 DEF RecordStep, LookStep, MineStep, scanRows
    <2>2. CASE StoreStep(r)
      <3>1. CASE Publish(r)
        BY <1>0, <3>1 DEF Publish
      <3>2. CASE FailFile(r)
        BY <1>0, <3>2 DEF FailFile
      <3> QED
        BY <2>2, <3>1, <3>2 DEF StoreStep
    <2>3. CASE EndStep(r)
      BY <1>0, <2>3 DEF EndStep, Finish, Crash, Interrupt, LeavesPending, HalfPublished, scanRows
    <2> QED
      BY <1>3, <2>1, <2>2, <2>3 DEF RunStep
  <1> QED
    BY <1>1, <1>2, <1>3 DEF Next


\* A published file: what was covered before the offset it was resumed at, and
\* what the run read behind it, has its incidents now.
LEMMA PublishedIsKnown ==
  ASSUME TypesInv, Checkpoints, [Next]_vars, NEW f \in Files, f \notin rewritten' \cup torn',
         ~MarkForRescan(f, Referenced),
         NEW r \in Runs, file[r] = f, pc[r] = "publish", StoreIncidents(Detected(r)),
         NEW n, n = Start(r) + Len(read[r].lines)
  PROVE  n \in Nat /\ n <= Len(content'[f]) /\ KnownTo(f, n)'
  <1>0. TypeOK
    BY DEF TypesInv
  <1>1. f \notin rewritten \cup torn
    BY ContentGrows, TornGrows
  <1> DEFINE lines == read[r].lines
  <1>8. PICK start \in Nat : start = Start(r)
    BY <1>0, StartType, ScanAssumption, SMTT(30) DEF TypeOK
  <1>2. /\ lines \in Seq(Line) /\ Len(lines) \in Nat /\ start \in Nat
        /\ DOMAIN lines = 1..Len(lines) /\ \A k \in 1..Len(lines) : lines[k] \in Line
    <2>1. lines \in Seq(Line)
      BY <1>0 DEF TypeOK
    <2> QED
      BY <1>8, <2>1, LenProperties, ElementOfSeq
  <1>3. /\ n <= Len(content[f])
        /\ \A k \in 1..Len(lines) : lines[k] = content[f][start + k]
        /\ start > 0 => start <= Len(content[f]) /\ KnownTo(f, start)
    BY <1>0, <1>1, <1>8 DEF Checkpoints, Start
  <1>4. start > 0 => KnownTo(f, start)'
    BY <1>2, <1>3, KnownToKept
  <1> HIDE DEF lines
  <1>5. n \in Nat /\ n = start + Len(lines)
    BY <1>2, <1>8 DEF lines
  <1>9. n \in Nat /\ start \in Nat
    BY <1>2, <1>5
  <1>6. ASSUME NEW k \in 1..n, content'[f][k].kind = "signal"
        PROVE  \E q \in Runs : incident'[<<f, content'[f][k].id, q>>] # "none"
    <2>1. content'[f][k] = content[f][k] /\ content[f][k] \in Line
      BY <1>3, <1>5, ContentGrows
    <2>2. CASE k <= start
      <3>1. k \in 1..start /\ start > 0
        BY <1>9, <2>2
      <3> QED
        BY <1>4, <1>6, <3>1 DEF KnownTo, Known
    <2>3. CASE k > start
      <3> DEFINE j == k - start
                 id == content[f][k].id
      <3>1. j \in 1..Len(lines) /\ start + j = k
        BY <1>2, <1>5, <2>3
      <3>2. lines[j] = content[f][k]
        BY <1>3, <3>1
      <3>3. id \in LineIds /\ id \in Of(lines, "signal")
        BY <1>2, <1>6, <2>1, <3>1, <3>2 DEF Of, Line
      <3> HIDE DEF id
      <3>4. CASE Known(f, id)
        <4>1. \E q \in Runs : incident'[<<f, id, q>>] # "none"
          BY <3>3, <3>4, KnownKept DEF Known
        <4> QED
          BY <2>1, <4>1 DEF id
      <3>5. CASE ~Known(f, id)
        <4>1. <<f, id, r>> \in Detected(r) /\ <<f, id, r>> \in Key
          BY <3>3, <3>5 DEF Detected, lines, Key
        <4>2. incident'[<<f, id, r>>] # "none"
          BY <4>1 DEF StoreIncidents
        <4> QED
          BY <2>1, <4>2 DEF id
      <3> QED
        BY <3>4, <3>5
    <2>4. k <= start \/ k > start
      BY <1>9
    <2> QED
      BY <2>2, <2>3, <2>4
  <1>7. n <= Len(content'[f])
    BY <1>3, <1>5, ContentGrows
  <1> QED
    BY <1>5, <1>6, <1>7 DEF KnownTo, Known

\* The session row a step leaves covers no signal without an incident.
LEMMA NextSessionCovers ==
  ASSUME TypesInv, Checkpoints, [Next]_vars, NEW f \in Files, f \notin rewritten' \cup torn',
         session'[f] # None, NEW n, n = session'[f].bytes
  PROVE  n <= Len(content'[f]) /\ KnownTo(f, n)'
  <1>0. TypeOK
    BY DEF TypesInv
  <1>1. f \notin rewritten \cup torn
    BY ContentGrows, TornGrows
  <1>2. \A m \in Nat : m = 0 => m <= Len(content'[f]) /\ KnownTo(f, m)'
    BY ContentGrows DEF KnownTo
  <1>3. CASE MarkForRescan(f, Referenced)
    <2>1. session[f] \in SessionRow /\ session'[f] = Reset(f)
      BY <1>0, <1>3 DEF MarkForRescan, TypeOK
    <2>2. n = 0
      BY <2>1 DEF Reset, SessionRow
    <2> QED
      BY <1>2, <2>2
  <1>4. ASSUME ~MarkForRescan(f, Referenced)
        PROVE  n <= Len(content'[f]) /\ KnownTo(f, n)'
    <2>1. CASE session'[f] = session[f]
      <3>1. session[f] \in SessionRow
        BY <1>0, <2>1 DEF TypeOK
      <3>2. n \in Nat /\ n <= Len(content[f]) /\ KnownTo(f, n)
        BY <1>1, <2>1, <3>1, ScanAssumption DEF Checkpoints, SessionRow
      <3> QED
        BY <1>4, <3>2, KnownToKept
    <2>2. ASSUME NEW r \in Runs, file[r] = f, session'[f] = ScannedRow(r),
                 pc[r] = "publish", StoreIncidents(Detected(r))
          PROVE  n <= Len(content'[f]) /\ KnownTo(f, n)'
      <3>1. n = Start(r) + Len(read[r].lines)
        BY <2>2 DEF ScannedRow
      <3> QED
        BY <1>4, <2>2, <3>1, PublishedIsKnown
    <2>3. ASSUME NEW r \in Runs, file[r] = f, session'[f] = ErrorRow(r),
                 pc[r] \in {"parse", "publish"}
          PROVE  n <= Len(content'[f]) /\ KnownTo(f, n)'
      <3>1. CASE Existing(r) = None
        BY <1>2, <2>3, <3>1 DEF ErrorRow
      <3>2. CASE Existing(r) # None
        <4>1. Existing(r) \in SessionRow
          BY <1>0, <2>3, <3>2, StartType
        <4>2. n = Existing(r).bytes /\ n \in Nat
          BY <2>3, <3>2, <4>1, ScanAssumption DEF ErrorRow, SessionRow
        <4>3. n <= Len(content[f]) /\ KnownTo(f, n)
          BY <1>1, <2>3, <3>2, <4>2 DEF Checkpoints
        <4> QED
          BY <1>4, <4>2, <4>3, KnownToKept
      <3> QED
        BY <3>1, <3>2
    <2>4. CASE session[f] # None /\ session'[f] = Reset(f)
      <3>1. session[f] \in SessionRow
        BY <1>0, <2>4 DEF TypeOK
      <3>2. n = 0
        BY <2>4, <3>1 DEF Reset, SessionRow
      <3> QED
        BY <1>2, <3>2
    <2> QED
      BY <2>1, <2>2, <2>3, <2>4, SessionSteps
  <1> QED
    BY <1>3, <1>4


\* So does the copy of it that a run has read, and what a run read is what the
\* transcript holds behind it.
LEMMA NextCopyCovers ==
  ASSUME TypesInv, Checkpoints, [Next]_vars, NEW f \in Files, f \notin rewritten' \cup torn',
         NEW r \in Runs, pc'[r] \in {"parse", "publish"}, file'[r] = f
  PROVE  /\ \A n \in Nat : read'[r].row # None /\ n = read'[r].row.bytes =>
              n <= Len(content'[f]) /\ KnownTo(f, n)'
         /\ pc'[r] = "publish" =>
              /\ Start(r)' + Len(read'[r].lines) <= Len(content'[f])
              /\ \A k \in 1..Len(read'[r].lines) :
                   read'[r].lines[k] = content'[f][Start(r)' + k]
  <1> DEFINE Goal ==
         /\ \A n \in Nat : read'[r].row # None /\ n = read'[r].row.bytes =>
              n <= Len(content'[f]) /\ KnownTo(f, n)'
         /\ pc'[r] = "publish" =>
              /\ Start(r)' + Len(read'[r].lines) <= Len(content'[f])
              /\ \A k \in 1..Len(read'[r].lines) :
                   read'[r].lines[k] = content'[f][Start(r)' + k]
  <1>0. TypeOK
    BY DEF TypesInv
  <1>1. f \notin rewritten \cup torn
    BY ContentGrows, TornGrows
  <1>2. /\ content[f] \in Seq(Line) /\ Len(content[f]) \in Nat
        /\ \A k \in DOMAIN content[f] : content[f][k] \in Line
    BY <1>0, LenProperties, ElementOfSeq DEF TypeOK
  <1>3. CASE /\ pc'[r] = pc[r] /\ file'[r] = file[r]
             /\ stat'[r] = stat[r] /\ read'[r] = read[r]
    <2>1. ~MarkForRescan(f, Referenced)
      <3>1. Reading(f)
        BY <1>3 DEF Reading
      <3> QED
        BY <3>1 DEF MarkForRescan
    <2>2. ASSUME NEW n \in Nat, read'[r].row # None, n = read'[r].row.bytes
          PROVE  n <= Len(content'[f]) /\ KnownTo(f, n)'
      <3>1. n <= Len(content[f]) /\ KnownTo(f, n)
        BY <1>1, <1>3, <2>2 DEF Checkpoints, Existing
      <3> QED
        BY <2>1, <3>1, KnownToKept
    <2>3. ASSUME pc'[r] = "publish"
          PROVE  /\ Start(r)' + Len(read'[r].lines) <= Len(content'[f])
                 /\ \A k \in 1..Len(read'[r].lines) :
                      read'[r].lines[k] = content'[f][Start(r)' + k]
      <3>1. PICK start \in Nat, length \in Nat : start = Start(r) /\ length = Len(read[r].lines)
        BY <1>0, <1>3, StartType, ScanAssumption, LenProperties DEF TypeOK
      <3>2. Start(r)' = start /\ Len(read'[r].lines) = length
        BY <1>3, <3>1 DEF Start, Existing, Size
      <3>3. /\ start + length <= Len(content[f])
            /\ \A k \in 1..length : read[r].lines[k] = content[f][start + k]
        <4>1. pc[r] = "publish" /\ file[r] = f
          BY <1>3, <2>3
        <4>2. /\ Start(r) + Len(read[r].lines) <= Len(content[f])
              /\ \A k \in 1..Len(read[r].lines) :
                   read[r].lines[k] = content[f][Start(r) + k]
          BY <1>1, <4>1 DEF Checkpoints
        <4> QED
          BY <3>1, <4>2
      <3>4. ASSUME NEW k \in 1..length
            PROVE  read'[r].lines[k] = content'[f][start + k]
        <4>1. start + k \in 1..Len(content[f])
          BY <1>2, <3>3
        <4> QED
          BY <1>3, <3>3, <4>1, ContentGrows
      <3>5. start + length <= Len(content'[f])
        BY <3>3, ContentGrows
      <3> QED
        BY <3>2, <3>4, <3>5
    <2> QED
      BY <2>2, <2>3
  <1>4. ASSUME LookStep(r)
        PROVE  /\ UNCHANGED <<content, session, incident>>
               /\ \A n \in Nat : KnownTo(f, n) => KnownTo(f, n)'
    BY <1>4 DEF LookStep, transcriptVars, scanRows, KnownTo, Known
  <1>5. ASSUME NEW g \in Files, ReadSession(r, g), LookStep(r)
        PROVE  Goal
    <2>1. g = f /\ read'[r] = [row |-> session[f], lines |-> <<>>] /\ pc'[r] = "parse"
      BY <1>0, <1>5 DEF ReadSession, Goto, TypeOK
    <2>2. ASSUME NEW n \in Nat, session[f] # None, n = session[f].bytes
          PROVE  n <= Len(content'[f]) /\ KnownTo(f, n)'
      BY <1>1, <1>4, <1>5, <2>2 DEF Checkpoints
    <2> QED
      BY <2>1, <2>2
  <1>6. ASSUME Parse(r), LookStep(r)
        PROVE  Goal
    <2>1. /\ file[r] = f /\ pc[r] = "parse" /\ UNCHANGED <<stat, file>>
          /\ read' = [read EXCEPT ![r].lines =
                        SubSeq(content[f], Start(r) + 1, Len(content[f]))]
      BY <1>6 DEF Parse
    <2>2. PICK start \in Nat : start = Start(r)
      BY <1>0, <2>1, StartType, ScanAssumption
    <2> DEFINE tail == SubSeq(content[f], start + 1, Len(content[f]))
    <2>3. read'[r].row = read[r].row /\ read'[r].lines = tail
      <3>1. read' = [read EXCEPT ![r].lines = tail]
        BY <2>1, <2>2
      <3>2. read[r] \in [row : SessionRow \cup {None}, lines : Seq(Line)] /\ r \in DOMAIN read
        BY <1>0 DEF TypeOK
      <3> HIDE DEF tail
      <3> QED
        BY <3>1, <3>2
    <2>4. Start(r)' = start
      BY <2>1, <2>2, <2>3 DEF Start, Existing, Size
    <2>5. ASSUME NEW n \in Nat, read[r].row # None, n = read[r].row.bytes
          PROVE  n <= Len(content[f]) /\ KnownTo(f, n)
      BY <1>1, <2>1, <2>5 DEF Checkpoints, Existing
    <2>6. start <= Len(content[f])
      <3>1. CASE start = 0
        BY <1>2, <3>1
      <3>2. CASE start # 0
        BY <2>2, <2>5, <3>2 DEF Start, Existing
      <3> QED
        BY <3>1, <3>2
    <2>7. /\ start + Len(tail) <= Len(content[f])
          /\ \A k \in 1..Len(tail) : tail[k] = content[f][start + k]
      <3>1. /\ Len(tail) = IF start < Len(content[f]) THEN Len(content[f]) - start ELSE 0
            /\ \A k \in 1..Len(tail) : tail[k] = content[f][start + k]
        BY <1>2, TailType, ZenonT(60)
      <3> QED
        BY <1>2, <2>6, <3>1
    <2> HIDE DEF tail
    <2> QED
      BY <1>4, <1>6, <2>3, <2>4, <2>5, <2>7
  <1> QED
    BY <1>3, <1>5, <1>6, ReadingSteps

LEMMA NextCheckpoints == TypesInv /\ Checkpoints /\ [Next]_vars => Checkpoints'
  <1> SUFFICES ASSUME TypesInv, Checkpoints, [Next]_vars PROVE Checkpoints'
    OBVIOUS
  <1>0. TypeOK'
    BY NextTypes DEF TypesInv
  <1>1. ASSUME NEW f \in Files, f \notin rewritten' \cup torn', session'[f] # None
        PROVE  /\ session'[f].bytes <= Len(content'[f])
               /\ \A k \in 1..session'[f].bytes : content'[f][k].kind = "signal" =>
                    \E q \in Runs : incident'[<<f, content'[f][k].id, q>>] # "none"
    <2>1. PICK n : n = session'[f].bytes
      OBVIOUS
    <2>2. n <= Len(content'[f]) /\ KnownTo(f, n)'
      BY <1>1, <2>1, NextSessionCovers
    <2> QED
      BY <2>1, <2>2 DEF KnownTo, Known
  <1>2. ASSUME NEW f \in Files, f \notin rewritten' \cup torn', NEW r \in Runs,
               pc'[r] \in {"parse", "publish"}, file'[r] = f
        PROVE  /\ Existing(r)' # None =>
                    /\ Existing(r)'.bytes <= Len(content'[f])
                    /\ \A k \in 1..Existing(r)'.bytes : content'[f][k].kind = "signal" =>
                         \E q \in Runs : incident'[<<f, content'[f][k].id, q>>] # "none"
               /\ pc'[r] = "publish" =>
                    /\ Start(r)' + Len(read'[r].lines) <= Len(content'[f])
                    /\ \A k \in 1..Len(read'[r].lines) :
                         read'[r].lines[k] = content'[f][Start(r)' + k]
    <2>1. ASSUME read'[r].row # None
          PROVE  /\ read'[r].row.bytes <= Len(content'[f])
                 /\ \A k \in 1..read'[r].row.bytes : content'[f][k].kind = "signal" =>
                      \E q \in Runs : incident'[<<f, content'[f][k].id, q>>] # "none"
      <3>1. read'[r].row \in SessionRow
        BY <1>0, <2>1 DEF TypeOK
      <3>2. PICK n \in Nat : n = read'[r].row.bytes
        BY <3>1, ScanAssumption DEF SessionRow
      <3>3. n <= Len(content'[f]) /\ KnownTo(f, n)'
        BY <1>2, <2>1, <3>2, NextCopyCovers
      <3> QED
        BY <3>2, <3>3 DEF KnownTo, Known
    <2>2. ASSUME pc'[r] = "publish"
          PROVE  /\ Start(r)' + Len(read'[r].lines) <= Len(content'[f])
                 /\ \A k \in 1..Len(read'[r].lines) :
                      read'[r].lines[k] = content'[f][Start(r)' + k]
      BY <1>2, <2>2, NextCopyCovers
    <2> QED
      BY <2>1, <2>2 DEF Existing
  <1> QED
    BY <1>1, <1>2 DEF Checkpoints, KnownTo, Known, Existing

\* Nothing before a checkpoint is lost to the miner: in a transcript that only
\* grows, every signal that the session row counts as read has an incident,
\* through failed files, rescans, kills and any number of runs that read the
\* same lines at once (scan.py, _scan_one and _measure).
THEOREM SignalsAreDetected == Spec => []SignalsDetected
  <1>1. Init => Checkpoints
    BY DEF Init, ScanInit, Checkpoints
  <1>2. TypesInv /\ Checkpoints => SignalsDetected
    <2> SUFFICES ASSUME TypesInv, Checkpoints, NEW f \in Files, f \notin rewritten \cup torn,
                        session[f] # None
                 PROVE  SignalsKnown(f)
      BY DEF SignalsDetected
    <2>1. /\ session[f] \in SessionRow /\ content[f] \in Seq(Line)
          /\ session[f].bytes \in Nat
      BY ScanAssumption DEF TypesInv, TypeOK, SessionRow
    <2>2. /\ session[f].bytes <= Len(content[f]) /\ KnownTo(f, session[f].bytes)
          /\ Len(content[f]) \in Nat /\ \A k \in 1..Len(content[f]) : content[f][k] \in Line
      BY <2>1, LenProperties, ElementOfSeq DEF Checkpoints
    <2> DEFINE n == session[f].bytes
    <2>3. \A k \in 1..n : content[f][k] \in Line
      BY <2>1, <2>2
    <2>4. /\ Consumed(f) \in Seq(Line) /\ Len(Consumed(f)) = n
          /\ \A k \in 1..n : Consumed(f)[k] = content[f][k]
      BY <2>1, <2>2, <2>3, SubSeqProperties DEF Consumed
    <2>5. DOMAIN Consumed(f) = 1..n
      BY <2>4, LenProperties
    <2> QED
      BY <2>2, <2>4, <2>5 DEF SignalsKnown, KnownTo
  <1> QED
    BY <1>1, <1>2, NextCheckpoints, TypesInvHolds, PTL DEF Spec


-----------------------------------------------------------------------------
\* The errors and the measured lines.

\* Run r has transcript f at hand.
Reads(r, f) == pc[r] \in {"parse", "publish"} /\ file[r] = f

\* Of two runs that have one transcript at hand at once, neither had found a
\* line of it consumed.
FirstReadsRace ==
    \A f \in Files, q, r \in Runs :
        q # r /\ Reads(q, f) /\ Reads(r, f) =>
            Existing(q) = None \/ Existing(q).bytes = 0

\* The first n lines of a transcript are measured and their errors counted.
ErrorsTo(f, n) == {content[f][k].id : k \in {j \in 1..n : content[f][j].kind = "error"}}
CountedTo(f, n) ==
    /\ \A k \in 1..n : content[f][k].id \in measured[f]
    /\ Cardinality(ErrorsTo(f, n)) <= errors[f]

\* So are the lines before a checkpoint, and before the copy a run resumes from.
Counts ==
    \A f \in Files \ (rewritten \cup torn) :
        /\ session[f] # None => CountedTo(f, session[f].bytes)
        /\ \A r \in Runs : Reads(r, f) /\ Existing(r) # None => CountedTo(f, Existing(r).bytes)

\* The errors of a stretch of lines are finitely many.
LEMMA ErrorsType ==
  ASSUME TypeOK, NEW f \in Files, NEW n \in Nat, n <= Len(content[f])
  PROVE  IsFiniteSet(ErrorsTo(f, n)) /\ Cardinality(ErrorsTo(f, n)) \in Nat
  <1>1. content[f] \in Seq(Line)
    BY DEF TypeOK
  <1>2. \A k \in 1..Len(content[f]) : content[f][k] \in Line
    BY <1>1, LenProperties, ElementOfSeq
  <1>3. Len(content[f]) \in Nat
    BY <1>1, LenProperties
  <1>4. ErrorsTo(f, n) \subseteq LineIds
    BY <1>2, <1>3 DEF ErrorsTo, Line
  <1>5. IsFiniteSet(LineIds)
    BY FS_Interval, ScanAssumption DEF LineIds
  <1> QED
    BY <1>4, <1>5, FS_Subset, FS_CardinalityType

\* What is counted stays counted while nobody counts again.
LEMMA CountedKept ==
  ASSUME TypesInv, [Next]_vars, NEW f \in Files, f \notin rewritten',
         errors'[f] = errors[f], measured'[f] = measured[f],
         NEW n \in Nat, n <= Len(content[f]), CountedTo(f, n)
  PROVE  CountedTo(f, n)'
  <1>1. Len(content[f]) \in Nat /\ \A k \in 1..n : content'[f][k] = content[f][k]
    BY ContentGrows
  <1>2. ErrorsTo(f, n)' = ErrorsTo(f, n)
    BY <1>1 DEF ErrorsTo
  <1> QED
    BY <1>1, <1>2 DEF CountedTo

\* What becomes of the counts of a transcript and of its session row, unless an
\* interrupt cuts its transaction.
LEMMA CountSteps ==
  ASSUME TypesInv, [Next]_vars, NEW f \in Files, f \notin torn'
  PROVE  \/ \E r \in Runs : file[r] = f /\ Publish(r)
         \/ /\ errors'[f] = errors[f] /\ measured'[f] = measured[f]
            /\ \/ session'[f] = session[f]
               \/ \E r \in Runs : Reads(r, f) /\ session'[f] = ErrorRow(r)
               \/ session[f] # None /\ session'[f] = Reset(f)
  <1> DEFINE Same == errors'[f] = errors[f] /\ measured'[f] = measured[f]
             Rows == \/ session'[f] = session[f]
                     \/ \E r \in Runs : Reads(r, f) /\ session'[f] = ErrorRow(r)
                     \/ session[f] # None /\ session'[f] = Reset(f)
             Goal == (\E r \in Runs : file[r] = f /\ Publish(r)) \/ (Same /\ Rows)
  <1> SUFFICES Goal
    OBVIOUS
  <1>0. /\ session \in [Files -> SessionRow \cup {None}]
        /\ errors \in [Files -> Nat] /\ measured \in [Files -> SUBSET LineIds]
    BY DEF TypesInv, TypeOK
  <1>1. CASE Transcript \/ DraftStep \/ UNCHANGED vars
    BY <1>1 DEF Transcript, DraftStep, vars, scanVars, scanRows
  <1>2. CASE Operator
    BY <1>0, <1>2 DEF Operator, MarkForRescan, MarkForReverify
  <1>3. ASSUME NEW r \in Runs, RunStep(r)
        PROVE  Goal
    <2>1. CASE RecordStep(r) \/ LookStep(r) \/ MineStep(r)
      BY <2>1 DEF RecordStep, LookStep, MineStep, scanRows
    <2>2. CASE StoreStep(r)
      <3>1. CASE Publish(r)
        <4>1. CASE file[r] = f
          BY <3>1, <4>1
        <4>2. CASE file[r] # f
          BY <1>0, <3>1, <4>2 DEF Publish
        <4> QED
          BY <4>1, <4>2
      <3>2. CASE FailFile(r)
        BY <1>0, <3>2 DEF FailFile, Reads
      <3> QED
        BY <2>2, <3>1, <3>2 DEF StoreStep
    <2>3. CASE EndStep(r)
      BY <1>0, <2>3 DEF EndStep, Finish, Crash, Interrupt, LeavesPending, HalfPublished, scanRows
    <2> QED
      BY <1>3, <2>1, <2>2, <2>3 DEF RunStep
  <1> QED
    BY <1>1, <1>2, <1>3 DEF Next


\* A published file: what was counted before the offset it was resumed at, and
\* what the run read behind it, is counted and measured now.
LEMMA PublishedIsCounted ==
  ASSUME TypesInv, Checkpoints, Counts, [Next]_vars,
         NEW f \in Files, f \notin rewritten' \cup torn',
         NEW r \in Runs, file[r] = f, Publish(r),
         NEW n, n = session'[f].bytes
  PROVE  CountedTo(f, n)'
  <1>0. TypeOK /\ pc[r] = "publish"
    BY DEF TypesInv, Publish
  <1>1. f \notin rewritten \cup torn
    BY ContentGrows, TornGrows
  <1> DEFINE lines == read[r].lines
  <1>2. PICK start \in Nat : start = Start(r)
    BY <1>0, StartType, ScanAssumption, SMTT(30) DEF TypeOK
  <1>3. /\ lines \in Seq(Line) /\ Len(lines) \in Nat
        /\ DOMAIN lines = 1..Len(lines) /\ \A k \in 1..Len(lines) : lines[k] \in Line
    <2>1. lines \in Seq(Line)
      BY <1>0 DEF TypeOK
    <2> QED
      BY <2>1, LenProperties, ElementOfSeq
  <1>4. /\ start + Len(lines) <= Len(content[f])
        /\ \A k \in 1..Len(lines) : lines[k] = content[f][start + k]
        /\ start > 0 => /\ Existing(r) # None /\ start = Existing(r).bytes
                        /\ CountedTo(f, start)
    BY <1>0, <1>1, <1>2 DEF Checkpoints, Counts, Reads, Start
  <1>5. /\ session'[f] = ScannedRow(r) /\ errors'[f] = ErrorCount(r)
        /\ measured'[f] = Projection(r)
    BY <1>0 DEF Publish, TypeOK
  <1>6. n = start + Len(lines)
    BY <1>2, <1>5 DEF ScannedRow
  <1>7. Resumed(r) <=> start > 0
    BY <1>2 DEF Resumed
  <1> HIDE DEF lines
  <1>8. content[f] \in Seq(Line) /\ Len(content[f]) \in Nat /\ n \in Nat
    BY <1>0, <1>3, <1>6, LenProperties DEF TypeOK
  <1>9. \A k \in 1..n : content'[f][k] = content[f][k] /\ k \in 1..Len(content[f])
    BY <1>4, <1>6, <1>8, ContentGrows
  <1>10. ASSUME NEW k \in 1..n
         PROVE  content'[f][k].id \in measured'[f]
    <2>1. CASE start > 0
      <3>1. measured'[f] = Ids(content[f]) /\ k \in DOMAIN content[f]
        BY <1>5, <1>7, <1>8, <1>9, <2>1, LenProperties DEF Projection
      <3> QED
        BY <1>9, <3>1 DEF Ids
    <2>2. CASE ~(start > 0)
      <3>1. start = 0 /\ k \in 1..Len(lines) /\ n = Len(lines)
        BY <1>2, <1>3, <1>6, <2>2
      <3>2. lines[k] = content[f][k]
        BY <1>4, <3>1
      <3>3. measured'[f] = Ids(lines) /\ k \in DOMAIN lines
        BY <1>3, <1>5, <1>7, <2>2, <3>1 DEF Projection, lines
      <3> QED
        BY <1>9, <3>2, <3>3 DEF Ids
    <2> QED
      BY <2>1, <2>2
  <1>11. ErrorsTo(f, n)' \subseteq ErrorsTo(f, start) \cup Of(lines, "error")
    <2> SUFFICES ASSUME NEW k \in 1..n, content'[f][k].kind = "error"
                 PROVE  content'[f][k].id \in ErrorsTo(f, start) \cup Of(lines, "error")
      BY DEF ErrorsTo
    <2>1. content[f][k].kind = "error" /\ content'[f][k].id = content[f][k].id
      BY <1>9
    <2>2. CASE k <= start
      BY <1>8, <2>1, <2>2 DEF ErrorsTo
    <2>3. CASE k > start
      <3> DEFINE j == k - start
      <3>1. j \in 1..Len(lines) /\ start + j = k
        BY <1>3, <1>6, <1>8, <2>3
      <3>2. lines[j] = content[f][k]
        BY <1>4, <3>1
      <3> QED
        BY <1>3, <2>1, <3>1, <3>2 DEF Of
    <2> QED
      BY <1>8, <2>2, <2>3
  <1>12. /\ IsFiniteSet(Of(lines, "error")) /\ Cardinality(Of(lines, "error")) \in Nat
         /\ errors[f] \in Nat
    <2>1. Of(lines, "error") \subseteq LineIds /\ Cardinality(Of(lines, "error")) \in Nat
      BY <1>3, OfType
    <2>2. IsFiniteSet(LineIds)
      BY FS_Interval, ScanAssumption DEF LineIds
    <2> QED
      BY <1>0, <2>1, <2>2, FS_Subset DEF TypeOK
  <1>13. Cardinality(ErrorsTo(f, n)') <= errors'[f]
    <2>1. CASE start > 0
      <3>1. /\ IsFiniteSet(ErrorsTo(f, start)) /\ Cardinality(ErrorsTo(f, start)) \in Nat
            /\ Cardinality(ErrorsTo(f, start)) <= errors[f]
        BY <1>0, <1>3, <1>4, <1>8, <2>1, ErrorsType DEF CountedTo
      <3> DEFINE A == ErrorsTo(f, start)
                 B == Of(lines, "error")
      <3> HIDE DEF A, B
      <3>2. /\ IsFiniteSet(A \cup B) /\ IsFiniteSet(A \cap B)
            /\ Cardinality(A \cup B) = Cardinality(A) + Cardinality(B) - Cardinality(A \cap B)
        BY <1>12, <3>1, FS_Union, FS_Intersection DEF A, B
      <3>3. Cardinality(A \cap B) \in Nat /\ Cardinality(A \cup B) \in Nat
        BY <3>2, FS_CardinalityType
      <3>4. /\ Cardinality(ErrorsTo(f, n)') \in Nat
            /\ Cardinality(ErrorsTo(f, n)') <= Cardinality(A \cup B)
        BY <1>11, <3>2, FS_Subset, FS_CardinalityType DEF A, B
      <3>5. errors'[f] = errors[f] + Cardinality(B)
        BY <1>5, <1>7, <2>1, <3>1 DEF ErrorCount, B, lines
      <3>6. /\ Cardinality(A) \in Nat /\ Cardinality(A) <= errors[f]
            /\ Cardinality(B) \in Nat /\ errors[f] \in Nat
        BY <1>12, <3>1 DEF A, B
      <3> QED
        BY <3>2, <3>3, <3>4, <3>5, <3>6
    <2>2. CASE ~(start > 0)
      <3>1. ErrorsTo(f, start) = {}
        BY <1>2, <2>2 DEF ErrorsTo
      <3>2. /\ Cardinality(ErrorsTo(f, n)') \in Nat
            /\ Cardinality(ErrorsTo(f, n)') <= Cardinality(Of(lines, "error"))
        BY <1>11, <1>12, <3>1, FS_Subset, FS_CardinalityType
      <3>3. \/ errors'[f] = 0 + Cardinality(Of(lines, "error"))
            \/ errors'[f] = errors[f] + Cardinality(Of(lines, "error"))
        BY <1>5 DEF ErrorCount, lines
      <3> QED
        BY <1>12, <3>2, <3>3
    <2> QED
      BY <2>1, <2>2
  <1> QED
    BY <1>10, <1>13 DEF CountedTo

\* A reader's copy of the row as the step leaves it: the one it had, or the row
\* on record.
LEMMA CopySteps ==
  ASSUME TypesInv, [Next]_vars, NEW f \in Files, NEW r \in Runs, Reads(r, f)'
  PROVE  \/ Reads(r, f) /\ Existing(r)' = Existing(r)
         \/ /\ ~Reads(r, f) /\ Existing(r)' = session[f]
            /\ UNCHANGED <<content, session, errors, measured>>
  <1>0. TypeOK
    BY DEF TypesInv
  <1>1. pc'[r] \in {"parse", "publish"} /\ file'[r] = f
    BY DEF Reads
  <1>2. CASE /\ pc'[r] = pc[r] /\ file'[r] = file[r]
             /\ stat'[r] = stat[r] /\ read'[r] = read[r]
    BY <1>1, <1>2 DEF Reads, Existing
  <1>3. ASSUME LookStep(r), Parse(r)
        PROVE  Reads(r, f) /\ Existing(r)' = Existing(r)
    <2>1. /\ read[r] \in [row : SessionRow \cup {None}, lines : Seq(Line)]
          /\ r \in DOMAIN read
      BY <1>0 DEF TypeOK
    <2>2. /\ pc[r] = "parse" /\ UNCHANGED file
          /\ \E tail : read' = [read EXCEPT ![r].lines = tail]
      BY <1>3 DEF Parse
    <2> QED
      BY <1>1, <2>1, <2>2 DEF Reads, Existing
  <1>4. ASSUME LookStep(r), NEW g \in Files, ReadSession(r, g)
        PROVE  /\ ~Reads(r, f) /\ Existing(r)' = session[f]
               /\ UNCHANGED <<content, session, errors, measured>>
    BY <1>0, <1>1, <1>4 DEF LookStep, ReadSession, Reads, Existing, TypeOK,
                            transcriptVars, scanRows
  <1> QED
    BY <1>1, <1>2, <1>3, <1>4, ReadingSteps


\* What it takes to have counted up to the rows a step leaves.
LEMMA CountedAt ==
  ASSUME TypeOK', NEW f \in Files,
         session'[f] # None => \A n \in Nat : n = session'[f].bytes => CountedTo(f, n)',
         \A r \in Runs : Reads(r, f)' /\ Existing(r)' # None =>
             \A n \in Nat : n = Existing(r)'.bytes => CountedTo(f, n)'
  PROVE  /\ (session[f] # None => CountedTo(f, session[f].bytes))'
         /\ \A r \in Runs : (Reads(r, f) /\ Existing(r) # None => CountedTo(f, Existing(r).bytes))'
  <1>1. ASSUME session'[f] # None
        PROVE  CountedTo(f, session[f].bytes)'
    <2>1. session'[f] \in SessionRow
      BY <1>1 DEF TypeOK
    <2>2. PICK n \in Nat : n = session'[f].bytes
      BY <2>1, ScanAssumption DEF SessionRow
    <2> QED
      BY <1>1, <2>2 DEF CountedTo, ErrorsTo
  <1>2. ASSUME NEW r \in Runs, Reads(r, f)', Existing(r)' # None
        PROVE  CountedTo(f, Existing(r).bytes)'
    <2>1. Existing(r)' \in SessionRow
      BY <1>2 DEF TypeOK, Existing
    <2>2. PICK n \in Nat : n = Existing(r)'.bytes
      BY <2>1, ScanAssumption DEF SessionRow
    <2> QED
      BY <1>2, <2>2 DEF CountedTo, ErrorsTo
  <1> QED
    BY <1>1, <1>2

\* While runs race only for what they read first, the counts keep up with the
\* checkpoints.
LEMMA NextCounts ==
  ASSUME TypesInv, Checkpoints, Counts, FirstReadsRace, [Next]_vars
  PROVE  Counts'
  <1>0. TypeOK /\ TypeOK'
    BY NextTypes DEF TypesInv
  <1> DEFINE Good(f) ==
         /\ session[f] # None => CountedTo(f, session[f].bytes)
         /\ \A r \in Runs : Reads(r, f) /\ Existing(r) # None => CountedTo(f, Existing(r).bytes)
  <1> SUFFICES ASSUME NEW f \in Files, f \notin rewritten' \cup torn'
               PROVE  Good(f)'
    BY DEF Counts
  <1>1. f \notin rewritten \cup torn /\ Good(f)
    BY ContentGrows, TornGrows DEF Counts
  <1>2. /\ session[f] # None =>
             session[f].bytes \in Nat /\ session[f].bytes <= Len(content[f])
        /\ \A r \in Runs : Reads(r, f) /\ Existing(r) # None =>
             Existing(r).bytes \in Nat /\ Existing(r).bytes <= Len(content[f])
    <2>1. session[f] # None => session[f] \in SessionRow
      BY <1>0 DEF TypeOK
    <2>2. \A r \in Runs : Existing(r) # None => Existing(r) \in SessionRow
      BY <1>0 DEF TypeOK, Existing
    <2> QED
      BY <1>1, <2>1, <2>2, ScanAssumption DEF Checkpoints, Reads, SessionRow
  <1>3. ASSUME NEW n \in Nat, n = 0
        PROVE  CountedTo(f, n)'
    <2>1. ErrorsTo(f, n)' = {}
      BY <1>3 DEF ErrorsTo
    <2>2. Cardinality(ErrorsTo(f, n)') = 0 /\ errors'[f] \in Nat
      BY <1>0, <2>1, FS_EmptySet DEF TypeOK
    <2> QED
      BY <1>3, <2>2 DEF CountedTo
  <1>4. CASE errors'[f] = errors[f] /\ measured'[f] = measured[f]
    <2>1. \A n \in Nat : n <= Len(content[f]) /\ CountedTo(f, n) => CountedTo(f, n)'
      BY <1>4, CountedKept
    <2>2. /\ session[f] # None => \A n \in Nat : n = session[f].bytes => CountedTo(f, n)'
          /\ \A r \in Runs : Reads(r, f) /\ Existing(r) # None =>
               \A n \in Nat : n = Existing(r).bytes => CountedTo(f, n)'
      BY <1>1, <1>2, <2>1
    <2>3. ASSUME NEW r \in Runs, Reads(r, f)', Existing(r)' # None,
                 NEW n \in Nat, n = Existing(r)'.bytes
          PROVE  CountedTo(f, n)'
      <3>1. \/ Reads(r, f) /\ Existing(r)' = Existing(r)
            \/ Existing(r)' = session[f]
        BY <2>3, CopySteps
      <3> QED
        BY <2>2, <2>3, <3>1
    <2>4. ASSUME session'[f] # None, NEW n \in Nat, n = session'[f].bytes,
                 ~\E r \in Runs : file[r] = f /\ Publish(r)
          PROVE  CountedTo(f, n)'
      <3>1. CASE session'[f] = session[f]
        BY <2>2, <2>4, <3>1
      <3>2. ASSUME NEW r \in Runs, Reads(r, f), session'[f] = ErrorRow(r)
            PROVE  CountedTo(f, n)'
        <4>1. CASE Existing(r) = None
          BY <1>3, <2>4, <3>2, <4>1 DEF ErrorRow
        <4>2. CASE Existing(r) # None
          <5>1. Existing(r) \in SessionRow
            BY <1>0, <4>2 DEF TypeOK, Existing
          <5>2. n = Existing(r).bytes
            BY <2>4, <3>2, <4>2, <5>1 DEF ErrorRow, SessionRow
          <5> QED
            BY <2>2, <3>2, <4>2, <5>2
        <4> QED
          BY <4>1, <4>2
      <3>3. CASE session[f] # None /\ session'[f] = Reset(f)
        <4>1. session[f] \in SessionRow
          BY <1>0, <3>3 DEF TypeOK
        <4>2. n = 0
          BY <2>4, <3>3, <4>1 DEF Reset, SessionRow
        <4> QED
          BY <1>3, <4>2
      <3> QED
        BY <2>4, <3>1, <3>2, <3>3, CountSteps
    <2>5. ASSUME session'[f] # None, NEW n \in Nat, n = session'[f].bytes
          PROVE  CountedTo(f, n)'
      BY <2>4, <2>5, PublishedIsCounted
    <2> QED
      BY <1>0, <2>3, <2>5, CountedAt
  <1>5. ASSUME NEW s \in Runs, file[s] = f, Publish(s)
        PROVE  Good(f)'
    <2>1. ASSUME session'[f] # None, NEW n \in Nat, n = session'[f].bytes
          PROVE  CountedTo(f, n)'
      BY <1>5, <2>1, PublishedIsCounted
    <2>2. ASSUME NEW r \in Runs, Reads(r, f)', Existing(r)' # None,
                 NEW n \in Nat, n = Existing(r)'.bytes
          PROVE  CountedTo(f, n)'
      <3>1. CASE Existing(r)' = session[f] /\ UNCHANGED session
        BY <2>1, <2>2, <3>1
      <3>2. CASE Reads(r, f) /\ Existing(r)' = Existing(r)
        <4>1. Reads(s, f) /\ pc'[s] = "scan"
          BY <1>0, <1>5 DEF Publish, NextFile, Goto, Reads, TypeOK
        <4>2. r # s
          BY <2>2, <4>1 DEF Reads
        <4>3. n = 0
          BY <2>2, <3>2, <4>1, <4>2 DEF FirstReadsRace
        <4> QED
          BY <1>3, <4>3
      <3> QED
        BY <2>2, <3>1, <3>2, CopySteps
    <2> QED
      BY <1>0, <2>1, <2>2, CountedAt
  <1> QED
    BY <1>4, <1>5, CountSteps


\* While no two runs have a transcript at hand of which either had found a line
\* consumed, everything before a checkpoint is detected, counted and measured,
\* whatever number of runs there are: in particular while runs do not overlap
\* (scan.py, _measure; scan_observations.py).
THEOREM ConsumedWithoutRaces == Spec /\ []FirstReadsRace => []ConsumedIsDetected
  <1>1. Init => Counts
    BY DEF Init, ScanInit, Counts, Reads
  <1>2. TypesInv /\ Checkpoints /\ Counts /\ SignalsDetected => ConsumedIsDetected
    <2> SUFFICES ASSUME TypesInv, Checkpoints, Counts, SignalsDetected,
                        NEW f \in Files, f \notin rewritten \cup torn, session[f] # None
                 PROVE  Covered(f)
      BY DEF ConsumedIsDetected, Covered
    <2>1. PICK n \in Nat : n = session[f].bytes
      <3>1. session[f] \in SessionRow
        BY DEF TypesInv, TypeOK
      <3> QED
        BY <3>1, ScanAssumption DEF SessionRow
    <2>2. content[f] \in Seq(Line) /\ n <= Len(content[f]) /\ CountedTo(f, n)
      BY <2>1 DEF TypesInv, TypeOK, Checkpoints, Counts
    <2>3. Len(content[f]) \in Nat /\ \A k \in 1..Len(content[f]) : content[f][k] \in Line
      BY <2>2, LenProperties, ElementOfSeq
    <2>4. \A k \in 1..n : content[f][k] \in Line
      BY <2>2, <2>3
    <2>5. /\ Consumed(f) \in Seq(Line) /\ Len(Consumed(f)) = n
          /\ \A k \in 1..n : Consumed(f)[k] = content[f][k]
      BY <2>1, <2>2, <2>4, SubSeqProperties DEF Consumed
    <2>6. DOMAIN Consumed(f) = 1..n
      BY <2>5, LenProperties
    <2>7. Ids(Consumed(f)) \subseteq measured[f]
      BY <2>2, <2>5, <2>6 DEF Ids, CountedTo
    <2>8. Of(Consumed(f), "error") = ErrorsTo(f, n)
      BY <2>5, <2>6 DEF Of, ErrorsTo
    <2> QED
      BY <2>2, <2>7, <2>8 DEF Covered, SignalsDetected, CountedTo
  <1>3. Init => Checkpoints
    BY DEF Init, ScanInit, Checkpoints
  <1> QED
    BY <1>1, <1>2, <1>3, NextCounts, NextCheckpoints, TypesInvHolds, SignalsAreDetected, PTL DEF Spec

\* Run q is done with transcript f: it has stored the file or failed it.
Past(q, f) == pc[q] \notin {"off", "reap"} /\ f \notin todo[q]

\* Who has consumed a line of a transcript is done with it.
Stored ==
    \A f \in Files :
        /\ session[f] # None /\ session[f].bytes # 0 => \E q \in Runs : Past(q, f)
        /\ \A r \in Runs : Reads(r, f) /\ Existing(r) # None /\ Existing(r).bytes # 0
               => \E q \in Runs : Past(q, f)

\* Who is done with a transcript does not come back to it.
LEMMA PastKept ==
  ASSUME TypesInv, [Next]_vars, NEW q \in Runs, NEW f \in Files, Past(q, f)
  PROVE  Past(q, f)'
  <1>0. TypeOK
    BY DEF TypesInv
  <1> USE <1>0 DEF TypeOK, Past
  <1>1. CASE Transcript \/ Operator \/ DraftStep \/ UNCHANGED vars
    BY <1>1 DEF Transcript, Operator, DraftStep, vars, scanVars, scannerVars
  <1>2. ASSUME NEW r \in Runs, RunStep(r)
        PROVE  Past(q, f)'
    <2>1. CASE RecordStep(r)
      BY <2>1 DEF RecordStep, Judge, Begin, Discover, Goto, scannerVars
    <2>2. CASE LookStep(r)
      <3>1. /\ pc'[q] = pc[q] \/ pc'[q] \in {"parse", "publish"}
            /\ UNCHANGED todo \/ \E g \in Files : todo' = [todo EXCEPT ![r] = @ \ {g}]
        BY <2>2 DEF LookStep, Parse, SkipUnchanged, ReadSession, Goto
      <3>2. ASSUME NEW g \in Files, todo' = [todo EXCEPT ![r] = @ \ {g}]
            PROVE  todo'[q] \subseteq todo[q]
        BY <3>2
      <3>3. todo'[q] \subseteq todo[q]
        BY <3>1, <3>2
      <3> QED
        BY <3>1, <3>3
    <2>3. CASE StoreStep(r)
      <3>1. /\ pc'[q] = pc[q] \/ pc'[q] = "scan"
            /\ todo' = [todo EXCEPT ![r] = @ \ {file[r]}]
        BY <2>3 DEF StoreStep, Publish, FailFile, NextFile, Goto
      <3>2. todo'[q] \subseteq todo[q]
        BY <3>1
      <3> QED
        BY <3>1, <3>2
    <2>4. CASE MineStep(r)
      BY <2>4 DEF MineStep, TakeQueue, Dismiss, Learn, Answered, Goto, scannerVars
    <2>5. CASE EndStep(r)
      BY <2>5 DEF EndStep, Finish, Crash, Interrupt, End, Stop, Goto, Forget
    <2> QED
      BY <1>2, <2>1, <2>2, <2>3, <2>4, <2>5 DEF RunStep
  <1> QED
    BY <1>1, <1>2 DEF Next

\* Who changes a session row is done with its transcript, unless the change is
\* to read it again from the start.
LEMMA RowSteps ==
  ASSUME TypesInv, [Next]_vars, NEW f \in Files
  PROVE  \/ session'[f] = session[f]
         \/ session[f] # None /\ session'[f] = Reset(f)
         \/ \E q \in Runs : Past(q, f)'
  <1> DEFINE Goal == \/ session'[f] = session[f]
                     \/ session[f] # None /\ session'[f] = Reset(f)
                     \/ \E q \in Runs : Past(q, f)'
  <1> SUFFICES Goal
    OBVIOUS
  <1>0. TypeOK
    BY DEF TypesInv
  <1> USE <1>0 DEF TypeOK
  <1>1. CASE Transcript \/ DraftStep \/ UNCHANGED vars
    BY <1>1 DEF Transcript, DraftStep, vars, scanVars, scanRows
  <1>2. CASE Operator
    BY <1>2 DEF Operator, MarkForRescan, MarkForReverify
  <1>3. ASSUME NEW r \in Runs, RunStep(r)
        PROVE  Goal
    <2>1. CASE RecordStep(r) \/ LookStep(r) \/ MineStep(r)
      BY <2>1 DEF RecordStep, LookStep, MineStep, scanRows
    <2>2. CASE StoreStep(r)
      <3>1. file[r] # f => session'[f] = session[f]
        BY <2>2 DEF StoreStep, Publish, FailFile
      <3>2. file[r] = f => Past(r, f)'
        BY <2>2 DEF StoreStep, Publish, FailFile, NextFile, Goto, Past
      <3> QED
        BY <3>1, <3>2
    <2>3. CASE EndStep(r)
      <3>1. Past(r, f)'
        BY <2>3 DEF EndStep, Finish, Crash, Interrupt, End, Stop, Goto, Forget, Past
      <3> QED
        BY <3>1
    <2> QED
      BY <1>3, <2>1, <2>2, <2>3 DEF RunStep
  <1> QED
    BY <1>1, <1>2, <1>3 DEF Next

LEMMA NextStored == TypesInv /\ Stored /\ [Next]_vars => Stored'
  <1> SUFFICES ASSUME TypesInv, Stored, [Next]_vars, NEW f \in Files,
                      ~\E q \in Runs : Past(q, f)'
               PROVE  /\ session'[f] # None => session'[f].bytes = 0
                      /\ \A r \in Runs : Reads(r, f)' /\ Existing(r)' # None =>
                             Existing(r)'.bytes = 0
    BY DEF Stored
  <1>1. ~\E q \in Runs : Past(q, f)
    BY PastKept
  <1>2. /\ session[f] # None => session[f].bytes = 0
        /\ \A r \in Runs : Reads(r, f) /\ Existing(r) # None => Existing(r).bytes = 0
    BY <1>1 DEF Stored
  <1>3. session'[f] # None => session'[f].bytes = 0
    <2>1. CASE session'[f] = session[f]
      BY <1>2, <2>1
    <2>2. CASE session[f] # None /\ session'[f] = Reset(f)
      <3>1. session[f] \in SessionRow
        BY <2>2 DEF TypesInv, TypeOK
      <3> QED
        BY <2>2, <3>1 DEF Reset, SessionRow
    <2> QED
      BY <2>1, <2>2, RowSteps
  <1>4. ASSUME NEW r \in Runs, Reads(r, f)', Existing(r)' # None
        PROVE  Existing(r)'.bytes = 0
    BY <1>2, <1>4, CopySteps
  <1> QED
    BY <1>3, <1>4


\* It takes three runs for one to read what another has consumed while a third
\* reads the same transcript.
LEMMA RaceTakesThree ==
  ASSUME TypesInv, Stored, ~FirstReadsRace
  PROVE  \E p, q, r \in Runs : p # q /\ q # r /\ p # r
  <1>1. PICK f \in Files, q, r \in Runs :
           /\ q # r /\ Reads(q, f) /\ Reads(r, f)
           /\ Existing(q) # None /\ Existing(q).bytes # 0
    BY DEF FirstReadsRace
  <1>2. PICK p \in Runs : Past(p, f)
    BY <1>1 DEF Stored
  <1>3. f \in todo[q] /\ f \in todo[r]
    BY <1>1 DEF Reads, TypesInv, Places
  <1> QED
    BY <1>1, <1>2, <1>3 DEF Past

\* With two runs that never happens: two starts of the pipeline, which is what a
\* schedule and an impatient operator give, lose nothing between them.
THEOREM TwoRunsLoseNothing == Cardinality(Runs) <= 2 => (Spec => []ConsumedIsDetected)
  <1> SUFFICES ASSUME Cardinality(Runs) <= 2
               PROVE  Spec => []ConsumedIsDetected
    OBVIOUS
  <1>1. ~\E p, q, r \in Runs : p # q /\ q # r /\ p # r
    <2> SUFFICES ASSUME NEW p \in Runs, NEW q \in Runs, NEW r \in Runs,
                        p # q, q # r, p # r
                 PROVE  FALSE
      OBVIOUS
    <2>1. IsFiniteSet({p}) /\ Cardinality({p}) = 1
      BY FS_Singleton
    <2>2. IsFiniteSet({p} \cup {q}) /\ Cardinality({p} \cup {q}) = 2
      BY <2>1, FS_AddElement, SMTT(30)
    <2>3. IsFiniteSet({p} \cup {q} \cup {r}) /\ Cardinality({p} \cup {q} \cup {r}) = 3
      BY <2>2, FS_AddElement
    <2>4. {p} \cup {q} \cup {r} \subseteq Runs
      OBVIOUS
    <2>5. Cardinality(Runs) \in Nat /\ 3 <= Cardinality(Runs)
      BY <2>3, <2>4, FS_Subset, FS_CardinalityType, ScanAssumption
    <2> QED
      BY <2>5
  <1>2. Init => Stored
    BY DEF Init, ScanInit, Stored, Reads
  <1>3. TypesInv /\ Stored => FirstReadsRace
    BY <1>1, RaceTakesThree
  <1>4. Spec => []FirstReadsRace
    BY <1>2, <1>3, NextStored, TypesInvHolds, PTL DEF Spec
  <1> QED
    BY <1>4, ConsumedWithoutRaces, PTL
=============================================================================
