-------------------------- MODULE GitOperations_proofs --------------------------
(***************************************************************************)
(* Proofs about the workspaces over Git's own operations: the dialogs of   *)
(* the Branches workspace, for any branches, any number of questions,      *)
(* operations and listings; what a snapshot says is in progress, for any   *)
(* operations, commands and lengths of a sequence; and the choices of the  *)
(* conflict workspace, for any paths and any merge results that no line    *)
(* makes ambiguous.                                                        *)
(***************************************************************************)
EXTENDS BranchDialogs, OperationRecovery, ConflictResolver,
        SequenceTheorems, FiniteSetTheorems, WellFoundedInduction, TLAPS

\* What each question was opened about is what it names, until it closes.
QuestionsHold ==
  /\ mode = "merge" => mergeTarget = named
  /\ mode = "rename" => renameOld = named
  /\ mode \in {"track", "detached", "delete remote"} => asksAbout = named

Fields == {"id", "kind", "about", "with", "named", "mode", "step"}

DialogInv == QuestionsHold /\ NamedIsDone /\ \A j \in branchJobs : DOMAIN j = Fields

Named == {"merge", "rename", "track", "detached", "delete remote"}

\* A job that is started about what the question names, or that no question is about.
LEMMA StartKeeps ==
  ASSUME DialogInv, NEW kind, NEW about, NEW with, Start(kind, about, with),
         kind \in Named => about = named
  PROVE  /\ NamedIsDone' /\ \A j \in branchJobs' : DOMAIN j = Fields
<1> DEFINE job == [id |-> <<branchWork.asks, kind>>, kind |-> kind, about |-> about, with |-> with,
                   named |-> named, mode |-> mode, step |-> "started"]
<1>1. branchJobs' = branchJobs \cup {job}
  BY DEF Start
<1>2. DOMAIN job = Fields /\ job.kind = kind /\ job.about = about /\ job.named = named
  BY DEF Fields
<1> HIDE DEF job
<1> QED BY <1>1, <1>2 DEF DialogInv, NamedIsDone, Named

LEMMA JobsStay ==
  ASSUME DialogInv, branchJobs' \subseteq branchJobs, QuestionsHold'
  PROVE  DialogInv'
BY DEF DialogInv, NamedIsDone

LEMMA AskKeeps ==
  ASSUME DialogInv,
         AskDelete \/ AskMerge \/ AskRename \/ AskName \/ AskRemote \/ AskFastForward
  PROVE  DialogInv'
<1>1. branchJobs' = branchJobs /\ named' = Asked.name
  BY DEF AskDelete, AskMerge, AskRename, AskName, AskRemote, AskFastForward, Asks
<1>2. CASE AskDelete
  BY <1>1, <1>2, JobsStay DEF AskDelete, QuestionsHold
<1>3. CASE AskMerge
  BY <1>1, <1>3, JobsStay DEF AskMerge, QuestionsHold
<1>4. CASE AskRename
  BY <1>1, <1>4, JobsStay DEF AskRename, QuestionsHold
<1>5. CASE AskName
  <2>1. mode' \in {"create", "upstream", "reset"}
    BY <1>5 DEF AskName
  <2> QED BY <1>1, <2>1, JobsStay DEF QuestionsHold
<1>6. CASE AskRemote
  BY <1>1, <1>6, JobsStay DEF AskRemote, QuestionsHold
<1>7. CASE AskFastForward
  BY <1>1, <1>7, JobsStay DEF AskFastForward, QuestionsHold
<1> QED BY <1>2, <1>3, <1>4, <1>5, <1>6, <1>7

LEMMA AnswerKeeps ==
  ASSUME DialogInv, EnterBranch \/ AnswerOther \/ NoQuestion
  PROVE  DialogInv'
<1>1. QuestionsHold
  BY DEF DialogInv
<1>2. CASE UNCHANGED <<dialogVars, branchJobs>>
  BY <1>1, <1>2, JobsStay DEF dialogVars, QuestionsHold
<1>3. CASE mode' = "none" /\ UNCHANGED branchJobs
  BY <1>3, JobsStay DEF QuestionsHold
<1>4. ASSUME NEW kind, NEW about, NEW with, Start(kind, about, with),
             kind \in Named => about = named,
             mode' = "none" \/ UNCHANGED dialogVars
      PROVE  DialogInv'
  <2>1. QuestionsHold'
    BY <1>1, <1>4 DEF QuestionsHold, dialogVars
  <2> QED BY <1>4, <2>1, StartKeeps DEF DialogInv
<1>5. CASE NoQuestion
  BY <1>4, <1>5 DEF NoQuestion, Named
<1>6. CASE EnterBranch
  <2>1. CASE mode = "merge" /\ typed = "?"
    BY <1>2, <1>6, <2>1 DEF EnterBranch
  <2>2. CASE mode = "merge" /\ typed # "?"
    <3>1. mode' = "none" /\ Start("merge", mergeTarget, typed)
      BY <1>6, <2>2 DEF EnterBranch, Closes, Answered
    <3> QED BY <1>1, <1>4, <2>2, <3>1 DEF QuestionsHold
  <2>3. CASE mode = "rename"
    <3>1. mode' = "none" /\ Start("rename", renameOld, typed)
      BY <1>6, <2>3 DEF EnterBranch, Closes, Answered
    <3> QED BY <1>1, <1>4, <2>3, <3>1 DEF QuestionsHold
  <2>4. CASE mode \notin {"merge", "rename"} /\ deleteTarget # NoName
    <3>1. mode' = "none" /\ Start("delete", deleteTarget, typed)
      BY <1>6, <2>4 DEF EnterBranch, Closes
    <3> QED BY <1>4, <3>1 DEF Named
  <2>5. CASE mode \notin {"merge", "rename"} /\ deleteTarget = NoName
    <3>1. /\ mode' = "none"
          /\ Start("upstream", Asked.name, typed) \/ Start("create", typed, NoName)
      BY <1>6, <2>5 DEF EnterBranch, Closes
    <3> QED BY <1>4, <3>1 DEF Named
  <2> QED BY <2>1, <2>2, <2>3, <2>4, <2>5
<1>7. CASE AnswerOther
  <2>1. mode' = "none"
    BY <1>7 DEF AnswerOther, Closes
  <2>2. CASE UNCHANGED branchJobs
    BY <1>3, <2>1, <2>2
  <2>3. CASE mode = "reset" /\ Start(mode, NoName, typed)
    BY <1>4, <2>1, <2>3 DEF Named
  <2>4. CASE mode # "reset" /\ Start(mode, asksAbout, typed)
    <3>1. mode \in {"track", "detached", "delete remote", "fast-forward"}
      BY <1>7, <2>4 DEF AnswerOther
    <3>2. mode \in Named => asksAbout = named
      BY <1>1, <3>1 DEF QuestionsHold, Named
    <3> QED BY <1>4, <2>1, <2>4, <3>2
  <2> QED BY <1>7, <2>2, <2>3, <2>4 DEF AnswerOther
<1> QED BY <1>5, <1>6, <1>7

LEMMA RestKeeps ==
  ASSUME DialogInv,
         \/ BranchesReady \/ MoveRow \/ ShowBranches \/ TypeName \/ EscBranch \/ BranchOutside
         \/ UNCHANGED branchVars
  PROVE  DialogInv'
<1>1. branchJobs' = branchJobs
  BY DEF BranchesReady, MoveRow, ShowBranches, TypeName, EscBranch, BranchOutside, branchVars
<1>2. mode' = "none" \/ UNCHANGED <<mode, mergeTarget, renameOld, asksAbout, named>>
  BY DEF BranchesReady, MoveRow, ShowBranches, TypeName, EscBranch, BranchOutside, branchVars,
         dialogVars, Closes
<1>3. QuestionsHold'
  BY <1>2 DEF DialogInv, QuestionsHold
<1> QED BY <1>1, <1>3, JobsStay

LEMMA JobKeeps ==
  ASSUME DialogInv, BranchJobRuns \/ BranchJobFinished
  PROVE  DialogInv'
<1>1. CASE BranchJobRuns
  <2>1. PICK j \in branchJobs :
          branchJobs' = (branchJobs \ {j}) \cup {[j EXCEPT !.step = "done"]}
    BY <1>1 DEF BranchJobRuns
  <2> DEFINE done == [j EXCEPT !.step = "done"]
  <2>2. DOMAIN j = Fields
    BY DEF DialogInv
  <2>3. DOMAIN done = Fields /\ done.kind = j.kind /\ done.about = j.about /\ done.named = j.named
    BY <2>2 DEF Fields
  <2> HIDE DEF done
  <2>4. branchJobs' = (branchJobs \ {j}) \cup {done}
    BY <2>1 DEF done
  <2>5. QuestionsHold'
    BY <1>1 DEF BranchJobRuns, DialogInv, QuestionsHold, dialogVars
  <2> QED BY <2>3, <2>4, <2>5 DEF DialogInv, NamedIsDone
<1>2. CASE BranchJobFinished
  <2>1. branchJobs' \subseteq branchJobs
    BY <1>2 DEF BranchJobFinished
  <2>2. \/ UNCHANGED <<mode, mergeTarget, renameOld, asksAbout, named>>
        \/ /\ mode' = (IF mode = "merge" THEN "none" ELSE mode)
           /\ UNCHANGED <<renameOld, asksAbout, named>>
    BY <1>2 DEF BranchJobFinished, dialogVars
  <2>3. QuestionsHold'
    BY <2>2 DEF DialogInv, QuestionsHold
  <2> QED BY <2>1, <2>3, JobsStay
<1> QED BY <1>1, <1>2

\* What is merged, renamed, tracked or deleted at a remote is the branch the question
\* named, however often rows were listed again and operations ended while it was open
\* (updateBranchMutationKey, MergeFinishedMsg, BranchesReadyMsg).
THEOREM NamedAlwaysDone == BranchSpec => []NamedIsDone
<1>1. BranchInit => DialogInv
  BY DEF BranchInit, DialogInv, QuestionsHold, NamedIsDone
<1>2. DialogInv /\ [BranchNext]_branchVars => DialogInv'
  BY AskKeeps, AnswerKeeps, RestKeeps, JobKeeps DEF BranchNext
<1>3. DialogInv => NamedIsDone
  BY DEF DialogInv
<1> QED BY <1>1, <1>2, <1>3, PTL DEF BranchSpec

-----------------------------------------------------------------------------
(* A snapshot reads the markers one by one while Git goes on.              *)

MarkingFields == {"kind", "todo", "many", "stop", "stale", "bisect"}
SnapshotFields == {"kind", "edit", "staged", "conflicts"}
ReaderFields == {"at", "probe", "snap", "seen", "was"}

\* While a snapshot is read, was holds the operation in progress, and every
\* operation whose pseudo-ref was found: but for REBASE_HEAD, which Git leaves
\* behind and which only counts with the directory.
MarkersWereReal ==
  reader.at \in {"refs", "paths"} =>
    /\ Kinds \cap {git.kind} \subseteq reader.was
    /\ (reader.seen \cap Kinds) \ {"rebase"} \subseteq reader.was

ReadingInv ==
  /\ DOMAIN git = MarkingFields
  /\ DOMAIN reader = ReaderFields /\ DOMAIN reader.snap = SnapshotFields
  /\ MarkersWereReal
  /\ KindWasReal

\* A change of the repository under a reading is one more state it has seen.
LEMMA ChangeKeeps ==
  ASSUME ReadingInv, NEW g, DOMAIN g = MarkingFields, Changed(g)
  PROVE  ReadingInv'
<1>1. CASE reader.at \in {"idle", "done"}
  BY <1>1 DEF ReadingInv, Changed, MarkersWereReal, KindWasReal
<1>2. CASE reader.at \notin {"idle", "done"}
  <2>1. /\ reader' = [reader EXCEPT !.was = @ \cup (Kinds \cap {g.kind})]
        /\ git' = g
    BY <1>2 DEF Changed
  <2>2. /\ reader'.was = reader.was \cup (Kinds \cap {g.kind})
        /\ reader'.at = reader.at /\ reader'.seen = reader.seen /\ reader'.snap = reader.snap
        /\ DOMAIN reader' = ReaderFields
    BY <2>1 DEF ReadingInv, ReaderFields
  <2> QED BY <1>2, <2>1, <2>2 DEF ReadingInv, MarkersWereReal, KindWasReal
<1> QED BY <1>1, <1>2

\* Every command of Git leaves a repository with the same markers.
LEMMA AfterIsMarking ==
  ASSUME DOMAIN git = MarkingFields, NEW k, NEW verb, NEW g \in After(k, verb)
  PROVE  DOMAIN g = MarkingFields
BY DEF After, None, MarkingFields

LEMMA BegunIsMarking ==
  ASSUME DOMAIN git = MarkingFields, NEW k \in Kinds, NEW g \in Begun(k)
  PROVE  DOMAIN g = MarkingFields
BY RecoveryBounds DEF Begun, MarkingFields

LEMMA RunningKeeps ==
  ASSUME ReadingInv, GitRuns
  PROVE  ReadingInv'
<1>1. PICK g : DOMAIN g = MarkingFields /\ Changed(g)
  BY DEF GitRuns, ReadingInv, MarkingFields, None
<1> QED BY <1>1, ChangeKeeps

LEMMA OutsideKeeps ==
  ASSUME ReadingInv, RecoveryOutside
  PROVE  ReadingInv'
<1>1. DOMAIN git = MarkingFields
  BY DEF ReadingInv
<1>2. CASE \E k \in Kinds : \E g \in Begun(k) : Changed(g)
  BY <1>1, <1>2, BegunIsMarking, ChangeKeeps
<1>3. CASE Changed([git EXCEPT !.stop = "resolved"])
  <2>1. DOMAIN [git EXCEPT !.stop = "resolved"] = MarkingFields
    BY <1>1 DEF MarkingFields
  <2> QED BY <1>3, <2>1, ChangeKeeps
<1>4. CASE \E verb \in Verbs : \E g \in After(git.kind, verb) : Changed(g)
  BY <1>1, <1>4, AfterIsMarking, ChangeKeeps
<1>5. CASE Changed([git EXCEPT !.bisect = ~@])
  <2>1. DOMAIN [git EXCEPT !.bisect = ~@] = MarkingFields
    BY <1>1 DEF MarkingFields
  <2> QED BY <1>5, <2>1, ChangeKeeps
<1> QED BY <1>2, <1>3, <1>4, <1>5 DEF RecoveryOutside

LEMMA CommandKeeps ==
  ASSUME ReadingInv, CommandRuns
  PROVE  ReadingInv'
<1>1. DOMAIN git = MarkingFields
  BY DEF ReadingInv
<1>2. CASE UNCHANGED <<git, want, reader>>
  BY <1>2 DEF ReadingInv, MarkersWereReal, KindWasReal
<1>3. CASE \E g \in After(command.kind, command.verb) : Changed(g)
  BY <1>1, <1>3, AfterIsMarking, ChangeKeeps
<1>4. CASE \E g \in Begun(command.kind) : Changed(g)
  BY <1>1, <1>4, ChangeKeeps, RecoveryBounds DEF Begun, MarkingFields
<1> QED BY <1>2, <1>3, <1>4 DEF CommandRuns

LEMMA BeginKeeps ==
  ASSUME ReadingInv, RefreshBegins
  PROVE  ReadingInv'
BY DEF ReadingInv, RefreshBegins, IdleReader, Status, NoSnapshot, ReaderFields, SnapshotFields,
       MarkersWereReal, KindWasReal

\* The ref of an operation other than a rebase exists only during it.
LEMMA RefKeeps ==
  ASSUME ReadingInv, ReadRef
  PROVE  ReadingInv'
<1> DEFINE k == Probes[reader.probe]
           seen == IF HasRef(k) THEN reader.seen \cup {k} ELSE reader.seen
<1>1. /\ reader'.seen = seen /\ reader'.was = reader.was /\ reader'.snap = reader.snap
      /\ DOMAIN reader' = ReaderFields /\ reader'.at \in {"refs", "paths"}
      /\ reader.at = "refs" /\ git' = git
  BY DEF ReadRef, ReadingInv, ReaderFields
<1>2. (seen \cap Kinds) \ {"rebase"} \subseteq reader.was
  BY <1>1 DEF HasRef, ReadingInv, MarkersWereReal
<1> QED BY <1>1, <1>2 DEF ReadingInv, MarkersWereReal, KindWasReal

\* What a detection names is a marker, and no operation of Git is called unknown,
\* bisect or none.
LEMMA DetectionWasReal ==
  ASSUME ReadingInv, reader.at = "paths", Detected(reader.seen) \in Kinds
  PROVE  Detected(reader.seen) \in reader.was
<1> DEFINE verified == reader.seen
           found == IF RebaseDirectory THEN verified \cup {"rebase"} ELSE verified \ {"rebase"}
<1>1. {"none", "unknown", "bisect"} \cap Kinds = {}
  BY RecoveryBounds
<1>2. Detected(verified) \in Markers(verified)
  BY <1>1 DEF Detected
<1>3. Detected(verified) \in found
  BY <1>1, <1>2 DEF Markers
<1>4. CASE RebaseDirectory /\ Detected(verified) = "rebase"
  BY <1>4 DEF RebaseDirectory, ReadingInv, MarkersWereReal
<1>5. CASE Detected(verified) # "rebase"
  BY <1>3, <1>5 DEF ReadingInv, MarkersWereReal
<1> QED BY <1>3, <1>4, <1>5

LEMMA PathsKeep ==
  ASSUME ReadingInv, ReadPaths
  PROVE  ReadingInv'
<1>1. /\ reader' = [reader EXCEPT !.at = "done", !.snap = Detection(@, reader.seen),
                                  !.seen = {}, !.probe = 1]
      /\ git' = git /\ reader.at = "paths"
  BY DEF ReadPaths
<1>2. /\ reader'.at = "done" /\ reader'.was = reader.was /\ DOMAIN reader' = ReaderFields
      /\ reader'.snap = Detection(reader.snap, reader.seen)
  BY <1>1 DEF ReadingInv, ReaderFields
<1>3. /\ Detection(reader.snap, reader.seen).kind = Detected(reader.seen)
      /\ DOMAIN Detection(reader.snap, reader.seen) = SnapshotFields
  BY DEF Detection, ReadingInv, SnapshotFields
<1> QED BY <1>1, <1>2, <1>3, DetectionWasReal DEF ReadingInv, MarkersWereReal, KindWasReal

LEMMA AppliedKeeps ==
  ASSUME ReadingInv, RefreshApplied
  PROVE  ReadingInv'
BY DEF ReadingInv, RefreshApplied, IdleReader, NoSnapshot, ReaderFields, SnapshotFields,
       MarkersWereReal, KindWasReal

LEMMA ReadingInductive ==
  ASSUME ReadingInv, [RecNext]_recVars
  PROVE  ReadingInv'
<1>1. CASE UNCHANGED <<git, reader>>
  BY <1>1 DEF ReadingInv, MarkersWereReal, KindWasReal
<1>2. \/ UNCHANGED <<git, reader>>
      \/ GitRuns \/ RecoveryOutside \/ CommandRuns
      \/ RefreshBegins \/ ReadRef \/ ReadPaths \/ RefreshApplied
  BY DEF RecNext, recVars, Reconcile, Navigate, Press, MergeRefused, CommandReturns,
         CommandReadsStatus, CommandDetects, CommandFinished
<1> QED BY <1>1, <1>2, RunningKeeps, OutsideKeeps, CommandKeeps, BeginKeeps, RefKeeps,
           PathsKeep, AppliedKeeps

LEMMA ReadingInitially == RecInit => ReadingInv
BY DEF RecInit, ReadingInv, MarkingFields, IdleReader, NoSnapshot, ReaderFields, SnapshotFields,
       MarkersWereReal, KindWasReal

\* An operation that a refresh names was in progress at some moment of that
\* refresh, whatever Git and another terminal did between its probes
\* (operationMarkers, Snapshot).
THEOREM NamedWasAlwaysReal == RecSpec => []KindWasReal
<1>1. ReadingInv => KindWasReal
  BY DEF ReadingInv
<1> QED BY <1>1, ReadingInitially, ReadingInductive, PTL DEF RecSpec

-----------------------------------------------------------------------------
(* Induction from one number to another, and along a sequence.              *)

LEMMA LeastNatural ==
  ASSUME NEW T \in SUBSET Nat, T # {}
  PROVE  \E x \in T : \A y \in T : x <= y
<1>1. PICK x \in T : \A y \in T : ~(<<y, x>> \in OpToRel(<, Nat))
  BY NatLessThanWellFounded, WFMin
<1>2. \A y \in T : ~(y < x)
  BY <1>1 DEF OpToRel
<1> QED BY <1>2

LEMMA Climb ==
  ASSUME NEW from \in Nat, NEW to \in Nat, from <= to,
         NEW T, from \in T, \A i \in (from + 1)..to : i - 1 \in T => i \in T
  PROVE  \A i \in from..to : i \in T
<1> DEFINE others == (from..to) \ T
<1>1. ASSUME others # {} PROVE FALSE
  <2>1. PICK i \in others : \A j \in others : i <= j
    <3>1. others \in SUBSET Nat
      OBVIOUS
    <3> HIDE DEF others
    <3> QED BY <1>1, <3>1, LeastNatural
  <2>2. i \in (from + 1)..to /\ i - 1 \in from..to /\ i - 1 \notin others
    BY <2>1
  <2> QED BY <2>2
<1> QED BY <1>1

LEMMA Lengths ==
  ASSUME NEW S, NEW s \in Seq(S)
  PROVE  Len(s) \in Nat /\ DOMAIN s = 1..Len(s) /\ \A i \in 1..Len(s) : s[i] \in S
BY LenProperties

-----------------------------------------------------------------------------
(* The functions of Lines and of Scan.                                      *)

Written(w, result) ==
  /\ w[0] = <<>> /\ Lines(result) = w[Len(result)]
  /\ \A i \in 1..Len(result) : w[i] = w[i - 1] \o PieceLines(result[i])

LEMMA LinesWritten ==
  ASSUME NEW S, NEW result \in Seq(S)
  PROVE  \E w : Written(w, result)
<1>1. PICK n \in Nat : n = Len(result)
  BY Lengths
<1> DEFINE Writes(f, m) == /\ f = [i \in 0..m |-> f[i]] /\ f[0] = <<>>
                           /\ \A i \in 1..m : f[i] = f[i - 1] \o PieceLines(result[i])
           T == {m \in 0..n : \E f : Writes(f, m)}
<1>2. 0 \in T
  <2>1. PICK f : f = [i \in 0..0 |-> <<>>]
    OBVIOUS
  <2>2. Writes(f, 0)
    BY <2>1
  <2> QED BY <2>2
<1>3. ASSUME NEW m \in 1..n, m - 1 \in T PROVE m \in T
  <2>1. PICK f : Writes(f, m - 1)
    BY <1>3
  <2>2. PICK g : g = [i \in 0..m |-> IF i = m THEN f[m - 1] \o PieceLines(result[m]) ELSE f[i]]
    OBVIOUS
  <2>3. /\ \A i \in 0..(m - 1) : g[i] = f[i]
        /\ g[m] = f[m - 1] \o PieceLines(result[m])
    BY <2>2, SMTT(60)
  <2>4. \A i \in 1..m : i = m \/ (i \in 1..(m - 1) /\ i - 1 \in 0..(m - 1) /\ i \in 0..(m - 1))
    OBVIOUS
  <2>5. \A i \in 1..m : g[i] = g[i - 1] \o PieceLines(result[i])
    BY <2>1, <2>3, <2>4
  <2>6. g = [i \in 0..m |-> g[i]] /\ g[0] = <<>>
    BY <2>1, <2>2, <2>3
  <2>7. Writes(g, m)
    BY <2>5, <2>6
  <2> HIDE DEF Writes
  <2> QED BY <2>7
<1>4. PICK f : Writes(f, n)
  <2>1. n \in 0..n /\ 0 <= n
    BY <1>1
  <2>2. n \in T
    <3> HIDE DEF T
    <3> QED BY <1>2, <1>3, <2>1, Climb, SMTT(60)
  <2> QED BY <2>2
<1> DEFINE Is(g) == g = [i \in 0..n |-> IF i = 0 THEN <<>> ELSE g[i - 1] \o PieceLines(result[i])]
<1>5. Is(f)
  <2>1. \A i \in 0..n : f[i] = IF i = 0 THEN <<>> ELSE f[i - 1] \o PieceLines(result[i])
    BY <1>4, SMTT(60)
  <2> QED BY <1>4, <2>1
<1>6. PICK g : g = CHOOSE h : Is(h)
  OBVIOUS
<1>7. Is(g)
  BY <1>5, <1>6, Zenon
<1>8. Lines(result) = g[n]
  BY <1>1, <1>6 DEF Lines
<1>9. g[0] = <<>> /\ \A i \in 1..n : g[i] = g[i - 1] \o PieceLines(result[i])
  BY <1>7
<1> QED BY <1>1, <1>8, <1>9 DEF Written

Nothing == [open |-> Closed, found |-> <<>>]
Scanned(f, lines) ==
  /\ f[0] = Nothing /\ Scan(lines) = f[Len(lines)]
  /\ \A i \in 1..Len(lines) : f[i] = ScanLine(f[i - 1], lines, i)

LEMMA LinesScanned ==
  ASSUME NEW S, NEW lines \in Seq(S)
  PROVE  \E f : Scanned(f, lines)
<1>1. PICK n \in Nat : n = Len(lines)
  BY Lengths
<1> DEFINE Steps(f, m) == /\ f = [i \in 0..m |-> f[i]] /\ f[0] = Nothing
                          /\ \A i \in 1..m : f[i] = ScanLine(f[i - 1], lines, i)
           T == {m \in 0..n : \E f : Steps(f, m)}
<1>2. 0 \in T
  <2>1. PICK f : f = [i \in 0..0 |-> Nothing]
    OBVIOUS
  <2>2. Steps(f, 0)
    BY <2>1
  <2> QED BY <2>2
<1>3. ASSUME NEW m \in 1..n, m - 1 \in T PROVE m \in T
  <2>1. PICK f : Steps(f, m - 1)
    BY <1>3
  <2>2. PICK g : g = [i \in 0..m |-> IF i = m THEN ScanLine(f[m - 1], lines, m)
                                      ELSE f[i]]
    OBVIOUS
  <2>3. /\ \A i \in 0..(m - 1) : g[i] = f[i]
        /\ g[m] = ScanLine(f[m - 1], lines, m)
    BY <2>2
  <2>4. \A i \in 1..m : i = m \/ (i \in 1..(m - 1) /\ i - 1 \in 0..(m - 1) /\ i \in 0..(m - 1))
    OBVIOUS
  <2>8. /\ \A i \in 1..(m - 1) : f[i] = ScanLine(f[i - 1], lines, i)
        /\ f = [i \in 0..(m - 1) |-> f[i]] /\ f[0] = Nothing
    BY <2>1
  <2>9. ASSUME NEW i \in 1..(m - 1) PROVE g[i] = ScanLine(g[i - 1], lines, i)
    <3>1. i \in 0..(m - 1) /\ i - 1 \in 0..(m - 1)
      OBVIOUS
    <3>2. g[i] = f[i] /\ g[i - 1] = f[i - 1]
      BY <2>3, <3>1
    <3>3. f[i] = ScanLine(f[i - 1], lines, i)
      BY <2>8
    <3> QED BY <3>2, <3>3
  <2>10. g[m] = ScanLine(g[m - 1], lines, m)
    BY <2>3
  <2>5. \A i \in 1..m : g[i] = ScanLine(g[i - 1], lines, i)
    BY <2>4, <2>9, <2>10
  <2>6. g = [i \in 0..m |-> g[i]] /\ g[0] = Nothing
    BY <2>1, <2>2, <2>3
  <2>7. Steps(g, m)
    BY <2>5, <2>6
  <2> HIDE DEF Steps
  <2> QED BY <2>7
<1>4. PICK f : Steps(f, n)
  <2>1. n \in 0..n /\ 0 <= n
    BY <1>1
  <2>2. n \in T
    <3> HIDE DEF T
    <3> QED BY <1>2, <1>3, <2>1, Climb
  <2> QED BY <2>2
<1> DEFINE Is(g) == g = [i \in 0..n |-> IF i = 0 THEN Nothing ELSE ScanLine(g[i - 1], lines, i)]
<1>5. Is(f)
  <2>1. \A i \in 0..n : f[i] = IF i = 0 THEN Nothing ELSE ScanLine(f[i - 1], lines, i)
    <3>1. \A i \in 0..n : i # 0 => i \in 1..n
      OBVIOUS
    <3>2. /\ \A i \in 1..n : f[i] = ScanLine(f[i - 1], lines, i)
          /\ f = [i \in 0..n |-> f[i]] /\ f[0] = Nothing
      BY <1>4
    <3> QED BY <3>1, <3>2
  <2>2. f = [i \in 0..n |-> f[i]]
    BY <1>4
  <2> QED BY <2>1, <2>2
<1>6. PICK g : g = CHOOSE h : Is(h)
  OBVIOUS
<1>7. Is(g)
  BY <1>5, <1>6
<1>8. Scan(lines) = g[n]
  BY <1>1, <1>6 DEF Scan, Nothing
<1>9. g[0] = Nothing /\ \A i \in 1..n : g[i] = ScanLine(g[i - 1], lines, i)
  <2>1. \A i \in 0..n : g[i] = IF i = 0 THEN Nothing ELSE ScanLine(g[i - 1], lines, i)
    BY <1>7
  <2>2. 0 \in 0..n /\ \A i \in 1..n : i \in 0..n /\ i # 0
    BY <1>1
  <2> QED BY <2>1, <2>2
<1> QED BY <1>1, <1>8, <1>9 DEF Scanned

Longer(s, i, paths) == IF Paths[i] \in paths THEN Append(s, Paths[i]) ELSE s
Listing(f, paths) ==
  /\ f[0] = <<>> /\ Listed(paths) = f[Len(Paths)]
  /\ \A i \in 1..Len(Paths) : f[i] = Longer(f[i - 1], i, paths)

LEMMA PathsListed ==
  ASSUME NEW paths
  PROVE  \E f : Listing(f, paths)
<1>1. PICK n \in Nat : n = Len(Paths)
  BY Lengths, ConflictBounds
<1> DEFINE Steps(f, m) == /\ f = [i \in 0..m |-> f[i]] /\ f[0] = <<>>
                          /\ \A i \in 1..m : f[i] = Longer(f[i - 1], i, paths)
           T == {m \in 0..n : \E f : Steps(f, m)}
<1>2. 0 \in T
  <2>1. PICK f : f = [i \in 0..0 |-> <<>>]
    OBVIOUS
  <2>2. Steps(f, 0)
    BY <2>1
  <2> QED BY <2>2
<1>3. ASSUME NEW m \in 1..n, m - 1 \in T PROVE m \in T
  <2>1. PICK f : Steps(f, m - 1)
    BY <1>3
  <2>2. PICK g : g = [i \in 0..m |-> IF i = m THEN Longer(f[m - 1], m, paths)
                                      ELSE f[i]]
    OBVIOUS
  <2>3. /\ \A i \in 0..(m - 1) : g[i] = f[i]
        /\ g[m] = Longer(f[m - 1], m, paths)
    BY <2>2
  <2>4. \A i \in 1..m : i = m \/ (i \in 1..(m - 1) /\ i - 1 \in 0..(m - 1) /\ i \in 0..(m - 1))
    OBVIOUS
  <2>8. /\ \A i \in 1..(m - 1) : f[i] = Longer(f[i - 1], i, paths)
        /\ f = [i \in 0..(m - 1) |-> f[i]] /\ f[0] = <<>>
    BY <2>1
  <2>9. ASSUME NEW i \in 1..(m - 1) PROVE g[i] = Longer(g[i - 1], i, paths)
    <3>1. i \in 0..(m - 1) /\ i - 1 \in 0..(m - 1)
      OBVIOUS
    <3>2. g[i] = f[i] /\ g[i - 1] = f[i - 1]
      BY <2>3, <3>1
    <3>3. f[i] = Longer(f[i - 1], i, paths)
      BY <2>8
    <3> QED BY <3>2, <3>3
  <2>10. g[m] = Longer(g[m - 1], m, paths)
    BY <2>3
  <2>5. \A i \in 1..m : g[i] = Longer(g[i - 1], i, paths)
    BY <2>4, <2>9, <2>10
  <2>6. g = [i \in 0..m |-> g[i]] /\ g[0] = <<>>
    BY <2>1, <2>2, <2>3
  <2>7. Steps(g, m)
    BY <2>5, <2>6
  <2> HIDE DEF Steps
  <2> QED BY <2>7
<1>4. PICK f : Steps(f, n)
  <2>1. n \in 0..n /\ 0 <= n
    BY <1>1
  <2>2. n \in T
    <3> HIDE DEF T
    <3> QED BY <1>2, <1>3, <2>1, Climb
  <2> QED BY <2>2
<1> DEFINE Is(g) == g = [i \in 0..n |-> IF i = 0 THEN <<>> ELSE Longer(g[i - 1], i, paths)]
<1>5. Is(f)
  <2>1. \A i \in 0..n : f[i] = IF i = 0 THEN <<>> ELSE Longer(f[i - 1], i, paths)
    <3>1. \A i \in 0..n : i # 0 => i \in 1..n
      OBVIOUS
    <3>2. /\ \A i \in 1..n : f[i] = Longer(f[i - 1], i, paths)
          /\ f = [i \in 0..n |-> f[i]] /\ f[0] = <<>>
      BY <1>4
    <3> QED BY <3>1, <3>2
  <2>2. f = [i \in 0..n |-> f[i]]
    BY <1>4
  <2> QED BY <2>1, <2>2
<1>6. PICK g : g = CHOOSE h : Is(h)
  OBVIOUS
<1>7. Is(g)
  BY <1>5, <1>6
<1>8. Listed(paths) = g[n]
  BY <1>1, <1>6 DEF Listed, Longer
<1>9. g[0] = <<>> /\ \A i \in 1..n : g[i] = Longer(g[i - 1], i, paths)
  <2>1. \A i \in 0..n : g[i] = IF i = 0 THEN <<>> ELSE Longer(g[i - 1], i, paths)
    BY <1>7
  <2>2. 0 \in 0..n /\ \A i \in 1..n : i \in 0..n /\ i # 0
    BY <1>1
  <2> QED BY <2>1, <2>2
<1> QED BY <1>1, <1>8, <1>9 DEF Listing

-----------------------------------------------------------------------------
(* Stretches of lines.                                                      *)

\* f scans the lines from + 1 to to; none of them is one of the marks.
Steps(f, lines, from, to) == \A i \in (from + 1)..to : f[i] = ScanLine(f[i - 1], lines, i)
Free(lines, from, to, marks) == \A i \in (from + 1)..to : lines[i] \notin marks

\* Outside a region only a begin marker counts.
LEMMA TextScanned ==
  ASSUME NEW f, NEW lines, NEW from \in Nat, NEW to \in Nat, from <= to,
         Steps(f, lines, from, to), Free(lines, from, to, {"<"}),
         f[from].open = Closed
  PROVE  f[to] = f[from]
<1> DEFINE T == {i \in from..to : f[i] = f[from]}
<1>1. from \in T
  OBVIOUS
<1>2. ASSUME NEW i \in (from + 1)..to, i - 1 \in T PROVE i \in T
  <2>1. f[i] = ScanLine(f[i - 1], lines, i) /\ lines[i] # "<" /\ f[i - 1] = f[from]
    BY <1>2 DEF Steps, Free
  <2>2. f[i - 1].open.start = 0
    BY <2>1 DEF Closed
  <2>3. ScanLine(f[i - 1], lines, i) = f[i - 1]
    BY <2>1, <2>2 DEF ScanLine
  <2> QED BY <2>1, <2>3
<1>3. \A i \in from..to : i \in T
  <2> HIDE DEF T
  <2> QED BY <1>1, <1>2, Climb
<1>4. to \in from..to
  OBVIOUS
<1> QED BY <1>3, <1>4

\* Inside a region, until its end marker: it stays open; without a base marker it has no
\* base; and once it has one, its first side is settled.
LEMMA InsideScanned ==
  ASSUME NEW f, NEW lines, NEW from \in Nat, NEW to \in Nat, from <= to,
         Steps(f, lines, from, to), Free(lines, from, to, {">"}),
         f[from].open.start \in Nat \ {0}
  PROVE  f[to].open.start = f[from].open.start /\ f[to].found = f[from].found
<1> DEFINE T == {i \in from..to : f[i].open.start = f[from].open.start /\ f[i].found = f[from].found}
<1>1. from \in T
  OBVIOUS
<1>2. ASSUME NEW i \in (from + 1)..to, i - 1 \in T PROVE i \in T
  <2>1. /\ f[i] = ScanLine(f[i - 1], lines, i) /\ lines[i] # ">"
        /\ f[i - 1].open.start = f[from].open.start /\ f[i - 1].found = f[from].found
    BY <1>2 DEF Steps, Free
  <2>2. f[i - 1].open.start # 0 /\ f[i - 1].open.start > 0
    BY <2>1
  <2>3. /\ ScanLine(f[i - 1], lines, i).open.start = f[i - 1].open.start
        /\ ScanLine(f[i - 1], lines, i).found = f[i - 1].found
    BY <2>1, <2>2 DEF ScanLine
  <2> QED BY <2>1, <2>3
<1>3. \A i \in from..to : i \in T
  <2> HIDE DEF T
  <2> QED BY <1>1, <1>2, Climb
<1>4. to \in from..to
  OBVIOUS
<1> QED BY <1>3, <1>4

LEMMA BaselessScanned ==
  ASSUME NEW f, NEW lines, NEW from \in Nat, NEW to \in Nat, from <= to,
         Steps(f, lines, from, to), Free(lines, from, to, {">", "|"}),
         f[from].open.start \in Nat \ {0}, f[from].open.baseFrom = 0
  PROVE  f[to].open.baseFrom = 0
<1> DEFINE T == {i \in from..to : f[i].open.start = f[from].open.start /\ f[i].open.baseFrom = 0}
<1>1. from \in T
  OBVIOUS
<1>2. ASSUME NEW i \in (from + 1)..to, i - 1 \in T PROVE i \in T
  <2>1. /\ f[i] = ScanLine(f[i - 1], lines, i) /\ lines[i] # ">" /\ lines[i] # "|"
        /\ f[i - 1].open.start = f[from].open.start /\ f[i - 1].open.baseFrom = 0
    BY <1>2 DEF Steps, Free
  <2>2. f[i - 1].open.start # 0 /\ f[i - 1].open.start > 0
    BY <2>1
  <2>3. /\ ScanLine(f[i - 1], lines, i).open.start = f[i - 1].open.start
        /\ ScanLine(f[i - 1], lines, i).open.baseFrom = f[i - 1].open.baseFrom
    BY <2>1, <2>2 DEF ScanLine
  <2> QED BY <2>1, <2>3
<1>3. \A i \in from..to : i \in T
  <2> HIDE DEF T
  <2> QED BY <1>1, <1>2, Climb
<1>4. to \in from..to
  OBVIOUS
<1> QED BY <1>3, <1>4

LEMMA BaseScanned ==
  ASSUME NEW f, NEW lines, NEW from \in Nat, NEW to \in Nat, from <= to,
         Steps(f, lines, from, to), Free(lines, from, to, {">", "|"}),
         f[from].open.start \in Nat \ {0}, f[from].open.baseFrom \in Nat \ {0}
  PROVE  f[to].open.baseFrom = f[from].open.baseFrom /\ f[to].open.ours = f[from].open.ours
<1> DEFINE T == {i \in from..to : /\ f[i].open.start = f[from].open.start
                                  /\ f[i].open.baseFrom = f[from].open.baseFrom
                                  /\ f[i].open.ours = f[from].open.ours}
<1>1. from \in T
  OBVIOUS
<1>2. ASSUME NEW i \in (from + 1)..to, i - 1 \in T PROVE i \in T
  <2>1. /\ f[i] = ScanLine(f[i - 1], lines, i) /\ lines[i] # ">" /\ lines[i] # "|"
        /\ f[i - 1].open.start = f[from].open.start /\ f[i - 1].open.ours = f[from].open.ours
        /\ f[i - 1].open.baseFrom = f[from].open.baseFrom
    BY <1>2 DEF Steps, Free
  <2>2. f[i - 1].open.start # 0 /\ f[i - 1].open.start > 0 /\ f[i - 1].open.baseFrom > 0
    BY <2>1
  <2>3. /\ ScanLine(f[i - 1], lines, i).open.start = f[i - 1].open.start
        /\ ScanLine(f[i - 1], lines, i).open.baseFrom = f[i - 1].open.baseFrom
        /\ ScanLine(f[i - 1], lines, i).open.ours = f[i - 1].open.ours
    BY <2>1, <2>2 DEF ScanLine
  <2> QED BY <2>1, <2>3
<1>3. \A i \in from..to : i \in T
  <2> HIDE DEF T
  <2> QED BY <1>1, <1>2, Climb
<1>4. to \in from..to
  OBVIOUS
<1> QED BY <1>3, <1>4

LEMMA TheirsScanned ==
  ASSUME NEW f, NEW lines, NEW from \in Nat, NEW to \in Nat, from <= to,
         Steps(f, lines, from, to), Free(lines, from, to, {">", "|", "="}),
         f[from].open.start \in Nat \ {0}
  PROVE  f[to] = f[from]
<1> DEFINE T == {i \in from..to : f[i] = f[from]}
<1>1. from \in T
  OBVIOUS
<1>2. ASSUME NEW i \in (from + 1)..to, i - 1 \in T PROVE i \in T
  <2>1. /\ f[i] = ScanLine(f[i - 1], lines, i) /\ lines[i] # ">" /\ lines[i] # "|" /\ lines[i] # "="
        /\ f[i - 1] = f[from]
    BY <1>2 DEF Steps, Free
  <2>2. f[i - 1].open.start # 0
    BY <2>1
  <2>3. ScanLine(f[i - 1], lines, i) = f[i - 1]
    BY <2>1, <2>2 DEF ScanLine
  <2> QED BY <2>1, <2>3
<1>3. \A i \in from..to : i \in T
  <2> HIDE DEF T
  <2> QED BY <1>1, <1>2, Climb
<1>4. to \in from..to
  OBVIOUS
<1> QED BY <1>3, <1>4

\* What each marker makes of a state.
Opened(next, s, i) ==
  next = [open |-> [start |-> i, baseFrom |-> 0, ours |-> <<>>, theirsFrom |-> 1], found |-> s.found]
Based(next, s, lines, i, start) ==
  next = [open |-> [start |-> start, baseFrom |-> i + 1, ours |-> SubSeq(lines, start + 1, i - 1),
                    theirsFrom |-> s.open.theirsFrom], found |-> s.found]
Parted(next, s, lines, i, start) ==
  next = [open |-> [start |-> start, baseFrom |-> s.open.baseFrom,
                    ours |-> IF s.open.baseFrom > 0 THEN s.open.ours
                             ELSE SubSeq(lines, start + 1, i - 1),
                    theirsFrom |-> i + 1], found |-> s.found]
Ended(next, s, lines, i, start) ==
  next = [open |-> Closed,
          found |-> Append(s.found, [start |-> start, end |-> i, ours |-> s.open.ours,
                                     theirs |-> SubSeq(lines, s.open.theirsFrom, i - 1)])]

LEMMA MarkerScanned ==
  ASSUME NEW s, NEW lines, NEW i, NEW next, next = ScanLine(s, lines, i),
         NEW start \in Nat, s.open.start = start
  PROVE  /\ start = 0 /\ lines[i] = "<" => Opened(next, s, i)
         /\ start # 0 /\ lines[i] = "|" => Based(next, s, lines, i, start)
         /\ start # 0 /\ lines[i] = "=" => Parted(next, s, lines, i, start)
         /\ start # 0 /\ lines[i] = ">" => Ended(next, s, lines, i, start)
<1>1. start = 0 \/ start > 0
  OBVIOUS
<1>2. start = 0 /\ lines[i] = "<" => Opened(next, s, i)
  BY DEF ScanLine, Opened
<1>3. start # 0 /\ lines[i] = "|" => Based(next, s, lines, i, start)
  BY <1>1 DEF ScanLine, Based
<1>4. start # 0 /\ lines[i] = "=" => Parted(next, s, lines, i, start)
  BY <1>1 DEF ScanLine, Parted
<1>5. start # 0 /\ lines[i] = ">" => Ended(next, s, lines, i, start)
  BY <1>1 DEF ScanLine, Ended
<1> QED BY <1>2, <1>3, <1>4, <1>5

\* The lines of a region that starts after line a: o lines of the first side, b of the base
\* and t of the other, none of them to be taken for a marker that is not there.
Laid(lines, a, o, b, t) ==
  /\ lines[a + 1] = "<" /\ lines[a + 2 + o + b] = "=" /\ lines[a + 3 + o + b + t] = ">"
  /\ Free(lines, a + 1, a + 1 + o + b, {">"})
  /\ b = 0 => Free(lines, a + 1, a + 1 + o, {"|"})
  /\ b # 0 => lines[a + 2 + o] = "|" /\ Free(lines, a + 2 + o, a + 1 + o + b, {"|"})
  /\ Free(lines, a + 2 + o + b, a + 2 + o + b + t, {">", "|", "="})

Ends(f, lines, a, o, b, t) ==
  LET end == f[a + 3 + o + b + t]
  IN  /\ end.open = Closed
      /\ end.found = Append(f[a].found,
                            [start |-> a + 1, end |-> a + 3 + o + b + t,
                             ours |-> SubSeq(lines, a + 2, a + 1 + o),
                             theirs |-> SubSeq(lines, a + 3 + o + b, a + 2 + o + b + t)])

LEMMA RegionScanned ==
  ASSUME NEW f, NEW lines, NEW a \in Nat, NEW o \in Nat, NEW b \in Nat, NEW t \in Nat,
         Steps(f, lines, a, a + 3 + o + b + t), Laid(lines, a, o, b, t), f[a].open = Closed
  PROVE  Ends(f, lines, a, o, b, t)
<1> DEFINE first == SubSeq(lines, a + 2, a + 1 + o)
<1>0. PICK from \in Nat, base \in Nat, part \in Nat, last \in Nat :
        from = a + 1 /\ base = a + 1 + o /\ part = a + 2 + o + b /\ last = a + 2 + o + b + t
  OBVIOUS
<1>a. \A i \in (a + 1)..(last + 1) : f[i] = ScanLine(f[i - 1], lines, i)
  BY <1>0 DEF Steps
<1>b. /\ from \in Nat \ {0} /\ from <= base /\ base <= part - 1 /\ part <= last /\ part - 1 \in Nat
      /\ a < from
  BY <1>0
<1>1. f[from].open.start = from /\ f[from].open.baseFrom = 0 /\ f[from].found = f[a].found
  <2>1. f[from] = ScanLine(f[a], lines, from) /\ lines[from] = "<" /\ f[a].open.start = 0
    <3>1. from \in (a + 1)..(last + 1) /\ from - 1 = a
      BY <1>0, <1>b
    <3>2. lines[from] = "<"
      BY <1>0 DEF Laid
    <3>3. f[a].open.start = 0
      BY DEF Closed
    <3> QED BY <1>a, <3>1, <3>2, <3>3
  <2>2. Opened(f[from], f[a], from)
    BY <2>1, MarkerScanned
  <2> QED BY <2>2 DEF Opened
<1>2. /\ f[base].open.start = from /\ f[base].found = f[a].found
      /\ b = 0 => f[base].open.baseFrom = 0
  <2>1. Steps(f, lines, from, base)
    BY <1>0, <1>a DEF Steps
  <2>2. Free(lines, from, base, {">"})
    BY <1>0 DEF Laid, Free
  <2>3. f[base].open.start = from /\ f[base].found = f[a].found
    BY <1>1, <1>b, <2>1, <2>2, InsideScanned
  <2>4. ASSUME b = 0 PROVE f[base].open.baseFrom = 0
    <3>1. Free(lines, from, base, {">", "|"})
      BY <1>0, <2>2, <2>4 DEF Laid, Free
    <3> QED BY <1>1, <1>b, <2>1, <3>1, BaselessScanned
  <2> QED BY <2>3, <2>4
<1>3. /\ f[part].open.start = from /\ f[part].found = f[a].found
      /\ f[part].open.ours = SubSeq(lines, from + 1, base)
      /\ f[part].open.theirsFrom = part + 1
  <2>0. f[part] = ScanLine(f[part - 1], lines, part) /\ lines[part] = "="
    BY <1>0, <1>a DEF Laid
  <2>1. CASE b = 0
    <3>1. part - 1 = base
      BY <1>0, <2>1
    <3>2. f[base].open.start = from /\ f[base].open.baseFrom = 0 /\ f[base].found = f[a].found
      BY <1>2, <2>1
    <3>3. f[part] = ScanLine(f[base], lines, part)
      BY <2>0, <3>1
    <3>4. Parted(f[part], f[base], lines, part, from)
      BY <1>b, <2>0, <3>2, <3>3, MarkerScanned
    <3> QED BY <3>1, <3>2, <3>4 DEF Parted
  <2>2. CASE b # 0
    <3>0. PICK m \in Nat : m = base + 1
      BY <1>b
    <3>1. f[m] = ScanLine(f[base], lines, m) /\ lines[m] = "|" /\ m <= part - 1 /\ m - 1 = base
      <4>1. m = a + 2 + o /\ m \in (a + 1)..(last + 1)
        BY <1>0, <1>b, <3>0
      <4>2. m <= part - 1 /\ m - 1 = base
        BY <1>0, <2>2, <3>0
      <4>3. lines[m] = "|"
        BY <2>2, <4>1 DEF Laid
      <4> QED BY <1>a, <4>1, <4>2, <4>3
    <3>2. Based(f[m], f[base], lines, m, from)
      BY <1>2, <1>b, <3>1, MarkerScanned
    <3>3. /\ f[m].open.start = from /\ f[m].found = f[a].found
          /\ f[m].open.ours = SubSeq(lines, from + 1, base) /\ f[m].open.baseFrom = m + 1
      BY <1>2, <3>1, <3>2 DEF Based
    <3>4. Steps(f, lines, m, part - 1)
      BY <1>0, <1>a, <3>0 DEF Steps
    <3>5. Free(lines, m, part - 1, {">"})
      BY <1>0, <3>0 DEF Laid, Free
    <3>6. Free(lines, m, part - 1, {">", "|"})
      BY <1>0, <2>2, <3>0, <3>5 DEF Laid, Free
    <3>7. f[m].open.start \in Nat \ {0} /\ f[m].open.baseFrom \in Nat \ {0}
      BY <1>b, <3>3
    <3>8. f[part - 1].open.start = from /\ f[part - 1].found = f[a].found
      BY <1>b, <3>1, <3>3, <3>4, <3>5, <3>7, InsideScanned, SMTT(60)
    <3>9. /\ f[part - 1].open.ours = SubSeq(lines, from + 1, base)
          /\ f[part - 1].open.baseFrom = m + 1
      <4>1. PICK q \in Nat : q = part - 1
        BY <1>b
      <4>2. Steps(f, lines, m, q) /\ Free(lines, m, q, {">", "|"}) /\ m <= q
        BY <3>1, <3>4, <3>6, <4>1
      <4>3. f[q].open.baseFrom = f[m].open.baseFrom /\ f[q].open.ours = f[m].open.ours
        BY <3>7, <4>2, BaseScanned
      <4> QED BY <3>3, <4>1, <4>3
    <3>10. Parted(f[part], f[part - 1], lines, part, from)
      BY <1>b, <2>0, <3>8, MarkerScanned
    <3>11. f[part - 1].open.baseFrom > 0
      BY <3>9
    <3> QED BY <3>8, <3>9, <3>10, <3>11 DEF Parted
  <2> QED BY <2>1, <2>2
<1>4. f[last] = f[part]
  <2>1. Steps(f, lines, part, last)
    BY <1>0, <1>a DEF Steps
  <2>2. Free(lines, part, last, {">", "|", "="})
    BY <1>0 DEF Laid
  <2>3. f[part].open.start \in Nat \ {0}
    BY <1>3, <1>b
  <2> QED BY <1>b, <2>1, <2>2, <2>3, TheirsScanned
<1>5. PICK end : end = last + 1
  OBVIOUS
<1>6. f[end] = ScanLine(f[last], lines, end) /\ lines[end] = ">" /\ end - 1 = last
  <2>1. end \in (a + 1)..(last + 1) /\ end - 1 = last /\ end = a + 3 + o + b + t
    BY <1>0, <1>b, <1>5
  <2> QED BY <1>a, <2>1 DEF Laid
<1>7. Ended(f[end], f[last], lines, end, from)
  <2>1. f[last].open.start = from /\ from # 0
    BY <1>3, <1>4, <1>b
  <2> QED BY <1>6, <1>b, <2>1, MarkerScanned
<1>8. f[end] = [open |-> Closed,
                found |-> Append(f[a].found, [start |-> from, end |-> end,
                                              ours |-> SubSeq(lines, from + 1, base),
                                              theirs |-> SubSeq(lines, part + 1, last)])]
  BY <1>3, <1>4, <1>6, <1>7 DEF Ended
<1>9. end = a + 3 + o + b + t /\ from + 1 = a + 2 /\ part + 1 = a + 3 + o + b
  BY <1>0, <1>5
<1>10. from = a + 1 /\ base = a + 1 + o /\ last = a + 2 + o + b + t
  BY <1>0
<1>11. PICK ours, theirs : ours = SubSeq(lines, from + 1, base) /\ theirs = SubSeq(lines, part + 1, last)
  OBVIOUS
<1>12. f[end].open = Closed /\ f[end].found =
         Append(f[a].found, [start |-> from, end |-> end, ours |-> ours, theirs |-> theirs])
  BY <1>8, <1>11
<1>13. /\ ours = SubSeq(lines, a + 2, a + 1 + o)
       /\ theirs = SubSeq(lines, a + 3 + o + b, a + 2 + o + b + t)
  BY <1>9, <1>10, <1>11
<1> QED BY <1>9, <1>10, <1>12, <1>13 DEF Ends

-----------------------------------------------------------------------------
(* Where the pieces of a result are in its lines.                           *)

Strings == STRING \cup {"<", "=", ">"}

\* r is s, of m lines, and then t, of n lines.
Chain(r, s, m, t, n) ==
  /\ r \in Seq(Strings) /\ Len(r) = m + n
  /\ \A i \in 1..m : r[i] = s[i]
  /\ \A i \in 1..n : r[m + i] = t[i]

LEMMA Chained ==
  ASSUME NEW s \in Seq(Strings), NEW t \in Seq(Strings), NEW m \in Nat, NEW n \in Nat,
         m = Len(s), n = Len(t), NEW r, r = s \o t
  PROVE  Chain(r, s, m, t, n)
<1>1. r \in Seq(Strings) /\ Len(r) = m + n
  BY ConcatProperties
<1>2. \A i \in 1..(m + n) : r[i] = IF i <= m THEN s[i] ELSE t[i - m]
  BY ConcatProperties
<1>5. \A i \in 1..m : r[i] = s[i]
  BY <1>2
<1>6. \A i \in 1..n : r[m + i] = t[i]
  BY <1>2
<1> QED BY <1>1, <1>5, <1>6 DEF Chain

LEMMA OneLine ==
  ASSUME NEW S, NEW x \in S
  PROVE  <<x>> \in Seq(S) /\ Len(<<x>>) = 1 /\ <<x>>[1] = x
OBVIOUS

LEMMA PiecesTyped ==
  ASSUME NEW piece \in Pieces
  PROVE  /\ IsRegion(piece) => /\ piece.ours \in Seq(Strings) /\ piece.base \in Seq(Strings)
                               /\ piece.theirs \in Seq(Strings)
         /\ ~IsRegion(piece) => piece.text \in Seq(Strings)
<1>1. Seq(STRING) \subseteq Seq(Strings)
  <2>1. STRING \subseteq Strings
    BY DEF Strings
  <2> QED BY <2>1, SeqMonotonic
<1>2. /\ IsRegion(piece) => /\ piece.ours \in Seq(STRING) /\ piece.base \in Seq(STRING)
                            /\ piece.theirs \in Seq(STRING)
      /\ ~IsRegion(piece) => piece.text \in Seq(STRING)
  BY DEF Pieces, IsRegion
<1> QED BY <1>1, <1>2

\* The lines of a region.
Spread(lines, ours, base, theirs, o, b, t) ==
  /\ lines \in Seq(Strings) /\ Len(lines) = 3 + o + b + t
  /\ lines[1] = "<" /\ lines[2 + o + b] = "=" /\ lines[3 + o + b + t] = ">"
  /\ \A q \in 1..o : lines[1 + q] = ours[q]
  /\ \A q \in 1..b : lines[1 + o + q] = base[q]
  /\ \A q \in 1..t : lines[2 + o + b + q] = theirs[q]

LEMMA RegionSpread ==
  ASSUME NEW ours \in Seq(Strings), NEW base \in Seq(Strings), NEW theirs \in Seq(Strings)
  PROVE  Spread(<<"<">> \o ours \o base \o <<"=">> \o theirs \o <<">">>,
                ours, base, theirs, Len(ours), Len(base), Len(theirs))
<1>1. PICK o \in Nat, b \in Nat, t \in Nat : o = Len(ours) /\ b = Len(base) /\ t = Len(theirs)
  BY Lengths
<1>2. PICK one, two, three : one = <<"<">> /\ two = <<"=">> /\ three = <<">">>
  OBVIOUS
<1>3. /\ one \in Seq(Strings) /\ Len(one) = 1 /\ one[1] = "<"
      /\ two \in Seq(Strings) /\ Len(two) = 1 /\ two[1] = "="
      /\ three \in Seq(Strings) /\ Len(three) = 1 /\ three[1] = ">"
  <2>1. "<" \in Strings /\ "=" \in Strings /\ ">" \in Strings
    BY DEF Strings
  <2> QED BY <1>2, <2>1, OneLine
<1>4. PICK c : c = one \o ours
  OBVIOUS
<1>5. Chain(c, one, 1, ours, o) /\ Len(c) = 1 + o /\ 1 + o \in Nat
  <2>1. Chain(c, one, 1, ours, o)
    <3>1. /\ one \in Seq(Strings) /\ Len(one) = 1 /\ 1 \in Nat
          /\ ours \in Seq(Strings) /\ Len(ours) = o /\ o \in Nat
      BY <1>1, <1>3, <1>3 DEF Chain
    <3> QED BY <1>4, <3>1, Chained
  <2> QED BY <1>1, <2>1 DEF Chain
<1>6. PICK d : d = c \o base
  OBVIOUS
<1>7. Chain(d, c, 1 + o, base, b) /\ Len(d) = 1 + o + b /\ 1 + o + b \in Nat
  <2>1. Chain(d, c, 1 + o, base, b)
    <3>1. /\ c \in Seq(Strings) /\ Len(c) = 1 + o /\ 1 + o \in Nat
          /\ base \in Seq(Strings) /\ Len(base) = b /\ b \in Nat
      BY <1>1, <1>3, <1>5 DEF Chain
    <3> QED BY <1>6, <3>1, Chained
  <2> QED BY <1>1, <2>1 DEF Chain
<1>8. PICK e : e = d \o two
  OBVIOUS
<1>9. Chain(e, d, 1 + o + b, two, 1) /\ Len(e) = 2 + o + b /\ 2 + o + b \in Nat
  <2>1. Chain(e, d, 1 + o + b, two, 1)
    <3>1. /\ d \in Seq(Strings) /\ Len(d) = 1 + o + b /\ 1 + o + b \in Nat
          /\ two \in Seq(Strings) /\ Len(two) = 1 /\ 1 \in Nat
      BY <1>1, <1>3, <1>7 DEF Chain
    <3> QED BY <1>8, <3>1, Chained
  <2> QED BY <1>1, <2>1 DEF Chain
<1>10. PICK g : g = e \o theirs
  OBVIOUS
<1>11. Chain(g, e, 2 + o + b, theirs, t) /\ Len(g) = 2 + o + b + t /\ 2 + o + b + t \in Nat
  <2>1. Chain(g, e, 2 + o + b, theirs, t)
    <3>1. /\ e \in Seq(Strings) /\ Len(e) = 2 + o + b /\ 2 + o + b \in Nat
          /\ theirs \in Seq(Strings) /\ Len(theirs) = t /\ t \in Nat
      BY <1>1, <1>3, <1>9 DEF Chain
    <3> QED BY <1>10, <3>1, Chained
  <2> QED BY <1>1, <2>1 DEF Chain
<1>12. PICK h : h = g \o three
  OBVIOUS
<1>13. Chain(h, g, 2 + o + b + t, three, 1) /\ Len(h) = 3 + o + b + t /\ 3 + o + b + t \in Nat
  <2>1. Chain(h, g, 2 + o + b + t, three, 1)
    <3>1. /\ g \in Seq(Strings) /\ Len(g) = 2 + o + b + t /\ 2 + o + b + t \in Nat
          /\ three \in Seq(Strings) /\ Len(three) = 1 /\ 1 \in Nat
      BY <1>1, <1>3, <1>11 DEF Chain
    <3> QED BY <1>12, <3>1, Chained
  <2> QED BY <1>1, <2>1 DEF Chain
<1>14. \A q \in 1..(2 + o + b + t) : h[q] = g[q]
  BY <1>13 DEF Chain
<1>15. \A q \in 1..(2 + o + b) : g[q] = e[q] /\ h[q] = e[q]
  BY <1>11, <1>14 DEF Chain
<1>16. \A q \in 1..(1 + o + b) : h[q] = d[q]
  <2>1. \A q \in 1..(1 + o + b) : e[q] = d[q] /\ q \in 1..(2 + o + b)
    BY <1>9 DEF Chain
  <2> QED BY <1>15, <2>1
<1>17. \A q \in 1..(1 + o) : h[q] = c[q]
  <2>1. \A q \in 1..(1 + o) : d[q] = c[q] /\ q \in 1..(1 + o + b)
    BY <1>7 DEF Chain
  <2> QED BY <1>16, <2>1
<1>18. h[1] = "<" /\ \A q \in 1..o : h[1 + q] = ours[q]
  <2>1. c[1] = "<" /\ \A q \in 1..o : c[1 + q] = ours[q]
    BY <1>3, <1>5 DEF Chain
  <2>2. 1 \in 1..(1 + o) /\ \A q \in 1..o : 1 + q \in 1..(1 + o)
    OBVIOUS
  <2> QED BY <1>17, <2>1, <2>2
<1>19. \A q \in 1..b : h[1 + o + q] = base[q]
  <2>1. \A q \in 1..b : d[1 + o + q] = base[q] /\ 1 + o + q \in 1..(1 + o + b)
    BY <1>7 DEF Chain
  <2> QED BY <1>16, <2>1
<1>21. h[2 + o + b] = "="
  <2>1. e[1 + o + b + 1] = "=" /\ 1 + o + b + 1 = 2 + o + b /\ 2 + o + b \in 1..(2 + o + b)
    BY <1>3, <1>9 DEF Chain
  <2> QED BY <1>15, <2>1
<1>22. \A q \in 1..t : h[2 + o + b + q] = theirs[q]
  <2>1. \A q \in 1..t : g[2 + o + b + q] = theirs[q] /\ 2 + o + b + q \in 1..(2 + o + b + t)
    BY <1>11 DEF Chain
  <2> QED BY <1>14, <2>1
<1>23. h[3 + o + b + t] = ">" /\ h \in Seq(Strings)
  <2>1. h[2 + o + b + t + 1] = ">" /\ 2 + o + b + t + 1 = 3 + o + b + t /\ h \in Seq(Strings)
    BY <1>3, <1>13 DEF Chain
  <2> QED BY <2>1
<1>20. Spread(h, ours, base, theirs, o, b, t)
  BY <1>13, <1>18, <1>19, <1>21, <1>22, <1>23 DEF Spread
<1> QED BY <1>1, <1>2, <1>4, <1>6, <1>8, <1>10, <1>12, <1>20

LEMMA PieceLinesTyped ==
  ASSUME NEW piece \in Pieces
  PROVE  PieceLines(piece) \in Seq(Strings)
<1>1. CASE IsRegion(piece)
  <2>1. PieceLines(piece) = <<"<">> \o piece.ours \o piece.base \o <<"=">> \o piece.theirs \o <<">">>
    BY <1>1 DEF PieceLines
  <2>2. Spread(PieceLines(piece), piece.ours, piece.base, piece.theirs,
               Len(piece.ours), Len(piece.base), Len(piece.theirs))
    BY <1>1, <2>1, PiecesTyped, RegionSpread
  <2> QED BY <2>2 DEF Spread
<1>2. CASE ~IsRegion(piece)
  BY <1>2, PiecesTyped DEF PieceLines
<1> QED BY <1>1, <1>2

LEMMA WrittenTyped ==
  ASSUME NEW R \in Seq(Pieces), NEW w, Written(w, R)
  PROVE  \A i \in 0..Len(R) : w[i] \in Seq(Strings)
<1>1. PICK n \in Nat : n = Len(R)
  BY Lengths
<1>2. \A i \in 1..n : R[i] \in Pieces
  BY <1>1, Lengths
<1> DEFINE T == {i \in 0..n : w[i] \in Seq(Strings)}
<1>3. 0 \in T
  <2>1. w[0] = <<>> /\ <<>> \in Seq(Strings)
    BY EmptySeq DEF Written
  <2>2. w[0] \in Seq(Strings)
    BY <2>1, Zenon
  <2>3. 0 \in 0..n
    BY <1>1
  <2> QED BY <2>2, <2>3
<1>4. ASSUME NEW i \in (0 + 1)..n, i - 1 \in T PROVE i \in T
  <2>0. i \in 1..n /\ i \in 0..n
    OBVIOUS
  <2>1. w[i] = w[i - 1] \o PieceLines(R[i]) /\ w[i - 1] \in Seq(Strings)
    BY <1>1, <1>4, <2>0 DEF Written
  <2>2. PieceLines(R[i]) \in Seq(Strings)
    BY <1>2, <2>0, PieceLinesTyped
  <2>3. w[i] \in Seq(Strings)
    BY <2>1, <2>2, ConcatProperties
  <2> QED BY <2>0, <2>3
<1>5. \A i \in 0..n : i \in T
  <2> HIDE DEF T
  <2>1. 0 <= n
    OBVIOUS
  <2> QED BY <1>3, <1>4, <2>1, Climb
<1> QED BY <1>1, <1>5

\* The lines of the first j pieces begin with those of the first i.
Continues(x, y) == \E z \in Seq(Strings) : y = x \o z

LEMMA Continued ==
  ASSUME NEW R \in Seq(Pieces), NEW w, Written(w, R), NEW i \in 0..Len(R), NEW j \in i..Len(R)
  PROVE  Continues(w[i], w[j])
<1>1. PICK n \in Nat : n = Len(R)
  BY Lengths
<1>2. \A k \in 1..n : R[k] \in Pieces
  BY <1>1, Lengths
<1>3. \A k \in 0..n : w[k] \in Seq(Strings)
  BY <1>1, WrittenTyped
<1> DEFINE T == {k \in i..n : Continues(w[i], w[k])}
<1>4. i \in T
  <2>1. w[i] = w[i] \o <<>> /\ <<>> \in Seq(Strings)
    BY <1>1, <1>3, EmptySeq, ConcatEmptySeq
  <2>2. Continues(w[i], w[i])
    BY <2>1, Zenon DEF Continues
  <2> QED BY <1>1, <2>2
<1>5. ASSUME NEW k \in (i + 1)..n, k - 1 \in T PROVE k \in T
  <2>0. k \in 1..n /\ k \in i..n /\ i \in 0..n
    BY <1>1
  <2>1. PICK z \in Seq(Strings) : w[k - 1] = w[i] \o z
    BY <1>5 DEF Continues
  <2>2. PICK p \in Seq(Strings) : p = PieceLines(R[k])
    BY <1>2, <2>0, PieceLinesTyped
  <2>3. w[k] = w[k - 1] \o p
    BY <1>1, <2>0, <2>2 DEF Written
  <2>4. w[i] \in Seq(Strings)
    BY <1>3, <2>0
  <2>7. (w[i] \o z) \o p = w[i] \o (z \o p)
    <3>1. PICK x \in Seq(Strings) : x = w[i]
      BY <2>4
    <3>2. (x \o z) \o p = x \o (z \o p)
      BY SMTT(60)
    <3> QED BY <3>1, <3>2
  <2>8. z \o p \in Seq(Strings)
    BY ConcatProperties
  <2>5. w[k] = w[i] \o (z \o p) /\ z \o p \in Seq(Strings)
    BY <2>1, <2>3, <2>7, <2>8
  <2>6. Continues(w[i], w[k])
    BY <2>5 DEF Continues
  <2> QED BY <2>0, <2>6
<1>6. \A k \in i..n : k \in T
  <2> HIDE DEF T
  <2>1. i \in Nat /\ i <= n
    BY <1>1
  <2> QED BY <1>1, <1>4, <1>5, <2>1, Climb
<1> QED BY <1>1, <1>6

\* The lines of piece i stand after those of the pieces before it.
Stands(lines, from, p, n) ==
  /\ from \in Nat /\ n \in Nat /\ from + n <= Len(lines) /\ Len(lines) \in Nat
  /\ \A q \in 1..n : lines[from + q] = p[q]

LEMMA PieceStands ==
  ASSUME NEW R \in Seq(Pieces), NEW w, Written(w, R), NEW i \in 1..Len(R)
  PROVE  /\ Stands(w[Len(R)], Len(w[i - 1]), PieceLines(R[i]), Len(PieceLines(R[i])))
         /\ Len(w[i]) = Len(w[i - 1]) + Len(PieceLines(R[i]))
<1>1. PICK n \in Nat : n = Len(R)
  BY Lengths
<1>2. i \in 0..n /\ i - 1 \in 0..n /\ n \in i..n /\ R[i] \in Pieces
  BY <1>1, Lengths
<1>3. w[i - 1] \in Seq(Strings) /\ w[i] \in Seq(Strings) /\ w[n] \in Seq(Strings)
  BY <1>1, <1>2, WrittenTyped
<1>4. PICK p \in Seq(Strings) : p = PieceLines(R[i])
  BY <1>2, PieceLinesTyped
<1>5. PICK a \in Nat, m \in Nat : a = Len(w[i - 1]) /\ m = Len(p)
  BY <1>3, Lengths
<1>6. w[i] = w[i - 1] \o p
  BY <1>1, <1>4 DEF Written
<1>7. Chain(w[i], w[i - 1], a, p, m)
  BY <1>3, <1>5, <1>6, Chained
<1>8. Continues(w[i], w[n])
  BY <1>1, <1>2, Continued
<1>9. PICK z \in Seq(Strings) : w[n] = w[i] \o z
  BY <1>8 DEF Continues
<1>10. PICK k \in Nat : k = Len(z)
  BY Lengths
<1>11. Len(w[i]) = a + m /\ a + m \in Nat
  BY <1>7 DEF Chain
<1>12. Chain(w[n], w[i], a + m, z, k)
  BY <1>3, <1>9, <1>10, <1>11, Chained
<1>13. \A q \in 1..m : w[n][a + q] = p[q]
  <2>1. \A q \in 1..m : w[i][a + q] = p[q] /\ a + q \in 1..(a + m)
    BY <1>7 DEF Chain
  <2>2. \A q \in 1..(a + m) : w[n][q] = w[i][q]
    BY <1>12 DEF Chain
  <2> QED BY <2>1, <2>2
<1>14. Len(w[n]) = a + m + k
  BY <1>12 DEF Chain
<1>15. Stands(w[n], a, p, m)
  <2>1. a + m <= Len(w[n]) /\ Len(w[n]) \in Nat
    BY <1>14
  <2> QED BY <1>13, <2>1 DEF Stands
<1>16. Stands(w[n], Len(w[i - 1]), PieceLines(R[i]), Len(PieceLines(R[i])))
  BY <1>4, <1>5, <1>15
<1>17. Len(w[i]) = Len(w[i - 1]) + Len(PieceLines(R[i]))
  BY <1>4, <1>5, <1>11
<1> QED BY <1>1, <1>16, <1>17

\* A merge result in which nothing can be taken for a marker.
Merged(R) == R \in Seq(Pieces) /\ \A i \in 1..Len(R) : Unmistakable(R[i])

\* What the scan is to find of the region that is piece k.
Found(w, R, k) ==
  [start |-> Len(w[k - 1]) + 1, end |-> Len(w[k]), ours |-> R[k].ours, theirs |-> R[k].theirs]

\* A part of the lines that is p.
LEMMA PartIs ==
  ASSUME NEW lines \in Seq(Strings), NEW p \in Seq(Strings), NEW from \in Nat, NEW n \in Nat,
         n = Len(p), from + n <= Len(lines), \A q \in 1..n : lines[from + q] = p[q]
  PROVE  SubSeq(lines, from + 1, from + n) = p
<1>1. PICK s : s = SubSeq(lines, from + 1, from + n)
  OBVIOUS
<1>2. Len(lines) \in Nat /\ \A i \in 1..Len(lines) : lines[i] \in Strings
  BY Lengths
<1>3. \A i \in (from + 1)..(from + n) : lines[i] \in Strings
  BY <1>2
<1>4. /\ s \in Seq(Strings) /\ Len(s) = n
      /\ \A i \in 1..n : s[i] = lines[from + i]
  <2>1. /\ SubSeq(lines, from + 1, from + n) \in Seq(Strings)
        /\ Len(SubSeq(lines, from + 1, from + n)) =
             (IF from + 1 <= from + n THEN from + n - (from + 1) + 1 ELSE 0)
        /\ \A i \in 1..(from + n - (from + 1) + 1) :
             SubSeq(lines, from + 1, from + n)[i] = lines[from + 1 + i - 1]
    BY <1>3, SubSeqProperties
  <2>2. (IF from + 1 <= from + n THEN from + n - (from + 1) + 1 ELSE 0) = n
    OBVIOUS
  <2>3. from + n - (from + 1) + 1 = n /\ \A i \in 1..n : from + 1 + i - 1 = from + i
    OBVIOUS
  <2> QED BY <1>1, <2>1, <2>2, <2>3
<1>5. \A i \in 1..n : s[i] = p[i]
  BY <1>4
<1>6. s = p
  BY <1>4, <1>5, SeqEqual
<1> QED BY <1>1, <1>6

\* Line by line, that nothing in a region can be taken for a marker.
Plain(ours, base, theirs, o, b, t) ==
  /\ \A q \in 1..o : ours[q] # ">" /\ ours[q] # "<"
  /\ \A q \in 1..t : theirs[q] \notin {">", "|", "=", "<"}
  /\ \A q \in 1..b : base[q] # ">"
  /\ b = 0 => \A q \in 1..o : ours[q] # "|"
  /\ b # 0 => base[1] = "|" /\ \A q \in 2..b : base[q] # "|"

\* A region stands there, and these are its sides.
IsLaid(lines, a, ours, theirs, o, b, t) ==
  /\ Laid(lines, a, o, b, t)
  /\ SubSeq(lines, a + 2, a + 1 + o) = ours
  /\ SubSeq(lines, a + 3 + o + b, a + 2 + o + b + t) = theirs

LEMMA SpreadIsLaid ==
  ASSUME NEW lines \in Seq(Strings), NEW p, NEW a \in Nat, NEW o \in Nat, NEW b \in Nat, NEW t \in Nat,
         NEW ours \in Seq(Strings), NEW base \in Seq(Strings), NEW theirs \in Seq(Strings),
         o = Len(ours), b = Len(base), t = Len(theirs),
         Spread(p, ours, base, theirs, o, b, t), Stands(lines, a, p, 3 + o + b + t),
         Plain(ours, base, theirs, o, b, t)
  PROVE  IsLaid(lines, a, ours, theirs, o, b, t)
<1>1. \A q \in 1..(3 + o + b + t) : lines[a + q] = p[q]
  BY DEF Stands
<1>2. \A q \in 1..o : lines[a + 1 + q] = ours[q]
  <2>1. \A q \in 1..o : p[1 + q] = ours[q] /\ 1 + q \in 1..(3 + o + b + t) /\ a + (1 + q) = a + 1 + q
    BY DEF Spread
  <2> QED BY <1>1, <2>1
<1>3. \A q \in 1..b : lines[a + 1 + o + q] = base[q]
  <2>1. \A q \in 1..b : /\ p[1 + o + q] = base[q] /\ 1 + o + q \in 1..(3 + o + b + t)
                        /\ a + (1 + o + q) = a + 1 + o + q
    BY DEF Spread
  <2> QED BY <1>1, <2>1
<1>4. ASSUME NEW q \in 1..t PROVE lines[a + 2 + o + b + q] = theirs[q]
  <2>1. PICK k \in 1..(3 + o + b + t) : k = 2 + o + b + q
    OBVIOUS
  <2>2. p[k] = theirs[q]
    BY <2>1 DEF Spread
  <2>3. lines[a + k] = p[k] /\ a + k = a + 2 + o + b + q
    BY <1>1, <2>1
  <2> QED BY <2>2, <2>3
<1>5. lines[a + 1] = "<" /\ lines[a + 2 + o + b] = "=" /\ lines[a + 3 + o + b + t] = ">"
  <2>1. p[1] = "<" /\ p[2 + o + b] = "=" /\ p[3 + o + b + t] = ">"
    BY DEF Spread
  <2>2. /\ 1 \in 1..(3 + o + b + t) /\ 2 + o + b \in 1..(3 + o + b + t)
        /\ 3 + o + b + t \in 1..(3 + o + b + t)
        /\ a + (2 + o + b) = a + 2 + o + b /\ a + (3 + o + b + t) = a + 3 + o + b + t
    OBVIOUS
  <2> QED BY <1>1, <2>1, <2>2
<1>6. \A i \in (a + 2)..(a + 1 + o) : lines[i] = ours[i - (a + 1)] /\ i - (a + 1) \in 1..o
  <2>1. \A i \in (a + 2)..(a + 1 + o) : i - (a + 1) \in 1..o /\ a + 1 + (i - (a + 1)) = i
    OBVIOUS
  <2> QED BY <1>2, <2>1
<1>7. \A i \in (a + 2 + o)..(a + 1 + o + b) : lines[i] = base[i - (a + 1 + o)] /\ i - (a + 1 + o) \in 1..b
  <2>1. \A i \in (a + 2 + o)..(a + 1 + o + b) : i - (a + 1 + o) \in 1..b /\ a + 1 + o + (i - (a + 1 + o)) = i
    OBVIOUS
  <2> QED BY <1>3, <2>1
<1>8. \A i \in (a + 3 + o + b)..(a + 2 + o + b + t) :
        lines[i] = theirs[i - (a + 2 + o + b)] /\ i - (a + 2 + o + b) \in 1..t
  <2>1. \A i \in (a + 3 + o + b)..(a + 2 + o + b + t) :
          i - (a + 2 + o + b) \in 1..t /\ a + 2 + o + b + (i - (a + 2 + o + b)) = i
    OBVIOUS
  <2> QED BY <1>4, <2>1
<1>9. Free(lines, a + 1, a + 1 + o + b, {">"})
  <2>1. \A i \in (a + 1 + 1)..(a + 1 + o + b) :
          i \in (a + 2)..(a + 1 + o) \/ i \in (a + 2 + o)..(a + 1 + o + b)
    OBVIOUS
  <2>2. \A i \in (a + 2)..(a + 1 + o) : lines[i] # ">"
    BY <1>6 DEF Plain
  <2>3. \A i \in (a + 2 + o)..(a + 1 + o + b) : lines[i] # ">"
    BY <1>7 DEF Plain
  <2> QED BY <2>1, <2>2, <2>3 DEF Free
<1>10. ASSUME b = 0 PROVE Free(lines, a + 1, a + 1 + o, {"|"})
  <2>1. \A i \in (a + 1 + 1)..(a + 1 + o) : i \in (a + 2)..(a + 1 + o)
    OBVIOUS
  <2>2. \A i \in (a + 2)..(a + 1 + o) : lines[i] # "|"
    BY <1>6, <1>10 DEF Plain
  <2> QED BY <2>1, <2>2 DEF Free
<1>11. ASSUME b # 0 PROVE lines[a + 2 + o] = "|" /\ Free(lines, a + 2 + o, a + 1 + o + b, {"|"})
  <2>1. /\ a + 2 + o \in (a + 2 + o)..(a + 1 + o + b) /\ a + 2 + o - (a + 1 + o) = 1
        /\ \A i \in (a + 2 + o + 1)..(a + 1 + o + b) :
              i \in (a + 2 + o)..(a + 1 + o + b) /\ i - (a + 1 + o) \in 2..b
    BY <1>11
  <2>2. lines[a + 2 + o] = "|"
    <3>1. 1 \in 1..b /\ a + 1 + o + 1 = a + 2 + o
      BY <1>11
    <3>2. lines[a + 2 + o] = base[1]
      BY <1>3, <3>1
    <3> QED BY <1>11, <3>2 DEF Plain
  <2>3. ASSUME NEW i \in (a + 2 + o + 1)..(a + 1 + o + b) PROVE lines[i] # "|"
    <3>1. PICK k \in 2..b : k = i - (a + 1 + o)
      BY <2>1
    <3>2. lines[i] = base[k]
      BY <1>7, <2>1, <3>1
    <3> QED BY <1>11, <3>2 DEF Plain
  <2> QED BY <2>2, <2>3 DEF Free
<1>12. Free(lines, a + 2 + o + b, a + 2 + o + b + t, {">", "|", "="})
  <2>1. \A i \in (a + 2 + o + b + 1)..(a + 2 + o + b + t) : i \in (a + 3 + o + b)..(a + 2 + o + b + t)
    OBVIOUS
  <2>2. \A i \in (a + 3 + o + b)..(a + 2 + o + b + t) : lines[i] \notin {">", "|", "="}
    BY <1>8, SMTT(60) DEF Plain
  <2> QED BY <2>1, <2>2 DEF Free
<1>13. Laid(lines, a, o, b, t)
  BY <1>5, <1>9, <1>10, <1>11, <1>12 DEF Laid
<1>14. Len(lines) \in Nat /\ a + (3 + o + b + t) <= Len(lines)
  BY DEF Stands
<1>15. SubSeq(lines, a + 1 + 1, a + 1 + o) = ours
  <2>1. a + 1 \in Nat /\ a + 1 + o <= Len(lines)
    BY <1>14
  <2> QED BY <1>2, <2>1, PartIs
<1>16. SubSeq(lines, a + 2 + o + b + 1, a + 2 + o + b + t) = theirs
  <2>1. a + 2 + o + b \in Nat /\ a + 2 + o + b + t <= Len(lines)
    BY <1>14
  <2> QED BY <1>4, <2>1, PartIs, ZenonT(60)
<1>17. a + 1 + 1 = a + 2 /\ a + 2 + o + b + 1 = a + 3 + o + b
  OBVIOUS
<1> QED BY <1>13, <1>15, <1>16, <1>17 DEF IsLaid

LEMMA RegionPlain ==
  ASSUME NEW piece \in Pieces, IsRegion(piece), Unmistakable(piece)
  PROVE  Plain(piece.ours, piece.base, piece.theirs,
               Len(piece.ours), Len(piece.base), Len(piece.theirs))
<1>1. PICK ours \in Seq(Strings), base \in Seq(Strings), theirs \in Seq(Strings) :
        ours = piece.ours /\ base = piece.base /\ theirs = piece.theirs
  BY PiecesTyped
<1>2. PICK o \in Nat, b \in Nat, t \in Nat : o = Len(ours) /\ b = Len(base) /\ t = Len(theirs)
  BY Lengths
<1>3. DOMAIN ours = 1..o /\ DOMAIN base = 1..b /\ DOMAIN theirs = 1..t
  BY <1>2, Lengths
<1>4. /\ {"<", ">"} \cap (Range(ours) \cup Range(theirs)) = {}
      /\ {"|", "="} \cap Range(theirs) = {} /\ ">" \notin Range(base)
      /\ IF base = <<>> THEN "|" \notin Range(ours)
         ELSE base[1] = "|" /\ \A i \in 2..Len(base) : base[i] # "|"
  BY <1>1 DEF Unmistakable
<1>5. \A q \in 1..o : ours[q] # ">" /\ ours[q] # "<"
  BY <1>3, <1>4 DEF Range
<1>6. \A q \in 1..t : theirs[q] \notin {">", "|", "=", "<"}
  BY <1>3, <1>4 DEF Range
<1>7. \A q \in 1..b : base[q] # ">"
  BY <1>3, <1>4 DEF Range
<1>8. ASSUME b = 0 PROVE \A q \in 1..o : ours[q] # "|"
  <2>1. base = <<>>
    BY <1>2, <1>8, EmptySeq
  <2> QED BY <1>3, <1>4, <2>1 DEF Range
<1>9. ASSUME b # 0 PROVE base[1] = "|" /\ \A q \in 2..b : base[q] # "|"
  <2>1. base # <<>>
    BY <1>2, <1>9, EmptySeq
  <2> QED BY <1>2, <1>4, <2>1
<1>10. Plain(ours, base, theirs, o, b, t)
  BY <1>5, <1>6, <1>7, <1>8, <1>9 DEF Plain
<1> QED BY <1>1, <1>2, <1>10

\* What the scan of piece i makes of a state outside every region.
PieceDone(next, s, w, R, i) ==
  /\ next.open = Closed
  /\ next.found = IF IsRegion(R[i]) THEN Append(s.found, Found(w, R, i)) ELSE s.found

LEMMA PieceScanned ==
  ASSUME NEW R, Merged(R), NEW w, Written(w, R), NEW f, Scanned(f, w[Len(R)]),
         NEW i \in 1..Len(R), f[Len(w[i - 1])].open = Closed
  PROVE  PieceDone(f[Len(w[i])], f[Len(w[i - 1])], w, R, i)
<1>1. R \in Seq(Pieces) /\ R[i] \in Pieces /\ Unmistakable(R[i]) /\ Len(R) \in Nat
  <2>1. R \in Seq(Pieces) /\ Unmistakable(R[i])
    BY DEF Merged
  <2> QED BY <2>1, Lengths
<1>2. PICK lines \in Seq(Strings) : lines = w[Len(R)]
  <2>1. Len(R) \in 0..Len(R)
    BY <1>1
  <2> QED BY <1>1, <2>1, WrittenTyped
<1>3. PICK p \in Seq(Strings) : p = PieceLines(R[i])
  BY <1>1, PieceLinesTyped
<1>4. Stands(lines, Len(w[i - 1]), p, Len(p)) /\ Len(w[i]) = Len(w[i - 1]) + Len(p)
  BY <1>1, <1>2, <1>3, PieceStands
<1>5. PICK a \in Nat, m \in Nat : a = Len(w[i - 1]) /\ m = Len(p)
  BY <1>4 DEF Stands
<1>6. Stands(lines, a, p, m) /\ Len(w[i]) = a + m /\ a + m \in Nat
  BY <1>4, <1>5
<1>7. Steps(f, lines, a, a + m)
  <2>1. \A k \in 1..Len(lines) : f[k] = ScanLine(f[k - 1], lines, k)
    BY <1>2 DEF Scanned
  <2>2. \A k \in (a + 1)..(a + m) : k \in 1..Len(lines)
    BY <1>6 DEF Stands
  <2> QED BY <2>1, <2>2 DEF Steps
<1>8. f[a].open = Closed
  BY <1>5
<1>9. CASE IsRegion(R[i])
  <2>1. PICK ours \in Seq(Strings), base \in Seq(Strings), theirs \in Seq(Strings) :
          ours = R[i].ours /\ base = R[i].base /\ theirs = R[i].theirs
    BY <1>1, <1>9, PiecesTyped, SMTT(60)
  <2>2. PICK o \in Nat, b \in Nat, t \in Nat : o = Len(ours) /\ b = Len(base) /\ t = Len(theirs)
    BY Lengths
  <2>3. Plain(ours, base, theirs, o, b, t)
    BY <1>1, <1>9, <2>1, <2>2, RegionPlain
  <2>4. p = <<"<">> \o ours \o base \o <<"=">> \o theirs \o <<">">>
    BY <1>3, <1>9, <2>1 DEF PieceLines
  <2>5. Spread(p, ours, base, theirs, o, b, t)
    BY <2>2, <2>4, RegionSpread
  <2>6. m = 3 + o + b + t
    BY <1>5, <2>5 DEF Spread
  <2>7. Stands(lines, a, p, 3 + o + b + t)
    BY <1>6, <2>6
  <2>8. IsLaid(lines, a, ours, theirs, o, b, t)
    BY <2>2, <2>3, <2>5, <2>7, SpreadIsLaid
  <2>9. a + m = a + 3 + o + b + t
    BY <2>6
  <2>10. Steps(f, lines, a, a + 3 + o + b + t) /\ Laid(lines, a, o, b, t)
    BY <1>7, <2>8, <2>9 DEF IsLaid
  <2>11. Ends(f, lines, a, o, b, t)
    BY <1>8, <2>10, RegionScanned
  <2>12. /\ f[a + m].open = Closed
         /\ f[a + m].found = Append(f[a].found, [start |-> a + 1, end |-> a + m,
                                                 ours |-> ours, theirs |-> theirs])
    <3>1. SubSeq(lines, a + 2, a + 1 + o) = ours /\ SubSeq(lines, a + 3 + o + b, a + 2 + o + b + t) = theirs
      BY <2>8 DEF IsLaid
    <3>2. PICK end : end = a + 3 + o + b + t
      OBVIOUS
    <3>3. /\ f[end].open = Closed
          /\ f[end].found = Append(f[a].found, [start |-> a + 1, end |-> end,
                                                ours |-> ours, theirs |-> theirs])
      BY <2>11, <3>1, <3>2 DEF Ends
    <3> QED BY <2>9, <3>2, <3>3
  <2>13. Found(w, R, i) = [start |-> a + 1, end |-> a + m, ours |-> ours, theirs |-> theirs]
    BY <1>5, <1>6, <2>1 DEF Found
  <2>14. Append(f[a].found, Found(w, R, i)) = f[a + m].found
    BY <2>12, <2>13
  <2> QED BY <1>5, <1>6, <1>9, <2>12, <2>14 DEF PieceDone
<1>10. CASE ~IsRegion(R[i])
  <2>1. p = R[i].text /\ "<" \notin Range(p)
    BY <1>1, <1>3, <1>10 DEF PieceLines, Unmistakable
  <2>2. \A q \in 1..m : p[q] # "<"
    <3>1. DOMAIN p = 1..m
      BY <1>5, Lengths
    <3> QED BY <2>1, <3>1 DEF Range
  <2>3. Free(lines, a, a + m, {"<"})
    <3>1. \A k \in (a + 1)..(a + m) : k - a \in 1..m /\ a + (k - a) = k
      OBVIOUS
    <3>2. \A q \in 1..m : lines[a + q] = p[q]
      BY <1>6 DEF Stands
    <3>3. \A k \in (a + 1)..(a + m) : lines[k] # "<"
      BY <2>2, <3>1, <3>2
    <3> QED BY <3>3 DEF Free
  <2>4. a <= a + m
    OBVIOUS
  <2>5. f[a + m] = f[a]
    BY <1>6, <1>7, <1>8, <2>3, <2>4, TextScanned
  <2> QED BY <1>5, <1>6, <1>8, <1>10, <2>5 DEF PieceDone
<1> QED BY <1>9, <1>10

-----------------------------------------------------------------------------
(* What the whole scan finds: the regions, in their order.                  *)

Count(R, i) == Cardinality({k \in 1..i : IsRegion(R[k])})

LEMMA Counts ==
  ASSUME NEW R, NEW i \in Nat
  PROVE  /\ Count(R, i) \in Nat /\ Count(R, 0) = 0
         /\ Count(R, i + 1) = IF IsRegion(R[i + 1]) THEN Count(R, i) + 1 ELSE Count(R, i)
<1> DEFINE S(m) == {k \in 1..m : IsRegion(R[k])}
<1>1. IsFiniteSet(S(i)) /\ Cardinality(S(i)) \in Nat
  <2>1. IsFiniteSet(1..i) /\ S(i) \subseteq 1..i
    BY FS_Interval
  <2>2. IsFiniteSet(S(i))
    BY <2>1, FS_Subset
  <2> QED BY <2>2, FS_CardinalityType
<1>2. S(0) = {} /\ Cardinality({}) = 0
  BY FS_EmptySet
<1>3. i + 1 \notin S(i)
  OBVIOUS
<1>4. CASE IsRegion(R[i + 1])
  <2>1. S(i + 1) = S(i) \cup {i + 1}
    BY <1>4
  <2>2. Cardinality(S(i) \cup {i + 1}) = Cardinality(S(i)) + 1
    <3> HIDE DEF S
    <3> QED BY <1>1, <1>3, FS_AddElement
  <2> QED BY <1>1, <1>2, <1>4, <2>1, <2>2 DEF Count
<1>5. CASE ~IsRegion(R[i + 1])
  <2>1. S(i + 1) = S(i)
    BY <1>5
  <2> QED BY <1>1, <1>2, <1>5, <2>1 DEF Count
<1> QED BY <1>4, <1>5

\* After i pieces: the regions of them were found, each at its place.
FoundSoFar(s, w, R, i) ==
  /\ s.open = Closed
  /\ s.found \in Seq({Found(w, R, k) : k \in 1..Len(R)}) /\ Len(s.found) = Count(R, i)
  /\ \A k \in 1..i : IsRegion(R[k]) => /\ Count(R, k) \in 1..Count(R, i)
                                       /\ s.found[Count(R, k)] = Found(w, R, k)
  /\ \A r \in 1..Count(R, i) : \E k \in 1..i : IsRegion(R[k]) /\ Count(R, k) = r

LEMMA ResultScanned ==
  ASSUME NEW R, Merged(R), NEW w, Written(w, R), NEW f, Scanned(f, w[Len(R)])
  PROVE  FoundSoFar(f[Len(w[Len(R)])], w, R, Len(R))
<1>1. PICK n \in Nat : n = Len(R)
  BY Lengths DEF Merged
<1> DEFINE T == {i \in 0..n : FoundSoFar(f[Len(w[i])], w, R, i)}
<1>2. 0 \in T
  <2>1. w[0] = <<>> /\ f[0] = [open |-> Closed, found |-> <<>>]
    BY DEF Written, Scanned, Nothing
  <2>2. Len(w[0]) = 0
    BY <2>1, EmptySeq
  <2>3. f[Len(w[0])].open = Closed /\ f[Len(w[0])].found = <<>>
    BY <2>1, <2>2
  <2>4. /\ f[Len(w[0])].found \in Seq({Found(w, R, k) : k \in 1..Len(R)})
        /\ Len(f[Len(w[0])].found) = 0
    BY <2>3, EmptySeq
  <2>5. Count(R, 0) = 0 /\ 1..0 = {}
    BY Counts
  <2>6. FoundSoFar(f[Len(w[0])], w, R, 0)
    BY <2>3, <2>4, <2>5 DEF FoundSoFar
  <2> QED BY <1>1, <2>6
<1>3. ASSUME NEW i \in (0 + 1)..n, i - 1 \in T PROVE i \in T
  <2>1. PICK s, next : s = f[Len(w[i - 1])] /\ next = f[Len(w[i])]
    OBVIOUS
  <2>2. FoundSoFar(s, w, R, i - 1)
    BY <1>3, <2>1
  <2>3. i \in 1..Len(R) /\ i \in 0..n /\ i - 1 \in Nat /\ i - 1 + 1 = i
    BY <1>1
  <2>4. PieceDone(next, s, w, R, i)
    <3>1. f[Len(w[i - 1])].open = Closed
      BY <2>1, <2>2 DEF FoundSoFar
    <3> QED BY <2>1, <2>3, <3>1, PieceScanned
  <2>5. PICK c \in Nat : c = Count(R, i - 1)
    BY <2>3, Counts
  <2>6. Count(R, i) = IF IsRegion(R[i]) THEN c + 1 ELSE c
    BY <2>3, <2>5, Counts
  <2>7. PICK S : S = {Found(w, R, k) : k \in 1..Len(R)}
    OBVIOUS
  <2>8. s.found \in Seq(S) /\ Len(s.found) = c /\ Found(w, R, i) \in S
    BY <2>2, <2>3, <2>5, <2>7 DEF FoundSoFar
  <2>9. /\ \A k \in 1..(i - 1) : IsRegion(R[k]) => /\ Count(R, k) \in 1..c
                                                   /\ s.found[Count(R, k)] = Found(w, R, k)
        /\ \A r \in 1..c : \E k \in 1..(i - 1) : IsRegion(R[k]) /\ Count(R, k) = r
    BY <2>2, <2>5 DEF FoundSoFar
  <2>10. \A k \in 1..i : k = i \/ k \in 1..(i - 1)
    OBVIOUS
  <2>11. CASE IsRegion(R[i])
    <3>1. next.open = Closed /\ next.found = Append(s.found, Found(w, R, i)) /\ Count(R, i) = c + 1
      BY <2>4, <2>6, <2>11 DEF PieceDone
    <3>2. /\ next.found \in Seq(S) /\ Len(next.found) = c + 1
          /\ \A r \in 1..c : next.found[r] = s.found[r]
          /\ next.found[c + 1] = Found(w, R, i)
      BY <2>8, <3>1, AppendProperties
    <3>3. \A k \in 1..i : IsRegion(R[k]) => /\ Count(R, k) \in 1..(c + 1)
                                            /\ next.found[Count(R, k)] = Found(w, R, k)
      <4>1. ASSUME NEW k \in 1..(i - 1), IsRegion(R[k])
            PROVE  Count(R, k) \in 1..(c + 1) /\ next.found[Count(R, k)] = Found(w, R, k)
        <5>1. Count(R, k) \in 1..c /\ s.found[Count(R, k)] = Found(w, R, k)
          BY <2>9, <4>1
        <5>2. next.found[Count(R, k)] = s.found[Count(R, k)]
          BY <3>2, <5>1
        <5>3. Count(R, k) \in 1..(c + 1)
          BY <5>1
        <5> QED BY <5>1, <5>2, <5>3
      <4>2. Count(R, i) \in 1..(c + 1) /\ next.found[Count(R, i)] = Found(w, R, i)
        BY <3>1, <3>2
      <4> QED BY <2>10, <4>1, <4>2
    <3>4. \A r \in 1..(c + 1) : \E k \in 1..i : IsRegion(R[k]) /\ Count(R, k) = r
      <4>1. i \in 1..i /\ \A k \in 1..(i - 1) : k \in 1..i
        OBVIOUS
      <4>2. \A r \in 1..(c + 1) : r = c + 1 \/ r \in 1..c
        OBVIOUS
      <4> QED BY <2>9, <2>11, <3>1, <4>1, <4>2
    <3>5. FoundSoFar(next, w, R, i)
      BY <2>7, <3>1, <3>2, <3>3, <3>4 DEF FoundSoFar
    <3> QED BY <2>1, <2>3, <3>5
  <2>12. CASE ~IsRegion(R[i])
    <3>1. next.open = Closed /\ next.found = s.found /\ Count(R, i) = c
      BY <2>4, <2>6, <2>12 DEF PieceDone
    <3>2. \A k \in 1..i : IsRegion(R[k]) => /\ Count(R, k) \in 1..c
                                            /\ next.found[Count(R, k)] = Found(w, R, k)
      BY <2>9, <2>10, <2>12, <3>1
    <3>3. \A r \in 1..c : \E k \in 1..i : IsRegion(R[k]) /\ Count(R, k) = r
      <4>1. \A k \in 1..(i - 1) : k \in 1..i
        OBVIOUS
      <4> QED BY <2>9, <4>1
    <3>4. FoundSoFar(next, w, R, i)
      BY <2>7, <2>8, <3>1, <3>2, <3>3 DEF FoundSoFar
    <3> QED BY <2>1, <2>3, <3>4
  <2> QED BY <2>11, <2>12
<1>4. \A i \in 0..n : i \in T
  <2> HIDE DEF T
  <2>1. 0 <= n
    OBVIOUS
  <2> QED BY <1>2, <1>3, <2>1, Climb
<1>5. n \in 0..n
  OBVIOUS
<1> QED BY <1>1, <1>4, <1>5

\* The r-th region found is the one Choose means.
Chosen(R, site, r) == site \in 1..Len(R) /\ IsRegion(R[site]) /\ Count(R, site) = r

LEMMA RegionsFound ==
  ASSUME NEW R, Merged(R), NEW w, Written(w, R)
  PROVE  /\ Len(ParseRegions(Lines(R))) \in Nat
         /\ \A r \in 1..Len(ParseRegions(Lines(R))) : \A site :
              Chosen(R, site, r) => ParseRegions(Lines(R))[r] = Found(w, R, site)
         /\ \A r \in 1..Len(ParseRegions(Lines(R))) : \E site : Chosen(R, site, r)
<1>1. PICK n \in Nat : n = Len(R)
  BY Lengths DEF Merged
<1>2. PICK lines \in Seq(Strings) : lines = w[n]
  <2>1. R \in Seq(Pieces) /\ n \in 0..n
    BY <1>1 DEF Merged
  <2> QED BY <1>1, <2>1, WrittenTyped
<1>3. Lines(R) = lines
  BY <1>1, <1>2 DEF Written
<1>4. PICK f : Scanned(f, lines)
  BY LinesScanned
<1>5. PICK s : s = f[Len(lines)]
  OBVIOUS
<1>6. FoundSoFar(s, w, R, n)
  BY <1>1, <1>2, <1>4, <1>5, ResultScanned
<1>7. Scan(lines) = s
  BY <1>4, <1>5 DEF Scanned
<1>8. s.open.start = 0
  BY <1>6 DEF FoundSoFar, Closed
<1>9. ParseRegions(Lines(R)) = s.found
  BY <1>3, <1>7, <1>8 DEF ParseRegions
<1>10. PICK c \in Nat : c = Count(R, n)
  BY Counts
<1>11. Len(s.found) = c
  BY <1>6, <1>10 DEF FoundSoFar
<1>12. ASSUME NEW r \in 1..c, NEW site, Chosen(R, site, r) PROVE s.found[r] = Found(w, R, site)
  BY <1>1, <1>6, <1>12 DEF Chosen, FoundSoFar
<1>13. ASSUME NEW r \in 1..c PROVE \E site : Chosen(R, site, r)
  BY <1>1, <1>6, <1>10 DEF Chosen, FoundSoFar
<1> QED BY <1>9, <1>11, <1>12, <1>13

-----------------------------------------------------------------------------
(* Choosing a side of a region: in the lines, and in the merge result.      *)

Sides == {"ours", "theirs", "both"}

LEMMA SideTyped ==
  ASSUME NEW piece \in Pieces, IsRegion(piece), Unmistakable(piece), NEW side \in Sides
  PROVE  /\ Text(Side(piece, side)) \in Pieces /\ Unmistakable(Text(Side(piece, side)))
         /\ ~IsRegion(Text(Side(piece, side))) /\ PieceLines(Text(Side(piece, side))) = Side(piece, side)
         /\ Side(piece, side) \in Seq(STRING)
<1>1. PICK ours \in Seq(STRING), theirs \in Seq(STRING) : ours = piece.ours /\ theirs = piece.theirs
  BY DEF Pieces, IsRegion
<1>2. "<" \notin Range(ours) /\ "<" \notin Range(theirs)
  BY <1>1 DEF Unmistakable
<1>3. ours \o theirs \in Seq(STRING) /\ "<" \notin Range(ours \o theirs)
  <2>1. PICK both : both = ours \o theirs
    OBVIOUS
  <2>2. /\ both \in Seq(STRING) /\ Len(both) = Len(ours) + Len(theirs)
        /\ \A i \in 1..(Len(ours) + Len(theirs)) :
             both[i] = IF i <= Len(ours) THEN ours[i] ELSE theirs[i - Len(ours)]
    BY <2>1, ConcatProperties
  <2>3. /\ DOMAIN ours = 1..Len(ours) /\ Len(ours) \in Nat /\ DOMAIN both = 1..Len(both)
        /\ DOMAIN theirs = 1..Len(theirs) /\ Len(theirs) \in Nat
    BY <2>2, Lengths
  <2>4. \A i \in 1..Len(ours) : ours[i] # "<"
    BY <1>2, <2>3 DEF Range
  <2>5. \A i \in 1..Len(theirs) : theirs[i] # "<"
    BY <1>2, <2>3 DEF Range
  <2>6. \A i \in 1..(Len(ours) + Len(theirs)) : i <= Len(ours) \/ i - Len(ours) \in 1..Len(theirs)
    BY <2>3
  <2>7. \A i \in DOMAIN both : both[i] # "<"
    BY <2>2, <2>3, <2>4, <2>5, <2>6
  <2> QED BY <2>1, <2>2, <2>7 DEF Range
<1>4. PICK lines \in Seq(STRING) : lines = Side(piece, side) /\ "<" \notin Range(lines)
  BY <1>1, <1>2, <1>3 DEF Side, Sides
<1>5. Text(lines) \in Pieces /\ ~IsRegion(Text(lines)) /\ Text(lines).text = lines
  BY DEF Text, Pieces, IsRegion
<1> QED BY <1>4, <1>5 DEF Unmistakable, PieceLines

\* One piece of a result, replaced.
LEMMA Replaced ==
  ASSUME NEW R \in Seq(Pieces), NEW site \in 1..Len(R), NEW piece \in Pieces,
         NEW next, next = [R EXCEPT ![site] = piece]
  PROVE  /\ next \in Seq(Pieces) /\ Len(next) = Len(R) /\ next[site] = piece
         /\ \A i \in 1..Len(R) : i # site => next[i] = R[i]
<1>1. Len(R) \in Nat /\ R \in [1..Len(R) -> Pieces]
  BY LenProperties
<1>2. next \in [1..Len(R) -> Pieces]
  BY <1>1
<1>3. next \in Seq(Pieces) /\ Len(next) = Len(R)
  BY <1>1, <1>2, SeqDef, LenProperties
<1> QED BY <1>1, <1>3

\* The lines of the two results differ in that piece only.
Rest(x, y, before, after, z) == z \in Seq(Strings) /\ x = before \o z /\ y = after \o z

LEMMA Regrouped ==
  ASSUME NEW x \in Seq(Strings), NEW y \in Seq(Strings), NEW z \in Seq(Strings)
  PROVE  (x \o y) \o z = x \o (y \o z)
OBVIOUS

LEMMA LinesReplaced ==
  ASSUME NEW R \in Seq(Pieces), NEW site \in 1..Len(R), NEW piece \in Pieces,
         NEW next, next = [R EXCEPT ![site] = piece], NEW w, Written(w, R)
  PROVE  \E z : Rest(Lines(R), Lines(next), w[site], w[site - 1] \o PieceLines(piece), z)
<1>1. PICK n \in Nat : n = Len(R)
  BY Lengths
<1>2. /\ next \in Seq(Pieces) /\ Len(next) = n /\ next[site] = piece
      /\ \A i \in 1..n : i # site => next[i] = R[i]
  BY <1>1, Replaced
<1>3. PICK v : Written(v, next)
  BY <1>2, LinesWritten
<1>4. /\ v[0] = <<>> /\ w[0] = <<>> /\ Lines(R) = w[n] /\ Lines(next) = v[n]
      /\ \A i \in 1..n : w[i] = w[i - 1] \o PieceLines(R[i])
      /\ \A i \in 1..n : v[i] = v[i - 1] \o PieceLines(next[i])
  BY <1>1, <1>2, <1>3 DEF Written
<1>5. \A i \in 0..n : w[i] \in Seq(Strings) /\ v[i] \in Seq(Strings)
  BY <1>1, <1>2, <1>3, WrittenTyped
<1>6. v[site - 1] = w[site - 1]
  <2> DEFINE T == {i \in 0..(site - 1) : v[i] = w[i]}
  <2>1. 0 \in T
    BY <1>4
  <2>2. ASSUME NEW i \in (0 + 1)..(site - 1), i - 1 \in T PROVE i \in T
    <3>1. i \in 1..n /\ i # site /\ v[i - 1] = w[i - 1] /\ i \in 0..(site - 1)
      BY <1>1, <2>2
    <3>2. v[i] = v[i - 1] \o PieceLines(R[i]) /\ w[i] = w[i - 1] \o PieceLines(R[i])
      BY <1>2, <1>4, <3>1
    <3> QED BY <3>1, <3>2
  <2>3. \A i \in 0..(site - 1) : i \in T
    <3> HIDE DEF T
    <3>1. site - 1 \in Nat /\ 0 <= site - 1
      BY <1>1
    <3> QED BY <2>1, <2>2, <3>1, Climb
  <2>4. site - 1 \in 0..(site - 1)
    BY <1>1
  <2> QED BY <2>3, <2>4
<1>7. PICK before, after : before = w[site] /\ after = w[site - 1] \o PieceLines(piece)
  OBVIOUS
<1>8. v[site] = after /\ w[site] = before
  BY <1>1, <1>2, <1>4, <1>6, <1>7
<1>9. before \in Seq(Strings) /\ after \in Seq(Strings)
  <2>1. site \in 0..n
    BY <1>1
  <2> QED BY <1>5, <1>8, <2>1
<1> DEFINE T == {i \in site..n : \E z : Rest(w[i], v[i], before, after, z)}
<1>10. site \in T
  <2>1. before = before \o <<>> /\ after = after \o <<>> /\ <<>> \in Seq(Strings)
    BY <1>9, EmptySeq, ConcatEmptySeq
  <2>2. Rest(w[site], v[site], before, after, <<>>)
    BY <1>8, <2>1, Zenon DEF Rest
  <2>3. site \in site..n
    BY <1>1
  <2> QED BY <2>2, <2>3
<1>11. ASSUME NEW i \in (site + 1)..n, i - 1 \in T PROVE i \in T
  <2>1. i \in 1..n /\ i # site /\ i \in site..n
    BY <1>1
  <2>2. PICK z : Rest(w[i - 1], v[i - 1], before, after, z)
    BY <1>11
  <2>3. PICK p \in Seq(Strings) : p = PieceLines(R[i])
    <3>1. R[i] \in Pieces
      BY <1>1, <2>1, Lengths
    <3> QED BY <3>1, PieceLinesTyped
  <2>4. w[i] = (before \o z) \o p /\ v[i] = (after \o z) \o p /\ z \in Seq(Strings)
    BY <1>2, <1>4, <2>1, <2>2, <2>3 DEF Rest
  <2>5. (before \o z) \o p = before \o (z \o p) /\ (after \o z) \o p = after \o (z \o p)
    BY <1>9, <2>4, Regrouped, Zenon
  <2>6. z \o p \in Seq(Strings)
    BY <2>4, ConcatProperties
  <2>7. Rest(w[i], v[i], before, after, z \o p)
    BY <2>4, <2>5, <2>6 DEF Rest
  <2> QED BY <2>1, <2>7
<1>12. \A i \in site..n : i \in T
  <2> HIDE DEF T
  <2>1. site \in Nat /\ site <= n
    BY <1>1
  <2> QED BY <1>10, <1>11, <2>1, Climb
<1>13. n \in site..n
  BY <1>1
<1>14. PICK z : Rest(w[n], v[n], before, after, z)
  BY <1>12, <1>13
<1> QED BY <1>4, <1>7, <1>14

LEMMA StandsThere ==
  ASSUME NEW lines \in Seq(Strings), NEW p \in Seq(Strings), NEW from, NEW n, n = Len(p),
         Stands(lines, from, p, n)
  PROVE  SubSeq(lines, from + 1, from + n) = p
<1>1. /\ from \in Nat /\ n \in Nat /\ from + n <= Len(lines)
      /\ \A q \in 1..n : lines[from + q] = p[q]
  BY DEF Stands
<1> QED BY <1>1, PartIs

\* The two ends of a sequence.
LEMMA TwoEnds ==
  ASSUME NEW s \in Seq(Strings), NEW t \in Seq(Strings), NEW r, r = s \o t
  PROVE  /\ SubSeq(r, 1, Len(s)) = s
         /\ SubSeq(r, Len(s) + 1, Len(r)) = t
<1>1. PICK m \in Nat, n \in Nat : m = Len(s) /\ n = Len(t)
  BY Lengths
<1>2. Chain(r, s, m, t, n)
  BY <1>1, Chained
<1>3. SubSeq(r, 0 + 1, 0 + m) = s
  <2>1. r \in Seq(Strings) /\ 0 + m <= Len(r) /\ \A q \in 1..m : r[0 + q] = s[q]
    BY <1>2 DEF Chain
  <2> QED BY <1>1, <2>1, PartIs
<1>4. SubSeq(r, m + 1, m + n) = t
  <2>1. r \in Seq(Strings) /\ Stands(r, m, t, n)
    BY <1>2 DEF Chain, Stands
  <2> QED BY <1>1, <2>1, StandsThere
<1>5. Len(r) = m + n /\ 0 + 1 = 1 /\ 0 + m = m
  BY <1>2 DEF Chain
<1> QED BY <1>1, <1>3, <1>4, <1>5

\* The choice of a side is made at a region, and the rest stays.
LEMMA ChoiceMade ==
  ASSUME NEW R, Merged(R), NEW side \in Sides, NEW region, NEW any, Chosen(R, any, region)
  PROVE  \E site : /\ Chosen(R, site, region)
                   /\ Choose(R, region, side) = [R EXCEPT ![site] = Text(Side(R[site], side))]
                   /\ Merged(Choose(R, region, side))
<1>1. PICK n \in Nat : n = Len(R) /\ R \in Seq(Pieces) /\ DOMAIN R = 1..n
  BY Lengths DEF Merged
<1>2. PICK site : site = CHOOSE i \in DOMAIN R : Site(R, region, i)
  OBVIOUS
<1>3. Chosen(R, site, region)
  <2>1. \E i \in DOMAIN R : Site(R, region, i)
    BY <1>1 DEF Chosen, Count, Site
  <2>2. site \in DOMAIN R /\ Site(R, region, site)
    BY <1>2, <2>1
  <2> QED BY <1>1, <2>2 DEF Chosen, Count, Site
<1>4. site \in 1..n /\ IsRegion(R[site]) /\ R[site] \in Pieces /\ Unmistakable(R[site])
  <2>1. site \in 1..n /\ IsRegion(R[site])
    BY <1>1, <1>3 DEF Chosen
  <2> QED BY <1>1, <2>1, Lengths DEF Merged
<1>5. PICK lines : lines = Side(R[site], side)
  OBVIOUS
<1>6. Text(lines) \in Pieces /\ Unmistakable(Text(lines))
  BY <1>4, <1>5, SideTyped
<1>7. PICK next : next = [R EXCEPT ![site] = Text(lines)]
  OBVIOUS
<1>8. Choose(R, region, side) = next
  BY <1>1, <1>2, <1>4, <1>5, <1>7 DEF Choose
<1>9. /\ next \in Seq(Pieces) /\ Len(next) = n /\ next[site] = Text(lines)
      /\ \A i \in 1..n : i # site => next[i] = R[i]
  BY <1>1, <1>4, <1>6, <1>7, Replaced
<1>10. Merged(next)
  <2>1. \A i \in 1..n : Unmistakable(next[i])
    BY <1>1, <1>6, <1>9 DEF Merged
  <2> QED BY <1>9, <2>1 DEF Merged
<1> QED BY <1>3, <1>5, <1>7, <1>8, <1>10

LEMMA ChoiceRight ==
  ASSUME NEW R, Merged(R), NEW side \in Sides, NEW region \in 1..Len(ParseRegions(Lines(R)))
  PROVE  /\ Apply(Lines(R), region, side) = Lines(Choose(R, region, side))
         /\ Merged(Choose(R, region, side))
<1>1. PICK n \in Nat : n = Len(R) /\ R \in Seq(Pieces) /\ DOMAIN R = 1..n
  BY Lengths DEF Merged
<1>2. PICK w : Written(w, R)
  BY <1>1, LinesWritten
<1>3. PICK any : Chosen(R, any, region)
  BY <1>2, RegionsFound
<1>4. PICK site : /\ Chosen(R, site, region)
                  /\ Choose(R, region, side) = [R EXCEPT ![site] = Text(Side(R[site], side))]
                  /\ Merged(Choose(R, region, side))
  BY <1>3, ChoiceMade
<1>5. site \in 1..n /\ IsRegion(R[site]) /\ R[site] \in Pieces /\ Unmistakable(R[site])
  <2>1. site \in 1..n /\ IsRegion(R[site])
    BY <1>1, <1>4 DEF Chosen
  <2> QED BY <1>1, <2>1, Lengths DEF Merged
<1>6. PICK lines : lines = Side(R[site], side)
  OBVIOUS
<1>7. /\ Text(lines) \in Pieces /\ Unmistakable(Text(lines)) /\ PieceLines(Text(lines)) = lines
  BY <1>5, <1>6, SideTyped
<1>8. PICK next : next = [R EXCEPT ![site] = Text(lines)]
  OBVIOUS
<1>9. Choose(R, region, side) = next
  BY <1>4, <1>6, <1>8
<1>11. Merged(next)
  BY <1>4, <1>9
<1>12. PICK z : Rest(Lines(R), Lines(next), w[site], w[site - 1] \o lines, z)
  <2>1. \E z : Rest(Lines(R), Lines(next), w[site], w[site - 1] \o PieceLines(Text(lines)), z)
    BY <1>1, <1>2, <1>5, <1>7, <1>8, LinesReplaced
  <2> QED BY <1>7, <2>1
<1>13. ParseRegions(Lines(R))[region] = Found(w, R, site)
  BY <1>2, <1>4, RegionsFound
<1>14. PICK r : r = ParseRegions(Lines(R))[region]
  OBVIOUS
<1>15. /\ r.start - 1 = Len(w[site - 1]) /\ r.end = Len(w[site]) /\ Side(r, side) = lines
  <2>1. r = [start |-> Len(w[site - 1]) + 1, end |-> Len(w[site]), ours |-> R[site].ours, theirs |-> R[site].theirs]
    BY <1>13, <1>14 DEF Found
  <2>2. w[site - 1] \in Seq(Strings) /\ Len(w[site - 1]) \in Nat
    <3>1. site - 1 \in 0..n
      BY <1>5
    <3>2. w[site - 1] \in Seq(Strings)
      BY <1>1, <1>2, <3>1, WrittenTyped
    <3> QED BY <3>2, Lengths
  <2>3. r.start = Len(w[site - 1]) + 1 /\ r.end = Len(w[site]) /\ r.ours = R[site].ours /\ r.theirs = R[site].theirs
    BY <2>1
  <2>4. Side(r, side) = lines
    BY <1>6, <2>3 DEF Side
  <2> QED BY <2>2, <2>3, <2>4
<1>22. PICK l : l = Lines(R)
  OBVIOUS
<1>16. PICK x \in Seq(Strings), y \in Seq(Strings), p \in Seq(Strings) :
         x = w[site - 1] /\ y = w[site] /\ p = PieceLines(R[site])
  <2>1. site - 1 \in 0..n /\ site \in 0..n
    BY <1>5
  <2>2. w[site - 1] \in Seq(Strings) /\ w[site] \in Seq(Strings)
    BY <1>1, <1>2, <2>1, WrittenTyped
  <2> QED BY <1>5, <2>2, PieceLinesTyped
<1>17. y = x \o p /\ l = y \o z /\ z \in Seq(Strings) /\ Lines(next) = (x \o lines) \o z
  BY <1>1, <1>2, <1>5, <1>12, <1>16, <1>22 DEF Written, Rest
<1>18. SubSeq(l, Len(y) + 1, Len(l)) = z
  BY <1>17, TwoEnds
<1>19. SubSeq(l, 1, Len(x)) = x
  <2>1. (x \o p) \o z = x \o (p \o z)
    BY <1>17, Regrouped, Zenon
  <2>2. p \o z \in Seq(Strings)
    BY <1>17, ConcatProperties
  <2>3. l = x \o (p \o z)
    BY <1>17, <2>1
  <2> QED BY <2>2, <2>3, TwoEnds
<1>20. Apply(Lines(R), region, side) =
         SubSeq(l, 1, r.start - 1) \o Side(r, side) \o SubSeq(l, r.end + 1, Len(l))
  BY <1>14, <1>22 DEF Apply
<1>21. Apply(Lines(R), region, side) = (x \o lines) \o z
  BY <1>15, <1>16, <1>18, <1>19, <1>20
<1> QED BY <1>9, <1>11, <1>17, <1>21

-----------------------------------------------------------------------------
(* The inductive invariant: what the program reads, shows or writes are the *)
(* lines of a merge result; those of a file no choice was renamed over      *)
(* unread are the ones it ought to have.                                    *)

Held(lines) == \E R : Merged(R) /\ lines = Lines(R)
Good(file) ==
  /\ Held(file.lines) /\ Merged(file.ought)
  /\ ~file.raced => file.lines = Lines(file.ought)

LoadHolds(l) ==
  DOMAIN l = {"request", "path", "read", "lines"} /\ l.path \in Range(Paths) /\ Held(l.lines)

ChoiceHolds(c) ==
  /\ DOMAIN c = {"path", "region", "side", "shown", "met", "at"} /\ c.region \in Nat
  /\ c.region > 0 => Held(c.shown) /\ c.side \in Sides
  /\ c.at = "read" => /\ c.met = c.shown /\ Held(c.shown) /\ c.side \in Sides
                      /\ c.region \in 1..Len(ParseRegions(c.shown))

FilesHold == /\ DOMAIN files = Range(Paths) /\ DOMAIN staged = Range(Paths)
             /\ \A p \in Range(Paths) : Good(files[p]) /\ Good(staged[p])
ViewHolds == list \in Seq(Range(Paths)) /\ chosen \in Nat /\ hunk \in Nat /\ Held(detail.lines)
LoadsHold == \A l \in loads : LoadHolds(l)
ChoicesHold == \A c \in choices : ChoiceHolds(c)
ConflictInv == FilesHold /\ ViewHolds /\ LoadsHold /\ ChoicesHold

LEMMA FileOfGood ==
  ASSUME NEW R, Merged(R)
  PROVE  Good(FileOf(R))
BY DEF Good, Held, FileOf

LEMMA NothingHeld == Held(<<>>)
<1>1. <<>> \in Seq(Pieces) /\ Len(<<>>) = 0
  BY EmptySeq
<1>2. PICK e : e = <<>>
  OBVIOUS
<1>3. e \in Seq(Pieces) /\ Len(e) = 0
  BY <1>1, <1>2, Zenon
<1>4. Merged(e)
  BY <1>3 DEF Merged
<1>5. PICK w : Written(w, e)
  BY <1>3, LinesWritten
<1>6. Lines(e) = w[0] /\ w[0] = <<>>
  BY <1>3, <1>5, Zenon DEF Written
<1>7. Lines(e) = <<>>
  BY <1>6, Zenon
<1> QED BY <1>4, <1>7, Zenon DEF Held

LEMMA ElsewhereMerged ==
  ASSUME Unambiguous, NEW R \in Elsewhere
  PROVE  Merged(R)
<1>1. R \in Seq(Pieces) /\ DOMAIN R = 1..Len(R)
  BY ConflictBounds, Lengths
<1>2. R \in Results
  BY DEF Results
<1> QED BY <1>1, <1>2 DEF Unambiguous, Merged

LEMMA MergeOfMerged ==
  ASSUME Unambiguous, NEW p \in Range(Paths)
  PROVE  Merged(MergeOf[p])
BY ConflictBounds, ElsewhereMerged

LEMMA BlobMerged ==
  ASSUME Unambiguous, NEW p \in Range(Paths), NEW side \in {"ours", "theirs"}
  PROVE  Merged(BlobOf[p][side])
<1>1. PICK R : R = BlobOf[p][side]
  OBVIOUS
<1>2. R \in Seq(Pieces) /\ DOMAIN R = 1..Len(R)
  <2>1. BlobOf \in [Range(Paths) -> [{"ours", "theirs"} -> Seq(Pieces)]]
    BY ConflictBounds, Zenon
  <2>2. BlobOf[p] \in [{"ours", "theirs"} -> Seq(Pieces)]
    BY <2>1
  <2>3. R \in Seq(Pieces)
    BY <1>1, <2>2
  <2> QED BY <2>3, Lengths
<1>3. R \in Results
  <2>1. R \in {BlobOf[p]["ours"], BlobOf[p]["theirs"]}
    BY <1>1
  <2> QED BY <2>1 DEF Results
<1>4. Merged(R)
  BY <1>2, <1>3 DEF Unambiguous, Merged
<1> QED BY <1>1, <1>4

LEMMA HeldRegions ==
  ASSUME NEW lines, Held(lines)
  PROVE  Len(ParseRegions(lines)) \in Nat
<1>1. PICK R : Merged(R) /\ lines = Lines(R)
  BY DEF Held
<1>2. PICK w : Written(w, R)
  BY <1>1, LinesWritten DEF Merged
<1> QED BY <1>1, <1>2, RegionsFound

\* What a choice asks for is a merge result, and of the file that it was made in the one
\* with the region it names replaced.
LEMMA IntendedMerged ==
  ASSUME NEW R, Merged(R), NEW c, c.side \in Sides
  PROVE  Merged(Intended(R, c))
<1>1. CASE Intended(R, c) = R
  BY <1>1
<1>2. CASE Intended(R, c) # R
  <2>1. PICK i \in DOMAIN R : Site(R, c.region, i) /\ Intended(R, c) = Choose(R, c.region, c.side)
    BY <1>2 DEF Intended
  <2>2. DOMAIN R = 1..Len(R)
    BY Lengths DEF Merged
  <2>3. Chosen(R, i, c.region)
    BY <2>1, <2>2 DEF Chosen, Count, Site
  <2>4. Merged(Choose(R, c.region, c.side))
    BY <2>3, ChoiceMade
  <2> QED BY <2>1, <2>4
<1> QED BY <1>1, <1>2

LEMMA IntendedRight ==
  ASSUME NEW R, Merged(R), NEW c, c.shown = Lines(R), c.region \in 1..Len(ParseRegions(Lines(R)))
  PROVE  Intended(R, c) = Choose(R, c.region, c.side)
<1>1. PICK w : Written(w, R)
  BY LinesWritten DEF Merged
<1>2. PICK i : Chosen(R, i, c.region) /\ ParseRegions(Lines(R))[c.region] = Found(w, R, i)
  BY <1>1, RegionsFound
<1>3. PICK asked : asked = ParseRegions(c.shown)[c.region]
  OBVIOUS
<1>4. asked.ours = R[i].ours /\ asked.theirs = R[i].theirs
  BY <1>2, <1>3 DEF Found
<1>5. i \in DOMAIN R /\ Site(R, c.region, i)
  <2>1. DOMAIN R = 1..Len(R)
    BY Lengths DEF Merged
  <2> QED BY <1>2, <2>1 DEF Chosen, Count, Site
<1> QED BY <1>3, <1>4, <1>5 DEF Intended

\* One file replaced by a good one, in the worktree or in the index.
LEMMA FileKeeps ==
  ASSUME FilesHold, NEW p, NEW file, Good(file),
         \/ files' = [files EXCEPT ![p] = file] /\ UNCHANGED staged
         \/ staged' = [staged EXCEPT ![p] = file] /\ UNCHANGED files
  PROVE  FilesHold'
<1>1. DOMAIN files' = DOMAIN files /\ DOMAIN staged' = DOMAIN staged
  OBVIOUS
<1>2. ASSUME NEW q \in Range(Paths) PROVE Good(files'[q]) /\ Good(staged'[q])
  <2>1. files'[q] = file \/ files'[q] = files[q]
    BY DEF FilesHold
  <2>2. staged'[q] = file \/ staged'[q] = staged[q]
    BY DEF FilesHold
  <2> QED BY <2>1, <2>2 DEF FilesHold
<1> QED BY <1>1, <1>2 DEF FilesHold, Good

LEMMA ListedTyped ==
  ASSUME NEW paths
  PROVE  Listed(paths) \in Seq(Range(Paths))
<1>1. PICK n \in Nat : n = Len(Paths) /\ DOMAIN Paths = 1..n
  BY Lengths, ConflictBounds
<1>2. PICK f : Listing(f, paths)
  BY PathsListed
<1>3. PICK S : S = Range(Paths)
  OBVIOUS
<1> DEFINE T == {i \in 0..n : f[i] \in Seq(S)}
<1>4. 0 \in T
  <2>1. f[0] \in Seq(S)
    BY <1>2, EmptySeq, Zenon DEF Listing
  <2> QED BY <2>1
<1>5. ASSUME NEW i \in (0 + 1)..n, i - 1 \in T PROVE i \in T
  <2>1. i \in 1..n /\ i \in 0..n /\ f[i - 1] \in Seq(S) /\ Paths[i] \in S
    BY <1>1, <1>3, <1>5 DEF Range
  <2>2. f[i] = IF Paths[i] \in paths THEN Append(f[i - 1], Paths[i]) ELSE f[i - 1]
    BY <1>1, <1>2, <2>1 DEF Listing, Longer
  <2>3. f[i] \in Seq(S)
    BY <2>1, <2>2, AppendProperties
  <2> QED BY <2>1, <2>3
<1>6. \A i \in 0..n : i \in T
  <2> HIDE DEF T
  <2>1. 0 <= n
    OBVIOUS
  <2> QED BY <1>4, <1>5, <2>1, Climb
<1>7. n \in 0..n
  OBVIOUS
<1> QED BY <1>1, <1>2, <1>3, <1>6, <1>7 DEF Listing

\* A place of the list that is within it.
LEMMA WithinList ==
  ASSUME NEW s \in Seq(Range(Paths)), NEW i \in DOMAIN s
  PROVE  s[i] \in Range(Paths) /\ i \in Nat /\ s[i] # ""
<1>1. s[i] \in Range(Paths) /\ i \in Nat
  BY LenProperties
<1>2. \A p \in Range(Paths) : p # ""
  <2>1. PICK none : none = ""
    OBVIOUS
  <2>2. none \notin Range(Paths)
    BY <2>1, ConflictBounds, Zenon
  <2>3. \A p \in Range(Paths) : p # none
    BY <2>2
  <2> QED BY <2>1, <2>3, Zenon
<1> QED BY <1>1, <1>2

LEMMA LoadKeeps ==
  ASSUME LoadsHold, NEW path \in Range(Paths) \cup {""}, LoadFor(path)
  PROVE  LoadsHold'
<1>1. PICK none : none = <<>> /\ Held(none)
  BY NothingHeld, Zenon
<1>2. CASE path = ""
  <2>1. UNCHANGED loads
    BY <1>2, Zenon DEF LoadFor
  <2> QED BY <2>1 DEF LoadsHold, LoadHolds
<1>3. CASE path # ""
  <2>1. path \in Range(Paths)
    BY <1>3, Zenon
  <2>2. PICK l : l = [request |-> loadRequest + 1, path |-> path, read |-> FALSE, lines |-> none]
    OBVIOUS
  <2>3. loads' = {x \in loads : x.read} \cup {l}
    BY <1>1, <1>3, <2>2, Zenon DEF LoadFor
  <2>4. LoadHolds(l)
    BY <1>1, <2>1, <2>2 DEF LoadHolds
  <2>5. \A x \in loads' : LoadHolds(x)
    BY <2>3, <2>4 DEF LoadsHold
  <2> QED BY <2>5 DEF LoadsHold, LoadHolds, Good
<1> QED BY <1>2, <1>3, Zenon

LEMMA SelectedTyped ==
  ASSUME ViewHolds
  PROVE  Selected \in Range(Paths) \cup {""}
<1>1. CASE chosen \in DOMAIN list
  BY <1>1, WithinList DEF Selected, ViewHolds
<1>2. CASE chosen \notin DOMAIN list
  BY <1>2, Zenon DEF Selected
<1> QED BY <1>1, <1>2

LEMMA RoundTheList ==
  ASSUME NEW n \in Nat \ {0}, NEW x \in Int
  PROVE  (x % n) + 1 \in 1..n
OBVIOUS

\* What an action leaves alone stays as the invariant has it.
LEMMA Unchanged ==
  ASSUME ConflictInv
  PROVE  /\ UNCHANGED <<files, staged>> => FilesHold'
         /\ UNCHANGED <<list, chosen, hunk, detail>> => ViewHolds'
         /\ UNCHANGED loads => LoadsHold'
         /\ UNCHANGED choices => ChoicesHold'
<1>1. UNCHANGED <<files, staged>> => FilesHold'
  BY DEF ConflictInv, FilesHold, Good
<1>2. UNCHANGED <<list, chosen, hunk, detail>> => ViewHolds'
  BY DEF ConflictInv, ViewHolds, Good
<1>3. UNCHANGED loads => LoadsHold'
  BY DEF ConflictInv, LoadsHold, LoadHolds, Good
<1>4. UNCHANGED choices => ChoicesHold'
  BY DEF ConflictInv, ChoicesHold, ChoiceHolds, Good
<1> QED BY <1>1, <1>2, <1>3, <1>4

LEMMA ConflictOutsideKeeps ==
  ASSUME Unambiguous, ConflictInv, ConflictOutside
  PROVE  ConflictInv'
<1>1. UNCHANGED <<list, chosen, hunk, detail, loads, choices>>
  BY DEF ConflictOutside
<1>2. PICK p \in Range(Paths) :
        \/ (\E result \in Elsewhere : files' = [files EXCEPT ![p] = FileOf(result)]) /\ UNCHANGED staged
        \/ UNCHANGED <<files, staged>>
        \/ staged' = [staged EXCEPT ![p] = files[p]] /\ UNCHANGED files
  BY DEF ConflictOutside
<1>3. FilesHold'
  <2>1. CASE UNCHANGED <<files, staged>>
    BY <2>1, Unchanged
  <2>2. ASSUME NEW result \in Elsewhere, files' = [files EXCEPT ![p] = FileOf(result)], UNCHANGED staged
        PROVE  FilesHold'
    <3>1. PICK file : file = FileOf(result) /\ Good(file)
      BY ElsewhereMerged, FileOfGood
    <3>2. files' = [files EXCEPT ![p] = file]
      BY <2>2, <3>1
    <3> QED BY <2>2, <3>1, <3>2, FileKeeps DEF ConflictInv
  <2>3. CASE staged' = [staged EXCEPT ![p] = files[p]] /\ UNCHANGED files
    <3>1. PICK file : file = files[p] /\ Good(file)
      BY DEF ConflictInv, FilesHold
    <3>2. staged' = [staged EXCEPT ![p] = file]
      BY <2>3, <3>1
    <3> QED BY <2>3, <3>1, <3>2, FileKeeps DEF ConflictInv
  <2> QED BY <1>2, <2>1, <2>2, <2>3
<1> QED BY <1>1, <1>3, Unchanged DEF ConflictInv

LEMMA SnapshotKeeps ==
  ASSUME ConflictInv, ConflictSnapshot
  PROVE  ConflictInv'
<1>1. /\ list' = Listed(unmerged) /\ detail' = NoDetail /\ loads' = {l \in loads : l.read}
      /\ UNCHANGED <<files, staged, hunk, choices>>
      /\ chosen' = IF list' = <<>> THEN 0
                   ELSE IF \E i \in DOMAIN list' : list'[i] = Selected
                          THEN CHOOSE i \in DOMAIN list' : list'[i] = Selected ELSE 1
  BY DEF ConflictSnapshot
<1>2. list' \in Seq(Range(Paths))
  BY <1>1, ListedTyped
<1>3. chosen' \in Nat
  <2>1. DOMAIN list' \subseteq Nat
    BY <1>2, Lengths
  <2>2. CASE list' # <<>> /\ \E i \in DOMAIN list' : list'[i] = Selected
    <3>1. chosen' = CHOOSE i \in DOMAIN list' : list'[i] = Selected
      BY <1>1, <2>2, Zenon
    <3>2. chosen' \in DOMAIN list'
      BY <2>2, <3>1
    <3> QED BY <2>1, <3>2
  <2>3. CASE ~(list' # <<>> /\ \E i \in DOMAIN list' : list'[i] = Selected)
    <3>1. chosen' = 0 \/ chosen' = 1
      BY <1>1, <2>3, Zenon
    <3> QED BY <3>1
  <2> QED BY <2>2, <2>3
<1>4. Held(detail'.lines)
  <2>1. PICK none : none = <<>> /\ Held(none)
    BY NothingHeld, Zenon
  <2>2. detail'.lines = none
    BY <1>1, <2>1 DEF NoDetail
  <2> QED BY <2>1, <2>2
<1>5. ViewHolds'
  BY <1>1, <1>2, <1>3, <1>4 DEF ConflictInv, ViewHolds
<1>6. LoadsHold'
  BY <1>1 DEF ConflictInv, LoadsHold, LoadHolds, Good
<1> QED BY <1>1, <1>5, <1>6, Unchanged DEF ConflictInv

LEMMA ViewKeeps ==
  ASSUME ConflictInv, OpenConflicts \/ MoveConflict \/ PointConflict \/ MoveRegion
  PROVE  ConflictInv'
<1>0. UNCHANGED <<files, staged, list, detail, choices>>
  BY DEF OpenConflicts, MoveConflict, PointConflict, MoveRegion
<1>1. CASE OpenConflicts
  <2>1. UNCHANGED <<list, chosen, hunk, detail>> /\ LoadFor(Selected)
    BY <1>1 DEF OpenConflicts
  <2>2. PICK path \in Range(Paths) \cup {""} : path = Selected
    BY SelectedTyped DEF ConflictInv
  <2>3. LoadsHold'
    BY <2>1, <2>2, LoadKeeps DEF ConflictInv
  <2> QED BY <1>0, <2>1, <2>3, Unchanged DEF ConflictInv
<1>2. CASE MoveConflict
  <2>1. /\ list # <<>> /\ hunk' = 0 /\ LoadFor(list[chosen'])
        /\ \E delta \in {-1, 1} : chosen' = ((chosen - 1 + delta + Len(list)) % Len(list)) + 1
    BY <1>2 DEF MoveConflict
  <2>2. list \in Seq(Range(Paths)) /\ chosen \in Nat
    BY DEF ConflictInv, ViewHolds
  <2>3. PICK n \in Nat \ {0} : n = Len(list)
    BY <2>1, <2>2, EmptySeq, Lengths
  <2>4. PICK x \in Int : chosen' = (x % n) + 1
    <3>1. PICK delta \in {-1, 1} : chosen' = ((chosen - 1 + delta + Len(list)) % Len(list)) + 1
      BY <2>1
    <3>2. PICK x \in Int : x = chosen - 1 + delta + n
      BY <2>2
    <3> QED BY <2>3, <3>1, <3>2
  <2>5. chosen' \in DOMAIN list
    BY <2>2, <2>3, <2>4, RoundTheList, Lengths
  <2>6. list[chosen'] \in Range(Paths) /\ chosen' \in Nat
    BY <2>2, <2>5, WithinList
  <2>7. ViewHolds'
    BY <1>0, <2>1, <2>6 DEF ConflictInv, ViewHolds, Good
  <2>8. LoadsHold'
    <3>1. PICK path \in Range(Paths) \cup {""} : path = list[chosen']
      BY <2>6
    <3> QED BY <2>1, <3>1, LoadKeeps DEF ConflictInv
  <2> QED BY <1>0, <2>7, <2>8, Unchanged DEF ConflictInv
<1>3. CASE PointConflict
  <2>1. chosen' \in DOMAIN list /\ hunk' \in {hunk, 0} /\ UNCHANGED loads
    BY <1>3 DEF PointConflict
  <2>2. chosen' \in Nat
    BY <2>1, WithinList DEF ConflictInv, ViewHolds
  <2>3. ViewHolds'
    BY <1>0, <2>1, <2>2 DEF ConflictInv, ViewHolds, Good
  <2> QED BY <1>0, <2>1, <2>3, Unchanged DEF ConflictInv
<1>4. CASE MoveRegion
  <2>1. /\ hunk' = LET count == Max({1, Regions}) IN (hunk + 1 + count) % count
        /\ UNCHANGED <<chosen, loads>>
    BY <1>4 DEF MoveRegion
  <2>2. PICK k \in Nat : k = Regions
    BY HeldRegions DEF ConflictInv, ViewHolds, Regions
  <2>3. PICK count : count = Max({1, k})
    OBVIOUS
  <2>4. count \in Nat \ {0}
    <3>1. \E x \in {1, k} : \A y \in {1, k} : x >= y
      OBVIOUS
    <3>2. count \in {1, k} /\ \A y \in {1, k} : count >= y
      BY <2>3, <3>1 DEF Max
    <3> QED BY <3>2
  <2>5. hunk' = (hunk + 1 + count) % count /\ hunk \in Nat
    BY <2>1, <2>2, <2>3 DEF ConflictInv, ViewHolds
  <2>6. PICK x \in Int : x = hunk + 1 + count
    BY <2>4, <2>5
  <2>7. (x % count) + 1 \in 1..count
    BY <2>4, RoundTheList
  <2>8. hunk' \in Nat
    <3>1. x % count \in Int
      BY <2>4
    <3> QED BY <2>5, <2>6, <2>7, <3>1
  <2>9. ViewHolds'
    BY <1>0, <2>1, <2>8 DEF ConflictInv, ViewHolds, Good
  <2> QED BY <1>0, <2>1, <2>9, Unchanged DEF ConflictInv
<1> QED BY <1>1, <1>2, <1>3, <1>4

LEMMA ContentKeeps ==
  ASSUME ConflictInv, ReadContent \/ ContentReady
  PROVE  ConflictInv'
<1>1. CASE ReadContent
  <2>1. PICK l \in loads :
          loads' = (loads \ {l}) \cup {[l EXCEPT !.read = TRUE, !.lines = files[l.path].lines]}
    BY <1>1 DEF ReadContent
  <2>2. UNCHANGED <<files, staged, list, chosen, hunk, detail, choices>>
    BY <1>1 DEF ReadContent
  <2>3. LoadHolds(l)
    BY DEF ConflictInv, LoadsHold
  <2>4. PICK read : read = [l EXCEPT !.read = TRUE, !.lines = files[l.path].lines]
    OBVIOUS
  <2>5. Held(files[l.path].lines)
    BY <2>3 DEF LoadHolds, ConflictInv, FilesHold, Good
  <2>6. LoadHolds(read)
    <3>1. /\ DOMAIN read = DOMAIN l /\ read.path = l.path
          /\ read.lines = files[l.path].lines
      BY <2>3, <2>4 DEF LoadHolds
    <3>2. Held(read.lines)
      BY <2>5, <3>1
    <3> QED BY <2>3, <3>1, <3>2 DEF LoadHolds
  <2>7. \A x \in loads' : LoadHolds(x)
    BY <2>1, <2>4, <2>6 DEF ConflictInv, LoadsHold
  <2>8. LoadsHold'
    BY <2>7 DEF LoadsHold, LoadHolds
  <2> QED BY <2>2, <2>8, Unchanged DEF ConflictInv
<1>2. CASE ContentReady
  <2>1. PICK l \in loads :
          /\ loads' = loads \ {l}
          /\ detail' = IF l.request = loadRequest /\ l.path = Selected
                         THEN [path |-> l.path, lines |-> l.lines] ELSE detail
    BY <1>2 DEF ContentReady
  <2>2. UNCHANGED <<files, staged, list, chosen, hunk, choices>>
    BY <1>2 DEF ContentReady
  <2>3. LoadsHold'
    BY <2>1 DEF ConflictInv, LoadsHold, LoadHolds, Good
  <2>4. detail'.lines = l.lines \/ detail'.lines = detail.lines
    BY <2>1
  <2>5. Held(l.lines) /\ Held(detail.lines)
    BY DEF ConflictInv, LoadsHold, LoadHolds, ViewHolds
  <2>6. ViewHolds'
    BY <2>2, <2>4, <2>5 DEF ConflictInv, ViewHolds, Good
  <2> QED BY <2>2, <2>3, <2>6, Unchanged DEF ConflictInv
<1> QED BY <1>1, <1>2

\* One choice taken further.
LEMMA ChoicesKeep ==
  ASSUME ChoicesHold, NEW c \in choices, NEW next, ChoiceHolds(next),
         choices' = (choices \ {c}) \cup {next}
  PROVE  ChoicesHold'
<1>1. \A x \in choices' : ChoiceHolds(x)
  BY DEF ChoicesHold
<1> QED BY <1>1 DEF ChoicesHold, ChoiceHolds, Good

LEMMA DoneHolds ==
  ASSUME NEW c, ChoiceHolds(c), NEW done, done = [c EXCEPT !.at = "done"]
  PROVE  ChoiceHolds(done)
<1>1. /\ DOMAIN done = DOMAIN c /\ done.region = c.region /\ done.shown = c.shown
      /\ done.side = c.side /\ done.at = "done"
  BY DEF ChoiceHolds
<1>2. done.at # "read"
  BY <1>1
<1> QED BY <1>1, <1>2 DEF ChoiceHolds

LEMMA ChoiceAskKeeps ==
  ASSUME ConflictInv, ChooseRegion \/ ChooseWhole
  PROVE  ConflictInv'
<1>0. UNCHANGED <<files, staged, list, chosen, hunk, detail, loads>>
  BY DEF ChooseRegion, ChooseWhole
<1>1. CASE ChooseRegion
  <2>1. PICK side \in Sides :
          choices' = choices \cup {[path |-> Selected, region |-> hunk + 1, side |-> side,
                                    shown |-> detail.lines, met |-> <<>>, at |-> "asked"]}
    BY <1>1 DEF ChooseRegion, Sides
  <2>2. PICK c : c = [path |-> Selected, region |-> hunk + 1, side |-> side,
                      shown |-> detail.lines, met |-> <<>>, at |-> "asked"]
    OBVIOUS
  <2>3. ChoiceHolds(c)
    <3>1. Held(detail.lines) /\ hunk + 1 \in Nat
      BY DEF ConflictInv, ViewHolds
    <3>2. /\ DOMAIN c = {"path", "region", "side", "shown", "met", "at"}
          /\ c.region = hunk + 1 /\ c.shown = detail.lines /\ c.side = side /\ c.at = "asked"
      BY <2>2
    <3>3. c.at # "read"
      BY <3>2
    <3> QED BY <3>1, <3>2, <3>3 DEF ChoiceHolds
  <2>4. \A x \in choices' : ChoiceHolds(x)
    BY <2>1, <2>2, <2>3 DEF ConflictInv, ChoicesHold
  <2>5. ChoicesHold'
    BY <2>4 DEF ChoicesHold, ChoiceHolds, Good
  <2> QED BY <1>0, <2>5, Unchanged DEF ConflictInv
<1>2. CASE ChooseWhole
  <2>1. PICK side, none :
          choices' = choices \cup {[path |-> Selected, region |-> 0, side |-> side,
                                    shown |-> none, met |-> <<>>, at |-> "asked"]}
    BY <1>2 DEF ChooseWhole
  <2>2. PICK c : c = [path |-> Selected, region |-> 0, side |-> side,
                      shown |-> none, met |-> <<>>, at |-> "asked"]
    OBVIOUS
  <2>3. ChoiceHolds(c)
    <3>1. /\ DOMAIN c = {"path", "region", "side", "shown", "met", "at"}
          /\ c.region = 0 /\ c.at = "asked"
      BY <2>2
    <3>2. c.at # "read"
      BY <3>1
    <3> QED BY <3>1, <3>2 DEF ChoiceHolds
  <2>4. \A x \in choices' : ChoiceHolds(x)
    BY <2>1, <2>2, <2>3 DEF ConflictInv, ChoicesHold
  <2>5. ChoicesHold'
    BY <2>4 DEF ChoicesHold, ChoiceHolds, Good
  <2> QED BY <1>0, <2>5, Unchanged DEF ConflictInv
<1> QED BY <1>1, <1>2

\* What a choice goes on with is the file as it was shown.
LEMMA ReadKeeps ==
  ASSUME ConflictInv, ReadForChoice
  PROVE  ConflictInv'
<1>0. UNCHANGED <<files, staged, list, chosen, hunk, detail, loads>>
  BY DEF ReadForChoice
<1>1. PICK c \in choices :
        /\ c.region > 0
        /\ choices' = (choices \ {c}) \cup
             {IF Fresh(c) /\ c.region <= Len(ParseRegions(files[c.path].lines))
                THEN [c EXCEPT !.at = "read", !.met = files[c.path].lines]
                ELSE [c EXCEPT !.at = "done"]}
  BY DEF ReadForChoice
<1>2. ChoiceHolds(c)
  BY DEF ConflictInv, ChoicesHold
<1>3. CASE Fresh(c) /\ c.region <= Len(ParseRegions(files[c.path].lines))
  <2>1. PICK lines : lines = files[c.path].lines
    OBVIOUS
  <2>2. PICK next : next = [c EXCEPT !.at = "read", !.met = lines]
    OBVIOUS
  <2>3. choices' = (choices \ {c}) \cup {next}
    BY <1>1, <1>3, <2>1, <2>2
  <2>4. /\ lines = c.shown /\ c.region <= Len(ParseRegions(lines))
        /\ Held(c.shown) /\ c.side \in Sides /\ c.region \in Nat
    BY <1>1, <1>2, <1>3, <2>1 DEF Fresh, ChoiceHolds
  <2>5. c.region \in 1..Len(ParseRegions(c.shown))
    <3>1. Len(ParseRegions(lines)) \in Nat
      BY <2>4, HeldRegions
    <3> QED BY <1>1, <2>4, <3>1
  <2>6. /\ DOMAIN next = DOMAIN c /\ next.region = c.region /\ next.shown = c.shown
        /\ next.side = c.side /\ next.met = lines
    BY <1>2, <2>2 DEF ChoiceHolds
  <2>7. ChoiceHolds(next)
    BY <1>2, <2>4, <2>5, <2>6 DEF ChoiceHolds
  <2>8. ChoicesHold'
    BY <2>3, <2>7, ChoicesKeep DEF ConflictInv
  <2> QED BY <1>0, <2>8, Unchanged DEF ConflictInv
<1>4. CASE ~(Fresh(c) /\ c.region <= Len(ParseRegions(files[c.path].lines)))
  <2>1. PICK done : done = [c EXCEPT !.at = "done"]
    OBVIOUS
  <2>2. choices' = (choices \ {c}) \cup {done}
    BY <1>1, <1>4, <2>1, Zenon
  <2>3. ChoiceHolds(done)
    BY <1>2, <2>1, DoneHolds
  <2>4. ChoicesHold'
    BY <2>2, <2>3, ChoicesKeep DEF ConflictInv
  <2> QED BY <1>0, <2>4, Unchanged DEF ConflictInv
<1> QED BY <1>3, <1>4

\* What a choice is renamed over was read by it, unless the file is noted as raced.
LEMMA RewrittenGood ==
  ASSUME NEW file, Good(file), NEW c, ChoiceHolds(c), c.at = "read"
  PROVE  Good(Rewritten(file, c))
<1>1. /\ c.met = c.shown /\ Held(c.shown) /\ c.side \in Sides
      /\ c.region \in 1..Len(ParseRegions(c.shown))
  BY DEF ChoiceHolds
<1>2. PICK next : next = Rewritten(file, c)
  OBVIOUS
<1>3. /\ next.ought = Intended(file.ought, c) /\ next.lines = Apply(c.shown, c.region, c.side)
      /\ next.raced = (file.raced \/ file.lines # c.shown)
  BY <1>1, <1>2 DEF Rewritten
<1>4. Held(next.lines)
  <2>1. PICK R : Merged(R) /\ c.shown = Lines(R)
    BY <1>1 DEF Held
  <2>2. /\ Apply(Lines(R), c.region, c.side) = Lines(Choose(R, c.region, c.side))
        /\ Merged(Choose(R, c.region, c.side))
    BY <1>1, <2>1, ChoiceRight
  <2> QED BY <1>3, <2>1, <2>2 DEF Held
<1>5. Merged(next.ought)
  BY <1>1, <1>3, IntendedMerged DEF Good
<1>6. ASSUME ~next.raced PROVE next.lines = Lines(next.ought)
  <2>1. PICK R : R = file.ought /\ Merged(R) /\ c.shown = Lines(R)
    BY <1>3, <1>6 DEF Good
  <2>2. Intended(R, c) = Choose(R, c.region, c.side)
    BY <1>1, <2>1, IntendedRight
  <2>3. Apply(Lines(R), c.region, c.side) = Lines(Choose(R, c.region, c.side))
    BY <1>1, <2>1, ChoiceRight
  <2> QED BY <1>3, <2>1, <2>2, <2>3
<1> QED BY <1>2, <1>4, <1>5, <1>6 DEF Good

LEMMA WriteKeeps ==
  ASSUME ConflictInv, WriteChoice
  PROVE  ConflictInv'
<1>0. UNCHANGED <<staged, list, chosen, hunk, detail, loads>>
  BY DEF WriteChoice
<1>1. PICK c \in choices :
        /\ c.at = "read"
        /\ files' = [files EXCEPT ![c.path] = Rewritten(@, c)] \/ UNCHANGED files
        /\ choices' = (choices \ {c}) \cup {[c EXCEPT !.at = "done"]}
  BY DEF WriteChoice
<1>2. ChoiceHolds(c)
  BY DEF ConflictInv, ChoicesHold
<1>3. FilesHold'
  <2>1. CASE UNCHANGED files
    BY <1>0, <2>1, Unchanged
  <2>2. CASE files' = [files EXCEPT ![c.path] = Rewritten(@, c)] /\ c.path \in DOMAIN files
    <3>1. Good(files[c.path])
      BY <2>2 DEF ConflictInv, FilesHold
    <3>2. PICK file : file = Rewritten(files[c.path], c) /\ Good(file)
      BY <1>1, <1>2, <3>1, RewrittenGood
    <3>3. files' = [files EXCEPT ![c.path] = file]
      BY <2>2, <3>2
    <3> QED BY <1>0, <3>2, <3>3, FileKeeps DEF ConflictInv
  <2>3. CASE files' = [files EXCEPT ![c.path] = Rewritten(@, c)] /\ c.path \notin DOMAIN files
    <3>1. DOMAIN files' = DOMAIN files /\ \A q \in DOMAIN files : files'[q] = files[q]
      BY <2>3
    <3> QED BY <1>0, <3>1 DEF ConflictInv, FilesHold
  <2> QED BY <1>1, <2>1, <2>2, <2>3
<1>4. ChoicesHold'
  <2>1. PICK done : done = [c EXCEPT !.at = "done"]
    OBVIOUS
  <2>2. ChoiceHolds(done)
    BY <1>2, <2>1, DoneHolds
  <2> QED BY <1>1, <2>1, <2>2, ChoicesKeep DEF ConflictInv
<1> QED BY <1>0, <1>3, <1>4, Unchanged DEF ConflictInv

LEMMA ResolveKeeps ==
  ASSUME Unambiguous, ConflictInv, ResolveConflict
  PROVE  ConflictInv'
<1>0. UNCHANGED <<list, chosen, hunk, detail, loads>>
  BY DEF ResolveConflict
<1>1. PICK c \in choices :
        /\ choices' = (choices \ {c}) \cup {[c EXCEPT !.at = "done"]}
        /\ \/ c.side \in {"ours", "theirs"} /\ Checkout(c.path, FileOf(BlobOf[c.path][c.side]))
           \/ Checkout(c.path, FileOf(MergeOf[c.path]))
           \/ Checkout(c.path, staged[c.path])
           \/ staged' = [staged EXCEPT ![c.path] = files[c.path]] /\ UNCHANGED files
           \/ UNCHANGED <<files, staged>>
  BY DEF ResolveConflict
<1>2. ChoicesHold'
  <2>1. PICK done : done = [c EXCEPT !.at = "done"]
    OBVIOUS
  <2>2. ChoiceHolds(c)
    BY DEF ConflictInv, ChoicesHold
  <2>3. ChoiceHolds(done)
    BY <2>1, <2>2, DoneHolds
  <2> QED BY <1>1, <2>1, <2>3, ChoicesKeep DEF ConflictInv
<1>3. FilesHold'
  <2>1. CASE c.path \notin Range(Paths)
    <3>1. /\ DOMAIN files' = DOMAIN files /\ \A q \in DOMAIN files : files'[q] = files[q]
          /\ DOMAIN staged' = DOMAIN staged /\ \A q \in DOMAIN staged : staged'[q] = staged[q]
      BY <1>1, <2>1 DEF Checkout, ConflictInv, FilesHold
    <3> QED BY <3>1 DEF ConflictInv, FilesHold
  <2>2. CASE c.path \in Range(Paths)
    <3>1. Good(files[c.path]) /\ Good(staged[c.path])
      BY <2>2 DEF ConflictInv, FilesHold
    <3>2. Good(FileOf(MergeOf[c.path]))
      BY <2>2, MergeOfMerged, FileOfGood
    <3>3. ASSUME c.side \in {"ours", "theirs"} PROVE Good(FileOf(BlobOf[c.path][c.side]))
      BY <2>2, <3>3, BlobMerged, FileOfGood
    <3>4. \/ UNCHANGED <<files, staged>>
          \/ \E file : Good(file) /\ files' = [files EXCEPT ![c.path] = file] /\ UNCHANGED staged
          \/ \E file : Good(file) /\ staged' = [staged EXCEPT ![c.path] = file] /\ UNCHANGED files
      BY <1>1, <3>1, <3>2, <3>3, Zenon DEF Checkout
    <3> QED BY <3>4, Unchanged, FileKeeps DEF ConflictInv
  <2> QED BY <2>1, <2>2
<1> QED BY <1>0, <1>2, <1>3, Unchanged DEF ConflictInv

\* For any contents in which nothing can be taken for a marker, any paths and any amount of
\* work: a file that no choice was renamed over without having read it holds the content put
\* there last with every choice made in it since, and nothing else.
THEOREM FilesAlwaysTheChoices == Unambiguous => (ConflictSpec => []FileIsTheChoices)
<1> SUFFICES ASSUME Unambiguous PROVE ConflictSpec => []FileIsTheChoices
  OBVIOUS
<1>1. ConflictInit => ConflictInv
  <2> SUFFICES ASSUME ConflictInit PROVE ConflictInv
    OBVIOUS
  <2>1. FilesHold
    <3>1. files = [p \in Range(Paths) |-> FileOf(MergeOf[p])] /\ staged = files
      BY DEF ConflictInit
    <3>2. \A p \in Range(Paths) : Good(FileOf(MergeOf[p]))
      BY MergeOfMerged, FileOfGood
    <3> QED BY <3>1, <3>2 DEF FilesHold
  <2>2. ViewHolds
    <3>1. list = <<>> /\ chosen = 0 /\ hunk = 0 /\ detail = NoDetail
      BY DEF ConflictInit
    <3>2. list \in Seq(Range(Paths))
      BY <3>1, EmptySeq, Zenon
    <3>3. Held(detail.lines)
      <4>1. PICK none : none = <<>> /\ Held(none)
        BY NothingHeld, Zenon
      <4> QED BY <3>1, <4>1 DEF NoDetail
    <3> QED BY <3>1, <3>2, <3>3 DEF ViewHolds
  <2>3. LoadsHold /\ ChoicesHold
    BY DEF ConflictInit, LoadsHold, ChoicesHold
  <2> QED BY <2>1, <2>2, <2>3 DEF ConflictInv
<1>2. ConflictInv /\ [ConflictNext]_conflictVars => ConflictInv'
  <2> SUFFICES ASSUME ConflictInv, [ConflictNext]_conflictVars PROVE ConflictInv'
    OBVIOUS
  <2>1. CASE ConflictOutside
    BY <2>1, ConflictOutsideKeeps
  <2>2. CASE ConflictSnapshot
    BY <2>2, SnapshotKeeps
  <2>3. CASE OpenConflicts \/ MoveConflict \/ PointConflict \/ MoveRegion
    BY <2>3, ViewKeeps
  <2>4. CASE ReadContent \/ ContentReady
    BY <2>4, ContentKeeps
  <2>5. CASE ChooseRegion \/ ChooseWhole
    BY <2>5, ChoiceAskKeeps
  <2>6. CASE ReadForChoice
    BY <2>6, ReadKeeps
  <2>7. CASE WriteChoice
    BY <2>7, WriteKeeps
  <2>8. CASE ResolveConflict
    BY <2>8, ResolveKeeps
  <2>9. CASE ChoiceFinished
    <3>1. /\ UNCHANGED <<files, staged, list, chosen, hunk, detail, loads>>
          /\ \E c \in choices : choices' = choices \ {c}
      BY <2>9 DEF ChoiceFinished
    <3>2. ChoicesHold'
      BY <3>1 DEF ConflictInv, ChoicesHold, ChoiceHolds, Good
    <3> QED BY <3>1, <3>2, Unchanged DEF ConflictInv
  <2>10. CASE UNCHANGED conflictVars
    BY <2>10, Unchanged DEF conflictVars, ConflictInv
  <2> QED BY <2>1, <2>2, <2>3, <2>4, <2>5, <2>6, <2>7, <2>8, <2>9, <2>10 DEF ConflictNext
<1>3. ConflictInv => FileIsTheChoices
  BY DEF ConflictInv, FilesHold, Good, FileIsTheChoices
<1> QED BY <1>1, <1>2, <1>3, PTL DEF ConflictSpec
=============================================================================
