------------------------- MODULE OperationRecovery -------------------------
(***************************************************************************)
(* The durable Git operations (rebase, cherry-pick, revert, merge, bisect) *)
(* as gitwatch sees and drives them: git/opstate.go reads the markers Git  *)
(* leaves on disk one command at a time, git/snapshot.go combines them     *)
(* with the status, sequencer/recovery.go decides which lifecycle actions  *)
(* to offer, and the application runs them and routes to the recovery      *)
(* workspaces.  Another terminal runs Git at the same time.                *)
(***************************************************************************)
EXTENDS Integers, Sequences, FiniteSets

CONSTANTS MaxGitSteps,  \* commands typed in the other terminal
          MaxCommands,  \* operations and lifecycle actions started in gitwatch
          MaxTodo,      \* commits of a sequence
          Kinds         \* the operations Git runs

ASSUME RecoveryBounds ==
    /\ MaxGitSteps \in Nat /\ MaxCommands \in Nat /\ MaxTodo \in Nat \ {0}
    /\ Kinds \subseteq {"rebase", "cherry-pick", "revert", "merge"}

VARIABLES git,      \* the repository: the operation in progress and its markers
          gitSteps,
          want,     \* a refresh has been asked for
          reader,   \* the snapshot a refresh is reading
          shown,    \* the last snapshot applied: m.Snapshot, m.Conflict
          view,     \* the workspace on the screen
          revertRunning, \* m.HistoryRevertRunning
          command, commands \* the command of gitwatch under way, how many began

recVars == <<git, gitSteps, want, reader, shown, view, revertRunning, command, commands>>

Verbs == {"continue", "skip", "abort"}
RecoveryViews == {"Conflict", "CherryPick"}

(* The pseudo-refs in the order in which operationMarkers verifies them.    *)
Probes == SelectSeq(<<"rebase", "cherry-pick", "revert", "merge">>, LAMBDA k : k \in Kinds)

Snapshots == [kind : Kinds \cup {"none", "unknown", "bisect"}, edit : BOOLEAN,
              staged : BOOLEAN, conflicts : BOOLEAN]
NoSnapshot == [kind |-> "none", edit |-> FALSE, staged |-> FALSE, conflicts |-> FALSE]
IdleReader == [at |-> "idle", probe |-> 1, snap |-> NoSnapshot, seen |-> {}, was |-> {}]
NoCommand == [state |-> "none", verb |-> "start", kind |-> "none", paused |-> FALSE,
              snap |-> NoSnapshot]

RecTypeOK ==
    /\ git \in [kind : Kinds \cup {"none"}, todo : 0..MaxTodo, many : BOOLEAN,
                stop : {"none", "running", "conflict", "edit", "resolved"},
                stale : BOOLEAN, bisect : BOOLEAN]
    /\ gitSteps \in 0..MaxGitSteps /\ commands \in 0..MaxCommands
    /\ want \in BOOLEAN /\ revertRunning \in BOOLEAN
    /\ shown \in Snapshots
    /\ view \in RecoveryViews \cup {"Status", "Bisect", "Log"}
    /\ reader \in [at : {"idle", "refs", "paths", "done"}, probe : 1..5,
                   snap : Snapshots, seen : SUBSET Kinds, was : SUBSET Kinds]
    /\ command \in [state : {"none", "asked", "waiting", "ran", "reading", "done"},
                    verb : Verbs \cup {"start"}, kind : Kinds \cup {"none"},
                    paused : BOOLEAN, snap : Snapshots]

RecInit ==
    /\ git = [kind |-> "none", stop |-> "none", todo |-> 0, many |-> FALSE,
              stale |-> FALSE, bisect |-> FALSE]
    /\ gitSteps = 0 /\ commands = 0 /\ want = FALSE /\ revertRunning = FALSE
    /\ reader = IdleReader
    /\ shown = NoSnapshot /\ view = "Status" /\ command = NoCommand

-----------------------------------------------------------------------------
(* Git.  A pseudo-ref marks the commit at which an operation has stopped;   *)
(* rebase-merge, sequencer and BISECT_START last as long as the operation.  *)

HasRef(k) == (git.kind = k /\ git.stop # "running") \/ (k = "rebase" /\ git.stale)
RebaseDirectory == git.kind = "rebase"
SequencerDirectory == git.kind \in {"cherry-pick", "revert"} /\ git.many
None(g) == [g EXCEPT !.kind = "none", !.stop = "none", !.todo = 0, !.many = FALSE]

(* Every change of the repository raises a hint, and a snapshot being read  *)
(* meanwhile has seen one more state of it (was is a history variable).     *)
Changed(g) ==
    /\ git' = g
    /\ want' = TRUE
    /\ reader' = IF reader.at \in {"idle", "done"} THEN reader
                 ELSE [reader EXCEPT !.was = @ \cup (Kinds \cap {g.kind})]

Begun(k) == {[git EXCEPT !.kind = k, !.stop = "running", !.stale = FALSE,
                         !.todo = t, !.many = t > 1] :
             t \in IF k = "merge" THEN {1} ELSE 1..MaxTodo}

(* What git <kind> --<verb> may do; it fails if another operation, or none, *)
(* is in progress, and a conflict must be resolved before it continues.     *)
After(k, verb) ==
    IF git.kind # k \/ git.stop \in {"none", "running"} THEN {}
    ELSE CASE verb = "abort" -> {None(git)}
           [] verb = "skip" /\ k # "merge" ->
                {[git EXCEPT !.stop = "running", !.todo = @ - 1]}
           [] verb = "continue" /\ git.stop \in {"edit", "resolved"} ->
                {[git EXCEPT !.stop = "running", !.todo = @ - 1]}
           [] OTHER -> {}

(* A running Git command applies commits until it stops or is done.         *)
GitRuns ==
    /\ git.stop = "running"
    /\ \/ /\ git.todo > 0
          /\ \/ Changed([git EXCEPT !.stop = "conflict"])
             \/ git.kind = "rebase" /\ Changed([git EXCEPT !.stop = "edit"])
             \/ Changed([git EXCEPT !.todo = @ - 1])
       \/ /\ git.todo = 0
          /\ \E s \in {FALSE, git.kind = "rebase"} :
               Changed([None(git) EXCEPT !.stale = s])
    /\ UNCHANGED <<gitSteps, shown, view, revertRunning, command, commands>>

(* The other terminal.                                                      *)
RecoveryOutside ==
    /\ gitSteps < MaxGitSteps /\ gitSteps' = gitSteps + 1
    /\ \/ git.kind = "none" /\ \E k \in Kinds : \E g \in Begun(k) : Changed(g)
       \/ git.stop = "conflict" /\ Changed([git EXCEPT !.stop = "resolved"])
       \/ \E verb \in Verbs : \E g \in After(git.kind, verb) : Changed(g)
       \/ git.kind = "none" /\ Changed([git EXCEPT !.bisect = ~@])
    /\ UNCHANGED <<shown, view, revertRunning, command, commands>>

-----------------------------------------------------------------------------
(* git/snapshot.go: the status and the unmerged index first, then one       *)
(* rev-parse per pseudo-ref, then the metadata paths.                       *)

Status == [NoSnapshot EXCEPT !.conflicts = git.stop = "conflict",
                             !.staged = git.stop = "resolved"]

ReadRef ==
    /\ reader.at = "refs"
    /\ LET k == Probes[reader.probe] IN
       reader' = [reader EXCEPT
           !.seen = IF HasRef(k) THEN @ \cup {k} ELSE @,
           !.probe = @ + 1,
           !.at = IF reader.probe = Len(Probes) THEN "paths" ELSE "refs"]
    /\ UNCHANGED <<git, gitSteps, want, shown, view, revertRunning, command, commands>>

FaultyMarkers(refs) ==
    LET found == IF RebaseDirectory THEN refs \cup {"rebase"} ELSE refs
    IN  IF found # {} THEN found
        ELSE IF SequencerDirectory THEN {"unknown"}
        ELSE IF git.bisect THEN {"bisect"} ELSE {}

(* A REBASE_HEAD without the directory is no rebase; BISECT_START counts    *)
(* when nothing else does; more than one marker makes the kind unknown.     *)
Markers(refs) ==
    LET found == IF RebaseDirectory THEN refs \cup {"rebase"} ELSE refs \ {"rebase"}
    IN  IF found # {} THEN found
        ELSE IF SequencerDirectory THEN {"unknown"}
        ELSE IF git.bisect THEN {"bisect"} ELSE {}

Detected(refs) ==
    LET markers == Markers(refs)
    IN  IF markers = {} THEN "none"
        ELSE IF Cardinality(markers) = 1 THEN CHOOSE m \in markers : TRUE
        ELSE "unknown"

Detection(snap, refs) ==
    LET kind == Detected(refs)
    IN  [snap EXCEPT !.kind = kind, !.edit = kind = "rebase" /\ git.stop = "edit"]

ReadPaths ==
    /\ reader.at = "paths"
    /\ reader' = [reader EXCEPT !.at = "done", !.snap = Detection(@, reader.seen),
                                !.seen = {}, !.probe = 1]
    /\ UNCHANGED <<git, gitSteps, want, shown, view, revertRunning, command, commands>>

(* What a detection finds that meets no change.                             *)
Refs == {k \in Kinds : HasRef(k)}
Observed == Detected(Refs)

-----------------------------------------------------------------------------
(* Model.applySnapshot: the workspace follows a revert that gitwatch began, *)
(* and the recovery workspace is left when the operation is seen to end.    *)

Route(kind) == CASE kind = "cherry-pick" -> "CherryPick"
                 [] kind = "bisect" -> "Bisect"
                 [] OTHER -> "Conflict"

ViewAfter(s) ==
    IF revertRunning /\ s.kind = "revert" THEN "Conflict"
    ELSE IF shown.kind # "none" /\ view \in RecoveryViews
            /\ s.kind = "none" /\ ~s.conflicts THEN "Status"
    ELSE view

FaultyApplySnapshot(s) ==
    /\ shown' = IF s.kind = "none" THEN shown ELSE s
    /\ revertRunning' = (revertRunning /\ s.kind # "none")
ApplySnapshot(s) ==
    /\ shown' = s
    /\ revertRunning' = (revertRunning /\ s.kind # "none")

RefreshBegins ==
    /\ want /\ reader.at = "idle"
    /\ want' = FALSE
    /\ reader' = [IdleReader EXCEPT !.at = "refs", !.snap = Status,
                                    !.was = Kinds \cap {git.kind}]
    /\ UNCHANGED <<git, gitSteps, shown, view, revertRunning, command, commands>>

RefreshApplied ==
    /\ reader.at = "done"
    /\ ApplySnapshot(reader.snap) /\ view' = ViewAfter(reader.snap)
    /\ reader' = IdleReader
    /\ UNCHANGED <<git, gitSteps, want, command, commands>>

(* The reconciliation tick asks for a refresh from time to time.            *)
Reconcile ==
    /\ ~want /\ want' = TRUE
    /\ UNCHANGED <<git, gitSteps, reader, shown, view, revertRunning, command, commands>>

-----------------------------------------------------------------------------
(* The keys.  C opens the recovery workspace, 1 returns to Status.          *)

Navigate ==
    /\ \/ /\ view = "Status"
          /\ shown.kind \in Kinds \cup {"bisect"} \/ shown.conflicts
          /\ view' = Route(shown.kind)
       \/ view # "Status" /\ view' = "Status"
       \/ view = "Status" /\ view' = "Log"
    /\ UNCHANGED <<git, gitSteps, want, reader, shown, revertRunning, command, commands>>

ActionsFor(s) ==
    IF s.kind \notin Kinds THEN {}
    ELSE {"abort"} \cup (IF s.kind = "merge" THEN {} ELSE {"skip"})
         \cup (IF ~s.conflicts /\ (s.staged \/ (s.kind = "rebase" /\ s.edit))
               THEN {"continue"} ELSE {})

(* A lifecycle action is remembered with the kind of the snapshot on the    *)
(* screen; a merge, cherry-pick or revert is started from another workspace.*)
Press ==
    /\ command.state = "none" /\ commands < MaxCommands
    /\ \/ /\ view \in RecoveryViews
          /\ \E verb \in ActionsFor(shown) :
               command' = [NoCommand EXCEPT !.state = "asked", !.verb = verb, !.kind = shown.kind]
          /\ UNCHANGED revertRunning
       \/ /\ view = "Log"
          /\ \E k \in Kinds \ {"rebase"} :
               /\ command' = [NoCommand EXCEPT !.state = "asked", !.kind = k]
               /\ revertRunning' = (revertRunning \/ k = "revert")
    /\ commands' = commands + 1
    /\ UNCHANGED <<git, gitSteps, want, reader, shown, view>>

(* merge.Engine refuses when it detects an operation: the outcome says      *)
(* paused and carries no snapshot.                                          *)
MergeRefused ==
    /\ command.state = "asked" /\ command.verb = "start" /\ command.kind = "merge"
    /\ Observed # "none"
    /\ command' = NoCommand /\ view' = "Conflict"
    /\ UNCHANGED <<git, gitSteps, want, reader, shown, revertRunning, commands>>

(* Git takes the command, or refuses it.                                    *)
CommandRuns ==
    /\ command.state = "asked"
    /\ command.verb = "start" /\ command.kind = "merge" => Observed = "none"
    /\ LET next == IF command.verb # "start" THEN After(command.kind, command.verb)
                   ELSE IF git.kind = "none" THEN Begun(command.kind) ELSE {} IN
       IF next = {}
         THEN command' = [command EXCEPT !.state = "ran"] /\ UNCHANGED <<git, want, reader>>
         ELSE command' = [command EXCEPT !.state = "waiting"] /\ \E g \in next : Changed(g)
    /\ UNCHANGED <<gitSteps, shown, view, revertRunning, commands>>

CommandReturns ==
    /\ command.state = "waiting" /\ git.stop # "running"
    /\ command' = [command EXCEPT !.state = "ran"]
    /\ UNCHANGED <<git, gitSteps, want, reader, shown, view, revertRunning, commands>>

(* The cherry-pick engine detects the operation once for Paused and then    *)
(* reads a snapshot; the others only read the snapshot.  (Its pseudo-refs   *)
(* and paths are read at one instant here.)                                 *)
CommandReadsStatus ==
    /\ command.state = "ran"
    /\ command' = [command EXCEPT !.state = "reading", !.snap = Status,
         !.paused = command.verb = "start" /\ command.kind = "cherry-pick"
                    /\ Observed = "cherry-pick"]
    /\ UNCHANGED <<git, gitSteps, want, reader, shown, view, revertRunning, commands>>

CommandDetects ==
    /\ command.state = "reading"
    /\ command' = [command EXCEPT !.state = "done", !.snap = Detection(@, Refs)]
    /\ UNCHANGED <<git, gitSteps, want, reader, shown, view, revertRunning, commands>>

Paused(s) == command.verb = "start"
             /\ IF command.kind = "cherry-pick" THEN command.paused ELSE s.kind = command.kind

(* Every outcome asks for a refresh but a pause with conflicts, or of a     *)
(* merge.                                                                   *)
AsksRefresh(s) == Paused(s) => command.kind # "merge" /\ ~s.conflicts

(* The cases OperationFinishedMsg, MergeFinishedMsg, CherryPickFinishedMsg  *)
(* and RevertFinishedMsg of Model.Update.                                   *)
CommandFinished ==
    /\ command.state = "done"
    /\ LET s == command.snap IN
       /\ ApplySnapshot(s)
       /\ view' = IF Paused(s) THEN Route(command.kind)
                  ELSE IF command.kind = "revert" /\ command.verb = "start" THEN "Log"
                  ELSE ViewAfter(s)
       /\ want' = (want \/ AsksRefresh(s))
    /\ command' = NoCommand
    /\ UNCHANGED <<git, gitSteps, reader, commands>>

-----------------------------------------------------------------------------
RecNext ==
    \/ GitRuns \/ RecoveryOutside
    \/ RefreshBegins \/ ReadRef \/ ReadPaths \/ RefreshApplied \/ Reconcile
    \/ Navigate \/ Press \/ MergeRefused
    \/ CommandRuns \/ CommandReturns \/ CommandReadsStatus \/ CommandDetects
    \/ CommandFinished

(* Git commands end, the reconciliation tick recurs, commands and refreshes *)
(* are goroutines that run and messages that arrive; nobody has to press a  *)
(* key or to type a command.                                                *)
RecFairness ==
    /\ WF_recVars(GitRuns) /\ WF_recVars(Reconcile)
    /\ WF_recVars(RefreshBegins \/ ReadRef \/ ReadPaths \/ RefreshApplied)
    /\ WF_recVars(MergeRefused \/ CommandRuns \/ CommandReturns \/ CommandReadsStatus
                  \/ CommandDetects \/ CommandFinished)

RecSpec == RecInit /\ [][RecNext]_recVars /\ RecFairness

-----------------------------------------------------------------------------
(* A snapshot that names an operation names one that was in progress at     *)
(* some moment while it was read, although its markers were read one by one *)
(* (opstate.go:125-138: a REBASE_HEAD that survives is not an operation).   *)
KindWasReal ==
    reader.at = "done" /\ reader.snap.kind \in Kinds => reader.snap.kind \in reader.was

(* When the other terminal and the user come to rest, the operation on the  *)
(* screen is the one Git's markers show: a result of a command that was     *)
(* read before a refresh and arrives after it does not stay.                *)
ShownConverges == <>[](git.stop # "running" /\ shown.kind = Observed)

(* Once no operation is in progress and nothing is under way, the recovery  *)
(* workspace has been left: "a refresh that observes a previously active    *)
(* sequencer disappear with no conflicts now closes the recovery workspace".*)
(* The code does not keep this: a result that is late leaves it open.       *)
RecoveryLeft ==
    view \in RecoveryViews /\ shown.kind = "none" /\ ~shown.conflicts
    => want \/ command.state # "none" \/ git.kind # "none" \/ reader.at # "idle"
=============================================================================
