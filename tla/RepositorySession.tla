------------------------- MODULE RepositorySession -------------------------
(***************************************************************************)
(* internal/app/app.go: how the root model keeps what it shows in step     *)
(* with the repository the user has open.  Update handles one message at a *)
(* time; commands run concurrently, and what they return is delivered in   *)
(* any order.  Opening another repository starts a new session (the        *)
(* repositoryGeneration); a message carries what the command captured.     *)
(*                                                                         *)
(* The refresh coordinator of the current session is used through its      *)
(* promise (RefreshPromise, which RefreshCoordinator implements): closing  *)
(* it waits until it is quiet, so only one is alive at a time.             *)
(***************************************************************************)
EXTENDS Naturals, Sequences, FiniteSets

CONSTANTS
  Repos,        \* repositories the user can open
  Panes,        \* the auxiliary loads that are enabled
  MaxSessions,  \* bound: repositories opened, the first included
  MaxVersion,   \* bound: changes of one repository
  NoRepo,       \* no repository
  MaxStimuli,   \* bound: keys pressed and watcher events
  MaxCount      \* bound: refreshes of one session

ASSUME PanesAssumption == Panes \subseteq {"tree", "submodules", "branches"}
ASSUME SessionBounds == MaxSessions \in Nat /\ MaxVersion \in Nat /\ MaxStimuli \in Nat
                        /\ MaxCount \in Nat \ {0}
ASSUME RepoAssumption == Repos # {} /\ NoRepo \notin Repos

Sessions == 1 .. MaxSessions
Versions == 0 .. MaxVersion

VARIABLES
  generation,  \* m.repositoryGeneration
  root,        \* m.Discovery.Root
  shown,       \* m.Snapshot and the file rows: repository and version, or Nothing
  tree,        \* m.CommitTreeHead and Lines, or Nothing
  treeLoading, \* m.CommitTreeLoading
  treeRequest, \* m.CommitTreeRequest
  subs,        \* m.Submodules: the repository it describes, or NoRepo
  subsLoading, \* m.SubmodulesLoading
  subsGeneration, \* m.SubmodulesGeneration
  branches,    \* m.Branches: the repository it lists, or NoRepo
  watcher,     \* m.WatchManager: the session it was started for, or 0
  commands,    \* commands that run
  inbox,       \* messages not handled yet
  owed, running, \* the coordinator's promise
  since,       \* version at which the running refresh began
  count,       \* the coordinator's generation counter
  results,     \* its results channel
  waiting,     \* a waitForRefresh command waits on it
  world,       \* version of each repository
  managers,    \* sessions whose watch manager runs
  stimuli,     \* ghost: keys and watcher events so far
  due,         \* ghost: version that a finished mutation, a hint or opening must show
  failed       \* m.State = StateError after the last refresh

model == <<generation, root, shown, waiting, failed>>
treeVars == <<tree, treeLoading, treeRequest>>
subVars == <<subs, subsLoading, subsGeneration>>
coordinator == <<owed, running, since, count, results>>
outside == <<world, managers, stimuli>>
vars == <<model, treeVars, subVars, branches, watcher, commands, inbox, coordinator,
          outside, due>>

Coordinator == INSTANCE RefreshPromise WITH stopped <- FALSE

Seen(r, v) == [repo |-> r, version |-> v]
Nothing == [repo |-> NoRepo, version |-> 0]
Observations == [repo : Repos, version : Versions] \cup {Nothing}

Kinds == {"refreshRequested", "refreshResult", "tree", "submodules", "branches",
          "operation", "opened", "watcherStarted", "watcherEvent"}

\* gen is the session the command was made in, tag its request or refresh generation,
\* seen what it read (Nothing for an error); an operation captures the row it acts on.
Msg(kind, gen, r, tag, seen) ==
  [kind |-> kind, gen |-> gen, repo |-> r, tag |-> tag, seen |-> seen]

Request == Msg("refreshRequested", generation, root, 0, Nothing)

\* The context of a command derives from its session's, which setRepository cancels.
Cancelled(cmd) == cmd.gen # generation

InitialRoot == CHOOSE r \in Repos : TRUE

Init ==
  /\ generation = 1 /\ root = InitialRoot
  /\ shown = Nothing /\ failed = FALSE
  /\ tree = Nothing /\ treeLoading = FALSE /\ treeRequest = 0
  /\ subs = NoRepo /\ subsLoading = FALSE /\ subsGeneration = 0
  /\ branches = NoRepo
  /\ watcher = 0
  /\ commands = {Msg("watcherStarted", 1, InitialRoot, 0, Nothing)}
       \cup {Msg("tree", 1, InitialRoot, 0, Nothing) : p \in Panes \cap {"tree"}}
  /\ inbox = {Request}
  /\ owed = FALSE /\ running = FALSE /\ since = 0 /\ count = 0 /\ results = <<>>
  /\ waiting = TRUE
  /\ world = [r \in Repos |-> 0]
  /\ managers = {} /\ stimuli = 0
  /\ due = 0
-----------------------------------------------------------------------------
(* Commands, run by goroutines *)

Return(cmd, msg) == commands' = commands \ {cmd} /\ inbox' = inbox \cup {msg}

\* git log, git submodule or git branch in the repository the command captured.
ReadCommand(cmd) ==
  /\ cmd.kind \in {"tree", "submodules", "branches"}
  /\ Return(cmd, [cmd EXCEPT !.seen =
       IF Cancelled(cmd) THEN Nothing ELSE Seen(cmd.repo, world[cmd.repo])])
  /\ UNCHANGED outside

\* A mutation changes the repository it captured; some return a snapshot of it.
MutateCommand(cmd) ==
  /\ cmd.kind = "operation"
  /\ \/ /\ ~Cancelled(cmd) /\ world[cmd.repo] < MaxVersion
        /\ world' = [world EXCEPT ![cmd.repo] = @ + 1]
        /\ \E seen \in {Nothing, Seen(cmd.repo, world'[cmd.repo])} :
             Return(cmd, [cmd EXCEPT !.seen = seen])
     \/ Return(cmd, [cmd EXCEPT !.seen = Nothing]) /\ UNCHANGED world
  /\ UNCHANGED <<managers, stimuli>>

\* git.Discover, in a repository that may not be there.
OpenCommand(cmd) ==
  /\ cmd.kind = "opened"
  /\ Return(cmd, cmd) \/ (commands' = commands \ {cmd} /\ UNCHANGED inbox)
  /\ UNCHANGED outside

WatchCommand(cmd) ==
  /\ cmd.kind = "watcherStarted"
  /\ Return(cmd, cmd)
  /\ managers' = managers \cup {cmd.gen}
  /\ UNCHANGED <<world, stimuli>>

Complete(cmd) ==
  /\ ReadCommand(cmd) \/ MutateCommand(cmd) \/ OpenCommand(cmd) \/ WatchCommand(cmd)
  /\ UNCHANGED <<model, treeVars, subVars, branches, watcher, coordinator, due>>
-----------------------------------------------------------------------------
(* The coordinator of the current session, and waitForRefresh *)

BeginRefresh ==
  /\ Coordinator!Begin /\ owed' = FALSE
  /\ since' = world[root]
  /\ count < MaxCount /\ count' = count + 1
  /\ UNCHANGED <<model, treeVars, subVars, branches, watcher, commands, inbox, results,
                 outside, due>>

\* The result is a snapshot of some version the refresh met, or an error.
FinishRefresh ==
  /\ Coordinator!Finish
  /\ Len(results) < 2
  /\ \E seen \in {Seen(root, v) : v \in since .. world[root]} \cup {Nothing} :
       results' = Append(results, Msg("refreshResult", generation, root, count, seen))
  /\ since' = 0
  /\ UNCHANGED <<model, treeVars, subVars, branches, watcher, commands, inbox, count,
                 outside, due>>

TakeResult ==
  /\ waiting /\ results # <<>>
  /\ inbox' = inbox \cup {Head(results)}
  /\ results' = Tail(results)
  /\ waiting' = FALSE
  /\ UNCHANGED <<generation, root, shown, failed, treeVars, subVars, branches, watcher,
                 commands, owed, running, since, count, outside, due>>
-----------------------------------------------------------------------------
(* Update: what each message does *)

\* Faulty variant: late snapshots are welcome.
AcceptsLate(msg) ==
  CASE msg.kind = "watcherStarted" -> msg.gen = generation
    [] msg.kind = "tree" -> msg.gen = generation /\ msg.tag = treeRequest
    [] msg.kind = "submodules" -> msg.tag = generation
    [] msg.kind = "watcherEvent" -> msg.gen = watcher
    [] OTHER -> TRUE

\* Whether the handler of msg acts on it: acceptsRepository, the comparison of
\* coordinators, managers, requests or generations at the head of each case.
Accepts(msg) ==
  CASE msg.kind \in {"refreshRequested", "refreshResult", "operation", "watcherStarted"} ->
         msg.gen = generation
    [] msg.kind = "tree" -> msg.gen = generation /\ msg.tag = treeRequest
    [] msg.kind = "submodules" -> msg.tag = generation
    [] msg.kind = "watcherEvent" -> msg.gen = watcher
    [] OTHER -> TRUE  \* "branches" and "opened"

Handle(msg, messages, started) ==
  /\ inbox' = (inbox \ {msg}) \cup messages
  /\ commands' = commands \cup started

\* Faulty variant: a late manager is dropped like any other message.
IgnoreOnly(msg) ==
  /\ ~Accepts(msg)
  /\ Handle(msg, {}, {})
  /\ UNCHANGED <<model, treeVars, subVars, branches, watcher, coordinator, outside, due>>

\* A manager that started for an earlier session is closed, other messages dropped.
Ignore(msg) ==
  /\ ~Accepts(msg)
  /\ Handle(msg, {}, {})
  /\ managers' = IF msg.kind = "watcherStarted" THEN managers \ {msg.gen} ELSE managers
  /\ UNCHANGED <<model, treeVars, subVars, branches, watcher, coordinator, world, stimuli, due>>

\* applySnapshot: what is on the screen; an error leaves the last snapshot.
ApplySnapshot(seen) == shown' = IF seen = Nothing THEN shown ELSE seen

OnRefreshRequested(msg) ==
  /\ msg.kind = "refreshRequested" /\ Accepts(msg)
  /\ Coordinator!Ask
  /\ Handle(msg, {}, {})
  /\ UNCHANGED <<model, treeVars, subVars, branches, watcher, since, count, results,
                 outside, due>>

\* refreshCommitTreeIfNeeded, after the snapshot was applied.
TreeLoad ==
  IF "tree" \in Panes /\ ~treeLoading /\ (tree = Nothing \/ shown' # tree)
  THEN {Msg("tree", generation, root, treeRequest + 1, Nothing)} ELSE {}

\* loadSubmodules(generation of the snapshot); 0 when the refresh failed.
SubmoduleLoad(n) ==
  IF "submodules" \in Panes /\ n # 0 /\ ~subsLoading /\ n # subsGeneration
  THEN {Msg("submodules", generation, root, n, Nothing)} ELSE {}

OnRefreshResult(msg) ==
  LET n == IF msg.seen = Nothing THEN 0 ELSE msg.tag
  IN /\ msg.kind = "refreshResult" /\ Accepts(msg)
     /\ ApplySnapshot(msg.seen)
     /\ failed' = (msg.seen = Nothing)
     /\ waiting' = TRUE
     /\ Handle(msg, {}, TreeLoad \cup SubmoduleLoad(n))
     /\ treeLoading' = (treeLoading \/ TreeLoad # {})
     /\ treeRequest' = treeRequest + Cardinality(TreeLoad)
     /\ subsLoading' = (subsLoading \/ SubmoduleLoad(n) # {})
     /\ subsGeneration' = IF SubmoduleLoad(n) = {} THEN subsGeneration ELSE n
     /\ UNCHANGED <<generation, root, tree, subs, branches, watcher, coordinator, outside, due>>

OnTree(msg) ==
  /\ msg.kind = "tree" /\ Accepts(msg)
  /\ treeLoading' = FALSE
  /\ tree' = IF msg.seen = Nothing THEN tree ELSE msg.seen
  /\ Handle(msg, {}, {})
  /\ UNCHANGED <<model, treeRequest, subVars, branches, watcher, coordinator, outside, due>>

OnSubmodules(msg) ==
  /\ msg.kind = "submodules" /\ Accepts(msg)
  /\ subsLoading' = FALSE
  /\ subs' = IF msg.seen = Nothing THEN subs ELSE msg.seen.repo
  /\ Handle(msg, {}, {})
  /\ UNCHANGED <<model, treeVars, subsGeneration, branches, watcher, coordinator, outside, due>>

OnBranches(msg) ==
  /\ msg.kind = "branches" /\ Accepts(msg)
  /\ branches' = IF msg.seen = Nothing THEN branches ELSE msg.seen.repo
  /\ Handle(msg, {}, {})
  /\ UNCHANGED <<model, treeVars, subVars, watcher, coordinator, outside, due>>

\* Faulty variant: a mutation that returned a snapshot needs no refresh.
OnOperationTrusting(msg) ==
  /\ msg.kind = "operation" /\ Accepts(msg)
  /\ ApplySnapshot(msg.seen)
  /\ Handle(msg, IF msg.seen = Nothing THEN {Request} ELSE {}, {})
  /\ due' = world[root]
  /\ UNCHANGED <<generation, root, waiting, failed, treeVars, subVars, branches, watcher,
                 coordinator, outside>>

\* OperationFinishedMsg: its snapshot is applied, and a refresh is always requested.
OnOperation(msg) ==
  /\ msg.kind = "operation" /\ Accepts(msg)
  /\ ApplySnapshot(msg.seen)
  /\ Handle(msg, {Request}, {})
  /\ due' = world[root]
  /\ UNCHANGED <<generation, root, waiting, failed, treeVars, subVars, branches, watcher,
                 coordinator, outside>>

\* setRepository: everything the session owns is cancelled, closed or cleared; the
\* snapshot, the branches and the tree's loading flag stay.
SetRepository(r) ==
  /\ generation' = generation + 1 /\ root' = r
  /\ managers' = managers \ {watcher} /\ watcher' = 0
  /\ owed' = FALSE /\ running' = FALSE /\ since' = 0 /\ count' = 0 /\ results' = <<>>
  /\ tree' = Nothing
  /\ subs' = NoRepo /\ subsLoading' = FALSE /\ subsGeneration' = 0
  /\ due' = world[r]
  /\ UNCHANGED <<shown, treeLoading, treeRequest, branches>>

\* RepositoryOpenedMsg.
OnOpened(msg) ==
  /\ msg.kind = "opened" /\ Accepts(msg)
  /\ SetRepository(msg.repo)
  /\ waiting' = TRUE
  /\ Handle(msg, {Msg("refreshRequested", generation', root', 0, Nothing)},
                 {Msg("watcherStarted", generation', root', 0, Nothing)})
  /\ UNCHANGED <<failed, world, stimuli>>

OnWatcherStarted(msg) ==
  /\ msg.kind = "watcherStarted" /\ Accepts(msg)
  /\ watcher' = msg.gen
  /\ Handle(msg, {}, {})
  /\ UNCHANGED <<model, treeVars, subVars, branches, coordinator, outside, due>>

OnWatcherEvent(msg) ==
  /\ msg.kind = "watcherEvent" /\ Accepts(msg)
  /\ Handle(msg, {Request}, {})
  /\ due' = world[root]
  /\ UNCHANGED <<model, treeVars, subVars, branches, watcher, coordinator, outside>>

Update(msg) ==
  \/ Ignore(msg)
  \/ OnRefreshRequested(msg) \/ OnRefreshResult(msg)
  \/ OnTree(msg) \/ OnSubmodules(msg) \/ OnBranches(msg)
  \/ OnOperation(msg) \/ OnOpened(msg)
  \/ OnWatcherStarted(msg) \/ OnWatcherEvent(msg)
-----------------------------------------------------------------------------
(* The user, the watch manager, and other programs *)

Stimulus == stimuli < MaxStimuli /\ stimuli' = stimuli + 1

Issue(cmd) ==
  /\ Stimulus
  /\ commands' = commands \cup {cmd}
  /\ UNCHANGED <<model, treeVars, subVars, branches, watcher, inbox, coordinator, world,
                 managers, due>>

\* Opens that wait for their turn count as sessions, to respect the bound.
Opening == {msg \in commands \cup inbox : msg.kind = "opened"}
OpenRepository(r) ==
  /\ generation + Cardinality(Opening) < MaxSessions
  /\ Issue(Msg("opened", generation, r, 0, Nothing))

ShowBranches == "branches" \in Panes /\ Issue(Msg("branches", generation, root, 0, Nothing))

\* mutate, restoreSelected: the selected row, in the repository of Discovery.Root.
PathOperation == shown # Nothing /\ Issue(Msg("operation", generation, root, 0, shown))

WatchEvent(g) ==
  /\ Stimulus
  /\ inbox' = inbox \cup {Msg("watcherEvent", g, root, 0, Nothing)}
  /\ UNCHANGED <<model, treeVars, subVars, branches, watcher, commands, coordinator, world,
                 managers, due>>

\* Another program changes the open repository.  A change of one that is not open is
\* not observed before it is opened: it may as well happen right after.
ChangeWorld ==
  /\ world[root] < MaxVersion
  /\ world' = [world EXCEPT ![root] = @ + 1]
  /\ UNCHANGED <<model, treeVars, subVars, branches, watcher, commands, inbox, coordinator,
                 managers, stimuli, due>>

Next ==
  \/ \E cmd \in commands : Complete(cmd)
  \/ \E msg \in inbox : Update(msg)
  \/ BeginRefresh \/ FinishRefresh \/ TakeResult
  \/ \E r \in Repos : OpenRepository(r)
  \/ ChangeWorld \/ ShowBranches \/ PathOperation
  \/ \E g \in managers : WatchEvent(g)

Spec == Init /\ [][Next]_vars
-----------------------------------------------------------------------------
(* Properties *)

Messages == [kind : Kinds, gen : Sessions, repo : Repos, tag : Nat, seen : Observations]

TypeOK ==
  /\ generation \in Sessions /\ root \in Repos
  /\ shown \in Observations /\ failed \in BOOLEAN
  /\ tree \in Observations /\ treeLoading \in BOOLEAN /\ treeRequest \in Nat
  /\ subs \in Repos \cup {NoRepo} /\ subsLoading \in BOOLEAN /\ subsGeneration \in 0 .. MaxCount
  /\ branches \in Repos \cup {NoRepo}
  /\ watcher \in {0} \cup Sessions
  /\ commands \subseteq Messages /\ inbox \subseteq Messages
  /\ owed \in BOOLEAN /\ running \in BOOLEAN /\ since \in Versions /\ count \in 0 .. MaxCount
  /\ results \in Seq(Messages) /\ Len(results) <= 2 /\ waiting \in BOOLEAN
  /\ world \in [Repos -> Versions] /\ managers \subseteq Sessions
  /\ stimuli \in 0 .. MaxStimuli /\ due \in Versions

\* A snapshot is only ever applied in the session of the repository it shows, whatever
\* refresh or mutation of an earlier repository answers late.
SnapshotsStayHome == [][shown' # shown => shown'.repo = root']_vars

\* The commit tree shows the open repository or nothing.
TreeStaysHome == tree = Nothing \/ tree.repo = root

\* When everything has been handled, the screen shows the open repository as it was
\* after the last mutation, watcher hint or switch, or reports a failed refresh.
Quiet == inbox = {} /\ commands = {} /\ ~owed /\ ~running /\ results = <<>>
QuietMeansFresh == Quiet /\ ~failed => shown.repo = root /\ shown.version >= due

\* No watch manager runs on behind the back of the model: a running manager is the
\* current one, or its start has still to be reported.
NoLeakedWatcher ==
  \A g \in managers : g = watcher \/ \E msg \in inbox : msg.kind = "watcherStarted" /\ msg.gen = g

\* ARCHITECTURE.md: branch data goes through the generation-scoped flow; no list of
\* another repository may land after a switch.
BranchesStayHome == [][branches' # branches => branches' = root']_vars

\* While the commit tree or the submodule summary says that it is loading, a load that
\* will be accepted is on its way (docs/commit-tree.md: the tree refreshes after a
\* switch; docs/advanced-workflows.md: submodule state appears in the status view).
Arriving(kind) ==
  \/ \E msg \in inbox : msg.kind = kind /\ Accepts(msg)
  \/ \E cmd \in commands : cmd.kind = kind /\ Accepts(cmd)
TreeLoadArrives == treeLoading => Arriving("tree")
SubmoduleLoadArrives == subsLoading => Arriving("submodules")
LoadsArrive == TreeLoadArrives /\ SubmoduleLoadArrives

\* A path operation (mutate, restoreSelected) acts on the repository its row was read
\* from, whatever repository was opened since.
OperationsMatchRows ==
  \A cmd \in commands : cmd.kind = "operation" => cmd.seen.repo = cmd.repo
=============================================================================
