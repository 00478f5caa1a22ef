---------------------- MODULE RepositorySession_proofs ----------------------
(***************************************************************************)
(* Proofs about a repository session, for any repositories and panes, any  *)
(* number of sessions, commands, messages and changes.                     *)
(***************************************************************************)
EXTENDS RepositorySession, SequenceTheorems, FiniteSetTheorems, TLAPS

-----------------------------------------------------------------------------
(* The types that the arguments need: sessions and versions are numbers.   *)

Seens == [repo : Repos \cup {NoRepo}, version : Nat]
AnyMessages == [kind : Kinds, gen : Nat \ {0}, repo : Repos, tag : Nat, seen : Seens]

Types ==
  /\ generation \in Nat \ {0} /\ root \in Repos /\ watcher \in Nat /\ managers \subseteq Nat \ {0}
  /\ shown \in Seens /\ treeRequest \in Nat /\ count \in Nat
  /\ commands \subseteq AnyMessages /\ inbox \subseteq AnyMessages
  /\ results \in Seq(AnyMessages)
  /\ world \in [Repos -> Nat] /\ since \in Nat /\ due \in Nat

\* What is on its way was made in this session or an earlier one; what this session made
\* is about the repository that is open.
InSession(m) ==
  /\ m.gen <= generation
  /\ m.gen = generation /\ m.kind \in {"refreshRequested", "refreshResult", "operation"}
       => m.repo = root

Answers(m) == m.gen = generation /\ m.kind \in {"refreshResult", "operation"}
                => m.seen = Nothing \/ m.seen.repo = root

Home ==
  /\ \A m \in commands : InSession(m) /\ m.kind # "refreshResult"
  /\ \A m \in inbox : InSession(m) /\ Answers(m)
  /\ \A i \in DOMAIN results : /\ InSession(results[i]) /\ Answers(results[i])
                               /\ results[i].kind = "refreshResult"
                               /\ results[i].gen = generation
  /\ \A g \in managers : g <= generation
  /\ watcher \in {0, generation}

SessionInv == Types /\ Home

LEMMA MsgType ==
  ASSUME NEW kind \in Kinds, NEW gen \in Nat \ {0}, NEW r \in Repos, NEW tag \in Nat, NEW seen \in Seens
  PROVE  /\ Msg(kind, gen, r, tag, seen) \in AnyMessages
         /\ Msg(kind, gen, r, tag, seen).kind = kind /\ Msg(kind, gen, r, tag, seen).gen = gen
         /\ Msg(kind, gen, r, tag, seen).repo = r /\ Msg(kind, gen, r, tag, seen).seen = seen
BY DEF Msg, AnyMessages

LEMMA NothingType == Nothing \in Seens /\ Nothing.repo = NoRepo /\ NoRepo \notin Repos
BY RepoAssumption DEF Nothing, Seens

LEMMA RequestType ==
  ASSUME Types
  PROVE  /\ Request \in AnyMessages /\ Request.kind = "refreshRequested"
         /\ Request.gen = generation /\ Request.repo = root /\ Request.seen = Nothing
BY MsgType, NothingType DEF Request, Types, Kinds

\* What a command returns is itself, with something it saw in its repository.
LEMMA Returned ==
  ASSUME SessionInv, NEW cmd \in commands, NEW seen \in Seens,
         seen = Nothing \/ seen.repo = cmd.repo
  PROVE  /\ [cmd EXCEPT !.seen = seen] \in AnyMessages
         /\ InSession([cmd EXCEPT !.seen = seen]) /\ Answers([cmd EXCEPT !.seen = seen])
<1>1. cmd \in AnyMessages /\ InSession(cmd) /\ cmd.kind # "refreshResult"
  BY DEF SessionInv, Types, Home
<1>2. [cmd EXCEPT !.seen = seen] \in AnyMessages
      /\ [cmd EXCEPT !.seen = seen].seen = seen
      /\ [cmd EXCEPT !.seen = seen].kind = cmd.kind
      /\ [cmd EXCEPT !.seen = seen].gen = cmd.gen
      /\ [cmd EXCEPT !.seen = seen].repo = cmd.repo
  BY <1>1 DEF AnyMessages
<1> QED BY <1>1, <1>2 DEF InSession, Answers

LEMMA CompleteKeeps ==
  ASSUME SessionInv, NEW cmd \in commands, Complete(cmd)
  PROVE  SessionInv'
<1>1. cmd \in AnyMessages /\ InSession(cmd) /\ cmd.kind # "refreshResult"
  BY DEF SessionInv, Types, Home
<1>2. UNCHANGED <<generation, root, shown, watcher, treeRequest, results, since, count, due>>
  BY DEF Complete, model, treeVars, coordinator
<1>3. /\ commands' \subseteq commands
      /\ world' \in [Repos -> Nat]
      /\ managers' \subseteq Nat \ {0} /\ \A g \in managers' : g <= generation
      /\ \A m \in inbox' : m \in AnyMessages /\ InSession(m) /\ Answers(m)
  <2>1. \A m \in inbox : m \in AnyMessages /\ InSession(m) /\ Answers(m)
    BY DEF SessionInv, Types, Home
  <2>2. world \in [Repos -> Nat] /\ managers \subseteq Nat \ {0} /\ \A g \in managers : g <= generation
    BY DEF SessionInv, Types, Home
  <2>3. ASSUME NEW seen \in Seens, seen = Nothing \/ seen.repo = cmd.repo,
               Return(cmd, [cmd EXCEPT !.seen = seen])
        PROVE  /\ commands' \subseteq commands
               /\ \A m \in inbox' : m \in AnyMessages /\ InSession(m) /\ Answers(m)
    BY <2>1, <2>3, Returned DEF Return
  <2>4. CASE ReadCommand(cmd)
    <3>1. \A n \in Nat : Seen(cmd.repo, n) \in Seens /\ Seen(cmd.repo, n).repo = cmd.repo
      BY <1>1 DEF Seen, Seens, AnyMessages
    <3>2. world[cmd.repo] \in Nat
      BY <1>1, <2>2 DEF AnyMessages
    <3>3. PICK seen \in Seens : (seen = Nothing \/ seen.repo = cmd.repo)
                                /\ Return(cmd, [cmd EXCEPT !.seen = seen])
      BY <2>4, <3>1, <3>2, NothingType DEF ReadCommand
    <3> QED BY <2>2, <2>3, <2>4, <3>3 DEF ReadCommand, outside
  <2>5. CASE MutateCommand(cmd)
    <3>1. world' \in [Repos -> Nat]
      BY <2>2, <2>5 DEF MutateCommand
    <3>2. Seen(cmd.repo, world'[cmd.repo]) \in Seens
          /\ Seen(cmd.repo, world'[cmd.repo]).repo = cmd.repo
      BY <1>1, <3>1 DEF Seen, Seens, AnyMessages
    <3>3. PICK seen \in Seens : (seen = Nothing \/ seen.repo = cmd.repo)
                                /\ Return(cmd, [cmd EXCEPT !.seen = seen])
      BY <2>5, <3>2, NothingType DEF MutateCommand
    <3> QED BY <2>2, <2>3, <2>5, <3>1, <3>3 DEF MutateCommand
  <2>6. CASE OpenCommand(cmd) \/ WatchCommand(cmd)
    <3>1. cmd.kind \in {"opened", "watcherStarted"} /\ cmd.gen \in Nat \ {0} /\ cmd.gen <= generation
      BY <1>1, <2>6 DEF OpenCommand, WatchCommand, AnyMessages, InSession
    <3>2. Answers(cmd)
      BY <3>1 DEF Answers
    <3>3. commands' \subseteq commands /\ inbox' \subseteq inbox \cup {cmd}
      BY <2>6 DEF OpenCommand, WatchCommand, Return
    <3>4. world' = world /\ managers' \subseteq managers \cup {cmd.gen}
      BY <2>6 DEF OpenCommand, WatchCommand, outside
    <3> QED BY <1>1, <2>1, <2>2, <3>1, <3>2, <3>3, <3>4
  <2> QED BY <2>4, <2>5, <2>6 DEF Complete
<1>4. \A m : (InSession(m) => InSession(m)') /\ (Answers(m) => Answers(m)')
  BY <1>2 DEF InSession, Answers
<1>5. Types'
  <2>1. inbox' \subseteq AnyMessages /\ commands' \subseteq commands
        /\ world' \in [Repos -> Nat] /\ managers' \subseteq Nat \ {0}
    BY <1>3
  <2> QED BY <1>2, <2>1 DEF SessionInv, Types
<1>6. Home'
  <2>1. /\ \A m \in commands : InSession(m) /\ m.kind # "refreshResult"
        /\ \A i \in DOMAIN results : /\ InSession(results[i]) /\ Answers(results[i])
                                     /\ results[i].kind = "refreshResult"
                                     /\ results[i].gen = generation
        /\ watcher \in {0, generation}
    BY DEF SessionInv, Home
  <2>2. UNCHANGED <<generation, root, watcher, results>>
    BY <1>2
  <2>3. \A m \in commands' : InSession(m) /\ m.kind # "refreshResult"
    BY <1>3, <2>1
  <2> QED BY <1>3, <1>4, <2>1, <2>2, <2>3 DEF Home
<1> QED BY <1>5, <1>6 DEF SessionInv

LEMMA RefreshKeeps ==
  ASSUME SessionInv, BeginRefresh \/ FinishRefresh \/ TakeResult
  PROVE  SessionInv'
<1>1. UNCHANGED <<generation, root, shown, watcher, treeRequest, managers, commands, world, due>>
  BY DEF BeginRefresh, FinishRefresh, TakeResult, model, treeVars, outside
<1>2. \A m : (InSession(m) => InSession(m)') /\ (Answers(m) => Answers(m)')
  BY <1>1 DEF InSession, Answers
<1>3. Types /\ Home /\ world[root] \in Nat /\ count \in Nat
  BY DEF SessionInv, Types
<1>4. CASE BeginRefresh
  <2>1. UNCHANGED <<inbox, results>> /\ since' \in Nat /\ count' \in Nat
    BY <1>3, <1>4 DEF BeginRefresh
  <2> QED BY <1>1, <1>2, <1>3, <2>1 DEF SessionInv, Types, Home
<1>5. CASE FinishRefresh
  <2>1. PICK seen \in Seens :
          /\ seen = Nothing \/ seen.repo = root
          /\ results' = Append(results, Msg("refreshResult", generation, root, count, seen))
    BY <1>3, <1>5, NothingType DEF FinishRefresh, Seen, Seens, Types
  <2> DEFINE msg == Msg("refreshResult", generation, root, count, seen)
  <2>2. msg \in AnyMessages /\ msg.kind = "refreshResult" /\ msg.gen = generation
        /\ msg.repo = root /\ msg.seen = seen
    BY <1>3, MsgType DEF Types, Kinds
  <2>3. InSession(msg) /\ Answers(msg)
    BY <1>3, <2>1, <2>2 DEF InSession, Answers, Types
  <2> HIDE DEF msg
  <2>4. results \in Seq(AnyMessages) /\ results' = Append(results, msg)
    BY <1>3, <2>1 DEF Types, msg
  <2>5. results' \in Seq(AnyMessages)
        /\ \A i \in DOMAIN results' : results'[i] = msg \/ (i \in DOMAIN results /\ results'[i] = results[i])
    BY <2>2, <2>4, AppendProperties
  <2>6. UNCHANGED <<inbox, count>> /\ since' = 0
    BY <1>5 DEF FinishRefresh
  <2> QED BY <1>1, <1>2, <1>3, <2>2, <2>3, <2>5, <2>6 DEF SessionInv, Types, Home
<1>6. CASE TakeResult
  <2>1. results \in Seq(AnyMessages) /\ results # <<>> /\ results' = Tail(results)
        /\ inbox' = inbox \cup {Head(results)} /\ UNCHANGED <<since, count>>
    BY <1>3, <1>6 DEF TakeResult, Types
  <2>2. results' \in Seq(AnyMessages) /\ Head(results) = results[1] /\ 1 \in DOMAIN results
        /\ \A i \in DOMAIN results' : i + 1 \in DOMAIN results /\ results'[i] = results[i + 1]
    BY <2>1, HeadTailProperties
  <2> QED BY <1>1, <1>2, <1>3, <2>1, <2>2 DEF SessionInv, Types, Home
<1> QED BY <1>4, <1>5, <1>6

\* A handler that stays in its session, and sends and starts what belongs to it.
LEMMA StaysHome ==
  ASSUME SessionInv, NEW messages \in SUBSET AnyMessages, NEW started \in SUBSET AnyMessages,
         \A m \in messages : InSession(m) /\ Answers(m),
         \A m \in started : InSession(m) /\ m.kind # "refreshResult",
         inbox' \subseteq inbox \cup messages, commands' \subseteq commands \cup started,
         UNCHANGED <<generation, root, count, since, results, world>>,
         shown' \in Seens, treeRequest' \in Nat, due' \in Nat, managers' \subseteq managers,
         watcher' \in {0, generation}
  PROVE  SessionInv'
<1>1. Types /\ Home
  BY DEF SessionInv
<1>2. \A m : (InSession(m) => InSession(m)') /\ (Answers(m) => Answers(m)')
  BY DEF InSession, Answers
<1>3. Types'
  BY <1>1 DEF Types
<1>4. Home'
  <2>1. \A m \in commands' : InSession(m) /\ m.kind # "refreshResult"
    BY <1>1 DEF Home
  <2>2. \A m \in inbox' : InSession(m) /\ Answers(m)
    BY <1>1 DEF Home
  <2>3. /\ \A k \in DOMAIN results : /\ InSession(results[k]) /\ Answers(results[k])
                                     /\ results[k].kind = "refreshResult"
                                     /\ results[k].gen = generation
        /\ \A g \in managers' : g <= generation
    BY <1>1 DEF Home
  <2> QED BY <1>2, <2>1, <2>2, <2>3 DEF Home
<1> QED BY <1>3, <1>4 DEF SessionInv

\* The loads that a refresh result starts.
LEMMA LoadTypes ==
  ASSUME SessionInv, NEW n \in Nat
  PROVE  /\ TreeLoad \in SUBSET AnyMessages /\ SubmoduleLoad(n) \in SUBSET AnyMessages
         /\ \A m \in TreeLoad \cup SubmoduleLoad(n) : InSession(m) /\ m.kind # "refreshResult"
         /\ treeRequest + Cardinality(TreeLoad) \in Nat
<1>1. /\ generation \in Nat \ {0} /\ root \in Repos /\ treeRequest \in Nat /\ treeRequest + 1 \in Nat
      /\ Nothing \in Seens
  BY NothingType DEF SessionInv, Types
<1>2. ASSUME NEW kind \in {"tree", "submodules"}, NEW tag \in Nat
      PROVE  /\ Msg(kind, generation, root, tag, Nothing) \in AnyMessages
             /\ InSession(Msg(kind, generation, root, tag, Nothing))
             /\ Msg(kind, generation, root, tag, Nothing).kind # "refreshResult"
  BY <1>1, <1>2, MsgType DEF Kinds, InSession
<1>3. TreeLoad = {} \/ TreeLoad = {Msg("tree", generation, root, treeRequest + 1, Nothing)}
  BY DEF TreeLoad
<1>4. SubmoduleLoad(n) = {} \/ SubmoduleLoad(n) = {Msg("submodules", generation, root, n, Nothing)}
  BY DEF SubmoduleLoad
<1>5. Cardinality(TreeLoad) \in {0, 1}
  BY <1>3, FS_EmptySet, FS_Singleton
<1> QED BY <1>1, <1>2, <1>3, <1>4, <1>5

LEMMA UpdateKeeps ==
  ASSUME SessionInv, NEW msg \in inbox, Update(msg), ~OnOpened(msg)
  PROVE  SessionInv'
<1>1. Types /\ Home
  BY DEF SessionInv
<1>2. /\ msg \in AnyMessages /\ InSession(msg) /\ Answers(msg) /\ msg.gen \in Nat
      /\ {} \in SUBSET AnyMessages /\ shown \in Seens /\ treeRequest \in Nat /\ due \in Nat
      /\ watcher \in {0, generation} /\ world[root] \in Nat
  BY <1>1 DEF Types, Home, AnyMessages
<1>3. /\ {Request} \in SUBSET AnyMessages
      /\ \A m \in {Request} : InSession(m) /\ Answers(m)
  BY <1>1, RequestType DEF InSession, Answers, Types
<1>4. \A seen \in Seens : ApplySnapshot(seen) => shown' \in Seens
  BY <1>2 DEF ApplySnapshot
<1>5. msg.seen \in Seens /\ msg.tag \in Nat
  BY <1>2 DEF AnyMessages
<1>6. CASE Ignore(msg)
  <2>1. /\ inbox' \subseteq inbox /\ commands' \subseteq commands /\ managers' \subseteq managers
        /\ UNCHANGED <<generation, root, count, since, results, world, shown, treeRequest, due,
                       watcher>>
    BY <1>6 DEF Ignore, Handle, model, treeVars, coordinator
  <2> QED BY <1>2, <2>1, StaysHome
<1>7. CASE \/ OnRefreshRequested(msg) \/ OnTree(msg) \/ OnSubmodules(msg) \/ OnBranches(msg)
           \/ OnWatcherStarted(msg)
  <2>1. /\ inbox' \subseteq inbox /\ commands' \subseteq commands
        /\ UNCHANGED <<generation, root, count, since, results, world, shown, treeRequest, due,
                       managers>>
    BY <1>7 DEF OnRefreshRequested, OnTree, OnSubmodules, OnBranches, OnWatcherStarted, Handle,
                model, treeVars, coordinator, outside
  <2>2. watcher' \in {0, generation}
    BY <1>2, <1>7 DEF OnRefreshRequested, OnTree, OnSubmodules, OnBranches, OnWatcherStarted,
                      Accepts
  <2> QED BY <1>2, <2>1, <2>2, StaysHome
<1>8. CASE OnRefreshResult(msg)
  <2> DEFINE n == IF msg.seen = Nothing THEN 0 ELSE msg.tag
  <2>1. n \in Nat
    BY <1>5
  <2> HIDE DEF n
  <2>2. /\ inbox' \subseteq inbox /\ commands' \subseteq commands \cup (TreeLoad \cup SubmoduleLoad(n))
        /\ UNCHANGED <<generation, root, count, since, results, world, due, managers, watcher>>
        /\ treeRequest' = treeRequest + Cardinality(TreeLoad) /\ ApplySnapshot(msg.seen)
    BY <1>8 DEF OnRefreshResult, Handle, coordinator, outside, n
  <2>3. TreeLoad \cup SubmoduleLoad(n) \in SUBSET AnyMessages
    BY <2>1, LoadTypes
  <2>4. \A m \in TreeLoad \cup SubmoduleLoad(n) : InSession(m) /\ m.kind # "refreshResult"
    BY <2>1, LoadTypes
  <2>5. treeRequest' \in Nat /\ shown' \in Seens
    BY <1>4, <1>5, <2>1, <2>2, LoadTypes
  <2> DEFINE loads == TreeLoad \cup SubmoduleLoad(n)
  <2>6. loads \in SUBSET AnyMessages /\ commands' \subseteq commands \cup loads
        /\ \A m \in loads : InSession(m) /\ m.kind # "refreshResult"
    BY <2>2, <2>3, <2>4
  <2> HIDE DEF loads
  <2> QED BY <1>2, <2>2, <2>5, <2>6, StaysHome
<1>9. CASE OnOperation(msg)
  <2>1. /\ inbox' \subseteq inbox \cup {Request} /\ commands' \subseteq commands
        /\ UNCHANGED <<generation, root, count, since, results, world, treeRequest, managers,
                       watcher>>
        /\ due' = world[root] /\ ApplySnapshot(msg.seen)
    BY <1>9 DEF OnOperation, Handle, treeVars, coordinator, outside
  <2>2. shown' \in Seens /\ due' \in Nat
    BY <1>2, <1>4, <1>5, <2>1
  <2> QED BY <1>2, <1>3, <2>1, <2>2, StaysHome
<1>10. CASE OnWatcherEvent(msg)
  <2>1. /\ inbox' \subseteq inbox \cup {Request} /\ commands' \subseteq commands
        /\ UNCHANGED <<generation, root, count, since, results, world, treeRequest, managers,
                       watcher, shown>>
        /\ due' = world[root]
    BY <1>10 DEF OnWatcherEvent, Handle, model, treeVars, coordinator, outside
  <2> QED BY <1>2, <1>3, <2>1, StaysHome
<1> QED BY <1>6, <1>7, <1>8, <1>9, <1>10 DEF Update

LEMMA OpenedKeeps ==
  ASSUME SessionInv, NEW msg \in inbox, OnOpened(msg)
  PROVE  SessionInv'
<1>1. Types /\ Home /\ msg \in AnyMessages
  BY DEF SessionInv, Types
<1>2. /\ generation' = generation + 1 /\ root' = msg.repo /\ root' \in Repos
      /\ watcher' = 0 /\ managers' \subseteq managers /\ results' = <<>> /\ world' = world
      /\ since' = 0 /\ count' = 0 /\ due' = world[msg.repo] /\ shown' = shown
      /\ treeRequest' = treeRequest
  BY <1>1 DEF OnOpened, SetRepository, AnyMessages
<1>3. generation' \in Nat \ {0}
  BY <1>1, <1>2 DEF Types
<1>4. PICK asks \in AnyMessages :
        /\ asks = Msg("refreshRequested", generation', root', 0, Nothing)
        /\ asks.kind = "refreshRequested" /\ asks.gen = generation'
        /\ asks.repo = root' /\ asks.seen = Nothing
  BY <1>2, <1>3, MsgType, NothingType DEF Kinds
<1>5. PICK starts \in AnyMessages :
        /\ starts = Msg("watcherStarted", generation', root', 0, Nothing)
        /\ starts.kind = "watcherStarted" /\ starts.gen = generation'
        /\ starts.repo = root'
  BY <1>2, <1>3, MsgType, NothingType DEF Kinds
<1>6. inbox' \subseteq inbox \cup {asks} /\ commands' \subseteq commands \cup {starts}
  BY <1>4, <1>5 DEF OnOpened, Handle
<1>7. Types'
  BY <1>1, <1>2, <1>3, <1>4, <1>5, <1>6 DEF Types
<1>8. ASSUME NEW m \in AnyMessages, InSession(m) PROVE InSession(m)' /\ Answers(m)'
  BY <1>1, <1>2, <1>8, SMTT(60) DEF InSession, Answers, Types, AnyMessages
<1>9. InSession(asks)' /\ Answers(asks)' /\ InSession(starts)' /\ starts.kind # "refreshResult"
  BY <1>3, <1>4, <1>5 DEF InSession, Answers
<1>10. Home'
  <2>1. \A m \in commands' : InSession(m)' /\ m.kind # "refreshResult"
    BY <1>1, <1>6, <1>8, <1>9 DEF Home, Types
  <2>2. \A m \in inbox' : InSession(m)' /\ Answers(m)'
    BY <1>1, <1>6, <1>8, <1>9 DEF Home, Types
  <2>3. \A g \in managers' : g <= generation'
    BY <1>1, <1>2 DEF Home, Types
  <2> QED BY <1>2, <2>1, <2>2, <2>3 DEF Home
<1> QED BY <1>7, <1>10 DEF SessionInv

LEMMA OutsideKeeps ==
  ASSUME SessionInv,
         \/ \E r \in Repos : OpenRepository(r)
         \/ ChangeWorld \/ ShowBranches \/ PathOperation
         \/ \E g \in managers : WatchEvent(g)
         \/ UNCHANGED vars
  PROVE  SessionInv'
<1>1. Types /\ Home
  BY DEF SessionInv
<1>2. /\ generation \in Nat \ {0} /\ root \in Repos /\ shown \in Seens /\ treeRequest \in Nat
      /\ due \in Nat /\ watcher \in {0, generation} /\ Nothing \in Seens
  BY <1>1, NothingType DEF Types, Home
<1>3. ASSUME NEW kind \in {"opened", "branches", "operation"}, NEW r \in Repos, NEW seen \in Seens,
             kind = "operation" => r = root, Issue(Msg(kind, generation, r, 0, seen))
      PROVE  SessionInv'
  <2> DEFINE cmd == Msg(kind, generation, r, 0, seen)
  <2>1. cmd \in AnyMessages /\ cmd.kind = kind /\ cmd.gen = generation /\ cmd.repo = r
    BY <1>2, MsgType DEF Kinds
  <2>2. commands' = commands \cup {cmd} /\ inbox' = inbox
        /\ UNCHANGED <<generation, root, count, since, results, world, shown, treeRequest, due,
                       managers, watcher>>
    BY <1>3 DEF Issue, model, treeVars, coordinator
  <2> HIDE DEF cmd
  <2>3. {cmd} \in SUBSET AnyMessages /\ {} \in SUBSET AnyMessages
        /\ \A m \in {cmd} : InSession(m) /\ m.kind # "refreshResult"
    BY <1>2, <1>3, <2>1 DEF InSession
  <2> QED BY <1>2, <2>2, <2>3, StaysHome
<1>4. ASSUME NEW r \in Repos, OpenRepository(r) PROVE SessionInv'
  BY <1>2, <1>3, <1>4 DEF OpenRepository
<1>5. CASE ShowBranches
  BY <1>2, <1>3, <1>5 DEF ShowBranches
<1>6. CASE PathOperation
  BY <1>2, <1>3, <1>6 DEF PathOperation
<1>7. ASSUME NEW g \in managers, WatchEvent(g) PROVE SessionInv'
  <2> DEFINE msg == Msg("watcherEvent", g, root, 0, Nothing)
  <2>1. g \in Nat \ {0} /\ g <= generation
    BY <1>1 DEF Types, Home
  <2>2. msg \in AnyMessages /\ msg.kind = "watcherEvent" /\ msg.gen = g
    BY <1>2, <2>1, MsgType DEF Kinds
  <2>3. inbox' = inbox \cup {msg} /\ commands' = commands
        /\ UNCHANGED <<generation, root, count, since, results, world, shown, treeRequest, due,
                       managers, watcher>>
    BY <1>7 DEF WatchEvent, model, treeVars, coordinator
  <2> HIDE DEF msg
  <2>4. {msg} \in SUBSET AnyMessages /\ {} \in SUBSET AnyMessages
        /\ \A m \in {msg} : InSession(m) /\ Answers(m)
    BY <2>1, <2>2 DEF InSession, Answers
  <2> QED BY <1>2, <2>3, <2>4, StaysHome
<1>8. CASE ChangeWorld
  <2>1. world' \in [Repos -> Nat]
    BY <1>1, <1>8 DEF ChangeWorld, Types
  <2>2. UNCHANGED <<generation, root, count, since, results, shown, treeRequest, due, managers,
                    watcher, commands, inbox>>
    BY <1>8 DEF ChangeWorld, model, treeVars, coordinator
  <2> QED BY <1>1, <2>1, <2>2 DEF SessionInv, Types, Home, InSession, Answers
<1>9. CASE UNCHANGED vars
  BY <1>1, <1>9 DEF vars, model, treeVars, coordinator, outside, SessionInv, Types, Home, InSession,
                    Answers
<1> QED BY <1>4, <1>5, <1>6, <1>7, <1>8, <1>9

LEMMA SessionInductive ==
  ASSUME SessionInv, [Next]_vars
  PROVE  SessionInv'
BY CompleteKeeps, UpdateKeeps, OpenedKeeps, RefreshKeeps, OutsideKeeps DEF Next

LEMMA SessionInitially == Init => SessionInv
<1> SUFFICES ASSUME Init PROVE SessionInv
  OBVIOUS
<1>1. InitialRoot \in Repos
  BY RepoAssumption DEF InitialRoot
<1>2. root = InitialRoot /\ generation = 1
  BY DEF Init
<1>3. ASSUME NEW kind \in {"watcherStarted", "tree"}
      PROVE  /\ Msg(kind, 1, InitialRoot, 0, Nothing) \in AnyMessages
             /\ InSession(Msg(kind, 1, InitialRoot, 0, Nothing))
             /\ Msg(kind, 1, InitialRoot, 0, Nothing).kind # "refreshResult"
  <2>1. 1 \in Nat \ {0} /\ 0 \in Nat /\ kind \in Kinds /\ Nothing \in Seens
    BY <1>3, NothingType DEF Kinds
  <2>2. /\ Msg(kind, 1, InitialRoot, 0, Nothing) \in AnyMessages
        /\ Msg(kind, 1, InitialRoot, 0, Nothing).kind = kind
        /\ Msg(kind, 1, InitialRoot, 0, Nothing).gen = 1
    BY <1>1, <2>1, MsgType
  <2> QED BY <1>2, <1>3, <2>2 DEF InSession
<1>4. \A m \in commands : m \in AnyMessages /\ InSession(m) /\ m.kind # "refreshResult"
  <2>1. \A m \in commands : \E kind \in {"watcherStarted", "tree"} :
                             m = Msg(kind, 1, InitialRoot, 0, Nothing)
    BY DEF Init
  <2> QED BY <1>3, <2>1
<1>5. Types
  <2>1. Msg("refreshRequested", 1, InitialRoot, 0, Nothing) \in AnyMessages
    BY <1>1, MsgType, NothingType DEF Kinds
  <2>2. inbox \subseteq AnyMessages
    BY <1>2, <2>1 DEF Init, Request
  <2>3. world \in [Repos -> Nat] /\ results \in Seq(AnyMessages) /\ shown \in Seens
    BY NothingType DEF Init
  <2> QED BY <1>1, <1>2, <1>4, <2>2, <2>3 DEF Init, Types
<1>6. Home
  <2>1. \A m \in inbox : InSession(m) /\ Answers(m)
    BY <1>5, RequestType DEF Init, InSession, Answers, Types
  <2> QED BY <1>4, <2>1 DEF Init, Home
<1> QED BY <1>5, <1>6 DEF SessionInv

\* A snapshot is only ever applied in the session of the repository it shows, whatever
\* refresh or mutation of an earlier repository answers late (acceptsRepository, the
\* comparison of coordinators, setRepository).
THEOREM SnapshotsAlwaysStayHome == Spec => SnapshotsStayHome
<1>1. SessionInv /\ [Next]_vars => [shown' # shown => shown'.repo = root']_vars
  <2> SUFFICES ASSUME SessionInv, Next, shown' # shown PROVE shown'.repo = root'
    OBVIOUS
  <2>1. PICK msg \in inbox : OnRefreshResult(msg) \/ OnOperation(msg)
    <3>1. \A cmd : ~Complete(cmd)
      BY DEF Complete, model
    <3>2. ~BeginRefresh /\ ~FinishRefresh /\ ~TakeResult
      BY DEF BeginRefresh, FinishRefresh, TakeResult, model
    <3>3. ~(\E r \in Repos : OpenRepository(r)) /\ ~ChangeWorld /\ ~ShowBranches /\ ~PathOperation
          /\ ~(\E g \in managers : WatchEvent(g))
      BY DEF OpenRepository, ChangeWorld, ShowBranches, PathOperation, WatchEvent, Issue, model
    <3>4. \A msg : /\ ~Ignore(msg) /\ ~OnRefreshRequested(msg) /\ ~OnTree(msg) /\ ~OnSubmodules(msg)
                   /\ ~OnBranches(msg) /\ ~OnOpened(msg) /\ ~OnWatcherStarted(msg)
                   /\ ~OnWatcherEvent(msg)
      BY DEF Ignore, OnRefreshRequested, OnTree, OnSubmodules, OnBranches, OnOpened,
             OnWatcherStarted, OnWatcherEvent, SetRepository, model
    <3> QED BY <3>1, <3>2, <3>3, <3>4 DEF Next, Update
  <2>2. Answers(msg) /\ shown' = msg.seen /\ msg.seen # Nothing /\ root' = root
        /\ msg.gen = generation /\ msg.kind \in {"refreshResult", "operation"}
    BY <2>1 DEF SessionInv, Home, OnRefreshResult, OnOperation, ApplySnapshot, Accepts
  <2> QED BY <2>2 DEF Answers
<1> QED BY <1>1, SessionInitially, SessionInductive, PTL DEF Spec, SnapshotsStayHome

-----------------------------------------------------------------------------
(* No watch manager is leaked.                                             *)

LEMMA WatcherInductive ==
  ASSUME SessionInv, NoLeakedWatcher, [Next]_vars
  PROVE  NoLeakedWatcher'
<1> DEFINE Starts(msg, g) == msg.kind = "watcherStarted" /\ msg.gen = g
<1>1. /\ generation \in Nat \ {0} /\ managers \subseteq Nat \ {0} /\ watcher \in {0, generation}
  BY DEF SessionInv, Types, Home
<1>2. ASSUME watcher' = watcher, managers' \subseteq managers, inbox \subseteq inbox'
      PROVE  NoLeakedWatcher'
  BY <1>2 DEF NoLeakedWatcher
<1>3. ASSUME NEW msg \in inbox, watcher' = watcher, managers' \subseteq managers,
             inbox \ {msg} \subseteq inbox', msg.kind # "watcherStarted"
      PROVE  NoLeakedWatcher'
  BY <1>3 DEF NoLeakedWatcher
<1>4. ASSUME NEW cmd \in commands, Complete(cmd) PROVE NoLeakedWatcher'
  <2>1. watcher' = watcher
    BY <1>4 DEF Complete
  <2>2. CASE WatchCommand(cmd)
    BY <2>1, <2>2 DEF WatchCommand, Return, NoLeakedWatcher
  <2>3. CASE ~WatchCommand(cmd)
    <3>1. managers' = managers /\ inbox \subseteq inbox'
      BY <1>4, <2>3 DEF Complete, ReadCommand, MutateCommand, OpenCommand, Return, outside
    <3> QED BY <1>2, <2>1, <3>1
  <2> QED BY <2>2, <2>3
<1>5. ASSUME NEW msg \in inbox, Update(msg) PROVE NoLeakedWatcher'
  <2>1. CASE Ignore(msg)
    <3>1. inbox' = inbox \ {msg} /\ watcher' = watcher
      BY <2>1 DEF Ignore, Handle
    <3>2. managers' = IF msg.kind = "watcherStarted" THEN managers \ {msg.gen} ELSE managers
      BY <2>1 DEF Ignore
    <3> QED BY <3>1, <3>2 DEF NoLeakedWatcher
  <2>2. CASE OnWatcherStarted(msg)
    <3>1. watcher' = generation /\ msg.gen = generation /\ managers' = managers
          /\ inbox' = inbox \ {msg}
      BY <2>2 DEF OnWatcherStarted, Accepts, Handle, outside
    <3> QED BY <1>1, <3>1 DEF NoLeakedWatcher
  <2>3. CASE OnOpened(msg)
    <3>1. managers' = managers \ {watcher} /\ inbox \ {msg} \subseteq inbox'
          /\ msg.kind = "opened"
      BY <2>3 DEF OnOpened, SetRepository, Handle
    <3> QED BY <3>1 DEF NoLeakedWatcher
  <2>4. CASE \/ OnRefreshRequested(msg) \/ OnRefreshResult(msg) \/ OnTree(msg)
             \/ OnSubmodules(msg) \/ OnBranches(msg) \/ OnOperation(msg) \/ OnWatcherEvent(msg)
    <3>1. watcher' = watcher /\ managers' = managers /\ inbox \ {msg} \subseteq inbox'
          /\ msg.kind # "watcherStarted"
      BY <2>4 DEF OnRefreshRequested, OnRefreshResult, OnTree, OnSubmodules, OnBranches,
                  OnOperation, OnWatcherEvent, Handle, outside
    <3> QED BY <1>3, <3>1
  <2> QED BY <1>5, <2>1, <2>2, <2>3, <2>4 DEF Update
<1>6. CASE \/ BeginRefresh \/ FinishRefresh \/ TakeResult
           \/ (\E r \in Repos : OpenRepository(r)) \/ ChangeWorld \/ ShowBranches \/ PathOperation
           \/ (\E g \in managers : WatchEvent(g)) \/ UNCHANGED vars
  <2>1. watcher' = watcher /\ managers' = managers /\ inbox \subseteq inbox'
    BY <1>6 DEF BeginRefresh, FinishRefresh, TakeResult, OpenRepository, ChangeWorld, ShowBranches,
                PathOperation, WatchEvent, Issue, outside, vars
  <2> QED BY <1>2, <2>1
<1> QED BY <1>4, <1>5, <1>6 DEF Next

\* A watch manager whose start is reported after its session is over is closed, and the
\* one of a session that ends is closed with it: none runs on behind the model.
THEOREM WatchersNeverLeak == Spec => []NoLeakedWatcher
<1>1. Init => NoLeakedWatcher
  BY DEF Init, NoLeakedWatcher
<1> QED BY <1>1, SessionInitially, SessionInductive, WatcherInductive, PTL DEF Spec

-----------------------------------------------------------------------------
(* When everything has been handled, the screen is fresh.                  *)

\* The refresh result that Update has not handled yet.
Late == {m \in inbox : m.kind = "refreshResult" /\ m.gen = generation}

Good(m) == m.seen = Nothing \/ m.seen.version >= due

\* A refresh that has not begun will be fresh.
Coming == owed \/ \E m \in inbox : m.kind = "refreshRequested" /\ m.gen = generation

\* Otherwise the youngest thing on its way is: the refresh that runs, the last result in
\* the channel, the result in the inbox, or what is on the screen.
Youngest ==
  /\ running => since >= due
  /\ ~running /\ results # <<>> => Good(results[Len(results)])
  /\ ~running /\ results = <<>> => \A m \in Late : Good(m)
  /\ ~running /\ results = <<>> /\ Late = {} /\ ~failed
       => shown.repo = root /\ shown.version >= due

FreshInv ==
  /\ due <= world[root]
  /\ waiting => Late = {}
  /\ \A m, n \in Late : m = n
  /\ Coming \/ Youngest

\* A step that leaves the results and the screen alone.
LEMMA FreshStays ==
  ASSUME FreshInv, Late' = Late, Coming => Coming', due <= world'[root],
         UNCHANGED <<generation, root, shown, failed, results, running, since, due, waiting>>
  PROVE  FreshInv'
BY DEF FreshInv, Youngest, Good

LEMMA FreshInductive ==
  ASSUME SessionInv, FreshInv, [Next]_vars
  PROVE  FreshInv'
<1>1. Types /\ Home
  BY DEF SessionInv
<1>2. /\ generation \in Nat /\ world[root] \in Nat /\ due \in Nat /\ since \in Nat
      /\ results \in Seq(AnyMessages) /\ due <= world[root]
  BY <1>1 DEF Types, FreshInv
<1>3. ASSUME NEW cmd \in commands, Complete(cmd) PROVE FreshInv'
  <2>1. cmd \in AnyMessages /\ cmd.kind # "refreshResult"
    BY <1>1 DEF Types, Home
  <2>2. UNCHANGED <<generation, root, shown, failed, results, running, since, due, waiting, owed>>
    BY <1>3 DEF Complete, model, coordinator
  <2>3. PICK m : inbox' \in {inbox, inbox \cup {m}} /\ m.kind = cmd.kind
    <3>1. \A seen : [cmd EXCEPT !.seen = seen].kind = cmd.kind
      BY <2>1 DEF AnyMessages
    <3>2. CASE ReadCommand(cmd)
      <4>1. PICK seen : Return(cmd, [cmd EXCEPT !.seen = seen])
        BY <3>2 DEF ReadCommand
      <4>2. PICK m : m = [cmd EXCEPT !.seen = seen]
        OBVIOUS
      <4>3. inbox' = inbox \cup {m} /\ m.kind = cmd.kind
        BY <3>1, <4>1, <4>2 DEF Return
      <4> QED BY <4>3
    <3>3. CASE MutateCommand(cmd)
      <4>1. PICK seen : Return(cmd, [cmd EXCEPT !.seen = seen])
        BY <3>3 DEF MutateCommand
      <4>2. PICK m : m = [cmd EXCEPT !.seen = seen]
        OBVIOUS
      <4>3. inbox' = inbox \cup {m} /\ m.kind = cmd.kind
        BY <3>1, <4>1, <4>2 DEF Return
      <4> QED BY <4>3
    <3>4. CASE OpenCommand(cmd) \/ WatchCommand(cmd)
      <4>1. inbox' \in {inbox, inbox \cup {cmd}}
        BY <3>4 DEF OpenCommand, WatchCommand, Return
      <4> QED BY <4>1
    <3> QED BY <1>3, <3>2, <3>3, <3>4 DEF Complete
  <2>4. Late' = Late /\ (Coming => Coming')
    BY <2>1, <2>2, <2>3 DEF Late, Coming
  <2>5. due <= world'[root]
    <3>1. CASE world' = world
      BY <1>2, <3>1
    <3>2. CASE world' # world
      <4>1. world' = [world EXCEPT ![cmd.repo] = @ + 1]
        BY <1>3, <3>2 DEF Complete, ReadCommand, MutateCommand, OpenCommand, WatchCommand, outside
      <4> QED BY <1>1, <1>2, <2>1, <4>1 DEF Types, AnyMessages
    <3> QED BY <3>1, <3>2
  <2> QED BY <2>2, <2>4, <2>5, FreshStays
<1>4. CASE BeginRefresh
  <2>1. /\ running' = TRUE /\ since' = world[root]
        /\ UNCHANGED <<generation, root, inbox, due, waiting, world>>
    BY <1>4 DEF BeginRefresh, Coordinator!Begin, model, outside
  <2>2. Late' = Late
    BY <2>1 DEF Late
  <2> QED BY <1>2, <2>1, <2>2 DEF FreshInv, Youngest
<1>5. CASE FinishRefresh
  <2>1. /\ running /\ running' = FALSE /\ owed' = owed
        /\ UNCHANGED <<generation, root, inbox, due, waiting, world>>
    BY <1>5 DEF FinishRefresh, Coordinator!Finish, model, outside
  <2>2. PICK seen \in {Seen(root, v) : v \in since .. world[root]} \cup {Nothing} :
          results' = Append(results, Msg("refreshResult", generation, root, count, seen))
    BY <1>5 DEF FinishRefresh
  <2> DEFINE msg == Msg("refreshResult", generation, root, count, seen)
  <2>3. msg.seen = seen /\ (seen = Nothing \/ seen.version >= since)
    BY <1>2, <2>2 DEF Msg, Seen
  <2>4. seen \in Seens
    BY <1>1, <1>2, <2>2, NothingType DEF Seen, Seens, Types
  <2>5. msg \in AnyMessages
    BY <1>1, <2>4, MsgType DEF Types, Kinds
  <2> HIDE DEF msg
  <2>6. results' # <<>> /\ results'[Len(results')] = msg
    BY <1>2, <2>2, <2>5, AppendProperties DEF msg
  <2>7. Late' = Late /\ (Coming => Coming')
    BY <2>1 DEF Late, Coming
  <2>8. since >= due => msg.seen = Nothing \/ msg.seen.version >= due
    <3>1. CASE seen = Nothing
      BY <2>3, <3>1
    <3>2. CASE seen # Nothing
      <4>1. seen.version \in Nat
        BY <2>4 DEF Seens
      <4> QED BY <1>2, <2>3, <3>2, <4>1
    <3> QED BY <3>1, <3>2
  <2>9. Youngest => Youngest'
    BY <2>1, <2>6, <2>8 DEF Youngest, Good
  <2> QED BY <2>1, <2>7, <2>9 DEF FreshInv
<1>6. CASE TakeResult
  <2>1. /\ waiting /\ waiting' = FALSE /\ results # <<>> /\ results' = Tail(results)
        /\ inbox' = inbox \cup {Head(results)}
        /\ UNCHANGED <<generation, root, shown, failed, owed, running, since, due, world>>
    BY <1>6 DEF TakeResult, outside
  <2>2. /\ 1 \in DOMAIN results /\ Head(results) = results[1] /\ Len(results) \in Nat
        /\ results' = <<>> => Len(results) = 1
        /\ results' # <<>> => results'[Len(results')] = results[Len(results)]
    <3>1. Len(results) \in Nat \ {0} /\ results' \in Seq(AnyMessages)
          /\ Len(results') = Len(results) - 1
      BY <1>2, <2>1, HeadTailProperties
    <3>2. \A k \in 1 .. Len(results') : results'[k] = results[k + 1]
      BY <1>2, <2>1, <3>1, HeadTailProperties
    <3>3. results' = <<>> <=> Len(results') = 0
      BY <3>1, EmptySeq, ZenonT(60)
    <3>4. CASE results' = <<>>
      BY <1>2, <2>1, <3>1, <3>3, <3>4
    <3>5. CASE results' # <<>>
      <4>1. Len(results') \in 1 .. Len(results') /\ Len(results') + 1 = Len(results)
        BY <3>1, <3>3, <3>5
      <4>2. results'[Len(results')] = results[Len(results)]
        BY <3>2, <4>1
      <4> QED BY <1>2, <2>1, <3>1, <3>5, <4>2
    <3> QED BY <3>4, <3>5
  <2>3. Head(results).kind = "refreshResult" /\ Head(results).gen = generation
    BY <1>1, <2>2 DEF Home
  <2>4. Late = {}
    BY <2>1 DEF FreshInv
  <2>5. Late' = {Head(results)}
    BY <2>1, <2>3, <2>4 DEF Late
  <2>6. Coming => Coming'
    BY <2>1 DEF Coming
  <2>7. Youngest => Youngest'
    BY <2>1, <2>2, <2>5 DEF Youngest, Good
  <2> QED BY <1>2, <2>1, <2>5, <2>6, <2>7 DEF FreshInv
<1>7. ASSUME NEW msg \in inbox, Update(msg) PROVE FreshInv'
  <2>1. CASE \/ Ignore(msg) \/ OnTree(msg) \/ OnSubmodules(msg) \/ OnBranches(msg)
             \/ OnWatcherStarted(msg)
    <3>1. /\ inbox' = inbox \ {msg}
          /\ UNCHANGED <<generation, root, shown, failed, results, running, since, due, waiting,
                         owed, world>>
      BY <2>1 DEF Ignore, OnTree, OnSubmodules, OnBranches, OnWatcherStarted, Handle, model,
                  coordinator, outside
    <3>2. msg.kind \in {"refreshRequested", "refreshResult"} => msg.gen # generation
      BY <2>1 DEF Ignore, OnTree, OnSubmodules, OnBranches, OnWatcherStarted, Accepts
    <3>3. Late' = Late /\ (Coming => Coming')
      BY <3>1, <3>2 DEF Late, Coming
    <3> QED BY <1>2, <3>1, <3>3, FreshStays
  <2>2. CASE OnRefreshRequested(msg)
    <3>1. /\ inbox' = inbox \ {msg} /\ msg.kind = "refreshRequested" /\ owed' = TRUE
          /\ UNCHANGED <<generation, root, shown, failed, results, running, since, due, waiting,
                         world>>
      BY <2>2 DEF OnRefreshRequested, Coordinator!Ask, Handle, model, outside
    <3>2. Late' = Late /\ Coming'
      BY <3>1 DEF Late, Coming
    <3> QED BY <1>2, <3>1, <3>2, FreshStays
  <2>3. CASE OnRefreshResult(msg)
    <3>1. /\ inbox' = inbox \ {msg} /\ msg \in Late /\ waiting' = TRUE
          /\ failed' = (msg.seen = Nothing) /\ ApplySnapshot(msg.seen)
          /\ UNCHANGED <<generation, root, results, running, owed, since, due, world>>
      BY <2>3 DEF OnRefreshResult, Accepts, Handle, coordinator, outside, Late
    <3>2. Late = {msg} /\ Late' = {}
      BY <3>1 DEF Late, FreshInv
    <3>3. Coming => Coming'
      BY <3>1 DEF Coming, Late
    <3>4. msg.seen = Nothing \/ msg.seen.repo = root
      BY <1>1, <3>1 DEF Home, Answers, Late
    <3>5. msg.seen # Nothing => shown' = msg.seen
      BY <3>1 DEF ApplySnapshot
    <3>6. Youngest => Youngest'
      BY <3>1, <3>2, <3>4, <3>5 DEF Youngest, Good
    <3> QED BY <1>2, <3>1, <3>2, <3>3, <3>6 DEF FreshInv
  <2>4. CASE OnOperation(msg) \/ OnWatcherEvent(msg)
    <3>1. /\ inbox' = (inbox \ {msg}) \cup {Request} /\ msg.kind \in {"operation", "watcherEvent"}
          /\ due' = world[root] /\ UNCHANGED <<generation, root, waiting, world>>
      BY <2>4 DEF OnOperation, OnWatcherEvent, Handle, model, outside
    <3>2. Late' = Late /\ Coming'
      BY <1>1, <3>1, RequestType DEF Late, Coming
    <3> QED BY <1>2, <3>1, <3>2 DEF FreshInv
  <2>5. CASE OnOpened(msg)
    <3>1. /\ generation' = generation + 1 /\ root' = msg.repo /\ waiting' = TRUE
          /\ due' = world[msg.repo] /\ world' = world
      BY <2>5 DEF OnOpened, SetRepository
    <3>2. PICK asks \in AnyMessages :
            /\ inbox' = (inbox \ {msg}) \cup {asks}
            /\ asks.kind = "refreshRequested" /\ asks.gen = generation'
      <4>1. generation' \in Nat \ {0} /\ root' \in Repos
        BY <1>1, <1>2, <3>1 DEF Types, AnyMessages
      <4> QED BY <2>5, <4>1, MsgType, NothingType DEF OnOpened, Handle, Kinds
    <3>3. \A m \in inbox : m.gen \in Nat /\ m.gen <= generation
      BY <1>1 DEF Types, Home, InSession, AnyMessages
    <3>4. Late' = {}
      BY <1>2, <3>1, <3>2, <3>3 DEF Late
    <3>5. Coming'
      BY <3>2 DEF Coming
    <3>6. due' <= world'[root']
      BY <1>1, <3>1 DEF Types, AnyMessages
    <3> QED BY <3>4, <3>5, <3>6 DEF FreshInv
  <2> QED BY <1>7, <2>1, <2>2, <2>3, <2>4, <2>5 DEF Update
<1>8. CASE \/ (\E r \in Repos : OpenRepository(r)) \/ ChangeWorld \/ ShowBranches \/ PathOperation
           \/ (\E g \in managers : WatchEvent(g)) \/ UNCHANGED vars
  <2>1. UNCHANGED <<generation, root, shown, failed, results, running, since, due, waiting, owed>>
    BY <1>8 DEF OpenRepository, ChangeWorld, ShowBranches, PathOperation, WatchEvent, Issue, vars,
                model, coordinator
  <2>2. PICK m : inbox' \in {inbox, inbox \cup {m}} /\ m.kind = "watcherEvent"
    <3>1. ASSUME NEW g, WatchEvent(g)
          PROVE  \E m : inbox' \in {inbox, inbox \cup {m}} /\ m.kind = "watcherEvent"
      <4>1. Msg("watcherEvent", g, root, 0, Nothing).kind = "watcherEvent"
        BY DEF Msg
      <4> QED BY <3>1, <4>1 DEF WatchEvent
    <3>2. CASE inbox' = inbox
      <4>1. Msg("watcherEvent", 1, root, 0, Nothing).kind = "watcherEvent"
        BY DEF Msg
      <4> QED BY <3>2, <4>1
    <3>3. (\E g \in managers : WatchEvent(g)) \/ inbox' = inbox
      BY <1>8 DEF OpenRepository, ChangeWorld, ShowBranches, PathOperation, Issue, vars
    <3> QED BY <3>1, <3>2, <3>3
  <2>3. Late' = Late /\ (Coming => Coming')
    BY <2>1, <2>2 DEF Late, Coming
  <2>4. world' = world \/ world' = [world EXCEPT ![root] = @ + 1]
    BY <1>8 DEF OpenRepository, ChangeWorld, ShowBranches, PathOperation, WatchEvent, Issue, vars,
                outside
  <2>5. due <= world'[root]
    BY <1>1, <1>2, <2>4 DEF Types
  <2> QED BY <2>1, <2>3, <2>5, FreshStays
<1> QED BY <1>3, <1>4, <1>5, <1>6, <1>7, <1>8 DEF Next

\* When every message and command has been handled and the coordinator rests, the screen
\* shows the open repository as it was after the last mutation, hint or switch, unless the
\* last refresh failed: no refresh is lost between the coordinator, waitForRefresh and Update,
\* and no older result arrives after a newer one.
THEOREM QuietAlwaysFresh == Spec => []QuietMeansFresh
<1>1. Init => FreshInv
  <2> SUFFICES ASSUME Init PROVE FreshInv
    OBVIOUS
  <2>1. Late = {} /\ Coming
    BY MsgType, NothingType DEF Init, Late, Coming, Request, Msg
  <2>2. InitialRoot \in Repos
    BY RepoAssumption DEF InitialRoot
  <2> QED BY <2>1, <2>2 DEF Init, FreshInv
<1>2. FreshInv => QuietMeansFresh
  <2>1. inbox = {} => Late = {}
    BY DEF Late
  <2> QED BY <2>1 DEF FreshInv, Coming, Youngest, QuietMeansFresh, Quiet
<1> QED BY <1>1, <1>2, SessionInitially, SessionInductive, FreshInductive, PTL DEF Spec

=============================================================================
