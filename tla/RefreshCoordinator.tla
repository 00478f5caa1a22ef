------------------------ MODULE RefreshCoordinator ------------------------
(***************************************************************************)
(* internal/git/refresh.go: the coordinator that turns refresh requests    *)
(* into repository snapshots.  Request, run and Close share a mutex; each  *)
(* action below is one critical section, or one step outside the mutex.    *)
(* The snapshot function is external: it reads a repository that changes   *)
(* under it, so it returns some version the repository had while it ran.   *)
(***************************************************************************)
EXTENDS Naturals, Sequences

CONSTANTS
  Runners,      \* identities of the goroutines Request may start
  NoRunner,     \* the nil CancelFunc
  Contexts,     \* the contexts callers pass to Request
  Closers,      \* goroutines that call Close, each once
  MaxRequests,  \* bound: calls of Request
  MaxVersion    \* bound: changes of the repository

\* NewRefreshCoordinator makes the results channel with this capacity.
ResultsCap == 2

ASSUME RunnerAssumption == NoRunner \notin Runners
ASSUME BoundAssumption == MaxRequests \in Nat /\ MaxVersion \in Nat

VARIABLES
  active, dirty, generation, closed,
  cancel,      \* whose run context c.cancel cancels
  results,     \* the results channel
  pc,          \* where each goroutine is in run
  parent,      \* the context its run context derives from
  cancelled,   \* its CancelFunc was called
  current,     \* the refresh it performs: generation, version it began at, result
  closing,     \* where each caller of Close is
  captured,    \* the CancelFunc it read under the mutex
  listening,   \* the consumer waits on the channel again after each result
  delivered,   \* the last result the consumer received
  dead,        \* contexts their owners cancelled
  world,       \* ghost: version of the repository
  asked,       \* ghost: calls of Request so far
  wanted,      \* ghost: version at the latest accepted Request
  begun,       \* ghost: version at which the latest refresh began
  published    \* ghost: version at which the latest published refresh began

repo == <<active, dirty, generation, closed, cancel, results>>
runs == <<pc, parent, cancelled, current>>
ends == <<closing, captured, listening, delivered>>
ghosts == <<world, asked, wanted, begun, published>>
vars == <<repo, runs, ends, dead, ghosts>>

Versions == 0..MaxVersion
\* A result, a snapshot or an error: when its refresh began, and what it saw.
Result == [generation : Nat, since : Versions, version : Versions]
NoResult == [generation |-> 0, since |-> 0, version |-> 0]

InLoop == {"start", "refreshing", "publish", "settle"}
Points == InLoop \cup {"idle", "exit"}

\* ctx.Done() of the run context: its own cancel, or its parent's.
CtxDone(r) == cancelled[r] \/ parent[r] \in dead

Init ==
  /\ active = FALSE /\ dirty = FALSE /\ generation = 0 /\ closed = FALSE
  /\ cancel = NoRunner /\ results = <<>>
  /\ pc = [r \in Runners |-> "idle"]
  /\ parent \in [Runners -> Contexts]
  /\ cancelled = [r \in Runners |-> TRUE]
  /\ current = [r \in Runners |-> NoResult]
  /\ closing = [k \in Closers |-> "no"] /\ captured = [k \in Closers |-> NoRunner]
  /\ listening = TRUE /\ delivered = NoResult
  /\ dead = {}
  /\ world = 0 /\ asked = 0 /\ wanted = 0 /\ begun = 0 /\ published = 0
-----------------------------------------------------------------------------
(* Request *)

\* Faulty variant: the request is dropped because a refresh is running anyway.
CoalesceSilently == active /\ UNCHANGED <<active, dirty, cancel, runs>>

Coalesce == active /\ dirty' = TRUE /\ UNCHANGED <<active, cancel, runs>>

\* Faulty variant: a goroutine per request, whatever is running.
StartRunAlways(c) ==
  /\ \E r \in Runners :
       /\ pc[r] = "idle"
       /\ active' = TRUE /\ cancel' = r
       /\ pc' = [pc EXCEPT ![r] = "start"]
       /\ parent' = [parent EXCEPT ![r] = c]
       /\ cancelled' = [cancelled EXCEPT ![r] = FALSE]
  /\ UNCHANGED <<dirty, current>>

StartRun(c) ==
  /\ ~active
  /\ \E r \in Runners :
       /\ pc[r] = "idle"
       /\ active' = TRUE /\ cancel' = r
       /\ pc' = [pc EXCEPT ![r] = "start"]
       /\ parent' = [parent EXCEPT ![r] = c]
       /\ cancelled' = [cancelled EXCEPT ![r] = FALSE]
  /\ UNCHANGED <<dirty, current>>

\* Faulty variant: no check of c.closed.
AcceptAlways(c) ==
  /\ Coalesce \/ StartRun(c)
  /\ wanted' = world
  /\ UNCHANGED <<generation, closed, results>>

Accept(c) ==
  /\ ~closed
  /\ Coalesce \/ StartRun(c)
  /\ wanted' = world
  /\ UNCHANGED <<generation, closed, results>>

Refuse == closed /\ UNCHANGED <<repo, runs, wanted>>

Request(c) ==
  /\ asked < MaxRequests
  /\ asked' = asked + 1
  /\ Accept(c) \/ Refuse
  /\ UNCHANGED <<ends, dead, world, begun, published>>
-----------------------------------------------------------------------------
(* The goroutine: run, then its deferred cancel and wg.Done *)

Begin(r) ==
  /\ pc[r] = "start"
  /\ pc' = [pc EXCEPT ![r] = "refreshing"]
  /\ generation' = generation + 1
  /\ current' = [current EXCEPT ![r] =
       [generation |-> generation + 1, since |-> world, version |-> world]]
  /\ begun' = world
  /\ UNCHANGED <<active, dirty, closed, cancel, results, parent, cancelled,
                 ends, dead, world, asked, wanted, published>>

\* c.refresh(ctx, generation) returns, with some version the repository had meanwhile.
Return(r) ==
  /\ pc[r] = "refreshing"
  /\ pc' = [pc EXCEPT ![r] = "publish"]
  /\ \E v \in current[r].since .. world : current' = [current EXCEPT ![r].version = v]
  /\ UNCHANGED <<repo, parent, cancelled, ends, dead, ghosts>>

Publish(r) ==
  /\ pc[r] = "publish"
  /\ Len(results) < ResultsCap
  /\ results' = Append(results, current[r])
  /\ published' = current[r].since
  /\ pc' = [pc EXCEPT ![r] = "settle"]
  /\ UNCHANGED <<active, dirty, generation, closed, cancel, parent, cancelled, current,
                 ends, dead, world, asked, wanted, begun>>

\* Faulty variant: a send that gives up on a full channel.
DiscardAtOnce(r) ==
  /\ pc[r] = "publish"
  /\ pc' = [pc EXCEPT ![r] = "settle"]
  /\ UNCHANGED <<repo, parent, cancelled, current, ends, dead, ghosts>>

\* The other two cases of the select: nobody waits for this result any more.
Discard(r) ==
  /\ pc[r] = "publish"
  /\ CtxDone(r) \/ closed
  /\ pc' = [pc EXCEPT ![r] = "settle"]
  /\ UNCHANGED <<repo, parent, cancelled, current, ends, dead, ghosts>>

\* Faulty variant: the loop ends without looking at dirty.
LeaveAnyway(r) ==
  /\ active' = FALSE /\ dirty' = FALSE /\ cancel' = NoRunner
  /\ pc' = [pc EXCEPT ![r] = "exit"]

Leave(r) ==
  /\ closed \/ ~dirty
  /\ active' = FALSE /\ dirty' = FALSE /\ cancel' = NoRunner
  /\ pc' = [pc EXCEPT ![r] = "exit"]

Again(r) ==
  /\ ~closed /\ dirty
  /\ dirty' = FALSE
  /\ pc' = [pc EXCEPT ![r] = "start"]
  /\ UNCHANGED <<active, cancel>>

Settle(r) ==
  /\ pc[r] = "settle"
  /\ Leave(r) \/ Again(r)
  /\ UNCHANGED <<generation, closed, results, parent, cancelled, current, ends, dead, ghosts>>

Exit(r) ==
  /\ pc[r] = "exit"
  /\ pc' = [pc EXCEPT ![r] = "idle"]
  /\ cancelled' = [cancelled EXCEPT ![r] = TRUE]
  /\ current' = [current EXCEPT ![r] = NoResult]
  /\ UNCHANGED <<repo, parent, ends, dead, ghosts>>
-----------------------------------------------------------------------------
(* Close *)

CloseBegin(k) ==
  /\ closing[k] = "no"
  /\ closed' = TRUE
  /\ captured' = [captured EXCEPT ![k] = cancel]
  /\ closing' = [closing EXCEPT ![k] = "cancelling"]
  /\ UNCHANGED <<active, dirty, generation, cancel, results, runs, listening, delivered,
                 dead, ghosts>>

CloseCancel(k) ==
  /\ closing[k] = "cancelling"
  /\ cancelled' = IF captured[k] = NoRunner THEN cancelled
                  ELSE [cancelled EXCEPT ![captured[k]] = TRUE]
  /\ closing' = [closing EXCEPT ![k] = "waiting"]
  /\ UNCHANGED <<repo, pc, parent, current, captured, listening, delivered, dead, ghosts>>

\* wg.Wait returns once every goroutine has called wg.Done.
CloseReturn(k) ==
  /\ closing[k] = "waiting"
  /\ \A r \in Runners : pc[r] = "idle"
  /\ closing' = [closing EXCEPT ![k] = "returned"]
  /\ UNCHANGED <<repo, runs, captured, listening, delivered, dead, ghosts>>
-----------------------------------------------------------------------------
(* The environment: the consumer (app.go, waitForRefresh and the handler of *)
(* refreshResultMsg, which waits again), the owners of the contexts, and    *)
(* whoever changes the repository.                                          *)

Receive ==
  /\ listening /\ results # <<>>
  /\ delivered' = Head(results)
  /\ results' = Tail(results)
  /\ UNCHANGED <<active, dirty, generation, closed, cancel, runs, closing, captured,
                 listening, dead, ghosts>>

StopListening ==
  /\ listening /\ closed
  /\ listening' = FALSE
  /\ UNCHANGED <<repo, runs, closing, captured, delivered, dead, ghosts>>

CancelContext(c) ==
  /\ c \notin dead
  /\ dead' = dead \cup {c}
  /\ UNCHANGED <<repo, runs, ends, ghosts>>

ChangeWorld ==
  /\ world < MaxVersion
  /\ world' = world + 1
  /\ UNCHANGED <<repo, runs, ends, dead, asked, wanted, begun, published>>

Run(r) == Begin(r) \/ Return(r) \/ Publish(r) \/ Discard(r) \/ Settle(r) \/ Exit(r)

Next ==
  \/ \E c \in Contexts : Request(c) \/ CancelContext(c)
  \/ \E r \in Runners : Run(r)
  \/ \E k \in Closers : CloseBegin(k) \/ CloseCancel(k) \/ CloseReturn(k)
  \/ Receive \/ StopListening \/ ChangeWorld

\* The Go scheduler runs every runnable goroutine; a refresh returns, because the
\* runner kills git when its context or its timeout ends; the event loop keeps
\* receiving.  Nothing makes a caller request, close, cancel or change anything.
Fairness ==
  /\ \A r \in Runners : WF_vars(Run(r))
  /\ \A k \in Closers : WF_vars(CloseCancel(k) \/ CloseReturn(k))
  /\ WF_vars(Receive)

Spec == Init /\ [][Next]_vars /\ Fairness
-----------------------------------------------------------------------------
(* Properties *)

TypeOK ==
  /\ active \in BOOLEAN /\ dirty \in BOOLEAN /\ closed \in BOOLEAN
  /\ generation \in Nat
  /\ cancel \in Runners \cup {NoRunner}
  /\ results \in Seq(Result) /\ Len(results) <= ResultsCap
  /\ pc \in [Runners -> Points]
  /\ parent \in [Runners -> Contexts]
  /\ cancelled \in [Runners -> BOOLEAN]
  /\ current \in [Runners -> Result]
  /\ closing \in [Closers -> {"no", "cancelling", "waiting", "returned"}]
  /\ captured \in [Closers -> Runners \cup {NoRunner}]
  /\ listening \in BOOLEAN /\ delivered \in Result
  /\ dead \subseteq Contexts
  /\ world \in Versions /\ wanted \in Versions /\ begun \in Versions /\ published \in Versions
  /\ asked \in Nat

\* At most one goroutine is in the refresh loop, it is there exactly while the
\* coordinator says it is active, and c.cancel is its cancel function: Close can
\* always reach the refresh in progress.
OneRefresh ==
  /\ \A r, s \in Runners : pc[r] \in InLoop /\ pc[s] \in InLoop => r = s
  /\ \A r \in Runners : pc[r] \in InLoop <=> cancel = r
  /\ active <=> cancel # NoRunner

\* Until it is closed, the coordinator never forgets a request: if the repository
\* changed between the start of the latest refresh and the latest accepted request,
\* another refresh is already scheduled.
NoLostRequest ==
  ~closed /\ begun < wanted => dirty \/ \E r \in Runners : pc[r] = "start"

\* While its contexts live, an idle coordinator has published a result of a refresh
\* that began no earlier than the last request it accepted.
QuietMeansPublished ==
  ~closed /\ dead = {} /\ ~active => published >= wanted

\* When Close has returned, no refresh runs and none can start: git.Snapshot cannot
\* touch the old repository after setRepository moved on.
QuietAfterClose ==
  (\E k \in Closers : closing[k] = "returned") => \A r \in Runners : pc[r] = "idle"

\* A consumer sees generations grow, and never an older repository after a newer one.
ResultsInOrder ==
  [][delivered' # delivered =>
       /\ delivered'.generation > delivered.generation
       /\ delivered'.version >= delivered.version]_vars

\* Every accepted request is answered by a result whose refresh began no earlier than
\* the request, unless the coordinator is closed or a context is cancelled.
RequestAnswered ==
  \A v \in 1 .. MaxVersion :
    wanted = v ~> delivered.since >= v \/ closed \/ dead # {}

\* Close returns, even with a full results channel that nobody reads.
CloseEnds == \A k \in Closers : closing[k] = "cancelling" ~> closing[k] = "returned"

\* The coordinator implements the promise.
Promise == INSTANCE RefreshPromise WITH
  owed <- dirty \/ \E r \in Runners : pc[r] = "start",
  running <- \E r \in Runners : pc[r] \in {"refreshing", "publish", "settle"},
  stopped <- closed

KeepsPromise == Promise!Spec
=============================================================================
