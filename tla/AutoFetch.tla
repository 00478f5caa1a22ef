------------------------------ MODULE AutoFetch ------------------------------
(***************************************************************************)
(* The automatic fetch: a timer asks Update for a run, a run hands the     *)
(* repositories that are due to a pool of workers, each worker fetches and *)
(* sets when the repository is due again (remoteintel.Scheduler), and a    *)
(* message brings the results to Update.  A repository in the middle of a  *)
(* Git operation is left alone.                                            *)
(*                                                                         *)
(* Time is a number of BackoffBase units.  The jitter is a delay of any    *)
(* length before the fetch; classes of errors are left out.                *)
(***************************************************************************)
EXTENDS Naturals, FiniteSets, Sequences

CONSTANTS
  Remotes,       \* paths of repositories
  IntervalFor,   \* intervalFor: Config.Interval, or a shorter one of a repository's group
  BackoffMax,    \* Config.BackoffMax; BackoffBase is 1
  FetchWorkers,  \* Config.Workers
  MaxTracked,    \* maxTrackedRepositories
  Registries,    \* bound: what a load may replace the registry by
  MaxTime, MaxRuns  \* bounds

ASSUME AutoFetchAssumption ==
  /\ IntervalFor \in [Remotes -> Nat \ {0}] /\ {BackoffMax, FetchWorkers} \subseteq Nat \ {0}
  /\ {MaxTracked, MaxTime, MaxRuns} \subseteq Nat
  /\ IsFiniteSet(Remotes) /\ Registries \subseteq SUBSET Remotes

VARIABLES
  afNow,       \* the clock
  afRegistry,  \* paths in RepositoryRegistry
  afActive,    \* repositories in the middle of a Git operation
  afRunning,   \* AutoFetchRunning
  afNext,      \* Scheduler.next
  afFails,     \* Scheduler.fails
  afStarted,   \* runs started so far
  afRuns,      \* the runs in flight: number -> run
  afGhost      \* ghost: failures in a row, and when the run of the last fetch began

afVars == <<afNow, afRegistry, afActive, afRunning, afNext, afFails, afStarted, afRuns, afGhost>>

JobStates == {"taken", "fetching", "fetched", "failed", "cancelled", "skipped-active"}
Attempts == 1..(MaxRuns + 1)

\* phase: RunOnce has not begun, feeds, is over and pruned.  now: when it began; all: its list, left: what is not fed yet;
\* known: those known to be active; jobs: path -> attempt and state.
RunFields(jobs) ==
  [phase : {"asked", "feeding", "posted"}, now : 0..MaxTime, all : SUBSET Remotes,
   left : SUBSET Remotes, known : SUBSET Remotes, jobs : {jobs}, dead : BOOLEAN]

AfTypeOK ==
  /\ afNow \in 0..MaxTime
  /\ afRegistry \subseteq Remotes /\ afActive \subseteq Remotes
  /\ afRunning \in BOOLEAN
  /\ DOMAIN afNext \subseteq Remotes /\ afNext \in [DOMAIN afNext -> Nat]
  /\ DOMAIN afFails \subseteq Remotes /\ afFails \in [DOMAIN afFails -> Attempts]
  /\ afStarted \in 0..MaxRuns /\ DOMAIN afRuns \subseteq 1..afStarted
  /\ \A r \in DOMAIN afRuns :
       /\ afRuns[r] \in RunFields(afRuns[r].jobs)
       /\ \A p \in DOMAIN afRuns[r].jobs :
            afRuns[r].jobs[p] \in [attempt : 0..(MaxRuns + 1), state : JobStates]

None == [p \in {} |-> 0]
Assign(f, p, v) == [q \in DOMAIN f \union {p} |-> IF q = p THEN v ELSE f[q]]
Only(f, S) == [q \in DOMAIN f \intersect S |-> f[q]]

AfInit ==
  /\ afNow = 0 /\ afRegistry = Remotes /\ afActive = {}
  /\ afRunning = FALSE
  /\ afNext = None /\ afFails = None /\ afStarted = 0 /\ afRuns = None
  /\ afGhost = [streak |-> [p \in Remotes |-> 0], run |-> None]

-----------------------------------------------------------------------------
\* The world.

AfTime ==
  /\ afNow < MaxTime
  /\ afNow' = afNow + 1
  /\ UNCHANGED <<afRegistry, afActive, afRunning, afNext, afFails, afRuns, afGhost, afStarted>>

AfOperation(p) == \* a rebase, a merge begins or ends in p
  /\ afActive' = IF p \in afActive THEN afActive \ {p} ELSE afActive \union {p}
  /\ UNCHANGED <<afNow, afRegistry, afRunning, afNext, afFails, afRuns, afGhost, afStarted>>

AfRegister(paths) == \* a load of the dashboard replaces the registry
  /\ afRegistry # paths
  /\ afRegistry' = paths
  /\ UNCHANGED <<afNow, afActive, afRunning, afNext, afFails, afRuns, afGhost, afStarted>>

AfSwitch == \* setRepository ends the context of a run
  /\ \E r \in DOMAIN afRuns : ~afRuns[r].dead
  /\ afRuns' = [r \in DOMAIN afRuns |-> [afRuns[r] EXCEPT !.dead = TRUE]]
  /\ UNCHANGED <<afNow, afRegistry, afActive, afRunning, afNext, afFails, afGhost, afStarted>>

-----------------------------------------------------------------------------
FaultyIdle == TRUE

\* AutoFetchTickMsg and runAutoFetch: one run at a time.  The repositories, and
\* whether the open one has an operation (in the snapshot on the screen, which
\* may be old), are taken now.
Idle == ~afRunning

AfTick ==
  /\ Idle
  /\ afRegistry # {}
  /\ afStarted < MaxRuns
  /\ afStarted' = afStarted + 1
  /\ afRunning' = TRUE
  /\ \E known \in {{}} \union {{p} : p \in afRegistry} :
       afRuns' = Assign(afRuns, afStarted + 1,
         [phase |-> "asked", now |-> 0, all |-> afRegistry, left |-> afRegistry,
          known |-> known, jobs |-> None, dead |-> FALSE])
  /\ UNCHANGED <<afNow, afRegistry, afActive, afNext, afFails, afGhost>>

\* RunOnce: a context that has ended already yields nothing.
AfBegin(r) ==
  /\ afRuns[r].phase = "asked"
  /\ afRuns' = [afRuns EXCEPT ![r].phase = IF afRuns[r].dead THEN "posted" ELSE "feeding",
                              ![r].now = afNow]
  /\ UNCHANGED <<afNow, afRegistry, afActive, afRunning, afNext, afFails, afGhost, afStarted>>

Due(p, now) == p \in DOMAIN afNext => afNext[p] <= now
Attempt(p) == IF p \in DOMAIN afFails THEN afFails[p] + 1 ELSE 1
InState(r, states) == {p \in DOMAIN afRuns[r].jobs : afRuns[r].jobs[p].state \in states}
Job(attempt, state) == [attempt |-> attempt, state |-> state]

\* The feeder: an active repository is reported as skipped, one that is not
\* due is passed over, any other waits for a worker.
AfFeed(r, p) ==
  /\ afRuns[r].phase = "feeding"
  /\ p \in afRuns[r].left
  /\ \/ /\ p \in afRuns[r].known
        /\ afRuns' = [afRuns EXCEPT ![r].left = @ \ {p},
                                    ![r].jobs = Assign(@, p, Job(0, "skipped-active"))]
     \/ /\ p \notin afRuns[r].known /\ ~Due(p, afRuns[r].now)
        /\ afRuns' = [afRuns EXCEPT ![r].left = @ \ {p}]
     \/ /\ p \notin afRuns[r].known /\ Due(p, afRuns[r].now)
        /\ Cardinality(InState(r, {"taken", "fetching"})) < FetchWorkers
        /\ afRuns' = [afRuns EXCEPT ![r].left = @ \ {p},
                                    ![r].jobs = Assign(@, p, Job(Attempt(p), "taken"))]
  /\ UNCHANGED <<afNow, afRegistry, afActive, afRunning, afNext, afFails, afGhost, afStarted>>

AfStopFeeding(r) == \* the feeder sees that the context has ended
  /\ afRuns[r].phase = "feeding" /\ afRuns[r].dead /\ afRuns[r].left # {}
  /\ afRuns' = [afRuns EXCEPT ![r].left = {}]
  /\ UNCHANGED <<afNow, afRegistry, afActive, afRunning, afNext, afFails, afGhost, afStarted>>

\* A worker, before the fetch and its jitter (a context that has ended), and in
\* the callback of runAutoFetch, which asks Git for an operation in progress.
AfWorker(r, p) ==
  /\ p \in InState(r, {"taken"})
  /\ \/ /\ afRuns[r].dead
        /\ afRuns' = [afRuns EXCEPT ![r].jobs[p].state = "cancelled"]
        /\ UNCHANGED <<afNext, afGhost>>
     \/ /\ p \in afActive
        /\ afRuns' = [afRuns EXCEPT ![r].jobs[p].state = "skipped-active"]
        /\ afNext' = Assign(afNext, p, afRuns[r].now + IntervalFor[p])
        /\ UNCHANGED afGhost
     \/ /\ p \notin afActive
        /\ afRuns' = [afRuns EXCEPT ![r].jobs[p].state = "fetching"]
        /\ afGhost' = [afGhost EXCEPT !.run = Assign(@, p, afRuns[r].now)]
        /\ UNCHANGED afNext
  /\ UNCHANGED <<afNow, afRegistry, afActive, afRunning, afFails, afStarted>>

\* The doubling loop of Scheduler.run.
Backoff(attempt) == IF 2 ^ (attempt - 1) > BackoffMax THEN BackoffMax ELSE 2 ^ (attempt - 1)

\* The fetch ends.  One that was cancelled is a failure.
AfReturn(r, p) ==
  /\ p \in InState(r, {"fetching"})
  /\ \/ /\ afRuns' = [afRuns EXCEPT ![r].jobs[p].state = "fetched"]
        /\ afFails' = Only(afFails, Remotes \ {p})
        /\ afNext' = Assign(afNext, p, afRuns[r].now + IntervalFor[p])
        /\ afGhost' = [afGhost EXCEPT !.streak[p] = 0]
     \/ LET attempt == afRuns[r].jobs[p].attempt
        IN /\ afRuns' = [afRuns EXCEPT ![r].jobs[p].state = "failed"]
           /\ afFails' = Assign(afFails, p, attempt)
           /\ afNext' = Assign(afNext, p, afRuns[r].now + Backoff(attempt))
           /\ afGhost' = [afGhost EXCEPT !.streak[p] = @ + 1]
  /\ UNCHANGED <<afNow, afRegistry, afActive, afRunning, afStarted>>

\* pruneState keeps what is in the list; of a list longer than the limit it forgets any that
\* it has a time for, down to the limit: they are due at once, as if they had never failed.
Tracked(all) ==
  LET timed == all \cap DOMAIN afNext
  IN IF Cardinality(all) <= MaxTracked \/ Cardinality(timed) <= MaxTracked THEN {all}
     ELSE {all \ dropped : dropped \in
             {S \in SUBSET timed : Cardinality(timed \ S) = MaxTracked}}

\* The workers have ended, and the state is pruned.
AfPost(r) ==
  /\ afRuns[r].phase = "feeding"
  /\ afRuns[r].left = {} /\ InState(r, {"taken", "fetching"}) = {}
  /\ afRuns' = [afRuns EXCEPT ![r].phase = "posted"]
  /\ \E kept \in Tracked(afRuns[r].all) :
       /\ afNext' = Only(afNext, kept)
       /\ afFails' = Only(afFails, kept)
       /\ afGhost' = [streak |-> [p \in Remotes |-> IF p \in kept THEN afGhost.streak[p] ELSE 0],
                      run |-> Only(afGhost.run, kept)]
  /\ UNCHANGED <<afNow, afRegistry, afActive, afRunning, afStarted>>

\* AutoFetchFinishedMsg: a repository that was reported and is no longer in the
\* registry is added to it again.
AfHandle(r) ==
  /\ afRuns[r].phase = "posted"
  /\ afRuns' = Only(afRuns, DOMAIN afRuns \ {r})
  /\ afRunning' = FALSE
  /\ afRegistry' = afRegistry \union DOMAIN afRuns[r].jobs
  /\ UNCHANGED <<afNow, afActive, afNext, afFails, afStarted, afGhost>>

AfNext ==
  \/ AfTime \/ AfSwitch \/ AfTick
  \/ \E p \in Remotes : AfOperation(p)
  \/ \E paths \in Registries : AfRegister(paths)
  \/ \E r \in DOMAIN afRuns :
       \/ AfBegin(r) \/ AfStopFeeding(r) \/ AfPost(r) \/ AfHandle(r)
       \/ \E p \in Remotes : AfFeed(r, p) \/ AfWorker(r, p) \/ AfReturn(r, p)

AfSpec == AfInit /\ [][AfNext]_afVars

-----------------------------------------------------------------------------
\* The failures that the backoff grows with are those since the last success, or since
\* the scheduler forgot the repository: although the count is read by the feeder and
\* written by a worker, and forgotten with a list that is without it or too long (RunOnce,
\* run, pruneState).
FailuresCounted ==
  \A p \in Remotes :
    afGhost.streak[p] = IF p \in DOMAIN afFails THEN afFails[p] ELSE 0

Gap(p, failures) == IF failures = 0 THEN IntervalFor[p] ELSE Backoff(failures)

\* A run ends whose list was without p, or longer than the limit.
Forgotten(p) ==
  \E r \in DOMAIN afRuns :
    /\ afRuns[r].phase = "feeding" /\ afRuns'[r].phase = "posted"
    /\ p \notin afRuns[r].all \/ Cardinality(afRuns[r].all) > MaxTracked

\* Two runs that fetch a remote begin as far apart as the backoff or the interval that the
\* first of them set, whatever ended in between (Scheduler.next, AutoFetchRunning), unless
\* it was forgotten: with a list that was without it, or that was longer than the limit.
\* The code counts from the beginning of the run, not from the fetch, which waits for a
\* worker and its jitter: a fetch follows the one before by that wait less.
FetchesSpaced ==
  [][\A p \in DOMAIN afGhost.run :
       \/ p \notin DOMAIN afGhost'.run /\ Forgotten(p)
       \/ /\ p \in DOMAIN afGhost'.run
          /\ \/ afGhost'.run[p] = afGhost.run[p]
             \/ afGhost'.run[p] >= afGhost.run[p] + Gap(p, afGhost.streak[p])]_afVars
==============================================================================
