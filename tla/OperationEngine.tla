-------------------------- MODULE OperationEngine --------------------------
(***************************************************************************)
(* internal/operations/engine.go: admission, per-repository serialization, *)
(* bounded workers, cancellation, timeouts, retries and the retained       *)
(* records of the shared operation engine.  A job is one admitted call of  *)
(* submit and the goroutine it starts; jobs are numbered as they come.     *)
(* A refused call (ErrDuplicate, ErrQueueFull, ErrNotRetryable) changes    *)
(* nothing: it is a stuttering step.                                       *)
(***************************************************************************)
EXTENDS Naturals, Sequences, FiniteSets

CONSTANTS
  Ids,             \* operation identifiers
  Repos,           \* repository roots
  Submissions,     \* what callers submit
  Retriers,        \* goroutines that call Retry
  Limit,           \* workers: the capacity of e.limit
  MaxOutstanding,  \* MaxOutstandingOperations
  HistoryLimit,    \* retainedHistoryLimit
  MaxJobs          \* bound: admitted submissions

ASSUME LimitAssumption == Limit \in Nat \ {0}
ASSUME OutstandingAssumption == MaxOutstanding \in Nat \ {0}
ASSUME HistoryAssumption == HistoryLimit \in Nat \ {0}
ASSUME JobsAssumption == MaxJobs \in Nat

Jobs == 1 .. MaxJobs
None == 0
Specs == [id : Ids, repo : Repos, retryable : BOOLEAN]

ASSUME SubmissionsAssumption == Submissions # {} /\ Submissions \subseteq Specs

VARIABLES
  admitted,  \* number of jobs so far
  pc,        \* where each job's goroutine is
  spec,      \* what each job was submitted with
  lock,      \* the mutex it was given, named by the job whose submit made it
  ctx,       \* how its context ended, if it did
  outcome,   \* the State of its result
  waiter,    \* the waiter its finish found
  answer,    \* what its own waiter received
  active,    \* e.active and e.waiters: the job whose CancelFunc and channel are stored
  repos,     \* e.repos
  refs,      \* e.repoRefs
  latest,    \* e.latest: states
  retry,     \* e.retry: at most one spec for each identifier
  history,   \* e.history, oldest first
  unread,    \* results buffered in e.results, which no caller reads
  retrying   \* the spec each retrier took under the mutex, until it submits it

tables == <<active, repos, refs, latest, retry, history>>
threads == <<admitted, pc, spec, lock, ctx, outcome, waiter, answer, unread, retrying>>
vars == <<tables, threads>>

Unsuccessful == {"failed", "cancelled", "timedout"}
Terminal == Unsuccessful \cup {"succeeded"}

Between == {"started", "queued", "locking", "working", "releasing", "finishing"}
Points == Between \cup {"new", "answering", "over"}

\* The jobs submit has entered in the tables and finish has not removed yet.
Outstanding == {j \in Jobs : pc[j] \in Between}
On(repo) == {j \in Outstanding : spec[j].repo = repo}

\* Faulty variant: the early return of a timeout keeps the worker.
SlotHoldersLeaked == {j \in Jobs :
  pc[j] \in {"locking", "working", "releasing"} \/ (pc[j] = "over" /\ outcome[j] = "timedout")}

SlotHolders == {j \in Jobs : pc[j] \in {"locking", "working", "releasing"}}
ActiveIds == {id \in Ids : active[id] # None}

Init ==
  /\ admitted = 0
  /\ pc = [j \in Jobs |-> "new"]
  /\ spec = [j \in Jobs |-> CHOOSE s \in Submissions : TRUE]  \* any, until the job is admitted
  /\ lock = [j \in Jobs |-> None]
  /\ ctx = [j \in Jobs |-> "live"]
  /\ outcome = [j \in Jobs |-> "none"]
  /\ waiter = [j \in Jobs |-> None]
  /\ answer = [j \in Jobs |-> "none"]
  /\ active = [id \in Ids |-> None]
  /\ repos = [r \in Repos |-> None] /\ refs = [r \in Repos |-> 0]
  /\ latest = [id \in Ids |-> "none"]
  /\ retry = [id \in Ids |-> {}]
  /\ history = <<>> /\ unread = 0
  /\ retrying = [t \in Retriers |-> {}]
-----------------------------------------------------------------------------
(* submit, Cancel, Retry *)

\* Faulty variant: no duplicate check.
AdmissibleTwice(id) == Cardinality(ActiveIds) < MaxOutstanding

Admissible(id) == active[id] = None /\ Cardinality(ActiveIds) < MaxOutstanding

Admit(s) ==
  LET j == admitted + 1
      l == IF repos[s.repo] = None THEN j ELSE repos[s.repo]
  IN /\ admitted < MaxJobs
     /\ Admissible(s.id)
     /\ admitted' = j
     /\ pc' = [pc EXCEPT ![j] = "started"]
     /\ spec' = [spec EXCEPT ![j] = s]
     /\ lock' = [lock EXCEPT ![j] = l]
     /\ active' = [active EXCEPT ![s.id] = j]
     /\ retry' = [retry EXCEPT ![s.id] = {s}]
     /\ latest' = [latest EXCEPT ![s.id] = "pending"]
     /\ repos' = [repos EXCEPT ![s.repo] = l]
     /\ refs' = [refs EXCEPT ![s.repo] = @ + 1]
     /\ UNCHANGED <<ctx, outcome, waiter, answer, history, unread>>

Submit(s) == Admit(s) /\ UNCHANGED retrying

\* Cancel, or the cancellation of the context the job was submitted with.
Cancel(id) ==
  /\ active[id] # None
  /\ ctx[active[id]] = "live"
  /\ ctx' = [ctx EXCEPT ![active[id]] = "cancelled"]
  /\ UNCHANGED <<tables, admitted, pc, spec, lock, outcome, waiter, answer, unread, retrying>>

\* Retry reads the tables in one critical section and submits in a second one.
RetryTake(t, id) ==
  /\ retrying[t] = {}
  /\ active[id] = None
  /\ \E s \in retry[id] : s.retryable
  /\ latest[id] \in Unsuccessful
  /\ retrying' = [retrying EXCEPT ![t] = retry[id]]
  /\ UNCHANGED <<tables, admitted, pc, spec, lock, ctx, outcome, waiter, answer, unread>>

RetrySubmit(t) ==
  /\ \E s \in retrying[t] :
       \/ Admit(s)
       \/ /\ ~Admissible(s.id)
          /\ UNCHANGED <<tables, admitted, pc, spec, lock, ctx, outcome, waiter, answer, unread>>
  /\ retrying' = [retrying EXCEPT ![t] = {}]
-----------------------------------------------------------------------------
(* run: one goroutine for each job *)

Go(j, from, to) == pc[j] = from /\ pc' = [pc EXCEPT ![j] = to]

\* The deadline of timerCtx, which run derives from the job's context.
Expire(j) ==
  /\ pc[j] \in {"queued", "locking", "working", "releasing"}
  /\ ctx[j] = "live"
  /\ ctx' = [ctx EXCEPT ![j] = "expired"]
  /\ UNCHANGED <<tables, admitted, pc, spec, lock, outcome, waiter, answer, unread, retrying>>

\* setLatest(Running) comes before the job has a worker.
Start(j) ==
  /\ Go(j, "started", "queued")
  /\ latest' = [latest EXCEPT ![spec[j].id] = "running"]
  /\ UNCHANGED <<active, repos, refs, retry, history,
                 admitted, spec, lock, ctx, outcome, waiter, answer, unread, retrying>>

TakeSlot(j) ==
  /\ Go(j, "queued", "locking")
  /\ Cardinality(SlotHolders) < Limit
  /\ UNCHANGED <<tables, admitted, spec, lock, ctx, outcome, waiter, answer, unread, retrying>>

\* Whichever way the context ended, the job is reported cancelled.
GiveUp(j) ==
  /\ Go(j, "queued", "finishing")
  /\ ctx[j] # "live"
  /\ outcome' = [outcome EXCEPT ![j] = "cancelled"]
  /\ UNCHANGED <<tables, admitted, spec, lock, ctx, waiter, answer, unread, retrying>>

\* Faulty variant: the mutex is not taken.
LockIgnored(j) ==
  /\ Go(j, "locking", "working")
  /\ UNCHANGED <<tables, admitted, spec, lock, ctx, outcome, waiter, answer, unread, retrying>>

\* repoLock.Lock(): the wait ends with the holder's work, not with the context.
Lock(j) ==
  /\ Go(j, "locking", "working")
  /\ \A k \in Jobs : pc[k] = "working" => lock[k] # lock[j]
  /\ UNCHANGED <<tables, admitted, spec, lock, ctx, outcome, waiter, answer, unread, retrying>>

\* work returns, and the mutex is released.
Unlock(j) ==
  /\ Go(j, "working", "releasing")
  /\ \E end \in {"succeeded", "failed"} : outcome' = [outcome EXCEPT ![j] = end]
  /\ UNCHANGED <<tables, admitted, spec, lock, ctx, waiter, answer, unread, retrying>>

\* The worker is released; a context that ended decides over what work returned.
Release(j) ==
  /\ Go(j, "releasing", "finishing")
  /\ outcome' = [outcome EXCEPT ![j] =
       CASE ctx[j] = "expired" -> "timedout"
         [] ctx[j] = "cancelled" -> "cancelled"
         [] OTHER -> @]
  /\ UNCHANGED <<tables, admitted, spec, lock, ctx, waiter, answer, unread, retrying>>
-----------------------------------------------------------------------------
(* finish *)

DropReference(repo) ==
  /\ refs' = [refs EXCEPT ![repo] = @ - 1]
  /\ repos' = [repos EXCEPT ![repo] = IF refs[repo] <= 1 THEN None ELSE @]

\* Faulty variant: nothing is pruned.
RecordUnpruned(j) ==
  LET id == spec[j].id
      entry == [id |-> id, state |-> outcome[j]]
      all == Append(history, entry)
  IN /\ history' = SubSeq(all, Len(all) - HistoryLimit + 1, Len(all))
     /\ latest' = [latest EXCEPT ![id] = outcome[j]]
     /\ UNCHANGED retry

\* The history keeps its last entries; latest and retry keep what it or active names.
Record(j) ==
  LET id == spec[j].id
      all == Append(history, [id |-> id, state |-> outcome[j]])
      first == IF Len(all) > HistoryLimit THEN Len(all) - HistoryLimit + 1 ELSE 1
      kept == SubSeq(all, first, Len(all))
      retained == {kept[n].id : n \in 1 .. Len(kept)} \cup (ActiveIds \ {id})
  IN /\ history' = kept
     /\ latest' = [i \in Ids |-> IF i \notin retained THEN "none"
                                 ELSE IF i = id THEN outcome[j] ELSE latest[i]]
     /\ retry' = [i \in Ids |-> IF i \in retained THEN retry[i] ELSE {}]

Finish(j) ==
  /\ Go(j, "finishing", "answering")
  /\ active' = [active EXCEPT ![spec[j].id] = None]
  /\ waiter' = [waiter EXCEPT ![j] = active[spec[j].id]]
  /\ DropReference(spec[j].repo)
  /\ Record(j)
  /\ UNCHANGED <<admitted, spec, lock, ctx, outcome, answer, unread, retrying>>

\* waiter <- r has room for its one result; the send to e.results never waits.  Then
\* the deferred cancel ends the job's context.
Answer(j) ==
  /\ Go(j, "answering", "over")
  /\ answer' = IF waiter[j] = None THEN answer
               ELSE [answer EXCEPT ![waiter[j]] = outcome[j]]
  /\ unread' = IF unread < Limit THEN unread + 1 ELSE unread
  /\ ctx' = [ctx EXCEPT ![j] = "cancelled"]
  /\ UNCHANGED <<tables, admitted, spec, lock, outcome, waiter, retrying>>
-----------------------------------------------------------------------------

Step(j) == Start(j) \/ TakeSlot(j) \/ GiveUp(j) \/ Lock(j) \/ Unlock(j) \/ Release(j)
           \/ Finish(j) \/ Answer(j)

Next ==
  \/ \E s \in Submissions : Submit(s)
  \/ \E id \in Ids : Cancel(id)
  \/ \E t \in Retriers : RetrySubmit(t) \/ \E id \in Ids : RetryTake(t, id)
  \/ \E j \in Jobs : Step(j) \/ Expire(j)

\* Goroutines run, and work returns (git is killed when its context ends, and every
\* context has a deadline).  Strong fairness, because senders blocked on a channel and
\* goroutines blocked on a sync.Mutex are woken in arrival order: no wait starves.
Fairness == \A j \in Jobs : SF_vars(Step(j))

Spec == Init /\ [][Next]_vars /\ Fairness
-----------------------------------------------------------------------------
(* Properties *)

TypeOK ==
  /\ admitted \in 0 .. MaxJobs
  /\ pc \in [Jobs -> Points]
  /\ spec \in [Jobs -> Specs]
  /\ lock \in [Jobs -> Jobs \cup {None}]
  /\ ctx \in [Jobs -> {"live", "cancelled", "expired"}]
  /\ outcome \in [Jobs -> Terminal \cup {"none"}]
  /\ waiter \in [Jobs -> Jobs \cup {None}]
  /\ answer \in [Jobs -> Terminal \cup {"none"}]
  /\ active \in [Ids -> Jobs \cup {None}]
  /\ repos \in [Repos -> Jobs \cup {None}]
  /\ refs \in [Repos -> Nat]
  /\ latest \in [Ids -> Terminal \cup {"none", "pending", "running"}]
  /\ retry \in [Ids -> SUBSET Specs]
  /\ history \in Seq([id : Ids, state : Terminal])
  /\ unread \in 0 .. Limit
  /\ retrying \in [Retriers -> SUBSET Specs]

\* Two jobs never work on one repository at the same time, although the mutex that
\* separates them is made and deleted on demand.
OneJobPerRepository ==
  \A j, k \in Jobs :
    pc[j] = "working" /\ pc[k] = "working" /\ spec[j].repo = spec[k].repo => j = k

\* The reference count of a repository is the number of its outstanding jobs, its
\* mutex exists exactly while there are some, and they all hold that same mutex.
LocksShared ==
  \A r \in Repos :
    /\ refs[r] = Cardinality(On(r))
    /\ repos[r] = None <=> On(r) = {}
    /\ \A j \in On(r) : lock[j] = repos[r]

\* Snapshot shows a live record for exactly the outstanding jobs, each under an
\* identifier of its own, and the table of CancelFuncs holds each job's own.
SnapshotTruthful ==
  /\ \A j \in Outstanding : active[spec[j].id] = j
  /\ \A id \in Ids : (active[id] # None) <=> latest[id] \in {"pending", "running"}

\* However many operations ran, what the engine retains is bounded.
RetentionBounded ==
  /\ Cardinality(ActiveIds) <= MaxOutstanding
  /\ Len(history) <= HistoryLimit
  /\ Cardinality({id \in Ids : latest[id] # "none"} \cup {id \in Ids : retry[id] # {}})
       <= HistoryLimit + Cardinality(ActiveIds)

\* A caller gets one result, the one of its own job, even if the identifier was
\* submitted again before the result was sent.
AnsweredOnce ==
  [][\A j \in Jobs : answer'[j] # answer[j] =>
       answer[j] = "none" /\ pc[j] = "answering" /\ answer'[j] = outcome[j]]_vars

\* The engine serves its jobs as the abstract executor does.
Executor == INSTANCE SerialExecutor WITH
  stage <- [j \in Jobs |->
    CASE pc[j] \in {"started", "queued", "locking"} -> "waiting"
      [] pc[j] \in {"releasing", "finishing", "answering"} -> "done"
      [] pc[j] = "over" -> IF answer[j] = "none" THEN "done" ELSE "answered"
      [] OTHER -> pc[j]],
  place <- [j \in Jobs |-> spec[j].repo]

ServesSerially == Executor!Spec

\* Every job that was admitted is answered.
EveryJobAnswered == \A j \in Jobs : pc[j] = "started" ~> answer[j] # "none"
=============================================================================
