--------------------------- MODULE RepositoryBatch ---------------------------
(***************************************************************************)
(* Fetch and pull over every row of the repository dashboard.              *)
(*                                                                         *)
(* The dashboard asks (f, P, or R to retry what failed), the user confirms *)
(* or declines, and a confirmed batch runs in a goroutine: a producer      *)
(* hands one repository after the other to a bounded set of workers        *)
(* (multirepo.Run), and when all are done a message brings the results to  *)
(* Update.  The dashboard is not locked meanwhile, so a second batch may   *)
(* be confirmed while the first one runs; there is one handle for          *)
(* cancelling, whichever batch it belongs to.                              *)
(*                                                                         *)
(* multirepo.Apply, which writes planned .gitignore files, has the same    *)
(* pool, and differs in what it does with a context that ended: kind       *)
(* "gitignore" below.  Nothing in the application calls it yet.            *)
(*                                                                         *)
(* Progress messages write the status line only and are left out; so is    *)
(* the order of the rows.                                                  *)
(***************************************************************************)
EXTENDS Naturals, FiniteSets, Sequences

CONSTANTS
  Paths,         \* the repositories the dashboard shows
  Detached,      \* those whose row has no branch
  Workers,       \* RepositoryEngine.Workers
  MaxBatches     \* bound: batches started in a behaviour

ASSUME DetachedAssumption == Detached \subseteq Paths
ASSUME WorkersAssumption == Workers \in Nat \ {0}
ASSUME BatchesAssumption == MaxBatches \in Nat

VARIABLES
  batchDialog,   \* RepositoryBatchConfirm, -Retry and -Action
  batchHandle,   \* the batch that RepositoryBatchCancel cancels, 0 for nil
  batchResults,  \* RepositoryBatchResults: path -> status
  batches        \* every batch started

batchVars == <<batchDialog, batchHandle, batchResults, batches>>

Actions == {"fetch", "pull"}
Final == {"succeeded", "failed", "cancelled", "skipped"}
\* "none" is the zero value of a Result that nobody wrote.
Statuses == Final \union {"none", "running"}

\* left: the repositories the producer has not sent; dead: the context of the
\* batch has ended; phase: the producer and the workers still run, the results
\* are on their way to Update, or Update has them.
Batch == [kind : Actions \union {"gitignore"}, left : SUBSET Paths, dead : BOOLEAN,
          status : UNION {[P -> Statuses] : P \in SUBSET Paths},
          retry : BOOLEAN, phase : {"running", "posted", "handled"}]

BatchTypeOK ==
  /\ batchDialog \in [confirm : BOOLEAN, retry : BOOLEAN, action : Actions]
  /\ batchHandle \in 0..Len(batches)
  /\ batchResults \in [of : Actions, status : UNION {[P -> Statuses] : P \in SUBSET Paths}]
  /\ batches \in Seq(Batch)
  /\ Len(batches) <= MaxBatches
  /\ \A b \in DOMAIN batches : batches[b].left \subseteq DOMAIN batches[b].status

Nothing == [p \in {} |-> "none"]

BatchInit ==
  /\ batchDialog = [confirm |-> FALSE, retry |-> FALSE, action |-> "fetch"]
  /\ batchHandle = 0
  /\ batchResults = [of |-> "fetch", status |-> Nothing]
  /\ batches = <<>>

InStatus(status, s) == {p \in DOMAIN status : status[p] = s}
Busy(b) == InStatus(batches[b].status, "running")

-----------------------------------------------------------------------------
\* Update: the keys of the dashboard and the confirmation.

\* startRepositoryBatchFetch and startRepositoryBatchPull forget the handle
\* and the results, whether or not a batch is still running.
BatchAsk(action) ==
  /\ ~batchDialog.confirm
  /\ Paths # {}
  /\ batchDialog' = [confirm |-> TRUE, retry |-> FALSE, action |-> action]
  /\ batchHandle' = 0
  /\ batchResults' = [batchResults EXCEPT !.status = Nothing]
  /\ UNCHANGED batches

BatchAskRetry ==
  /\ ~batchDialog.confirm
  /\ InStatus(batchResults.status, "failed") # {}
  /\ batchDialog' = [confirm |-> TRUE, retry |-> TRUE, action |-> batchResults.of]
  /\ UNCHANGED <<batchHandle, batchResults, batches>>

BatchDecline ==
  /\ batchDialog.confirm
  /\ batchDialog' = [batchDialog EXCEPT !.confirm = FALSE, !.retry = FALSE]
  /\ UNCHANGED <<batchHandle, batchResults, batches>>

Started(kind, paths, retry) ==
  [kind |-> kind, left |-> paths, dead |-> FALSE, retry |-> retry,
   status |-> [p \in paths |-> "none"], phase |-> "running"]

\* y: the rows, or those of them that failed last, become requests.
BatchConfirm ==
  /\ batchDialog.confirm
  /\ Len(batches) < MaxBatches
  /\ LET paths == IF batchDialog.retry
                  THEN InStatus(batchResults.status, "failed") \intersect Paths
                  ELSE Paths
     IN batches' = Append(batches, Started(batchDialog.action, paths, batchDialog.retry))
  /\ batchHandle' = Len(batches) + 1
  /\ batchDialog' = [batchDialog EXCEPT !.confirm = FALSE]
  /\ UNCHANGED batchResults

\* A caller of multirepo.Apply.
GitignoreBatch ==
  /\ Len(batches) < MaxBatches
  /\ batches' = Append(batches, Started("gitignore", Paths, FALSE))
  /\ UNCHANGED <<batchDialog, batchHandle, batchResults>>

\* K
BatchCancel ==
  /\ ~batchDialog.confirm
  /\ batchHandle # 0
  /\ batches' = [batches EXCEPT ![batchHandle].dead = TRUE]
  /\ UNCHANGED <<batchDialog, batchHandle, batchResults>>

\* setRepository ends the context that the batches' contexts were made from,
\* and leaves the dashboard as it is.
BatchSwitch ==
  /\ batches' = [b \in DOMAIN batches |-> [batches[b] EXCEPT !.dead = TRUE]]
  /\ UNCHANGED <<batchDialog, batchHandle, batchResults>>

-----------------------------------------------------------------------------
\* multirepo.Run and multirepo.Apply.

SetStatus(b, p, s) == batches' = [batches EXCEPT ![b].status[p] = s]

\* An idle worker takes the next request: a pull without a branch is not
\* valid, and a plan may say that there is nothing to apply.
BatchTake(b, p) ==
  /\ batches[b].phase = "running"
  /\ p \in batches[b].left
  /\ Cardinality(Busy(b)) < Workers
  /\ \E s \in Statuses :
       /\ \/ /\ batches[b].kind = "pull" /\ p \in Detached
             /\ s = "skipped"
          \/ /\ batches[b].kind = "gitignore"
             /\ s \in {"skipped", "failed"}
          \/ /\ batches[b].dead
             /\ s = IF batches[b].kind = "gitignore" THEN "failed" ELSE "cancelled"
             /\ batches[b].kind = "pull" => p \notin Detached
          \/ /\ ~batches[b].dead
             /\ s = "running"
             /\ batches[b].kind = "pull" => p \notin Detached
       /\ batches' = [batches EXCEPT ![b].status[p] = s, ![b].left = @ \ {p}]
  /\ UNCHANGED <<batchDialog, batchHandle, batchResults>>

\* The Git command, or the replacement of the file, ends.  An error of a
\* cancelled command is told apart by Run only.
BatchReturn(b, p) ==
  /\ p \in Busy(b)
  /\ \E s \in {"succeeded", "failed", "cancelled"} :
       /\ s = "cancelled" => batches[b].dead /\ batches[b].kind # "gitignore"
       /\ SetStatus(b, p, s)
  /\ UNCHANGED <<batchDialog, batchHandle, batchResults>>

FaultyWithdraw(b) == \* stops at the first request it did not send
  /\ batches[b].phase = "running"
  /\ batches[b].dead
  /\ batches[b].left # {}
  /\ batches' = [batches EXCEPT ![b].left = {}]
  /\ UNCHANGED <<batchDialog, batchHandle, batchResults>>

\* The producer sees that the context ended: Run writes the results of the
\* requests it will not send, Apply does not.
BatchWithdraw(b) ==
  /\ batches[b].phase = "running"
  /\ batches[b].dead
  /\ batches[b].left # {}
  /\ batches' = [batches EXCEPT
       ![b].left = {},
       ![b].status = [p \in DOMAIN @ |->
          IF p \in batches[b].left /\ batches[b].kind # "gitignore" THEN "cancelled" ELSE @[p]]]
  /\ UNCHANGED <<batchDialog, batchHandle, batchResults>>

FaultyPost(b) == \* a cancelled batch returns without its results
  /\ batches[b].phase = "running" /\ ~batches[b].dead
  /\ batches[b].left = {}
  /\ Busy(b) = {}
  /\ batches' = [batches EXCEPT ![b].phase = "posted"]
  /\ UNCHANGED <<batchDialog, batchHandle, batchResults>>

\* jobs is closed, the workers have ended, and the results are posted.
BatchPost(b) ==
  /\ batches[b].phase = "running"
  /\ batches[b].left = {}
  /\ Busy(b) = {}
  /\ batches' = [batches EXCEPT ![b].phase = "posted"]
  /\ UNCHANGED <<batchDialog, batchHandle, batchResults>>

\* RepositoryBatchFinishedMsg.  The handle that is called and cleared is the
\* one there is now.
BatchHandle(b) ==
  /\ batches[b].phase = "posted"
  /\ batches[b].kind # "gitignore"
  /\ batches' = [c \in DOMAIN batches |->
       [batches[c] EXCEPT !.phase = IF c = b THEN "handled" ELSE @,
                          !.dead = @ \/ c = batchHandle]]
  /\ batchHandle' = 0
  /\ batchDialog' = [batchDialog EXCEPT !.confirm = FALSE, !.retry = FALSE]
  /\ batchResults' = [of |-> batches[b].kind, status |-> batches[b].status]

BatchWork(b) ==
  \/ \E p \in Paths : p \in DOMAIN batches[b].status /\ (BatchTake(b, p) \/ BatchReturn(b, p))
  \/ BatchWithdraw(b)
  \/ BatchPost(b)

BatchNext ==
  \/ \E action \in Actions : BatchAsk(action)
  \/ BatchAskRetry \/ BatchDecline \/ BatchConfirm \/ GitignoreBatch
  \/ BatchCancel \/ BatchSwitch
  \/ \E b \in DOMAIN batches : BatchWork(b) \/ BatchHandle(b)

\* Goroutines are scheduled, and the runner ends a Git command whose context
\* or deadline has ended.  Bubble Tea delivers every message.
BatchFairness ==
  \A b \in 1..MaxBatches :
    /\ WF_batchVars(b \in DOMAIN batches /\ BatchWork(b))
    /\ WF_batchVars(b \in DOMAIN batches /\ BatchHandle(b))

BatchSpec == BatchInit /\ [][BatchNext]_batchVars /\ BatchFairness

-----------------------------------------------------------------------------
\* What a batch of Git commands reports: when its results are posted every
\* repository has one, and it is final, however the cancellation, the producer
\* and the workers interleaved (multirepo.Run).
BatchAccountsForEach ==
  \A b \in DOMAIN batches :
    batches[b].phase # "running" /\ batches[b].kind # "gitignore" =>
      \A p \in DOMAIN batches[b].status : batches[b].status[p] \in Final

\* What a batch reports about a pull of a repository without a branch: nothing
\* was run there (Request.Validate).
DetachedNeverPulled ==
  \A b \in DOMAIN batches :
    batches[b].kind = "pull" =>
      \A p \in DOMAIN batches[b].status :
        p \in Detached => batches[b].status[p] \in {"none", "skipped", "cancelled"}

\* A retry goes to repositories that a finished batch of the same kind reported
\* as failed, and not to one that succeeded or was cancelled, although results
\* are replaced and dialogs closed while it is being asked for
\* (startRepositoryBatchRetry, the confirmation, RepositoryBatchFinishedMsg).
RetriesFailuresOnly ==
  \A b \in DOMAIN batches :
    batches[b].retry =>
      \E c \in 1..(b - 1) :
        /\ batches[c].phase = "handled"
        /\ batches[c].kind = batches[b].kind
        /\ DOMAIN batches[b].status = InStatus(batches[c].status, "failed")

\* docs/advanced-workflows.md:213-217 says of network work that the engine
\* "serializes conflicting work for one repository".  A batch runs beside it:
\* not even two batches keep out of each other's repositories.
BatchesSerialized ==
  \A b, c \in DOMAIN batches : b # c => Busy(b) \intersect Busy(c) = {}

\* A batch that was confirmed ends, and the dashboard gets its results.
BatchEnds ==
  \A b \in 1..MaxBatches :
    (b \in DOMAIN batches /\ batches[b].kind # "gitignore")
      ~> (b \in DOMAIN batches /\ batches[b].phase = "handled")
==============================================================================
