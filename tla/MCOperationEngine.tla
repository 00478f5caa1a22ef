------------------------- MODULE MCOperationEngine -------------------------
(* Small instances of the operation engine for TLC.  In the safety run every *)
(* bound is below the number of jobs, so that the queue, the history and the *)
(* workers fill.                                                             *)
EXTENDS OperationEngine

CONSTANTS a, b, p, q

\* A fetch that may be replayed, a merge in the same repository, and a fetch of
\* another repository under the identifier of the first.
MCSubmissions ==
  { [id |-> a, repo |-> p, retryable |-> TRUE],
    [id |-> b, repo |-> p, retryable |-> FALSE],
    [id |-> a, repo |-> q, retryable |-> TRUE] }

\* For the liveness run: jobs that compete for one worker.
LiveSubmissions == {x \in MCSubmissions : x.repo = p}
=============================================================================
