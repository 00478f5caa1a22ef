--------------------------- MODULE SerialExecutor ---------------------------
(***************************************************************************)
(* What the operation engine promises, without its tables, locks and       *)
(* channels: jobs of one repository never work at the same time, at most   *)
(* Limit jobs work at once, and a job is answered once, after it worked or *)
(* gave up, and never starts or answers again.                             *)
(***************************************************************************)
EXTENDS Naturals, FiniteSets

CONSTANTS Jobs, Limit

VARIABLES
  stage,   \* how far each job is
  place    \* the repository each job is for

vars == <<stage, place>>

Working == {j \in Jobs : stage[j] = "working"}

Init == stage = [j \in Jobs |-> "new"]

Move(j, from, to) == stage[j] = from /\ stage' = [stage EXCEPT ![j] = to]

Submit(j) == Move(j, "new", "waiting") /\ \A k \in Jobs \ {j} : place'[k] = place[k]

Work(j) ==
  /\ Move(j, "waiting", "working") /\ UNCHANGED place
  /\ Cardinality(Working) < Limit
  /\ \A k \in Working : place[k] # place[j]

GiveUp(j) == Move(j, "waiting", "done") /\ UNCHANGED place
Return(j) == Move(j, "working", "done") /\ UNCHANGED place
Answer(j) == Move(j, "done", "answered") /\ UNCHANGED place

Next == \E j \in Jobs : Submit(j) \/ Work(j) \/ GiveUp(j) \/ Return(j) \/ Answer(j)

Spec == Init /\ [][Next]_vars
=============================================================================
