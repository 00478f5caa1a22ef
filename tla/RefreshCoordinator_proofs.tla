---------------------- MODULE RefreshCoordinator_proofs ----------------------
(***************************************************************************)
(* Proofs about the refresh coordinator, for any number of goroutines,     *)
(* contexts, callers of Close, requests and changes of the repository.     *)
(***************************************************************************)
EXTENDS RefreshCoordinator, TLAPS

\* The initial state has its types.
LEMMA TypeInit == Init => TypeOK
<1>1. NoResult \in Result /\ 0 \in Versions
  BY BoundAssumption DEF Result, NoResult, Versions
<1>2. <<>> \in Seq(Result) /\ Len(<<>>) <= ResultsCap
  BY DEF ResultsCap
<1>3. ASSUME Init
      PROVE  /\ pc \in [Runners -> Points] /\ parent \in [Runners -> Contexts]
             /\ cancelled \in [Runners -> BOOLEAN] /\ current \in [Runners -> Result]
             /\ closing \in [Closers -> {"no", "cancelling", "waiting", "returned"}]
             /\ captured \in [Closers -> Runners \cup {NoRunner}]
  BY <1>1, <1>3 DEF Init, Points
<1>4. ASSUME Init
      PROVE  /\ active \in BOOLEAN /\ dirty \in BOOLEAN /\ closed \in BOOLEAN
             /\ listening \in BOOLEAN /\ cancel \in Runners \cup {NoRunner}
             /\ dead \subseteq Contexts
  BY <1>4 DEF Init
<1>5. ASSUME Init
      PROVE  /\ generation \in Nat /\ asked \in Nat
             /\ results \in Seq(Result) /\ Len(results) <= ResultsCap
             /\ delivered \in Result
             /\ world \in Versions /\ wanted \in Versions
             /\ begun \in Versions /\ published \in Versions
  BY <1>1, <1>2, <1>5 DEF Init
<1> QED BY <1>3, <1>4, <1>5 DEF TypeOK

\* Every step keeps the types.
LEMMA TypeNext == TypeOK /\ [Next]_vars => TypeOK'
<1> SUFFICES ASSUME TypeOK, [Next]_vars PROVE TypeOK'
  OBVIOUS
<1> USE BoundAssumption DEF TypeOK, Versions
<1>1. ASSUME NEW c \in Contexts, Request(c) PROVE TypeOK'
  <2>1. CASE Accept(c) /\ Coalesce
    BY <1>1, <2>1 DEF Request, Accept, Coalesce, runs, ends
  <2>2. CASE Accept(c) /\ StartRun(c)
    <3>1. PICK r \in Runners :
            /\ active' = TRUE /\ cancel' = r
            /\ pc' = [pc EXCEPT ![r] = "start"]
            /\ parent' = [parent EXCEPT ![r] = c]
            /\ cancelled' = [cancelled EXCEPT ![r] = FALSE]
      BY <2>2 DEF StartRun
    <3> QED BY <1>1, <2>2, <3>1 DEF Request, Accept, StartRun, Points, InLoop, ends
  <2>3. CASE Refuse
    BY <1>1, <2>3 DEF Request, Refuse, repo, runs, ends
  <2> QED BY <1>1, <2>1, <2>2, <2>3 DEF Request, Accept
<1>2. ASSUME NEW c \in Contexts, CancelContext(c) PROVE TypeOK'
  BY <1>2 DEF CancelContext, repo, runs, ends, ghosts
<1>3. ASSUME NEW r \in Runners, Run(r) PROVE TypeOK'
  <2>1. CASE Begin(r)
    <3>1. [generation |-> generation + 1, since |-> world, version |-> world] \in Result
      BY DEF Result
    <3>2. current' \in [Runners -> Result] /\ pc' \in [Runners -> Points]
      BY <2>1, <3>1 DEF Begin, Points, InLoop
    <3>3. generation' \in Nat /\ begun' \in Versions
      BY <2>1 DEF Begin
    <3>4. UNCHANGED <<active, dirty, closed, cancel, results, parent, cancelled, closing, captured,
                      listening, delivered, dead, world, asked, wanted, published>>
      BY <2>1 DEF Begin, ends
    <3> HIDE DEF Result, Points
    <3> QED BY <3>2, <3>3, <3>4
  <2>2. CASE Return(r)
    <3>1. PICK v \in current[r].since .. world :
            current' = [current EXCEPT ![r].version = v]
      BY <2>2 DEF Return
    <3>2. v \in 0 .. MaxVersion
      <4>1. current[r] \in Result /\ world \in 0 .. MaxVersion
        OBVIOUS
      <4>2. current[r].since \in 0 .. MaxVersion
        BY <4>1 DEF Result
      <4> HIDE DEF TypeOK
      <4> QED BY <3>1, <4>1, <4>2
    <3>3. [current[r] EXCEPT !.version = v] \in Result
      <4>1. current[r] \in Result
        OBVIOUS
      <4> HIDE DEF TypeOK
      <4> QED BY <3>2, <4>1 DEF Result
    <3>4. current' \in [Runners -> Result] /\ pc' \in [Runners -> Points]
      BY <2>2, <3>1, <3>3 DEF Return, Points, InLoop
    <3>5. UNCHANGED <<repo, parent, cancelled, ends, dead, ghosts>>
      BY <2>2 DEF Return
    <3> QED BY <3>4, <3>5 DEF repo, ends, ghosts
  <2>3. CASE Publish(r)
    <3>1. results' \in Seq(Result) /\ Len(results') <= ResultsCap
      <4>1. /\ current[r] \in Result /\ results \in Seq(Result)
            /\ results' = Append(results, current[r])
        BY <2>3 DEF Publish
      <4>2. Len(results) < ResultsCap /\ ResultsCap \in Nat
        BY <2>3 DEF Publish, ResultsCap
      <4> HIDE DEF Result, ResultsCap, TypeOK
      <4> QED BY <4>1, <4>2
    <3>2. published' \in Versions /\ pc' \in [Runners -> Points]
      BY <2>3 DEF Publish, Result, Points, InLoop
    <3>3. UNCHANGED <<active, dirty, generation, closed, cancel, parent, cancelled, current, ends,
                      dead, world, asked, wanted, begun>>
      BY <2>3 DEF Publish
    <3> QED BY <3>1, <3>2, <3>3 DEF ends
  <2>4. CASE Discard(r)
    BY <2>4 DEF Discard, Points, InLoop, repo, ends, ghosts
  <2>5. CASE Settle(r)
    BY <2>5 DEF Settle, Leave, Again, Points, InLoop, ends, ghosts
  <2>6. CASE Exit(r)
    BY <2>6 DEF Exit, Points, InLoop, Result, NoResult, repo, ends, ghosts
  <2> QED BY <1>3, <2>1, <2>2, <2>3, <2>4, <2>5, <2>6 DEF Run
<1>4. ASSUME NEW k \in Closers, CloseBegin(k) PROVE TypeOK'
  BY <1>4 DEF CloseBegin, runs, ghosts
<1>5. ASSUME NEW k \in Closers, CloseCancel(k) PROVE TypeOK'
  BY <1>5 DEF CloseCancel, repo, ghosts
<1>6. ASSUME NEW k \in Closers, CloseReturn(k) PROVE TypeOK'
  BY <1>6 DEF CloseReturn, repo, runs, ghosts
<1>7. CASE Receive
  <2>1. Head(results) \in Result /\ Tail(results) \in Seq(Result)
        /\ Len(Tail(results)) <= ResultsCap
    BY <1>7 DEF Receive, ResultsCap
  <2> QED BY <1>7, <2>1 DEF Receive, runs, ghosts
<1>8. CASE StopListening
  BY <1>8 DEF StopListening, repo, runs, ghosts
<1>9. CASE ChangeWorld
  BY <1>9 DEF ChangeWorld, repo, runs, ends, Result
<1>10. CASE UNCHANGED vars
  BY <1>10 DEF vars, repo, runs, ends, ghosts
<1> QED BY <1>1, <1>2, <1>3, <1>4, <1>5, <1>6, <1>7, <1>8, <1>9, <1>10 DEF Next

\* The variables always have their types.
THEOREM TypeCorrect == Spec => []TypeOK
BY TypeInit, TypeNext, PTL DEF Spec
-----------------------------------------------------------------------------
(* The inductive invariant.  OneRefresh and NoLostRequest are inductive     *)
(* together once wanted is known not to be ahead of the repository; the two *)
(* promises about an idle and a closed coordinator rest on what follows.    *)

\* The goroutine in the loop is the one whose CancelFunc is stored, and only a
\* running refresh can be dirty.
LoopIsCurrent ==
  /\ \A r \in Runners : pc[r] \in InLoop <=> cancel = r
  /\ active <=> cancel # NoRunner
  /\ dirty => active

\* Close has passed its critical section only on a closed coordinator.
ClosingMeansClosed == \A k \in Closers : closing[k] # "no" => closed

\* Only Close cancels a run context before its goroutine exits.
AliveWhileOpen == \A r \in Runners : pc[r] \in InLoop /\ ~closed => ~cancelled[r]

\* The refresh in progress is the latest one.
CurrentIsLatest ==
  \A r \in Runners : pc[r] \in {"refreshing", "publish"} => current[r].since = begun

\* Whoever has left the select has published, while nothing was cancelled.
SettledMeansPublished ==
  ~closed /\ dead = {} =>
    /\ ~active => published = begun
    /\ \A r \in Runners : pc[r] = "settle" => published = begun

Inv ==
  /\ TypeOK
  /\ LoopIsCurrent
  /\ wanted <= world
  /\ NoLostRequest
  /\ ClosingMeansClosed
  /\ AliveWhileOpen
  /\ CurrentIsLatest
  /\ SettledMeansPublished
  /\ QuietAfterClose

\* The inductive invariant holds at first.
LEMMA InitInv == Init => Inv
<1> SUFFICES ASSUME Init PROVE Inv
  OBVIOUS
<1>1. TypeOK
  BY TypeInit
<1>2. LoopIsCurrent
  BY RunnerAssumption DEF Init, LoopIsCurrent, InLoop
<1>3. wanted <= world /\ NoLostRequest
  BY DEF Init, NoLostRequest
<1>4. ClosingMeansClosed /\ AliveWhileOpen /\ CurrentIsLatest /\ SettledMeansPublished
  BY DEF Init, ClosingMeansClosed, AliveWhileOpen, CurrentIsLatest,
         SettledMeansPublished, InLoop
<1>5. QuietAfterClose
  BY DEF Init, QuietAfterClose
<1> QED BY <1>1, <1>2, <1>3, <1>4, <1>5 DEF Inv

\* Request: a coalesced request is dirty, an accepted one starts.
LEMMA RequestKeepsInv ==
  ASSUME Inv, NEW c \in Contexts, Request(c), TypeOK' PROVE Inv'
<1> USE DEF Inv
<1>1. CASE Accept(c) /\ Coalesce
  <2>1. /\ dirty' /\ active /\ active' = active /\ closed' = closed /\ wanted' = world
        /\ UNCHANGED <<pc, cancel, cancelled, current, closing, dead, world, begun, published>>
    BY <1>1 DEF Request, Accept, Coalesce, runs, ends
  <2>2. NoLostRequest'
    BY <2>1 DEF NoLostRequest
  <2> QED BY <2>1, <2>2 DEF LoopIsCurrent, ClosingMeansClosed, AliveWhileOpen, CurrentIsLatest,
                            SettledMeansPublished, QuietAfterClose, TypeOK, Versions
<1>2. CASE Accept(c) /\ StartRun(c)
  <2>1. PICK r \in Runners :
          /\ pc[r] = "idle"
          /\ active' = TRUE /\ cancel' = r
          /\ pc' = [pc EXCEPT ![r] = "start"]
          /\ cancelled' = [cancelled EXCEPT ![r] = FALSE]
    BY <1>2 DEF StartRun
  <2>2. /\ ~active /\ ~closed /\ closed' = closed /\ wanted' = world
        /\ UNCHANGED <<dirty, current, closing, dead, world, begun, published>>
    BY <1>2 DEF Request, Accept, StartRun, ends
  <2>3. pc'[r] = "start" /\ \A s \in Runners \ {r} : pc'[s] = pc[s] /\ pc[s] \notin InLoop
    BY <2>1, <2>2, RunnerAssumption DEF TypeOK, LoopIsCurrent
  <2>4. LoopIsCurrent'
    BY <2>1, <2>3, RunnerAssumption DEF LoopIsCurrent, InLoop
  <2>5. NoLostRequest' /\ (wanted <= world)'
    BY <2>2, <2>3 DEF NoLostRequest, TypeOK, Versions
  <2>6. ClosingMeansClosed' /\ QuietAfterClose'
    BY <2>2 DEF ClosingMeansClosed, QuietAfterClose
  <2>7. AliveWhileOpen'
    BY <2>1, <2>3 DEF AliveWhileOpen, TypeOK
  <2>8. CurrentIsLatest' /\ SettledMeansPublished'
    BY <2>1, <2>2, <2>3 DEF CurrentIsLatest, SettledMeansPublished, InLoop
  <2> QED BY <2>4, <2>5, <2>6, <2>7, <2>8
<1>3. CASE Refuse
  BY <1>3 DEF Request, Refuse, repo, runs, ends, LoopIsCurrent, NoLostRequest,
    ClosingMeansClosed, AliveWhileOpen, CurrentIsLatest, SettledMeansPublished, QuietAfterClose
<1> QED BY <1>1, <1>2, <1>3 DEF Request, Accept

\* A goroutine that moves on within the loop, or leaves it, keeps the others still.
LEMMA BeginKeepsInv ==
  ASSUME Inv, NEW r \in Runners, Begin(r), TypeOK' PROVE Inv'
<1> USE DEF Inv
<1>1. /\ pc[r] = "start" /\ pc' = [pc EXCEPT ![r] = "refreshing"]
      /\ current' = [current EXCEPT ![r] =
           [generation |-> generation + 1, since |-> world, version |-> world]]
      /\ begun' = world
      /\ UNCHANGED <<active, dirty, closed, cancel, cancelled, closing, dead, world, wanted, published>>
  BY DEF Begin, ends
<1>2. /\ pc'[r] = "refreshing" /\ current'[r].since = world
      /\ \A s \in Runners \ {r} : pc'[s] = pc[s] /\ pc[s] \notin InLoop
  BY <1>1 DEF TypeOK, LoopIsCurrent, InLoop
<1>3. LoopIsCurrent' /\ AliveWhileOpen'
  BY <1>1, <1>2 DEF LoopIsCurrent, AliveWhileOpen, InLoop
<1>4. NoLostRequest' /\ (wanted <= world)' /\ ClosingMeansClosed'
  BY <1>1 DEF NoLostRequest, ClosingMeansClosed, TypeOK, Versions
<1>5. CurrentIsLatest'
  BY <1>1, <1>2 DEF CurrentIsLatest, InLoop
<1>6. SettledMeansPublished'
  BY <1>1, <1>2, RunnerAssumption DEF SettledMeansPublished, LoopIsCurrent, InLoop
<1>7. QuietAfterClose'
  BY <1>1 DEF QuietAfterClose
<1> QED BY <1>3, <1>4, <1>5, <1>6, <1>7

\* The provider returns a result the run will publish or discard.
LEMMA ReturnKeepsInv ==
  ASSUME Inv, NEW r \in Runners, Return(r), TypeOK' PROVE Inv'
<1> USE DEF Inv
<1>1. /\ pc[r] = "refreshing" /\ pc' = [pc EXCEPT ![r] = "publish"]
      /\ \A s \in Runners : current'[s].since = current[s].since
      /\ UNCHANGED <<active, dirty, closed, cancel, cancelled, closing, dead, world, wanted,
                     begun, published>>
  BY DEF Return, repo, ends, ghosts, TypeOK, Result
<1>2. pc'[r] = "publish" /\ \A s \in Runners \ {r} : pc'[s] = pc[s]
  BY <1>1 DEF TypeOK
<1> QED BY <1>1, <1>2 DEF LoopIsCurrent, NoLostRequest, ClosingMeansClosed, AliveWhileOpen,
                          CurrentIsLatest, SettledMeansPublished, QuietAfterClose, InLoop

\* A published result covers what was wanted when its run began.
LEMMA PublishKeepsInv ==
  ASSUME Inv, NEW r \in Runners, Publish(r), TypeOK' PROVE Inv'
<1> USE DEF Inv
<1>1. /\ pc[r] = "publish" /\ pc' = [pc EXCEPT ![r] = "settle"]
      /\ published' = current[r].since
      /\ UNCHANGED <<active, dirty, closed, cancel, cancelled, current, closing, dead, world,
                     wanted, begun>>
  BY DEF Publish, ends
<1>2. pc'[r] = "settle" /\ \A s \in Runners \ {r} : pc'[s] = pc[s]
  BY <1>1 DEF TypeOK
<1>3. published' = begun
  BY <1>1 DEF CurrentIsLatest
<1> QED BY <1>1, <1>2, <1>3 DEF LoopIsCurrent, NoLostRequest, ClosingMeansClosed, AliveWhileOpen,
                          CurrentIsLatest, SettledMeansPublished, QuietAfterClose, InLoop

\* The result is discarded only on a closed coordinator or under a cancelled context.
LEMMA DiscardKeepsInv ==
  ASSUME Inv, NEW r \in Runners, Discard(r), TypeOK' PROVE Inv'
<1> USE DEF Inv
<1>1. /\ pc[r] = "publish" /\ pc' = [pc EXCEPT ![r] = "settle"]
      /\ UNCHANGED <<active, dirty, closed, cancel, cancelled, current, closing, dead, world,
                     wanted, begun, published>>
  BY DEF Discard, repo, ends, ghosts
<1>2. pc'[r] = "settle" /\ \A s \in Runners \ {r} : pc'[s] = pc[s]
  BY <1>1 DEF TypeOK
<1>3. closed \/ dead # {}
  BY <1>1 DEF Discard, CtxDone, AliveWhileOpen, InLoop
<1> QED BY <1>1, <1>2, <1>3 DEF LoopIsCurrent, NoLostRequest, ClosingMeansClosed, AliveWhileOpen,
                          CurrentIsLatest, SettledMeansPublished, QuietAfterClose, InLoop

\* A settling run starts again if it is dirty, and leaves the loop if not.
LEMMA SettleKeepsInv ==
  ASSUME Inv, NEW r \in Runners, Settle(r), TypeOK' PROVE Inv'
<1> USE DEF Inv
<1>1. /\ pc[r] = "settle"
      /\ UNCHANGED <<closed, cancelled, current, closing, dead, world, wanted, begun, published>>
  BY DEF Settle, ends, ghosts
<1>2. cancel = r /\ active /\ \A s \in Runners \ {r} : pc[s] \notin InLoop
  BY <1>1, RunnerAssumption DEF LoopIsCurrent, InLoop
<1>3. QuietAfterClose' /\ ClosingMeansClosed' /\ (wanted <= world)'
  BY <1>1 DEF QuietAfterClose, ClosingMeansClosed
<1>4. CASE Leave(r)
  <2>1. /\ ~active' /\ ~dirty' /\ cancel' = NoRunner /\ (closed \/ ~dirty)
        /\ pc'[r] = "exit" /\ \A s \in Runners \ {r} : pc'[s] = pc[s]
    BY <1>4 DEF Leave, TypeOK
  <2>2. \A s \in Runners : pc'[s] \notin InLoop
    BY <1>2, <2>1 DEF InLoop
  <2>3. LoopIsCurrent'
    BY <2>1, <2>2, RunnerAssumption DEF LoopIsCurrent
  <2>4. AliveWhileOpen' /\ CurrentIsLatest'
    BY <2>2 DEF AliveWhileOpen, CurrentIsLatest, InLoop
  <2>5. NoLostRequest'
    BY <1>1, <1>2, <2>1 DEF NoLostRequest, InLoop
  <2>6. SettledMeansPublished'
    BY <1>1, <2>1 DEF SettledMeansPublished
  <2> QED BY <1>3, <2>3, <2>4, <2>5, <2>6
<1>5. CASE Again(r)
  <2>1. /\ ~dirty' /\ active' = active /\ cancel' = cancel /\ dirty
        /\ pc'[r] = "start" /\ \A s \in Runners \ {r} : pc'[s] = pc[s]
    BY <1>5 DEF Again, TypeOK
  <2>2. LoopIsCurrent' /\ AliveWhileOpen' /\ CurrentIsLatest'
    BY <1>1, <1>2, <2>1 DEF LoopIsCurrent, AliveWhileOpen, CurrentIsLatest, InLoop
  <2>3. NoLostRequest' /\ SettledMeansPublished'
    BY <1>1, <1>2, <2>1 DEF NoLostRequest, SettledMeansPublished
  <2> QED BY <1>3, <2>2, <2>3
<1> QED BY <1>4, <1>5 DEF Settle

\* A goroutine that leaves changes nothing the others rely on.
LEMMA ExitKeepsInv ==
  ASSUME Inv, NEW r \in Runners, Exit(r), TypeOK' PROVE Inv'
<1> USE DEF Inv
<1>1. /\ pc[r] = "exit" /\ pc' = [pc EXCEPT ![r] = "idle"]
      /\ cancelled' = [cancelled EXCEPT ![r] = TRUE]
      /\ current' = [current EXCEPT ![r] = NoResult]
      /\ UNCHANGED <<active, dirty, closed, cancel, closing, dead, world, wanted, begun, published>>
  BY DEF Exit, repo, ends, ghosts
<1>2. /\ pc'[r] = "idle"
      /\ \A s \in Runners \ {r} :
           pc'[s] = pc[s] /\ cancelled'[s] = cancelled[s] /\ current'[s] = current[s]
  BY <1>1 DEF TypeOK
<1> QED BY <1>1, <1>2 DEF LoopIsCurrent, NoLostRequest, ClosingMeansClosed, AliveWhileOpen,
                          CurrentIsLatest, SettledMeansPublished, QuietAfterClose, InLoop

\* Close stops new requests and cancels what runs.
LEMMA CloseKeepsInv ==
  ASSUME Inv, NEW k \in Closers, CloseBegin(k) \/ CloseCancel(k) \/ CloseReturn(k), TypeOK'
  PROVE  Inv'
<1> USE DEF Inv
<1>1. CASE CloseBegin(k)
  <2>1. /\ closed' /\ \A j \in Closers \ {k} : closing'[j] = closing[j]
        /\ closing'[k] = "cancelling"
        /\ UNCHANGED <<active, cancel, dirty, pc, current, dead, world, wanted, begun, published>>
    BY <1>1 DEF CloseBegin, runs, ghosts, TypeOK
  <2> QED BY <2>1 DEF LoopIsCurrent, NoLostRequest, ClosingMeansClosed, AliveWhileOpen,
                      CurrentIsLatest, SettledMeansPublished, QuietAfterClose
<1>2. CASE CloseCancel(k)
  <2>1. /\ closing[k] = "cancelling" /\ closing'[k] = "waiting"
        /\ \A j \in Closers \ {k} : closing'[j] = closing[j]
        /\ UNCHANGED <<active, cancel, dirty, closed, pc, current, dead, world, wanted, begun,
                       published>>
    BY <1>2 DEF CloseCancel, repo, ghosts, TypeOK
  <2>2. closed
    BY <2>1 DEF ClosingMeansClosed
  <2> QED BY <2>1, <2>2 DEF LoopIsCurrent, NoLostRequest, ClosingMeansClosed, AliveWhileOpen,
                      CurrentIsLatest, SettledMeansPublished, QuietAfterClose
<1>3. CASE CloseReturn(k)
  <2>1. /\ closing[k] = "waiting" /\ closing'[k] = "returned"
        /\ \A r \in Runners : pc[r] = "idle"
        /\ \A j \in Closers \ {k} : closing'[j] = closing[j]
        /\ UNCHANGED <<active, cancel, dirty, closed, pc, cancelled, current, dead, world, wanted,
                       begun, published>>
    BY <1>3 DEF CloseReturn, repo, runs, ghosts, TypeOK
  <2> QED BY <2>1 DEF LoopIsCurrent, NoLostRequest, ClosingMeansClosed, AliveWhileOpen,
                      CurrentIsLatest, SettledMeansPublished, QuietAfterClose
<1> QED BY <1>1, <1>2, <1>3

\* The environment touches what the coordinator has already given away, cancels
\* contexts, or changes the repository.
LEMMA EnvironmentKeepsInv ==
  ASSUME Inv, TypeOK',
         Receive \/ StopListening \/ ChangeWorld \/ (\E c \in Contexts : CancelContext(c))
           \/ UNCHANGED vars
  PROVE  Inv'
<1>1. /\ UNCHANGED <<active, dirty, closed, cancel, pc, cancelled, current, closing, wanted,
                     begun, published>>
      /\ world <= world' /\ (dead' = {} => dead = {})
  BY SMTT(60) DEF Receive, StopListening, ChangeWorld, CancelContext, vars, repo, runs, ends, ghosts,
         Inv, TypeOK, Versions
<1> QED BY <1>1, BoundAssumption DEF Inv, LoopIsCurrent, NoLostRequest, ClosingMeansClosed, AliveWhileOpen,
                  CurrentIsLatest, SettledMeansPublished, QuietAfterClose, TypeOK, Versions

\* The inductive invariant survives every step.
LEMMA NextInv == Inv /\ [Next]_vars => Inv'
<1> SUFFICES ASSUME Inv, [Next]_vars PROVE Inv'
  OBVIOUS
<1>1. TypeOK'
  BY TypeNext DEF Inv
<1>2. ASSUME NEW r \in Runners, Run(r) PROVE Inv'
  BY <1>1, <1>2, BeginKeepsInv, ReturnKeepsInv, PublishKeepsInv, DiscardKeepsInv,
     SettleKeepsInv, ExitKeepsInv DEF Run
<1> QED BY <1>1, <1>2, RequestKeepsInv, CloseKeepsInv, EnvironmentKeepsInv DEF Next

\* The inductive invariant holds always.
LEMMA SpecInv == Spec => []Inv
BY InitInv, NextInv, PTL DEF Spec

\* At most one goroutine refreshes, and Close can reach it through c.cancel.
THEOREM OneRefreshAlways == Spec => []OneRefresh
<1>1. Inv => OneRefresh
  BY RunnerAssumption DEF Inv, LoopIsCurrent, OneRefresh
<1> QED BY <1>1, SpecInv, PTL

\* No accepted request is forgotten: Request between two critical sections of run
\* leaves dirty set or finds the loop ended.
THEOREM NoLostRequestEver == Spec => []NoLostRequest
<1>1. Inv => NoLostRequest
  BY DEF Inv
<1> QED BY <1>1, SpecInv, PTL

\* An idle coordinator whose contexts live has published what it was asked for.
THEOREM QuietMeansPublishedAlways == Spec => []QuietMeansPublished
<1>1. Inv => QuietMeansPublished
  <2> SUFFICES ASSUME Inv, ~closed, dead = {}, ~active PROVE published >= wanted
    BY DEF QuietMeansPublished
  <2>1. published = begun
    BY DEF Inv, SettledMeansPublished
  <2>2. ~dirty /\ \A r \in Runners : pc[r] # "start"
    BY RunnerAssumption DEF Inv, LoopIsCurrent, InLoop
  <2> QED BY <2>1, <2>2 DEF Inv, NoLostRequest, TypeOK, Versions
<1> QED BY <1>1, SpecInv, PTL

\* Once Close has returned, no goroutine of the coordinator runs or will run.
THEOREM QuietAfterCloseAlways == Spec => []QuietAfterClose
<1>1. Inv => QuietAfterClose
  BY DEF Inv
<1> QED BY <1>1, SpecInv, PTL
-----------------------------------------------------------------------------
(* The order of results.  The queue, what was delivered before it and the   *)
(* refresh that comes after it are sorted by generation and by version.     *)

QueueInOrder ==
  /\ \A i \in 1 .. Len(results) :
       /\ delivered.generation < results[i].generation
       /\ results[i].generation <= generation
       /\ delivered.version <= results[i].version
       /\ results[i].version <= world
  /\ \A i, j \in 1 .. Len(results) : i < j =>
       /\ results[i].generation < results[j].generation
       /\ results[i].version <= results[j].version

DeliveredBefore == delivered.generation <= generation /\ delivered.version <= world

\* The refresh in progress comes after everything in the queue.
CurrentIsLast ==
  \A r \in Runners : pc[r] \in {"refreshing", "publish"} =>
    /\ current[r].generation = generation /\ delivered.generation < generation
    /\ delivered.version <= current[r].since
    /\ current[r].since <= current[r].version /\ current[r].version <= world
    /\ \A i \in 1 .. Len(results) :
         results[i].generation < generation /\ results[i].version <= current[r].since

OrderInv == QueueInOrder /\ DeliveredBefore /\ CurrentIsLast

\* What the types say of the numbers in results.
LEMMA Numbers ==
  ASSUME TypeOK
  PROVE  /\ Len(results) \in Nat
         /\ \A i \in 1 .. Len(results) :
              results[i].generation \in Nat /\ results[i].since \in Nat /\ results[i].version \in Nat
         /\ \A r \in Runners :
              current[r].generation \in Nat /\ current[r].since \in Nat /\ current[r].version \in Nat
         /\ delivered.generation \in Nat /\ delivered.since \in Nat /\ delivered.version \in Nat
         /\ generation \in Nat /\ world \in Nat
<1>1. \A x \in Result : x.generation \in Nat /\ x.since \in Nat /\ x.version \in Nat
  BY BoundAssumption DEF Result, Versions
<1>2. \A i \in 1 .. Len(results) : results[i] \in Result
  BY DEF TypeOK
<1>3. delivered \in Result /\ \A r \in Runners : current[r] \in Result
  BY DEF TypeOK
<1>4. Len(results) \in Nat /\ generation \in Nat /\ world \in Nat
  BY BoundAssumption DEF TypeOK, Versions
<1> QED BY <1>1, <1>2, <1>3, <1>4

\* There are no results at first.
LEMMA InitOrder == Init => OrderInv
<1> SUFFICES ASSUME Init PROVE OrderInv
  OBVIOUS
<1>1. Len(results) = 0
  BY DEF Init
<1>2. QueueInOrder
  BY <1>1 DEF QueueInOrder
<1>3. DeliveredBefore /\ CurrentIsLast
  BY DEF Init, DeliveredBefore, CurrentIsLast, NoResult
<1> QED BY <1>2, <1>3 DEF OrderInv

\* Steps that touch neither the queue nor the refresh in progress.
LEMMA ElsewhereKeepsOrder ==
  ASSUME OrderInv, TypeOK, TypeOK', world <= world',
         UNCHANGED <<results, delivered, generation>>,
         \A r \in Runners : pc'[r] \in {"refreshing", "publish"} =>
           pc[r] \in {"refreshing", "publish"} /\ current'[r] = current[r]
  PROVE  OrderInv'
<1> USE DEF OrderInv
<1>1. world' \in Nat
  BY BoundAssumption DEF TypeOK, Versions
<1>2. QueueInOrder' /\ DeliveredBefore'
  BY <1>1, Numbers DEF QueueInOrder, DeliveredBefore
<1>3. CurrentIsLast'
  BY <1>1, Numbers, SMTT(60) DEF CurrentIsLast
<1> QED BY <1>2, <1>3

\* A refresh that begins is newer than every result.
LEMMA BeginKeepsOrder ==
  ASSUME Inv, OrderInv, NEW r \in Runners, Begin(r), TypeOK' PROVE OrderInv'
<1> USE DEF OrderInv
<1>1. /\ pc[r] = "start" /\ pc' = [pc EXCEPT ![r] = "refreshing"]
      /\ generation' = generation + 1 /\ generation \in Nat
      /\ current' = [current EXCEPT ![r] =
           [generation |-> generation + 1, since |-> world, version |-> world]]
      /\ UNCHANGED <<results, delivered, world>>
  BY DEF Begin, ends, Inv, TypeOK
<1>2. /\ current'[r] = [generation |-> generation + 1, since |-> world, version |-> world]
      /\ \A s \in Runners \ {r} : pc'[s] = pc[s] /\ pc[s] \notin InLoop
  BY <1>1 DEF Inv, TypeOK, LoopIsCurrent, InLoop
<1>3. TypeOK
  BY DEF Inv
<1>4. QueueInOrder' /\ DeliveredBefore'
  BY <1>1, <1>3, Numbers DEF QueueInOrder, DeliveredBefore
<1>5. CurrentIsLast'
  BY <1>1, <1>2, <1>3, Numbers DEF CurrentIsLast, QueueInOrder, DeliveredBefore, InLoop
<1> QED BY <1>4, <1>5

\* The result of a refresh keeps the number it began with.
LEMMA ReturnKeepsOrder ==
  ASSUME Inv, OrderInv, NEW r \in Runners, Return(r), TypeOK' PROVE OrderInv'
<1> USE DEF OrderInv
<1>1. PICK v \in current[r].since .. world : current' = [current EXCEPT ![r].version = v]
  BY DEF Return
<1>2. /\ pc[r] = "refreshing"
      /\ pc' = [pc EXCEPT ![r] = "publish"]
      /\ UNCHANGED <<results, delivered, world, generation>>
  BY DEF Return, repo, ends, ghosts
<1>3. /\ current'[r].generation = current[r].generation /\ current'[r].since = current[r].since
      /\ current'[r].since <= current'[r].version /\ current'[r].version <= world
      /\ \A s \in Runners \ {r} : pc'[s] = pc[s] /\ current'[s] = current[s]
  BY <1>1, <1>2, BoundAssumption DEF Inv, TypeOK, Result, Versions
<1>4. QueueInOrder' /\ DeliveredBefore'
  BY <1>2 DEF QueueInOrder, DeliveredBefore
<1>5. CurrentIsLast'
  BY <1>2, <1>3 DEF CurrentIsLast
<1> QED BY <1>4, <1>5

\* The result that is published is newer than those that wait.
LEMMA PublishKeepsOrder ==
  ASSUME Inv, OrderInv, NEW r \in Runners, Publish(r), TypeOK' PROVE OrderInv'
<1> USE DEF OrderInv
<1>1. /\ pc[r] = "publish" /\ pc' = [pc EXCEPT ![r] = "settle"]
      /\ results' = Append(results, current[r])
      /\ UNCHANGED <<current, delivered, world, generation>>
  BY DEF Publish, ends
<1>2. pc'[r] = "settle" /\ \A s \in Runners \ {r} : pc'[s] = pc[s] /\ pc[s] \notin InLoop
  BY <1>1 DEF Inv, TypeOK, LoopIsCurrent, InLoop
<1>3. /\ Len(results') = Len(results) + 1 /\ Len(results) \in Nat
      /\ \A i \in 1 .. Len(results) : results'[i] = results[i]
      /\ results'[Len(results) + 1] = current[r]
  BY <1>1 DEF Inv, TypeOK
<1>4. TypeOK
  BY DEF Inv
<1>5. /\ current[r].generation = generation /\ delivered.generation < generation
      /\ delivered.version <= current[r].version
      /\ current[r].version <= world
      /\ \A i \in 1 .. Len(results) :
           results[i].generation < generation /\ results[i].version <= current[r].version
  <2>1. /\ current[r].generation = generation /\ delivered.generation < generation
        /\ delivered.version <= current[r].since
        /\ current[r].since <= current[r].version /\ current[r].version <= world
        /\ \A i \in 1 .. Len(results) :
             results[i].generation < generation /\ results[i].version <= current[r].since
    BY <1>1 DEF CurrentIsLast
  <2>2. /\ current[r].since \in Nat /\ current[r].version \in Nat /\ delivered.version \in Nat
        /\ \A i \in 1 .. Len(results) : results[i].version \in Nat
    BY <1>4, Numbers
  <2> HIDE DEF OrderInv
  <2> QED BY <2>1, <2>2
<1>6. QueueInOrder'
  <2>1. ASSUME NEW i \in 1 .. Len(results')
        PROVE  /\ delivered'.generation < results'[i].generation
               /\ results'[i].generation <= generation'
               /\ delivered'.version <= results'[i].version
               /\ results'[i].version <= world'
    <3>1. CASE i \in 1 .. Len(results)
      BY <1>1, <1>3, <3>1 DEF QueueInOrder
    <3>2. CASE i = Len(results) + 1
      BY <1>1, <1>3, <1>4, <1>5, <3>2, Numbers
    <3> QED BY <1>3, <3>1, <3>2
  <2>2. ASSUME NEW i \in 1 .. Len(results'), NEW j \in 1 .. Len(results'), i < j
        PROVE  /\ results'[i].generation < results'[j].generation
               /\ results'[i].version <= results'[j].version
    <3>1. i \in 1 .. Len(results)
      BY <1>3, <2>2
    <3>2. CASE j \in 1 .. Len(results)
      BY <1>3, <2>2, <3>1, <3>2 DEF QueueInOrder
    <3>3. CASE j = Len(results) + 1
      BY <1>3, <1>5, <3>1, <3>3
    <3> QED BY <1>3, <3>2, <3>3
  <2> QED BY <2>1, <2>2 DEF QueueInOrder
<1>7. DeliveredBefore' /\ CurrentIsLast'
  BY <1>1, <1>2 DEF DeliveredBefore, CurrentIsLast, InLoop
<1> QED BY <1>6, <1>7

\* The consumer takes the oldest result.
LEMMA ReceiveKeepsOrder ==
  ASSUME Inv, OrderInv, Receive, TypeOK'
  PROVE  /\ OrderInv'
         /\ delivered'.generation > delivered.generation
         /\ delivered'.version >= delivered.version
<1> USE DEF OrderInv
<1>1. /\ results # <<>> /\ delivered' = Head(results) /\ results' = Tail(results)
      /\ UNCHANGED <<pc, current, world, generation>>
  BY DEF Receive, runs, ghosts
<1>2. /\ Len(results) \in Nat /\ Len(results) >= 1 /\ Len(results') = Len(results) - 1
      /\ delivered' = results[1]
      /\ \A i \in 1 .. Len(results') : results'[i] = results[i + 1]
  BY <1>1 DEF Inv, TypeOK
<1>3. TypeOK
  BY DEF Inv
<1>4. /\ delivered'.generation > delivered.generation
      /\ delivered'.version >= delivered.version
  BY <1>2, <1>3, Numbers DEF QueueInOrder
<1>5. QueueInOrder'
  BY <1>1, <1>2 DEF QueueInOrder
<1>6. DeliveredBefore' /\ CurrentIsLast'
  BY <1>1, <1>2, <1>3, Numbers DEF DeliveredBefore, CurrentIsLast, QueueInOrder
<1> QED BY <1>4, <1>5, <1>6

\* Every other step leaves the queue alone and moves nobody into a refresh.
LEMMA NextOrder ==
  ASSUME Inv, OrderInv, [Next]_vars
  PROVE  /\ OrderInv'
         /\ delivered' # delivered =>
              /\ delivered'.generation > delivered.generation
              /\ delivered'.version >= delivered.version
<1> DEFINE Elsewhere ==
      /\ world <= world'
      /\ UNCHANGED <<results, delivered, generation>>
      /\ \A r \in Runners : pc'[r] \in {"refreshing", "publish"} =>
           pc[r] \in {"refreshing", "publish"} /\ current'[r] = current[r]
<1>1. TypeOK /\ TypeOK' /\ world \in Nat
  BY TypeNext, Numbers DEF Inv
<1>2. Elsewhere => OrderInv'
  BY <1>1, ElsewhereKeepsOrder
<1>3. ASSUME NEW c \in Contexts, Request(c) PROVE Elsewhere
  <2>1. CASE Accept(c) /\ Coalesce
    BY <1>1, <1>3, <2>1 DEF Request, Accept, Coalesce, runs, ends
  <2>2. CASE Accept(c) /\ StartRun(c)
    BY <1>1, <1>3, <2>2 DEF Request, Accept, StartRun, ends, TypeOK
  <2>3. CASE Refuse
    BY <1>1, <1>3, <2>3 DEF Request, Refuse, repo, runs, ends
  <2> QED BY <1>3, <2>1, <2>2, <2>3 DEF Request, Accept
<1>4. ASSUME NEW r \in Runners, Discard(r) \/ Settle(r) \/ Exit(r) PROVE Elsewhere
  BY <1>1, <1>4 DEF Discard, Settle, Leave, Again, Exit, repo, ends, ghosts, TypeOK
<1>5. ASSUME NEW k \in Closers, CloseBegin(k) \/ CloseCancel(k) \/ CloseReturn(k) PROVE Elsewhere
  BY <1>1, <1>5 DEF CloseBegin, CloseCancel, CloseReturn, repo, runs, ghosts
<1>6. CASE StopListening \/ ChangeWorld \/ (\E c \in Contexts : CancelContext(c)) \/ UNCHANGED vars
  <2> Elsewhere
    BY <1>1, <1>6 DEF StopListening, ChangeWorld, CancelContext, vars, repo, runs, ends, ghosts
  <2> QED BY <1>2
<1>7. ASSUME NEW r \in Runners, Begin(r) \/ Return(r) \/ Publish(r)
      PROVE  OrderInv' /\ delivered' = delivered
  <2>1. delivered' = delivered
    BY <1>7 DEF Begin, Return, Publish, ends
  <2> QED BY <1>1, <1>7, <2>1, BeginKeepsOrder, ReturnKeepsOrder, PublishKeepsOrder
<1> QED BY <1>1, <1>2, <1>3, <1>4, <1>5, <1>6, <1>7, ReceiveKeepsOrder DEF Next, Run

\* The consumer sees generations grow and never an older repository after a newer
\* one, through any number of runs of the loop and whatever the channel buffers.
THEOREM ResultsAlwaysInOrder == Spec => ResultsInOrder
<1>1. Inv /\ OrderInv /\ [Next]_vars => OrderInv'
  BY NextOrder
<1>2. Inv /\ OrderInv /\ [Next]_vars =>
        [delivered' # delivered =>
           /\ delivered'.generation > delivered.generation
           /\ delivered'.version >= delivered.version]_vars
  BY NextOrder
<1> QED BY <1>1, <1>2, InitOrder, SpecInv, PTL DEF Spec, ResultsInOrder
-----------------------------------------------------------------------------
(* The coordinator implements the promise: owed while a request is dirty or *)
(* its loop is about to begin, running from begin to settle.                *)

\* Nobody else is in the loop while one goroutine is.
LEMMA LoopAlone ==
  ASSUME LoopIsCurrent, NEW r \in Runners, pc[r] \in InLoop
  PROVE  \A s \in Runners \ {r} : pc[s] \notin InLoop
BY DEF LoopIsCurrent

Owed == dirty \/ \E r \in Runners : pc[r] = "start"
Running == \E r \in Runners : pc[r] \in {"refreshing", "publish", "settle"}

\* Every step of the coordinator is a step of its promise or changes nothing in it.
LEMMA StepKeepsPromise ==
  ASSUME Inv, [Next]_vars PROVE [Promise!Next]_(Promise!vars)
<1> DEFINE Same == (Owed' <=> Owed) /\ (Running' <=> Running) /\ (closed' <=> closed)
<1>1. Inv' /\ TypeOK /\ TypeOK'
  BY NextInv, TypeNext DEF Inv
<1>2. Same => UNCHANGED Promise!vars
  BY <1>1 DEF Promise!vars, Owed, Running, TypeOK
<1>3. ASSUME NEW c \in Contexts, Request(c) PROVE Promise!Next \/ Same
  <2>1. CASE Accept(c) /\ Coalesce
    <3>1. ~closed /\ dirty' = TRUE /\ closed' = closed /\ pc' = pc
      BY <1>3, <2>1 DEF Request, Accept, Coalesce, runs
    <3> QED BY <3>1 DEF Promise!Next, Promise!Ask
  <2>2. CASE Accept(c) /\ StartRun(c)
    <3>1. PICK r \in Runners : pc[r] = "idle" /\ pc' = [pc EXCEPT ![r] = "start"]
      BY <2>2 DEF StartRun
    <3>2. ~closed /\ closed' = closed
      BY <1>3, <2>2 DEF Request, Accept
    <3>3. (\E s \in Runners : pc'[s] = "start") /\ (Running' <=> Running)
      BY <1>1, <3>1 DEF TypeOK, Running
    <3> QED BY <3>2, <3>3 DEF Promise!Next, Promise!Ask, Running
  <2>3. CASE Refuse
    BY <1>3, <2>3 DEF Request, Refuse, repo, runs, Owed, Running
  <2> QED BY <1>3, <2>1, <2>2, <2>3 DEF Request, Accept
<1>4. ASSUME NEW r \in Runners, Begin(r) PROVE Promise!Next
  <2>1. /\ pc[r] = "start" /\ pc' = [pc EXCEPT ![r] = "refreshing"]
        /\ closed' = closed /\ dirty' = dirty
    BY <1>4 DEF Begin
  <2>2. ~Running
    BY <1>1, <2>1, LoopAlone DEF Inv, Running, InLoop
  <2>3. Running' /\ (\E s \in Runners : pc[s] = "start")
    BY <1>1, <2>1 DEF Running, TypeOK
  <2> QED BY <2>1, <2>2, <2>3 DEF Promise!Next, Promise!Begin, Running
<1>5. ASSUME NEW r \in Runners, Return(r) \/ Publish(r) \/ Discard(r) PROVE Same
  <2>1. closed' = closed /\ dirty' = dirty /\ pc[r] \in {"refreshing", "publish"}
        /\ \E p \in {"publish", "settle"} : pc' = [pc EXCEPT ![r] = p]
    BY <1>5 DEF Return, Publish, Discard, repo
  <2> QED BY <1>1, <2>1 DEF Owed, Running, TypeOK
<1>6. ASSUME NEW r \in Runners, Settle(r) PROVE Promise!Next
  <2>1. closed' = closed /\ pc[r] = "settle" /\ Running
    BY <1>6 DEF Settle, Running
  <2>2. \A s \in Runners \ {r} : pc[s] \notin InLoop
    BY <2>1, LoopAlone DEF Inv, InLoop
  <2>3. CASE Leave(r)
    <3>1. /\ ~dirty' /\ (closed \/ ~dirty)
          /\ pc'[r] = "exit" /\ \A s \in Runners \ {r} : pc'[s] = pc[s]
      BY <1>1, <2>3 DEF Leave, TypeOK
    <3>2. ~Running' /\ ~Owed'
      BY <2>2, <3>1 DEF Running, Owed, InLoop
    <3>3. ~dirty => ~Owed
      BY <2>1, <2>2 DEF Owed, InLoop
    <3> QED BY <2>1, <3>1, <3>2, <3>3
            DEF Promise!Next, Promise!Finish, Promise!Abandon, Running, Owed
  <2>4. CASE Again(r)
    <3>1. /\ dirty /\ pc'[r] = "start" /\ \A s \in Runners \ {r} : pc'[s] = pc[s]
      BY <1>1, <2>4 DEF Again, TypeOK
    <3>2. ~Running' /\ Owed' /\ Owed
      BY <2>2, <3>1 DEF Running, Owed, InLoop
    <3> QED BY <2>1, <3>2 DEF Promise!Next, Promise!Finish, Running, Owed
  <2> QED BY <1>6, <2>3, <2>4 DEF Settle
<1>7. ASSUME NEW r \in Runners, Exit(r) PROVE Same
  <2>1. closed' = closed /\ dirty' = dirty /\ pc[r] = "exit" /\ pc' = [pc EXCEPT ![r] = "idle"]
    BY <1>7 DEF Exit, repo
  <2> QED BY <1>1, <2>1 DEF Owed, Running, TypeOK
<1>8. ASSUME NEW k \in Closers, CloseBegin(k) PROVE Promise!Next
  BY <1>8 DEF CloseBegin, runs, Promise!Next, Promise!Stop
<1>9. ASSUME NEW k \in Closers, CloseCancel(k) \/ CloseReturn(k) PROVE Same
  BY <1>9 DEF CloseCancel, CloseReturn, repo, runs, Owed, Running
<1>10. CASE Receive \/ StopListening \/ ChangeWorld \/ (\E c \in Contexts : CancelContext(c))
              \/ UNCHANGED vars
  <2> Same
    BY <1>10 DEF Receive, StopListening, ChangeWorld, CancelContext, vars, repo, runs,
                 Owed, Running
  <2> QED BY <1>2
<1> QED BY <1>2, <1>3, <1>4, <1>5, <1>6, <1>7, <1>8, <1>9, <1>10 DEF Next, Run

\* The coordinator makes only the moves the abstract promise allows (that it also
\* keeps making them, KeepsPromise, is left to the model checker).
THEOREM ImplementsPromise == Spec => Promise!Init /\ [][Promise!Next]_(Promise!vars)
<1>1. Init => Promise!Init
  BY DEF Init, Promise!Init
<1> QED BY <1>1, StepKeepsPromise, SpecInv, PTL DEF Spec
=============================================================================
