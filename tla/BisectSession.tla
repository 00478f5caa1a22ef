---------------------------- MODULE BisectSession ----------------------------
(***************************************************************************)
(* The Bisect workspace: bisect/bisect.go runs git bisect through the      *)
(* operation engine and reads the session back from Git's metadata, the    *)
(* application keeps the last one it was given.  An automated run streams  *)
(* its output over a channel of its own.  The session may also be driven   *)
(* from another terminal, and another repository be opened meanwhile.      *)
(***************************************************************************)
EXTENDS Integers, Sequences, FiniteSets

CONSTANTS Length,     \* commits of the history, 0 the oldest
          ChannelSize, \* chunks the channel of a run's output holds
          BisectWork  \* <<keys that begin a command, reloads, steps of the other terminal>>

ASSUME BisectBounds == /\ Length \in Nat /\ Length > 1 /\ ChannelSize \in Nat \ {0}
                       /\ BisectWork \subseteq [press : Nat, reload : Nat, outside : Nat]

VARIABLES bisect,   \* the session as Git has it, and what else it looks at
          refreshed, \* a snapshot read since the last change of it was applied
          seen,     \* m.Bisect
          bisHome,  \* the repository of the session is the one that is open
          bisDialog, \* the dialog of the workspace
          loading, loads, \* m.BisectLoading, the loads under way
          jobs,     \* the commands begun
          budget    \* what is left of one element of BisectWork

bisVars == <<bisect, refreshed, seen, bisHome, bisDialog, loading, loads, jobs, budget>>

Marks == {"good", "bad", "skip"}
Actions == Marks \cup {"start", "run", "reset"}
NoSession == [active |-> FALSE, good |-> 0, bad |-> 0, skipped |-> {}, head |-> Length]
State(s) == [active |-> s.active, good |-> s.good, bad |-> s.bad, head |-> s.head]
EmptyState == State(NoSession)

BisTypeOK ==
    /\ bisect.good \in 0..Length /\ bisect.bad \in 0..Length /\ bisect.head \in 0..Length
    /\ bisect.active \in BOOLEAN /\ bisect.busy \in BOOLEAN
    /\ bisect.skipped \subseteq 0..Length
    /\ seen \in [active : BOOLEAN, good : 0..Length, bad : 0..Length, head : 0..Length]
    /\ bisDialog \in {"none", "reset", "start", "run"}
    /\ \A j \in jobs : j.action \in Actions /\ j.at \in {"asked", "loaded", "ran", "done", "handled"}
         /\ j.queue \in 0..ChannelSize /\ j.reader \in {"none", "waiting", "holding", "ended"}
    /\ loading \in BOOLEAN /\ refreshed \in BOOLEAN /\ bisHome \in BOOLEAN

BisInit ==
    /\ bisect = [active |-> FALSE, good |-> 0, bad |-> 0, skipped |-> {}, head |-> Length,
                 busy |-> FALSE]
    /\ refreshed = TRUE
    /\ seen = EmptyState /\ bisHome = TRUE /\ bisDialog = "none"
    /\ loading = FALSE /\ loads = {} /\ jobs = {}
    /\ budget \in BisectWork

-----------------------------------------------------------------------------
(* git bisect on a straight history: a mark moves a boundary to HEAD, and   *)
(* HEAD to the middle of what is left.                                      *)

Open(s) == {c \in s.good + 1..s.bad - 1 : c \notin s.skipped}
Middle(cs) == CHOOSE c \in cs : Cardinality({d \in cs : d < c}) = Cardinality(cs) \div 2
Advance(s) == IF Open(s) = {} THEN s ELSE [s EXCEPT !.head = Middle(Open(s))]

Marked(s, mark) ==
    IF s.head \notin s.good + 1..s.bad - 1 THEN s
    ELSE Advance(CASE mark = "good" -> [s EXCEPT !.good = s.head]
                   [] mark = "bad" -> [s EXCEPT !.bad = s.head]
                   [] mark = "skip" -> [s EXCEPT !.skipped = @ \cup {s.head}])
BisectBegun(s) == Advance([s EXCEPT !.active = TRUE, !.good = 0, !.bad = Length, !.skipped = {}])
BisectReset(s) == [s EXCEPT !.active = FALSE, !.good = 0, !.bad = 0, !.skipped = {}, !.head = Length]

BisectBecomes(s) == /\ bisect' = s
              /\ refreshed' = (refreshed /\ State(s) = State(bisect))

BisectOutside ==
    /\ budget.outside > 0 /\ budget' = [budget EXCEPT !.outside = @ - 1]
    /\ \/ bisect.active /\ \E m \in Marks : BisectBecomes(Marked(bisect, m))
       \/ bisect.active /\ BisectBecomes(BisectReset(bisect))
       \/ ~bisect.active /\ ~bisect.busy /\ BisectBecomes(BisectBegun(bisect))
       \/ ~bisect.active /\ BisectBecomes([bisect EXCEPT !.busy = ~@])
    /\ UNCHANGED <<seen, bisHome, bisDialog, loading, loads, jobs>>

-----------------------------------------------------------------------------
(* A refresh: applySnapshot takes the operation, and leaves m.Bisect alone. *)
Refreshed ==
    /\ bisHome /\ ~refreshed /\ refreshed' = TRUE
    /\ UNCHANGED <<bisect, seen, bisHome, bisDialog, loading, loads, jobs, budget>>

(* C in Status, the palette, and r: one load at a time.                     *)
Reload ==
    /\ bisHome /\ budget.reload > 0 /\ budget' = [budget EXCEPT !.reload = @ - 1]
    /\ loading' = TRUE
    /\ loads' = IF loading THEN loads ELSE loads \cup {[at |-> "asked", state |-> EmptyState]}
    /\ UNCHANGED <<bisect, refreshed, seen, bisHome, bisDialog, jobs>>

LoadReads ==
    \E l \in loads :
      /\ l.at = "asked"
      /\ loads' = (loads \ {l}) \cup {[at |-> "read", state |-> State(bisect)]}
      /\ UNCHANGED <<bisect, refreshed, seen, bisHome, bisDialog, loading, jobs, budget>>

(* BisectReadyMsg: dropped, the flag left set, after a switch; a load that  *)
(* failed keeps the state.                                                  *)
LoadHandled ==
    \E l \in loads :
      /\ l.at = "read" /\ loads' = loads \ {l}
      /\ IF bisHome THEN seen' \in {l.state, seen} /\ loading' = FALSE
         ELSE UNCHANGED <<seen, loading>>
      /\ UNCHANGED <<bisect, refreshed, bisHome, bisDialog, jobs, budget>>

Switch ==
    /\ bisHome /\ bisHome' = FALSE
    /\ UNCHANGED <<bisect, refreshed, seen, bisDialog, loading, loads, jobs, budget>>

-----------------------------------------------------------------------------
(* Model.updateBisectKey: the marks act at once, start, run and reset ask   *)
(* first.  The reset question stays open under the other keys.              *)

Job(action) == [n |-> budget.press, action |-> action, at |-> "asked", failed |-> FALSE,
                state |-> EmptyState, queue |-> 0, closed |-> FALSE,
                reader |-> IF action = "run" THEN "waiting" ELSE "none"]
PressBisect(action) == /\ budget.press > 0 /\ budget' = [budget EXCEPT !.press = @ - 1]
                 /\ jobs' = jobs \cup {Job(action)}

Dialog ==
    /\ bisHome
    /\ \/ bisDialog \in {"none", "reset"} /\ bisDialog' \in {"reset", "start", "run"}
       \/ bisDialog # "none" /\ bisDialog' = "none"
    /\ UNCHANGED <<bisect, refreshed, seen, bisHome, loading, loads, jobs, budget>>

Key ==
    /\ bisHome
    /\ \/ /\ bisDialog \in {"none", "reset"} /\ UNCHANGED bisDialog
          /\ \E m \in Marks : PressBisect(m)
       \/ /\ bisDialog # "none" /\ bisDialog' = "none" /\ PressBisect(bisDialog)
    /\ UNCHANGED <<bisect, refreshed, seen, bisHome, loading, loads>>

-----------------------------------------------------------------------------
(* The engine refuses an identifier that is in use and runs one job of a    *)
(* repository at a time.  The job loads the session, start also a snapshot, *)
(* and gives up or goes on; its state is then empty unless it was loaded.   *)

Put(j, k) == jobs' = (jobs \ {j}) \cup {k}
Running == {j \in jobs : j.at \in {"loaded", "ran"}}
FaultyRefuse(j, state) ==  \* nobody closes the channel
    Put(j, [j EXCEPT !.at = "done", !.failed = TRUE, !.state = state])
Refuse(j, state) == Put(j, [j EXCEPT !.at = "done", !.failed = TRUE, !.state = state,
                                     !.closed = TRUE])

Submit ==
    \E j \in jobs :
      /\ j.at = "asked"
      /\ IF \E q \in jobs \ {j} : q.action = j.action /\ q.n > j.n /\ q.at \notin {"done", "handled"}
           THEN Refuse(j, EmptyState)
           ELSE /\ Running = {}
                /\ CASE (j.action = "start") = bisect.active -> Refuse(j, State(bisect))
                     [] j.action = "start" /\ bisect.busy ->
                          Refuse(j, EmptyState)
                     [] OTHER -> Put(j, [j EXCEPT !.at = "loaded"])
      /\ UNCHANGED <<bisect, refreshed, seen, bisHome, bisDialog, loading, loads, budget>>

(* An automated run marks as often as it likes; a full channel loses the    *)
(* chunk.                                                                   *)
Chunk(j) == [j EXCEPT !.queue = IF @ < ChannelSize THEN @ + 1 ELSE @]
JobRuns ==
    \E j \in jobs :
      /\ j.at = "loaded"
      /\ \/ /\ j.action \in Marks /\ bisect.active
            /\ BisectBecomes(Marked(bisect, j.action)) /\ Put(j, [j EXCEPT !.at = "ran"])
         \/ /\ j.action = "start" /\ ~bisect.active
            /\ BisectBecomes(BisectBegun(bisect)) /\ Put(j, [j EXCEPT !.at = "ran"])
         \/ /\ j.action = "reset" /\ BisectBecomes(BisectReset(bisect)) /\ Put(j, [j EXCEPT !.at = "ran"])
         \/ /\ j.action = "run" /\ bisect.active /\ Open(bisect) # {}
            /\ \E m \in Marks : BisectBecomes(Marked(bisect, m))
            /\ Put(j, Chunk(j))
         \/ Put(j, [j EXCEPT !.at = "ran", !.failed = TRUE]) /\ UNCHANGED <<bisect, refreshed>>
         \/ /\ j.action = "run" /\ Open(bisect) = {}
            /\ Put(j, [j EXCEPT !.at = "ran"]) /\ UNCHANGED <<bisect, refreshed>>
      /\ UNCHANGED <<seen, bisHome, bisDialog, loading, loads, budget>>

(* finish reads the snapshot and the session; the command closes the        *)
(* channel.                                                                 *)
JobFinishes ==
    \E j \in jobs :
      /\ j.at = "ran"
      /\ Put(j, [j EXCEPT !.at = "done", !.state = State(bisect), !.closed = TRUE])
      /\ UNCHANGED <<bisect, refreshed, seen, bisHome, bisDialog, loading, loads, budget>>

(* BisectFinishedMsg: the state replaces m.Bisect even if the command       *)
(* failed; a run's result replaces the text and closes its dialog.  A job   *)
(* stays in the model while its reader does.                                *)
BisectFinished ==
    \E j \in jobs :
      /\ j.at = "done"
      /\ jobs' = (jobs \ {j}) \cup (IF j.reader \in {"none", "ended"} THEN {}
                                    ELSE {[j EXCEPT !.at = "handled", !.state = EmptyState]})
      /\ IF bisHome
           THEN /\ seen' = j.state
                /\ bisDialog' = IF j.action = bisDialog /\ j.action \in {"run", "start"} THEN "none"
                                ELSE bisDialog
           ELSE UNCHANGED <<seen, bisDialog>>
      /\ UNCHANGED <<bisect, refreshed, bisHome, loading, loads, budget>>

Ended(j) == IF j.at = "handled" THEN jobs' = jobs \ {j}
            ELSE Put(j, [j EXCEPT !.reader = "ended"])

(* waitBisectOutput returns a chunk, or the end of the channel; the handler *)
(* waits again, unless another repository is open.                          *)
ReaderReceives ==
    \E j \in jobs :
      /\ j.reader = "waiting"
      /\ \/ j.queue > 0 /\ Put(j, [j EXCEPT !.reader = "holding", !.queue = @ - 1])
         \/ j.queue = 0 /\ j.closed /\ Ended(j)
      /\ UNCHANGED <<bisect, refreshed, seen, bisHome, bisDialog, loading, loads, budget>>

OutputHandled ==
    \E j \in jobs :
      /\ j.reader = "holding"
      /\ IF bisHome THEN Put(j, [j EXCEPT !.reader = "waiting"]) ELSE Ended(j)
      /\ UNCHANGED <<bisect, refreshed, seen, bisHome, bisDialog, loading, loads, budget>>

BisStep == LoadReads \/ LoadHandled \/ Submit \/ JobRuns \/ JobFinishes \/ BisectFinished
           \/ ReaderReceives \/ OutputHandled

BisNext == BisectOutside \/ Refreshed \/ Reload \/ Switch \/ Dialog \/ Key \/ BisStep

(* Goroutines run and messages arrive; a Git command ends (the engine's     *)
(* timeout sees to it); nobody has to press a key.                          *)
BisFairness ==
    /\ WF_bisVars(Submit \/ JobFinishes) /\ WF_bisVars(JobRuns)
    /\ WF_bisVars(ReaderReceives \/ OutputHandled)

BisSpec == BisInit /\ [][BisNext]_bisVars /\ BisFairness

-----------------------------------------------------------------------------
(* The goroutine that waits for the output of an automated run returns,     *)
(* whatever becomes of the run: refused as a duplicate, given up, dropped   *)
(* chunks, or another repository opened while it runs.                      *)
OutputReadersEnd == []<>(\A j \in jobs : j.reader \notin {"waiting", "holding"})

(* "External bisect changes are reconstructed from Git when the repository  *)
(* refreshes": once a refresh has seen the last change, and nothing is      *)
(* under way, the workspace shows the session Git has.  The code does not   *)
(* keep this: a refresh alone reads no bisect session.                      *)
SessionShown ==
    refreshed /\ bisHome /\ loads = {} /\ (\A j \in jobs : j.at = "handled") /\ seen.active
    => seen = State(bisect)
=============================================================================
