--------------------------- MODULE RefreshPromise ---------------------------
(***************************************************************************)
(* What a refresh coordinator promises its callers, whatever goroutines    *)
(* and channels it is made of: a request is not forgotten while the        *)
(* coordinator runs; one refresh at a time; requests made during a refresh *)
(* are merged into a later one; a stopped coordinator accepts nothing more *)
(* and comes to rest.                                                      *)
(***************************************************************************)

VARIABLES
  owed,      \* a request waits for a refresh that has not begun yet
  running,   \* a refresh is in progress
  stopped    \* the coordinator was shut down

vars == <<owed, running, stopped>>

Init == ~owed /\ ~running /\ ~stopped

Ask == ~stopped /\ owed' = TRUE /\ running' = running /\ stopped' = stopped

\* A request that arrived just before the refresh begins may cost a second one.
Begin == owed /\ ~running /\ owed' \in BOOLEAN /\ running' = TRUE /\ stopped' = stopped

Finish == running /\ running' = FALSE /\ owed' = owed /\ stopped' = stopped

\* The shutdown abandons what was asked for while a refresh was running.
Abandon == stopped /\ running /\ owed' = FALSE /\ running' = FALSE /\ stopped' = stopped

Stop == stopped' = TRUE /\ UNCHANGED <<owed, running>>

Next == Ask \/ Begin \/ Finish \/ Abandon \/ Stop

\* A refresh that was asked for begins, and a refresh that began ends.
Spec == Init /\ [][Next]_vars /\ WF_vars(Begin) /\ WF_vars(Finish \/ Abandon)
=============================================================================
