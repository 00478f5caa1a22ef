------------------------------- MODULE RemoteJobs -------------------------------
(***************************************************************************)
(* The Remotes workspace (app.go, internal/remotes): the remotes it lists, *)
(* the questions it asks before a remote is changed or pushed to, and the  *)
(* jobs that fetch, pull, push and change remotes.  Jobs run one at a time *)
(* in a repository (OperationEngine) while keys and messages go on.  Other *)
(* parts of a remote, its URLs, refs and last fetch, are left out, and a   *)
(* pushed tag or a new upstream is a push.                                 *)
(***************************************************************************)
EXTENDS Integers, Sequences, FiniteSets, TLC

CONSTANTS Listing,     \* the names a remote may have, in the order Git lists them
          RemoteWork   \* how much a behaviour may do: questions and jobs asked for,
                       \* selections moved, repositories opened

NoRemote == ""
ASSUME RemoteBounds ==
    /\ Listing \in Seq(STRING) /\ \A i \in DOMAIN Listing : Listing[i] # NoRemote
    /\ RemoteWork \subseteq [asks : Nat, moves : Nat, opens : Nat]

VARIABLES configured,   \* Git's remotes, of each repository opened so far
          rsession,     \* m.repositoryGeneration
          listed, remoteChosen, \* the dashboard's remotes, the one selected
          board,        \* the dashboard's jobs: an outcome for each one started
          remoteJob, remoteCancel, \* m.RemoteJobID, m.RemoteCancel
          rjobs,        \* every job asked for, in order
          mutation,     \* m.RemoteMutation*: the dialog of a change
          pushAsked,    \* the other questions open, what each one names
          lookups,      \* reads under way for a question
          boardReads,   \* dashboards being read
          rpending,     \* m.State is StateOperationPending
          rwork         \* what is left of one element of RemoteWork

remoteVars == <<configured, rsession, listed, remoteChosen, board, remoteJob, remoteCancel, rjobs,
                mutation, pushAsked, lookups, boardReads, rpending, rwork>>

Names == {Listing[i] : i \in DOMAIN Listing}
First(names) == IF names = {} THEN NoRemote
                ELSE Listing[CHOOSE i \in DOMAIN Listing :
                               /\ Listing[i] \in names
                               /\ \A k \in 1..(i - 1) : Listing[k] \notin names]
NoMutation == [mode |-> "", remote |-> NoRemote, confirm |-> FALSE, says |-> {}]
Here(name) == [session |-> rsession, remote |-> name]
RemoteChanges == {"rename", "remove", "prune"}

RemoteTypeOK ==
    /\ rsession = Len(configured) /\ \A s \in DOMAIN configured : configured[s] \subseteq Names
    /\ listed \subseteq Names /\ remoteChosen \in listed \cup {NoRemote}
    /\ {remoteJob, remoteCancel} \subseteq 0..Len(rjobs)
    /\ board \subseteq [id : DOMAIN rjobs, state : {"running", "ok", "failed", "cancelled"}]
    /\ \A j \in DOMAIN rjobs : rjobs[j].at \in {"queued", "running", "ended", "handled"}
    /\ mutation.mode \in {"", "add", "set-url", "loading", "rename-confirm"} \cup RemoteChanges
    /\ DOMAIN pushAsked \subseteq {"push", "force", "delete tag"}
    /\ rpending \in BOOLEAN /\ rwork \in [asks : Nat, moves : Nat, opens : Nat]

RemoteInit ==
    /\ configured = <<Names>> /\ rsession = 1
    /\ listed = Names /\ remoteChosen = First(Names)
    /\ board = {} /\ remoteJob = 0 /\ remoteCancel = 0 /\ rjobs = <<>>
    /\ mutation = NoMutation /\ pushAsked = <<>> /\ lookups = {} /\ boardReads = {}
    /\ rpending = FALSE /\ rwork \in RemoteWork

RemoteSpends(what) == rwork[what] > 0 /\ rwork' = [rwork EXCEPT ![what] = @ - 1]
RemoteTyping == mutation.mode \in {"add", "set-url", "rename"}
Quiescent == ~RemoteTyping /\ ~mutation.confirm /\ pushAsked = <<>>
WorldStays == UNCHANGED <<configured, rsession>>

-----------------------------------------------------------------------------
(* startRemoteJob and remoteCommand.  `asked' is what the question answered *)
(* named, for a job nobody was asked about it is empty.                     *)

FaultyStarted(op, name, asked) ==
    /\ rjobs' = Append(rjobs, [op |-> op, on |-> Here(name), asked |-> asked, at |-> "queued",
                               cancelled |-> FALSE, outcome |-> "", tied |-> FALSE])
    /\ remoteJob' = Len(rjobs) + 1 /\ remoteCancel' = Len(rjobs) + 1
    /\ board' = board \cup {[id |-> Len(rjobs) + 1, state |-> "running"]}
Started(op, name, asked) ==
    /\ rjobs' = Append(rjobs, [op |-> op, on |-> Here(name), asked |-> asked, at |-> "queued",
                               cancelled |-> FALSE, outcome |-> "", tied |-> TRUE])
    /\ remoteJob' = Len(rjobs) + 1 /\ remoteCancel' = Len(rjobs) + 1
    /\ board' = board \cup {[id |-> Len(rjobs) + 1, state |-> "running"]}

FetchOrPull ==
    /\ Quiescent /\ remoteChosen # NoRemote /\ RemoteSpends("asks")
    /\ \E op \in {"fetch", "pull"} : Started(op, remoteChosen, {})
    /\ rpending' = TRUE
    /\ UNCHANGED <<listed, remoteChosen, mutation, pushAsked, lookups, boardReads>> /\ WorldStays

(* The engine runs the job when no other has the repository; a job that was *)
(* cancelled first does not run, one cancelled later may still finish.      *)
RemoteJobBegins ==
    \E j \in DOMAIN rjobs :
      /\ rjobs[j].at = "queued"
      /\ IF rjobs[j].cancelled
           THEN rjobs' = [rjobs EXCEPT ![j].at = "ended", ![j].outcome = "cancelled"]
           ELSE /\ \A k \in DOMAIN rjobs : rjobs[k].at = "running" => rjobs[k].on.session # rjobs[j].on.session
                /\ rjobs' = [rjobs EXCEPT ![j].at = "running"]
      /\ UNCHANGED <<listed, remoteChosen, board, remoteJob, remoteCancel, mutation, pushAsked, lookups,
                     boardReads, rpending, rwork>> /\ WorldStays
Effects(op, name, names) ==
    CASE op = "remove" -> {names \ {name}}
      [] op = "rename-confirm" -> {(names \ {name}) \cup {new} : new \in Names \ names}
      [] op = "add" -> {names \cup {new} : new \in Names \ names}
      [] OTHER -> {names}
RemoteJobEnds ==
    \E j \in DOMAIN rjobs :
      /\ rjobs[j].at = "running"
      /\ \/ /\ rjobs[j].op \in {"remove", "rename-confirm"} => rjobs[j].on.remote \in configured[rjobs[j].on.session]
            /\ \E names \in Effects(rjobs[j].op, rjobs[j].on.remote, configured[rjobs[j].on.session]) :
                 configured' = [configured EXCEPT ![rjobs[j].on.session] = names]
            /\ rjobs' = [rjobs EXCEPT ![j].at = "ended", ![j].outcome = "ok"]
         \/ /\ rjobs' = [rjobs EXCEPT ![j].at = "ended",
                                      ![j].outcome = IF rjobs[j].cancelled THEN "cancelled" ELSE "failed"]
            /\ UNCHANGED configured
      /\ UNCHANGED <<rsession, listed, remoteChosen, board, remoteJob, remoteCancel, mutation, pushAsked,
                     lookups, boardReads, rpending, rwork>>

(* RemoteOperationFinishedMsg marks the job started last, whichever ended,  *)
(* drops its handle, whatever dialog is open, and reads the dashboard.      *)
Cleared == remoteJob' = 0 /\ remoteCancel' = 0
RemoteFinishedMsg ==
    \E j \in DOMAIN rjobs :
      /\ rjobs[j].at = "ended" /\ rjobs' = [rjobs EXCEPT ![j].at = "handled"]
      /\ IF rjobs[j].on.session # rsession
           THEN UNCHANGED <<board, remoteJob, remoteCancel, mutation, pushAsked, boardReads, rpending>>
           ELSE /\ mutation' = NoMutation
                /\ pushAsked' = [q \in DOMAIN pushAsked \ {"delete tag"} |-> pushAsked[q]]
                /\ board' = {IF b.id = remoteJob THEN [b EXCEPT !.state = rjobs[j].outcome] ELSE b : b \in board}
                /\ Cleared
                /\ boardReads' = boardReads \cup {[id |-> j, session |-> rsession, read |-> FALSE, names |-> {}]}
                /\ rpending' = FALSE
      /\ UNCHANGED <<listed, remoteChosen, lookups, rwork>> /\ WorldStays

(* Esc while something is under way.                                        *)
EscCancels ==
    /\ Quiescent /\ remoteCancel # 0 /\ rpending
    /\ rjobs' = [rjobs EXCEPT ![remoteCancel].cancelled = TRUE] /\ remoteCancel' = 0
    /\ UNCHANGED <<listed, remoteChosen, board, remoteJob, mutation, pushAsked, lookups, boardReads, rpending,
                   rwork>> /\ WorldStays

-----------------------------------------------------------------------------
(* loadRemotes.  RemotesReadyMsg shows what was read of whichever repository*)
(* it was read, selects the first remote and forgets the jobs.              *)

ReadDashboard ==
    \E r \in boardReads :
      /\ ~r.read /\ r.session = rsession
      /\ boardReads' = (boardReads \ {r}) \cup {[r EXCEPT !.read = TRUE, !.names = configured[rsession]]}
      /\ UNCHANGED <<listed, remoteChosen, board, remoteJob, remoteCancel, rjobs, mutation, pushAsked,
                     lookups, rpending, rwork>> /\ WorldStays
RemotesReady ==
    \E r \in boardReads :
      /\ boardReads' = boardReads \ {r} /\ rpending' = FALSE
      /\ \/ r.read /\ listed' = r.names /\ remoteChosen' = First(r.names) /\ board' = {}
         \/ ~r.read /\ UNCHANGED <<listed, remoteChosen, board>>
      /\ UNCHANGED <<remoteJob, remoteCancel, rjobs, mutation, pushAsked, lookups, rwork>> /\ WorldStays

(* Keys move the selection while nothing is asked, the mouse at any time.   *)
MoveRemote ==
    /\ RemoteSpends("moves") /\ remoteChosen' \in listed \ {remoteChosen}
    /\ UNCHANGED <<listed, board, remoteJob, remoteCancel, rjobs, mutation, pushAsked, lookups, boardReads,
                   rpending>> /\ WorldStays

(* setRepository ends the context that jobs of the repository derive from.  *)
OpenRepository ==
    /\ RemoteSpends("opens") /\ rsession' = rsession + 1
    /\ \E names \in SUBSET Names : configured' = Append(configured, names)
    /\ rjobs' = [j \in DOMAIN rjobs |->
                   [rjobs[j] EXCEPT !.cancelled = @ \/ (rjobs[j].tied /\ rjobs[j].on.session = rsession)
                                                    \/ j = remoteCancel]]
    /\ remoteCancel' = 0
    /\ UNCHANGED <<listed, remoteChosen, board, remoteJob, mutation, pushAsked, lookups, boardReads, rpending>>

-----------------------------------------------------------------------------
(* The dialogs that change a remote: A adds and L sets the URL of one, with *)
(* no question; R, D and K read first what the question is to say.          *)

StartMutation ==
    /\ Quiescent /\ RemoteSpends("asks")
    /\ \/ mutation' = [NoMutation EXCEPT !.mode = "add"] /\ UNCHANGED <<lookups, rpending>>
       \/ /\ remoteChosen # NoRemote /\ UNCHANGED <<lookups, rpending>>
          /\ mutation' = [NoMutation EXCEPT !.mode = "set-url", !.remote = remoteChosen]
       \/ /\ remoteChosen # NoRemote /\ rpending' = TRUE
          /\ \E kind \in RemoteChanges :
               /\ mutation' = [NoMutation EXCEPT !.mode = "loading", !.remote = remoteChosen, !.says = {kind}]
               /\ lookups' = lookups \cup {[kind |-> kind, about |-> Here(remoteChosen)]}
    /\ UNCHANGED <<listed, remoteChosen, board, remoteJob, remoteCancel, rjobs, pushAsked, boardReads>> /\ WorldStays

(* RemoteTrackingReadyMsg goes by the mode of the dialog, not by the remote *)
(* that was read; RemotePrunePreviewMsg makes the dialog one of pruning.    *)
LookupReady ==
    \E l \in lookups :
      /\ l.kind \in RemoteChanges /\ lookups' = lookups \ {l}
      /\ \/ l.about.session # rsession /\ UNCHANGED <<mutation, rpending>>
         \/ l.about.session = rsession /\ mutation' = NoMutation /\ rpending' = FALSE
         \/ /\ l.about.session = rsession /\ l.kind = "prune" /\ rpending' = FALSE
            /\ mutation' = [mutation EXCEPT !.mode = "prune", !.confirm = TRUE, !.says = {l.about}]
         \/ /\ l.about.session = rsession /\ l.kind # "prune" /\ mutation.mode = "loading"
            /\ mutation.says \subseteq {"rename", "remove"}
            /\ mutation' = [mutation EXCEPT !.mode = CHOOSE kind \in mutation.says : TRUE,
                                            !.confirm = mutation.says = {"remove"},
                                            !.says = {l.about}]
            /\ rpending' = FALSE
         \/ /\ l.about.session = rsession /\ l.kind # "prune"
            /\ mutation.mode = "loading" => ~(mutation.says \subseteq {"rename", "remove"})
            /\ UNCHANGED <<mutation, rpending>>
      /\ UNCHANGED <<listed, remoteChosen, board, remoteJob, remoteCancel, rjobs, pushAsked, boardReads, rwork>>
      /\ WorldStays

(* Enter ends the input: the name and URL of a new remote, a URL, a name.   *)
EnterInput ==
    /\ RemoteTyping
    /\ IF mutation.mode = "rename"
         THEN /\ mutation' = [mutation EXCEPT !.mode = "rename-confirm", !.confirm = TRUE,
                                            !.says = {Here(mutation.remote)}]
              /\ UNCHANGED <<rjobs, remoteJob, remoteCancel, board, rpending>>
         ELSE /\ Started(mutation.mode, mutation.remote, {}) /\ rpending' = TRUE
              /\ mutation' = [mutation EXCEPT !.mode = ""]
    /\ UNCHANGED <<listed, remoteChosen, pushAsked, lookups, boardReads, rwork>> /\ WorldStays
ConfirmMutation ==
    /\ ~RemoteTyping /\ mutation.confirm
    /\ Started(mutation.mode, mutation.remote, mutation.says) /\ rpending' = TRUE
    /\ mutation' = [mutation EXCEPT !.confirm = FALSE]
    /\ UNCHANGED <<listed, remoteChosen, pushAsked, lookups, boardReads, rwork>> /\ WorldStays
CancelMutation ==
    /\ RemoteTyping \/ mutation.confirm
    /\ mutation' = NoMutation
    /\ UNCHANGED <<listed, remoteChosen, board, remoteJob, remoteCancel, rjobs, pushAsked, lookups, boardReads,
                   rpending, rwork>> /\ WorldStays

-----------------------------------------------------------------------------
(* Pushing: p reads what would move and then asks; u, T, P and X ask, and P *)
(* names the remote.  The remote pushed to is the one selected at the y.    *)

AskToPush ==
    /\ Quiescent /\ RemoteSpends("asks")
    /\ \/ /\ remoteChosen # NoRemote /\ rpending' = TRUE /\ UNCHANGED pushAsked
          /\ lookups' = lookups \cup {[kind |-> "push", about |-> Here(remoteChosen)]}
       \/ /\ \E q \in {"push", "force", "delete tag"} :
               /\ q # "push" => remoteChosen # NoRemote
               /\ pushAsked' = (q :> (IF q = "force" THEN {Here(remoteChosen)} ELSE {}))
          /\ UNCHANGED <<lookups, rpending>>
    /\ UNCHANGED <<listed, remoteChosen, board, remoteJob, remoteCancel, rjobs, mutation, boardReads>> /\ WorldStays
PushPreviewReady ==
    \E l \in lookups :
      /\ l.kind = "push" /\ lookups' = lookups \ {l} /\ rpending' = FALSE
      /\ \/ UNCHANGED pushAsked
         \/ pushAsked' = ("push" :> {l.about}) @@ pushAsked
      /\ UNCHANGED <<listed, remoteChosen, board, remoteJob, remoteCancel, rjobs, mutation, boardReads, rwork>>
      /\ WorldStays
PushQuestion == CASE "force" \in DOMAIN pushAsked -> "force"
                  [] "delete tag" \in DOMAIN pushAsked -> "delete tag"
                  [] OTHER -> "push"
AnswerPush ==
    /\ ~RemoteTyping /\ ~mutation.confirm /\ pushAsked # <<>>
    /\ pushAsked' = [q \in DOMAIN pushAsked \ {PushQuestion} |-> pushAsked[q]]
    /\ \/ UNCHANGED <<rjobs, remoteJob, remoteCancel, board, rpending>>
       \/ /\ remoteChosen # NoRemote /\ rpending' = TRUE
          /\ Started(PushQuestion, remoteChosen, pushAsked[PushQuestion])
    /\ UNCHANGED <<listed, remoteChosen, mutation, lookups, boardReads, rwork>> /\ WorldStays

RemoteNext ==
    \/ FetchOrPull \/ RemoteJobBegins \/ RemoteJobEnds \/ RemoteFinishedMsg \/ EscCancels
    \/ ReadDashboard \/ RemotesReady \/ MoveRemote \/ OpenRepository
    \/ StartMutation \/ LookupReady \/ EnterInput \/ ConfirmMutation \/ CancelMutation
    \/ AskToPush \/ PushPreviewReady \/ AnswerPush

RemoteSpec == RemoteInit /\ [][RemoteNext]_remoteVars

-----------------------------------------------------------------------------
(* The handle Esc and the next repository use is that of a job of the       *)
(* repository shown which has not been heard of, and no job of a repository *)
(* left behind goes on uncancelled: none fetches into, or changes, a        *)
(* repository that can no longer be seen or stopped.                        *)
JobsWithinReach ==
    /\ remoteCancel # 0 => /\ rjobs[remoteCancel].on.session = rsession
                           /\ rjobs[remoteCancel].at # "handled" /\ ~rjobs[remoteCancel].cancelled
    /\ \A j \in DOMAIN rjobs : \/ rjobs[j].on.session = rsession \/ rjobs[j].cancelled
                               \/ rjobs[j].at \in {"ended", "handled"}

(* "Destructive/history-rewriting actions require scope-specific            *)
(* confirmation" (task 157): what is done after a question that named a     *)
(* remote is done to that remote, of that repository.  The code does not    *)
(* keep this: the dialog names a remote and the action takes the selection. *)
ActsOnTheNamed == \A j \in DOMAIN rjobs : rjobs[j].asked \subseteq {rjobs[j].on}

(* The dashboard says of no job that it is over before it is.  The code does *)
(* not keep this: an end marks the newest job, whichever job it is of.      *)
BoardTruthful == \A b \in board : b.state # "running" => rjobs[b.id].at = "handled"
================================================================================
