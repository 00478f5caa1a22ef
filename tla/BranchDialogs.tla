----------------------------- MODULE BranchDialogs -----------------------------
(***************************************************************************)
(* The Branches workspace: rows listed by Git, the dialogs that ask what to *)
(* do with the one selected, and the operations they start.  Operations    *)
(* run as the answers come, side by side; each ends in a message that      *)
(* lists the branches again.  Rows keep one order, which stands for every  *)
(* filter and sort, since the selection goes anywhere; a linked worktree    *)
(* that holds a branch is another way to be checked out.                   *)
(***************************************************************************)
EXTENDS Naturals, Sequences, FiniteSets

CONSTANTS Local, Remote, \* names of local and of remote-tracking branches, in order
          BranchWork     \* how much a behaviour may do

NoName == ""  \* no branch, no text
ASSUME BranchBounds ==
    /\ Local \in Seq(STRING) /\ Remote \in Seq(STRING) /\ BranchWork \subseteq [asks : Nat, outside : Nat]
    /\ \A i \in DOMAIN Local : Local[i] # NoName

Locals == {Local[i] : i \in DOMAIN Local}
Remotes == {Remote[i] : i \in DOMAIN Remote}

VARIABLES refs,       \* Git's branches: the local ones, the one checked out, upstreams
          rows, at,   \* m.Branches.Entries and Selected
          listings,   \* branches read, BranchesReadyMsg to come
          mode,       \* the one of m.Branch*Mode set, or a question of another dialog
          typed,      \* m.BranchMutationInput, m.BranchResetInput, m.RemoteBranchInput
          renameOld, mergeTarget, deleteTarget, force, \* m.Branch* of the same names
          asksAbout,  \* m.RemoteBranchTarget, m.BranchRecoveryTarget
          named,      \* the branch the question on the screen names
          branchJobs, \* operations under way
          branchWork  \* what is left of one element of BranchWork

dialogVars == <<mode, typed, renameOld, mergeTarget, deleteTarget, force, asksAbout, named>>
branchVars == <<refs, rows, at, listings, dialogVars, branchJobs, branchWork>>

RefStates == [local : SUBSET Locals, current : Locals, upstream : [Locals -> Locals \cup Remotes \cup {NoName}]]
Row(name, r) == [name |-> name, remote |-> name \in Remotes, current |-> name = r.current,
                 upstream |-> IF name \in Locals THEN r.upstream[name] ELSE NoName]
RowsOf(r) ==  \* List: the branches of refs/heads, then refs/remotes
    LET shown == SelectSeq(Local, LAMBDA n : n \in r.local) \o Remote IN
    [i \in DOMAIN shown |-> Row(shown[i], r)]

Modes == {"none", "create", "rename", "upstream", "delete", "merge", "track", "detached",
          "delete remote", "fast-forward", "reset"}
BranchTypeOK ==
    /\ refs \in RefStates /\ refs.current \in refs.local
    /\ at \in DOMAIN rows /\ mode \in Modes /\ typed \in STRING /\ force \in BOOLEAN
    /\ {renameOld, mergeTarget, asksAbout, named} \subseteq Locals \cup Remotes \cup {NoName}
    /\ deleteTarget \in Locals \cup {NoName}
    /\ \A j \in branchJobs : j.step \in {"started", "done"}
    /\ branchWork \in [asks : Nat, outside : Nat]

BranchInit ==
    /\ \E l \in SUBSET Locals, c \in Locals :
         /\ c \in l /\ refs = [local |-> l, current |-> c, upstream |-> [n \in Locals |-> NoName]]
    /\ rows = RowsOf(refs) /\ at = 1 /\ listings = {}
    /\ mode = "none" /\ typed = NoName /\ force = FALSE
    /\ renameOld = NoName /\ mergeTarget = NoName /\ deleteTarget = NoName
    /\ asksAbout = NoName /\ named = NoName
    /\ branchJobs = {} /\ branchWork \in BranchWork

-----------------------------------------------------------------------------
(* loadBranches, and BranchesReadyMsg: the selection stays on its name, or  *)
(* goes to the first row.                                                   *)
ReadBranches(r) == listings \cup {RowsOf(r)}
Keeping(name, new) == IF \E i \in DOMAIN new : new[i].name = name
                        THEN CHOOSE i \in DOMAIN new : new[i].name = name ELSE 1
BranchesReady ==
    \E l \in listings :
        /\ listings' = listings \ {l}
        /\ \/ rows' = l /\ at' = Keeping(rows[at].name, l)
           \/ UNCHANGED <<rows, at>>  \* an error
        /\ UNCHANGED <<refs, dialogVars, branchJobs, branchWork>>
MoveRow == /\ mode = "none" /\ at' \in DOMAIN rows \ {at}
           /\ UNCHANGED <<refs, rows, listings, dialogVars, branchJobs, branchWork>>
ShowBranches == /\ mode = "none" /\ listings = {} /\ rows # RowsOf(refs)
                /\ listings' = ReadBranches(refs)
                /\ UNCHANGED <<refs, rows, at, dialogVars, branchJobs, branchWork>>

-----------------------------------------------------------------------------
(* Dialogs, each opened on the row selected.                                *)
Start(kind, about, with) ==
    branchJobs' = branchJobs \cup
        {[id |-> <<branchWork.asks, kind>>, kind |-> kind, about |-> about, with |-> with, named |-> named,
          mode |-> mode, step |-> "started"]}
Asked == rows[at]
Asks == /\ mode = "none" /\ branchWork.asks > 0 /\ branchWork' = [branchWork EXCEPT !.asks = @ - 1]
        /\ named' = Asked.name /\ typed' = NoName
        /\ UNCHANGED <<refs, rows, at, listings, branchJobs>>

AskDelete ==
    /\ Asks /\ ~Asked.remote /\ ~Asked.current
    /\ mode' = "delete" /\ deleteTarget' = Asked.name /\ force' \in BOOLEAN
    /\ UNCHANGED <<renameOld, mergeTarget, asksAbout>>
AskMerge ==
    /\ Asks /\ ~Asked.current
    /\ mode' = "merge" /\ mergeTarget' = Asked.name
    /\ UNCHANGED <<renameOld, deleteTarget, force, asksAbout>>
AskRename ==
    /\ Asks /\ ~Asked.remote
    /\ mode' = "rename" /\ renameOld' = Asked.name
    /\ UNCHANGED <<mergeTarget, deleteTarget, force, asksAbout>>
AskName ==
    /\ Asks
    /\ mode' \in {"create"} \cup (IF Asked.remote THEN {} ELSE {"upstream"})
                  \cup (IF Asked.current THEN {"reset"} ELSE {})
    /\ UNCHANGED <<renameOld, mergeTarget, deleteTarget, force, asksAbout>>
AskRemote ==
    /\ Asks /\ Asked.remote
    /\ mode' \in {"track", "detached", "delete remote"} /\ asksAbout' = Asked.name
    /\ UNCHANGED <<renameOld, mergeTarget, deleteTarget, force>>
AskFastForward ==
    /\ Asks /\ Asked.current /\ Asked.upstream # NoName
    /\ mode' = "fast-forward" /\ asksAbout' = Asked.upstream
    /\ UNCHANGED <<renameOld, mergeTarget, deleteTarget, force>>
NoQuestion ==  \* enter on a local row, N on one with an upstream
    /\ mode = "none" /\ branchWork.asks > 0 /\ branchWork' = [branchWork EXCEPT !.asks = @ - 1]
    /\ \/ ~Asked.remote /\ Start("checkout", Asked.name, NoName)
       \/ Asked.upstream # NoName /\ Start("unset upstream", Asked.name, NoName)
    /\ UNCHANGED <<refs, rows, at, listings, dialogVars>>

(* What can be typed: names, strategies, and the two words of a reset.      *)
Typeable == CASE mode = "merge" -> {"ff-only", "no-ff", "?"}
              [] mode = "reset" -> {"soft", "mixed", "?"}
              [] mode = "upstream" -> Locals \cup Remotes
              [] OTHER -> Locals
TypeName ==
    /\ mode \in {"create", "rename", "upstream", "delete", "merge", "reset", "track"}
    /\ typed' \in Typeable \ {typed}
    /\ UNCHANGED <<refs, rows, at, listings, mode, renameOld, mergeTarget, deleteTarget, force,
                   asksAbout, named, branchJobs, branchWork>>

Closes == mode' = "none" /\ typed' = NoName /\ UNCHANGED named
FaultyAnswered(kind) == Asked.name
Answered(kind) == IF kind = "merge" THEN mergeTarget ELSE renameOld

(* enter of updateBranchMutationKey: the strategy, then the old name, then  *)
(* the branch to delete say what the text is for.                           *)
EnterBranch ==
    /\ mode \in {"create", "rename", "upstream", "delete", "merge"} /\ typed # NoName
    /\ CASE mode = "merge" /\ typed = "?" -> UNCHANGED <<dialogVars, branchJobs>>
         [] mode = "merge" /\ typed # "?" ->
              /\ Closes /\ UNCHANGED <<renameOld, mergeTarget, deleteTarget, force, asksAbout>>
              /\ Start("merge", Answered("merge"), typed)
         [] mode = "rename" ->
              /\ Closes /\ renameOld' = NoName /\ Start("rename", Answered("rename"), typed)
              /\ UNCHANGED <<mergeTarget, deleteTarget, force, asksAbout>>
         [] mode \notin {"merge", "rename"} /\ deleteTarget # NoName ->
              /\ Closes /\ deleteTarget' = NoName /\ UNCHANGED <<renameOld, mergeTarget, force, asksAbout>>
              /\ Start("delete", deleteTarget, typed)
         [] OTHER ->
              /\ Closes /\ UNCHANGED <<renameOld, mergeTarget, deleteTarget, force, asksAbout>>
              /\ IF mode = "upstream" THEN Start("upstream", Asked.name, typed)
                 ELSE Start("create", typed, NoName)
    /\ UNCHANGED <<refs, rows, at, listings, branchWork>>
EscBranch ==
    /\ mode \in {"create", "rename", "upstream", "delete", "merge"}
    /\ Closes /\ renameOld' = NoName /\ mergeTarget' = NoName
    /\ UNCHANGED <<refs, rows, at, listings, deleteTarget, force, asksAbout, branchJobs, branchWork>>

(* The other dialogs: y or enter, n or esc.                                 *)
AnswerOther ==
    /\ mode \in {"track", "detached", "delete remote", "fast-forward", "reset"}
    /\ mode = "reset" => typed \in {"soft", "mixed"}
    /\ Closes /\ asksAbout' = NoName
    /\ UNCHANGED <<refs, rows, at, listings, renameOld, mergeTarget, deleteTarget, force, branchWork>>
    /\ \/ UNCHANGED branchJobs
       \/ mode = "reset" /\ Start(mode, NoName, typed)
       \/ mode # "reset" /\ (mode = "track" => typed # NoName) /\ Start(mode, asksAbout, typed)

-----------------------------------------------------------------------------
(* Git: what a job does to the branches, or an error.                       *)
CanDelete(j) == j.with = j.about /\ j.about # refs.current
Effect(j) ==
    CASE j.kind = "delete" /\ CanDelete(j) -> [refs EXCEPT !.local = @ \ {j.about}]
      [] j.kind = "rename" /\ j.with \notin refs.local /\ j.about \in refs.local ->
           [refs EXCEPT !.local = (@ \ {j.about}) \cup {j.with},
                        !.current = IF @ = j.about THEN j.with ELSE @]
      [] j.kind = "create" /\ j.about \notin refs.local ->
           [refs EXCEPT !.local = @ \cup {j.about}, !.current = j.about]
      [] j.kind = "checkout" /\ j.about \in refs.local -> [refs EXCEPT !.current = j.about]
      [] j.kind = "track" /\ j.with \in Locals \ refs.local ->
           [refs EXCEPT !.local = @ \cup {j.with}, !.current = j.with, !.upstream[j.with] = j.about]
      [] j.kind = "upstream" /\ j.about \in refs.local /\ j.with \in refs.local \cup Remotes ->
           [refs EXCEPT !.upstream[j.about] = j.with]
      [] j.kind = "unset upstream" -> [refs EXCEPT !.upstream[j.about] = NoName]
      [] OTHER -> refs
BranchJobRuns ==
    \E j \in branchJobs :
        /\ j.step = "started"
        /\ refs' \in {Effect(j), refs}
        /\ branchJobs' = (branchJobs \ {j}) \cup {[j EXCEPT !.step = "done"]}
        /\ UNCHANGED <<rows, at, listings, dialogVars, branchWork>>

(* BranchOperationFinishedMsg and MergeFinishedMsg, which closes whatever   *)
(* merge dialog is open by now, and clears the text of any other.           *)
BranchJobFinished ==
    \E j \in branchJobs :
        /\ j.step = "done" /\ branchJobs' = branchJobs \ {j}
        /\ IF j.kind = "merge"
             THEN /\ mode' = (IF mode = "merge" THEN "none" ELSE mode) /\ mergeTarget' = NoName
                  /\ typed' = IF mode \in {"reset", "track"} THEN typed ELSE NoName
                  /\ UNCHANGED <<renameOld, deleteTarget, force, asksAbout, named>>
             ELSE UNCHANGED dialogVars
        /\ listings' \in {ReadBranches(refs)} \cup (IF j.kind = "merge" THEN {listings} ELSE {})
        /\ UNCHANGED <<refs, rows, at, branchWork>>

BranchOutside ==  \* another terminal checks out, creates or deletes a branch
    /\ branchWork.outside > 0 /\ branchWork' = [branchWork EXCEPT !.outside = @ - 1]
    /\ \E l \in SUBSET Locals : \E c \in l : refs' = [refs EXCEPT !.local = l, !.current = c]
    /\ UNCHANGED <<rows, at, listings, dialogVars, branchJobs>>

BranchNext ==
    \/ BranchesReady \/ MoveRow \/ ShowBranches
    \/ AskDelete \/ AskMerge \/ AskRename \/ AskName \/ AskRemote \/ AskFastForward \/ NoQuestion
    \/ TypeName \/ EnterBranch \/ EscBranch \/ AnswerOther
    \/ BranchJobRuns \/ BranchJobFinished \/ BranchOutside

BranchSpec == BranchInit /\ [][BranchNext]_branchVars

-----------------------------------------------------------------------------
(* What is merged, renamed, tracked or deleted at a remote is the branch    *)
(* the question named, though rows were listed again and other operations   *)
(* ended while it was open.                                                 *)
NamedIsDone ==
    \A j \in branchJobs :
        j.kind \in {"merge", "rename", "track", "detached", "delete remote"} => j.about = j.named

(* "Deletion requires exact confirmation" (docs/advanced-workflows.md:127):   *)
(* a branch is deleted by the name typed into the dialog that asked for it. *)
(* Esc leaves m.BranchDeleteTarget, and the next name typed into another     *)
(* dialog is taken for the confirmation: the code does not keep this.       *)
DeletionIsAsked == \A j \in branchJobs : j.kind = "delete" => j.mode = "delete" /\ j.named = j.about
================================================================================
