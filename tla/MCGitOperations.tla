--------------------------- MODULE MCGitOperations ---------------------------
(***************************************************************************)
(* The workspaces over Git's own operations, branches and stashes, each by *)
(* itself: `part` names the one a behaviour is about, the others stand     *)
(* still.                                                                  *)
(***************************************************************************)
EXTENDS OperationRecovery, UndoRedo, BisectSession, BranchDialogs, StashWorkspace

CONSTANT Parts
VARIABLE part

MCBisectWork == {[press |-> 2, reload |-> 0, outside |-> 0],
                 [press |-> 1, reload |-> 1, outside |-> 1]}

MCLocal == <<"main", "topic">>
MCRemote == <<"o/main">>
MCBranchWork == {[asks |-> 2, outside |-> 0], [asks |-> 1, outside |-> 1]}
MCStashWork == {[asks |-> 2, previews |-> 0, outside |-> 1],
                [asks |-> 1, previews |-> 1, outside |-> 0]}

gitVars == <<recVars, undoVars, bisVars>>
vars == <<part, gitVars, branchVars, stashVars>>

Init == /\ part \in Parts
        /\ RecInit /\ UndoInit /\ BisInit /\ BranchInit /\ StashInit
        /\ part # "undo" => index = CHOOSE c \in Contents : TRUE
        /\ part # "bisect" => budget = CHOOSE w \in BisectWork : TRUE
        /\ part # "branches" => /\ refs.local = Locals /\ refs.current = Local[1]
                               /\ branchWork = CHOOSE w \in BranchWork : TRUE
        /\ part # "stashes" => ~dirty /\ stashWork = CHOOSE w \in StashWork : TRUE

Next == /\ UNCHANGED part
        /\ \/ part = "recovery" /\ RecNext /\ UNCHANGED <<undoVars, bisVars, branchVars, stashVars>>
           \/ part = "undo" /\ UndoNext /\ UNCHANGED <<recVars, bisVars, branchVars, stashVars>>
           \/ part = "bisect" /\ BisNext /\ UNCHANGED <<recVars, undoVars, branchVars, stashVars>>
           \/ part = "branches" /\ BranchNext /\ UNCHANGED <<gitVars, stashVars>>
           \/ part = "stashes" /\ StashNext /\ UNCHANGED <<gitVars, branchVars>>

Spec == Init /\ [][Next]_vars /\ (part = "recovery" => RecFairness)
        /\ BisFairness

(* Every variable keeps its type. *)
TypesOK == RecTypeOK /\ UndoTypeOK /\ BisTypeOK /\ BranchTypeOK /\ StashTypeOK
=============================================================================
