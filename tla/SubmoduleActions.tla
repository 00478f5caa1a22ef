-------------------------- MODULE SubmoduleActions --------------------------
(***************************************************************************)
(* Submodule operations: the dialog of the Status view (menu, URL,         *)
(* confirmations), single operations and the bulk ones, which run one Git  *)
(* command per module in a bounded pool (submodules.Bulk).                 *)
(*                                                                         *)
(* The dialog is one string, SubmoduleAction; while an operation runs it   *)
(* names the operation and swallows every key of the Status view, so it    *)
(* has to be cleared by the operation's own message or by a switch of the  *)
(* repository.  The text of the URL, the workers' limit of eight and the   *)
(* redaction of errors are left out.                                       *)
(***************************************************************************)
EXTENDS Naturals, FiniteSets, Sequences

CONSTANTS
  Modules,        \* paths of submodules
  Invalid,        \* those that validateRepositoryAndPath refuses
  MaxModules,     \* BulkRequest.MaxModules
  BulkWorkers,    \* workers of one bulk operation
  MaxOps,         \* bound: operations started
  MaxGeneration   \* bound: switches of the repository

ASSUME SubmoduleAssumption ==
  /\ Invalid \subseteq Modules
  /\ {MaxModules, MaxOps, MaxGeneration} \subseteq Nat
  /\ BulkWorkers \in Nat \ {0}

VARIABLES
  subAction,      \* SubmoduleAction
  subSelected,    \* SubmodulePath, or the paths of a bulk operation
  subHandle,      \* the operation BulkSubmoduleCancel cancels, 0 for nil
  subOutcome,     \* BulkSubmoduleOutcome: path -> state; empty for nil
  subGeneration,  \* repositoryGeneration
  subOps          \* operations started

subVars == <<subAction, subSelected, subHandle, subOutcome, subGeneration, subOps>>

Confirmations == {"confirm-deinit", "confirm-remove", "confirm-add"}
Dialogs == {"", "menu", "add-url", "bulk-confirm", "bulk-running", "running"} \union Confirmations
ItemStates == {"queued", "running", "succeeded", "failed", "skipped", "cancelled"}
Items == UNION {[P -> ItemStates] : P \in SUBSET Modules}
NoItems == [p \in {} |-> "queued"]

\* phase: waiting for the engine, working, waiting for Update, handled.
Op == [bulk : BOOLEAN, generation : Nat, items : Items, dead : BOOLEAN,
       phase : {"waiting", "working", "posted", "handled"}]

SubTypeOK ==
  /\ subAction \in Dialogs
  /\ subSelected \subseteq Modules
  /\ subHandle \in 0..Len(subOps)
  /\ subOutcome \in Items
  /\ subGeneration \in 0..MaxGeneration
  /\ subOps \in Seq(Op)
  /\ Len(subOps) <= MaxOps

SubInit ==
  /\ subAction = "" /\ subSelected = {} /\ subHandle = 0
  /\ subOutcome = NoItems /\ subGeneration = 0 /\ subOps = <<>>

ItemsIn(items, s) == {p \in DOMAIN items : items[p] = s}

-----------------------------------------------------------------------------
\* updateSubmoduleKey.

Dialog(from, to) == subAction \in from /\ subAction' = to

SubOpenMenu == \* M, with the module of the selected row
  /\ Dialog({""}, "menu")
  /\ \E p \in Modules : subSelected' = {p}
  /\ UNCHANGED <<subHandle, subOutcome, subGeneration, subOps>>

SubClose == \* esc, n
  /\ Dialog({"menu", "add-url", "bulk-confirm"} \union Confirmations, "")
  /\ subSelected' = {}
  /\ UNCHANGED <<subHandle, subOutcome, subGeneration, subOps>>

SubAsk == \* d, x, a, and enter after a URL
  /\ \/ \E c \in {"confirm-deinit", "confirm-remove", "add-url"} : Dialog({"menu"}, c)
     \/ Dialog({"add-url"}, "confirm-add")
  /\ UNCHANGED <<subSelected, subHandle, subOutcome, subGeneration, subOps>>

\* I, U, Y take every module, 1, 2, 3 the selected one, r those that failed.
SubAskBulk ==
  /\ Dialog({"menu"}, "bulk-confirm")
  /\ \E paths \in {Modules, subSelected, ItemsIn(subOutcome, "failed")} :
       paths # {} /\ subSelected' = paths
  /\ UNCHANGED <<subHandle, subOutcome, subGeneration, subOps>>

Submitted(bulk, paths) ==
  [bulk |-> bulk, generation |-> subGeneration, items |-> [p \in paths |-> "queued"],
   dead |-> FALSE, phase |-> "waiting"]

SubRun == \* i, u, s, and y to a confirmation
  /\ Dialog({"menu"} \union Confirmations, "running")
  /\ Len(subOps) < MaxOps
  /\ subOps' = Append(subOps, Submitted(FALSE, {}))
  /\ UNCHANGED <<subSelected, subHandle, subOutcome, subGeneration>>

SubRunBulk == \* y
  /\ Dialog({"bulk-confirm"}, "bulk-running")
  /\ Len(subOps) < MaxOps
  /\ subOps' = Append(subOps, Submitted(TRUE, subSelected))
  /\ subHandle' = Len(subOps) + 1
  /\ UNCHANGED <<subSelected, subOutcome, subGeneration>>

SubCancel == \* esc while a bulk operation runs
  /\ subAction = "bulk-running"
  /\ subHandle # 0
  /\ subOps' = [subOps EXCEPT ![subHandle].dead = TRUE]
  /\ UNCHANGED <<subAction, subSelected, subHandle, subOutcome, subGeneration>>

\* setRepository: contexts end, the dialog, the outcome and the handle go.
SubSwitch ==
  /\ subGeneration < MaxGeneration
  /\ subGeneration' = subGeneration + 1
  /\ subOps' = [o \in DOMAIN subOps |-> [subOps[o] EXCEPT !.dead = TRUE]]
  /\ subAction' = "" /\ subSelected' = {} /\ subHandle' = 0 /\ subOutcome' = NoItems

-----------------------------------------------------------------------------
\* The operation.  The engine may refuse it or give up waiting.

Keep == UNCHANGED <<subAction, subSelected, subHandle, subOutcome, subGeneration>>

SubRefuse(o) ==
  /\ subOps[o].phase = "waiting"
  /\ subOps' = [subOps EXCEPT ![o].phase = "posted", ![o].items = NoItems]
  /\ Keep

\* Bulk before its workers: modules past the limit are skipped, paths that are
\* not valid fail.  Which ones are past the limit depends on their order.
SubBegin(o) ==
  /\ subOps[o].phase = "waiting"
  /\ LET paths == DOMAIN subOps[o].items
     IN \E over \in SUBSET paths :
          /\ Cardinality(paths \ over) =
               IF Cardinality(paths) < MaxModules THEN Cardinality(paths) ELSE MaxModules
          /\ subOps' = [subOps EXCEPT
               ![o].phase = "working",
               ![o].items = [p \in paths |-> CASE p \in over -> "skipped"
                                               [] p \in Invalid \ over -> "failed"
                                               [] OTHER -> "queued"]]
  /\ Keep

\* A worker takes a module from the queue.
SubTake(o, p) ==
  /\ subOps[o].phase = "working"
  /\ p \in ItemsIn(subOps[o].items, "queued")
  /\ Cardinality(ItemsIn(subOps[o].items, "running")) < BulkWorkers
  /\ subOps' = [subOps EXCEPT ![o].items[p] = IF subOps[o].dead THEN "cancelled" ELSE "running"]
  /\ Keep

\* Its Git command ends.
SubReturn(o, p) ==
  /\ p \in ItemsIn(subOps[o].items, "running")
  /\ \E s \in {"succeeded", "failed", "cancelled"} :
       /\ s = "cancelled" => subOps[o].dead
       /\ subOps' = [subOps EXCEPT ![o].items[p] = s]
  /\ Keep

SubPost(o) ==
  /\ subOps[o].phase = "working"
  /\ ItemsIn(subOps[o].items, "queued") \union ItemsIn(subOps[o].items, "running") = {}
  /\ subOps' = [subOps EXCEPT ![o].phase = "posted"]
  /\ Keep

FaultySubHandle(o) == \* accepts a message of an older session
  /\ subOps[o].phase = "posted"
  /\ subOps' = [subOps EXCEPT ![o].phase = "handled"]
  /\ subAction' = ""
  /\ subHandle' = 0 /\ subOutcome' = subOps[o].items
  /\ UNCHANGED <<subSelected, subGeneration>>

\* SubmoduleFinishedMsg and BulkSubmoduleFinishedMsg: those of an older session
\* are dropped.
SubHandle(o) ==
  /\ subOps[o].phase = "posted"
  /\ subOps' = [subOps EXCEPT ![o].phase = "handled"]
  /\ IF subOps[o].generation # subGeneration
     THEN UNCHANGED <<subAction, subSelected, subHandle, subOutcome>>
     ELSE /\ subAction' = ""
          /\ IF subOps[o].bulk
             THEN subHandle' = 0 /\ subOutcome' = subOps[o].items /\ UNCHANGED subSelected
             ELSE subSelected' = {} /\ UNCHANGED <<subHandle, subOutcome>>
  /\ UNCHANGED subGeneration

SubNext ==
  \/ SubOpenMenu \/ SubClose \/ SubAsk \/ SubAskBulk \/ SubRun \/ SubRunBulk
  \/ SubCancel \/ SubSwitch
  \/ \E o \in DOMAIN subOps :
       \/ SubRefuse(o) \/ SubBegin(o) \/ SubPost(o) \/ SubHandle(o)
       \/ \E p \in Modules : SubTake(o, p) \/ SubReturn(o, p)

SubSpec == SubInit /\ [][SubNext]_subVars

-----------------------------------------------------------------------------
Outstanding(o) == subOps[o].generation = subGeneration /\ subOps[o].phase # "handled"

\* The dialog says that an operation runs exactly while one of this session
\* does, and a bulk operation that runs can be cancelled: the Status view is
\* never left swallowing its keys, and never offers a second operation
\* (updateSubmoduleKey, SubmoduleFinishedMsg, BulkSubmoduleFinishedMsg,
\* setRepository).
SubmoduleDialogTruthful ==
  /\ subAction \in {"running", "bulk-running"} <=> \E o \in DOMAIN subOps : Outstanding(o)
  /\ \A o \in DOMAIN subOps : Outstanding(o) =>
       /\ subOps[o].bulk <=> subAction = "bulk-running"
       /\ subOps[o].bulk => subHandle = o
       /\ \A n \in DOMAIN subOps : Outstanding(n) => n = o

\* Every module of a bulk operation is accounted for when Update hears of it:
\* none is still queued or running (submodules.Bulk).
BulkAccountsForEach ==
  \A o \in DOMAIN subOps : subOps[o].phase \in {"posted", "handled"} =>
    \A p \in DOMAIN subOps[o].items : subOps[o].items[p] \notin {"queued", "running"}
==============================================================================
