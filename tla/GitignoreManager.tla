-------------------------- MODULE GitignoreManager --------------------------
(***************************************************************************)
(* The .gitignore workspace of internal/app/app.go and the writes of       *)
(* internal/gitignore/manage: commands that read the file and build plans, *)
(* the preview that y confirms, the check of the hash, the replacement of  *)
(* the file, and everybody else who edits it.  Commands run concurrently   *)
(* and their messages arrive in any order; a repository switch keeps all   *)
(* of the workspace's state.  What a plan does to a document is the        *)
(* subject of GitignoreDocument: here its result is any text.              *)
(***************************************************************************)
EXTENDS Naturals

CONSTANTS
  Repos,        \* repository roots
  Texts,        \* contents of a .gitignore that is neither absent nor empty
  Commands,     \* bound: commands at work at once
  MaxSwitches,  \* bound: how often a repository is opened
  MaxEdits,     \* bound: how often another program writes a .gitignore
  MaxPlans,     \* bound: how many previews are asked for
  NoPlan        \* the zero MutationPlan

\* "unreadable": a symlink, a binary, or more than gitignore_max_bytes.
Contents == Texts \cup {"missing", "empty", "unreadable"}
Plans == [root : Repos, before : Contents, after : Contents]

ASSUME PlanAssumption == NoPlan \notin Plans
ASSUME TextsAssumption == Texts \cap {"missing", "empty", "unreadable"} = {}
ASSUME BoundsAssumption == MaxSwitches \in Nat /\ MaxEdits \in Nat /\ MaxPlans \in Nat

VARIABLES
  windows,     \* runtime.GOOS
  file,        \* the .gitignore of each repository
  made,        \* the repositories whose .gitignore was written and not deleted since
  backups,     \* the files that atomicreplace has moved aside, and for which command
  leftovers,   \* the repositories where such a file was never removed
  edits,       \* how often another program wrote one
  repository,  \* m.Discovery.Root
  generation,  \* m.repositoryGeneration
  viewing,     \* the current workspace is Gitignore
  loaded,      \* m.Gitignore holds a catalog to select from
  missing,     \* m.GitignoreMissing
  asked,       \* how many previews were asked for
  adding,      \* m.GitignoreMutationAction = "add"
  returning,   \* m.GitignoreReturnToStatus
  confirm,     \* m.GitignoreCreateConfirm
  plan,        \* m.GitignoreCreatePlan
  preview,     \* m.Gitignore.PreviewText, as the plan it describes
  command      \* the commands at work

disk == <<file, made, backups, leftovers, edits>>
session == <<repository, generation, viewing>>
dialog == <<asked, loaded, missing, adding, returning, confirm, plan, preview>>
vars == <<windows, disk, session, dialog, command>>

Idle == [kind |-> "idle", at |-> "start", generation |-> 0, plan |-> NoPlan,
         outcome |-> "none", raced |-> FALSE]

\* A command carries the generation it was issued in; a plan names its repository.
New(kind, p) == [kind |-> kind, at |-> "start", generation |-> generation, plan |-> p,
                 outcome |-> "none", raced |-> FALSE]
Blank == [root |-> repository, before |-> "empty", after |-> "empty"]

Issue(c, kind, p) ==
  /\ command[c] = Idle
  /\ command' = [command EXCEPT ![c] = New(kind, p)]

\* A message's handler ends the command, or starts openGitignore.
End(c) == command' = [command EXCEPT ![c] = Idle]
Reload(c) == command' = [command EXCEPT ![c] = New("open", Blank)]

Init ==
  /\ windows \in BOOLEAN
  /\ file \in [Repos -> {"missing"} \cup Texts] /\ made = {r \in Repos : file[r] # "missing"}
  /\ backups = {} /\ leftovers = {} /\ edits = 0
  /\ repository \in Repos /\ generation = 1 /\ viewing = FALSE
  /\ asked = 0 /\ loaded = FALSE /\ missing = FALSE /\ adding = FALSE /\ returning = FALSE
  /\ confirm = FALSE /\ plan = NoPlan /\ preview = NoPlan
  /\ command = [c \in Commands |-> Idle]
-----------------------------------------------------------------------------
(* Keys *)

\* Faulty variant of what closes the dialog: the preview stays.
CloseKeepingPreview == confirm' = FALSE /\ plan' = NoPlan /\ preview' = preview

\* y and n leave the plan behind, where nothing reads it: it is forgotten here.
CloseDialog == confirm' = FALSE /\ plan' = NoPlan /\ preview' = NoPlan

Open(c) ==
  /\ ~viewing /\ viewing' = TRUE
  /\ Issue(c, "open", Blank)
  /\ UNCHANGED <<windows, disk, repository, generation, dialog>>

\* Esc leaves to whichever workspace is below.
Leave ==
  /\ viewing /\ ~confirm
  /\ viewing' \in BOOLEAN
  /\ UNCHANGED <<windows, disk, repository, generation, dialog, command>>

\* r asks for a newer catalog, b for the bundled one.
Catalog(c) ==
  /\ viewing /\ ~confirm
  /\ Issue(c, "catalog", Blank) \/ Issue(c, "open", Blank)
  /\ UNCHANGED <<windows, disk, session, dialog>>

\* a, p, d, u and m.  The plan of a file that is missing is made without reading it.
Preview(c) ==
  /\ viewing /\ ~confirm /\ loaded
  /\ asked < MaxPlans /\ asked' = asked + 1
  /\ \E isAdd \in BOOLEAN :
       /\ missing => isAdd
       /\ adding' = isAdd
       /\ Issue(c, IF missing THEN "create" ELSE "mutate", Blank)
  /\ UNCHANGED <<windows, disk, session, loaded, missing, returning, confirm, plan, preview>>

Yes(c) ==
  /\ viewing /\ confirm
  /\ CloseDialog
  /\ IF missing /\ adding THEN returning' = TRUE /\ viewing' = FALSE
                          ELSE UNCHANGED <<returning, viewing>>
  /\ Issue(c, "apply", plan)
  /\ UNCHANGED <<windows, disk, repository, generation, asked, loaded, missing, adding>>

No ==
  /\ viewing /\ confirm
  /\ CloseDialog
  /\ UNCHANGED <<windows, disk, session, asked, loaded, missing, adding, returning, command>>
-----------------------------------------------------------------------------
(* Commands: what a goroutine does, up to its message *)

Answer(c, outcome) ==
  command' = [command EXCEPT ![c].at = "message", ![c].outcome = outcome]

\* openGitignore reads and parses the file and matches the catalog.
ReadFile(c) ==
  /\ command[c].kind = "open" /\ command[c].at = "start"
  /\ \/ Answer(c, "failed")
     \/ LET now == file[command[c].plan.root]
        IN Answer(c, IF now \in {"missing", "unreadable"} THEN now ELSE "present")
  /\ UNCHANGED <<windows, disk, session, dialog>>

\* previewGitignoreCreate plans for no bytes, previewGitignoreMutation for what it reads.
MakePlan(c) ==
  /\ command[c].kind \in {"create", "mutate"} /\ command[c].at = "start"
  /\ \/ Answer(c, "failed")
     \/ \E text \in Texts \cup {"empty"} :
          LET now == IF command[c].kind = "create" THEN "empty" ELSE file[command[c].plan.root]
          IN /\ now \notin {"missing", "unreadable"}
             /\ command' = [command EXCEPT
                  ![c].at = "message", ![c].outcome = "planned",
                  ![c].plan.before = now, ![c].plan.after = text]
  /\ UNCHANGED <<windows, disk, session, dialog>>
-----------------------------------------------------------------------------
(* Apply *)

Hash(content) == IF content = "missing" THEN "empty" ELSE content

\* Writing the file of root races every other Apply that is past its check of it.
Raced(root, writers) ==
  [c \in Commands |->
    IF c \notin writers /\ command[c].at \in {"checked", "absent", "aside"}
         /\ command[c].plan.root = root
    THEN [command[c] EXCEPT !.raced = TRUE] ELSE command[c]]

Write(root, content) == file' = [file EXCEPT ![root] = content]

\* Faulty variant: the hash is not compared.
CheckNothing(c) ==
  /\ command[c].kind = "apply" /\ command[c].at = "start"
  /\ Answer(c, "failed") \/ command' = [command EXCEPT ![c].at = "checked"]
  /\ UNCHANGED <<windows, disk, session, dialog>>

\* Apply reads the file and compares it with the plan, then writes the temporary file.
Check(c) ==
  /\ command[c].kind = "apply" /\ command[c].at = "start"
  /\ LET p == command[c].plan
     IN \/ Answer(c, "failed")
        \/ /\ Hash(file[p.root]) # p.before
           /\ Answer(c, "conflict")
        \/ /\ Hash(file[p.root]) = p.before
           /\ command' = [command EXCEPT ![c].at = "checked"]
  /\ UNCHANGED <<windows, disk, session, dialog>>

\* Renames over the target: Unix at once, Windows when there was none to move aside, over
\* whatever was made since.  The synchronization of the directory may fail after the file
\* has been replaced.
Replace(c) ==
  /\ command[c].at = IF windows THEN "absent" ELSE "checked"
  /\ LET root == command[c].plan.root
     IN /\ Write(root, command[c].plan.after)
        /\ made' = made \cup {root}
        /\ \E outcome \in {"applied", "failed"} :
             command' = [Raced(root, {c}) EXCEPT ![c].at = "message", ![c].outcome = outcome]
  /\ UNCHANGED <<windows, backups, leftovers, edits, session, dialog>>

\* Faulty variant: the target is removed instead of moved.
RemoveFile(c) ==
  /\ command[c].at = "checked" /\ windows
  /\ LET root == command[c].plan.root
     IN /\ file[root] # "missing"
        /\ Write(root, "missing")
        /\ command' = [Raced(root, {c}) EXCEPT ![c].at = "aside"]
  /\ UNCHANGED <<windows, made, backups, leftovers, edits, session, dialog>>

MoveAside(c) ==
  /\ command[c].at = "checked" /\ windows
  /\ LET root == command[c].plan.root
     IN /\ file[root] # "missing"
        /\ Write(root, "missing")
        /\ backups' = backups \cup {[by |-> c, root |-> root, content |-> file[root]]}
        /\ command' = [Raced(root, {c}) EXCEPT ![c].at = "aside"]
  /\ UNCHANGED <<windows, made, leftovers, edits, session, dialog>>

\* There is no target to move aside.
FindNone(c) ==
  /\ command[c].at = "checked" /\ windows
  /\ file[command[c].plan.root] = "missing"
  /\ command' = [command EXCEPT ![c].at = "absent"]
  /\ UNCHANGED <<windows, disk, session, dialog>>

\* The rename fails, and nothing was changed yet.
FailToReplace(c) ==
  /\ command[c].at \in {"checked", "absent"}
  /\ Answer(c, "failed")
  /\ UNCHANGED <<windows, disk, session, dialog>>

Forget(c) == backups' = {b \in backups : b.by # c}
LeaveBackup(c) == Forget(c) /\ leftovers' = leftovers \cup {command[c].plan.root}

\* Windows installs the new file where the old one was, over one that somebody has made
\* there meanwhile (Go renames with MOVEFILE_REPLACE_EXISTING), then removes the old one,
\* which may fail.
Install(c) ==
  /\ command[c].at = "aside"
  /\ LET root == command[c].plan.root
     IN /\ Write(root, command[c].plan.after)
        /\ made' = made \cup {root}
        /\ command' = [Raced(root, {c}) EXCEPT ![c].at = "installed"]
  /\ UNCHANGED <<windows, backups, leftovers, edits, session, dialog>>

RemoveBackup(c) ==
  /\ command[c].at = "installed"
  /\ \/ Forget(c) /\ UNCHANGED leftovers /\ Answer(c, "applied")
     \/ LeaveBackup(c) /\ Answer(c, "failed")
  /\ UNCHANGED <<windows, file, made, edits, session, dialog>>

\* The installation fails; the old file is moved back over whatever is there, if that does
\* not fail too.
Restore(c) ==
  /\ command[c].at = "aside"
  /\ LET root == command[c].plan.root
     IN \/ /\ \E b \in backups : b.by = c /\ Write(root, b.content)
           /\ Forget(c) /\ UNCHANGED leftovers
           /\ made' = made \cup {root}
           /\ command' = [Raced(root, {c}) EXCEPT ![c].at = "message", ![c].outcome = "failed"]
        \/ LeaveBackup(c) /\ UNCHANGED <<file, made>> /\ Answer(c, "failed")
  /\ UNCHANGED <<windows, edits, session, dialog>>
-----------------------------------------------------------------------------
(* Messages *)

Arrives(c, kinds) ==
  /\ command[c].at = "message" /\ command[c].kind \in kinds
  /\ command[c].generation = generation

\* A message of a repository that was left is dropped.
Drop(c) ==
  /\ command[c].at = "message" \/ command[c].kind = "catalog"
  /\ command[c].generation # generation
  /\ End(c)
  /\ UNCHANGED <<windows, disk, session, dialog>>

\* GitignoreReadyMsg.  The new model has no preview, whatever is being confirmed.
Ready(c) ==
  /\ Arrives(c, {"open"})
  /\ CASE command[c].outcome = "unreadable" ->
            CloseDialog /\ UNCHANGED <<loaded, missing>>
       [] command[c].outcome = "failed" ->
            UNCHANGED <<loaded, missing, confirm, plan, preview>>
       [] OTHER ->
            /\ loaded' = TRUE /\ missing' = (command[c].outcome = "missing")
            /\ preview' = NoPlan /\ UNCHANGED <<confirm, plan>>
  /\ End(c)
  /\ UNCHANGED <<windows, disk, session, asked, adding, returning>>

\* GitignoreCatalogReadyMsg, with a new catalog or without one.
CatalogReady(c) ==
  /\ command[c].kind = "catalog" /\ command[c].generation = generation
  /\ End(c) \/ Reload(c)
  /\ UNCHANGED <<windows, disk, session, dialog>>

\* GitignoreCreatePreviewMsg: the dialog opens, in whichever workspace and whether or not
\* another plan is being confirmed.
PreviewReady(c) ==
  /\ Arrives(c, {"create", "mutate"})
  /\ IF command[c].outcome = "failed" THEN UNCHANGED <<confirm, plan, preview>>
     ELSE confirm' = TRUE /\ plan' = command[c].plan /\ preview' = command[c].plan
  /\ End(c)
  /\ UNCHANGED <<windows, disk, session, asked, loaded, missing, adding, returning>>

\* GitignoreMutationFinishedMsg
Finished(c) ==
  /\ Arrives(c, {"apply"})
  /\ CASE command[c].outcome = "conflict" -> Reload(c) /\ UNCHANGED returning
       [] command[c].outcome = "failed" -> End(c) /\ UNCHANGED returning
       [] command[c].outcome = "applied" ->
            returning' = FALSE /\ IF returning THEN End(c) ELSE Reload(c)
  /\ UNCHANGED <<windows, disk, session, asked, loaded, missing, adding, confirm, plan, preview>>

\* watcherEventMsg for the file, or for the root, as polling and reconciliation send it:
\* a dialog that can be seen is closed.  Any other event leaves the workspace alone.
WatchHint(c) ==
  /\ viewing /\ confirm
  /\ CloseDialog
  /\ Issue(c, "open", Blank)
  /\ UNCHANGED <<windows, disk, session, asked, loaded, missing, adding, returning>>
-----------------------------------------------------------------------------

\* setRepository, from any of its callers: none of the dialog is reset.  The workspace
\* below, which returning to a parent shows, may be this one.
Switch(r) ==
  /\ generation <= MaxSwitches
  /\ repository' = r /\ generation' = generation + 1 /\ viewing' \in BOOLEAN
  /\ UNCHANGED <<windows, disk, dialog, command>>

\* Another program.
Edit(r) ==
  /\ edits < MaxEdits /\ edits' = edits + 1
  /\ \E content \in Contents \ {file[r]} :
       /\ Write(r, content)
       /\ made' = IF content = "missing" THEN made \ {r} ELSE made \cup {r}
  /\ command' = Raced(r, {})
  /\ UNCHANGED <<windows, backups, leftovers, session, dialog>>

Key(c) == Open(c) \/ Catalog(c) \/ Preview(c) \/ Yes(c)
Apply(c) == Check(c) \/ FindNone(c) \/ Replace(c) \/ MoveAside(c) \/ FailToReplace(c)
            \/ Install(c) \/ RemoveBackup(c) \/ Restore(c)
Run(c) == ReadFile(c) \/ MakePlan(c) \/ Apply(c)
Handle(c) == Drop(c) \/ Ready(c) \/ CatalogReady(c) \/ PreviewReady(c) \/ Finished(c)
             \/ WatchHint(c)

Next ==
  \/ Leave \/ No
  \/ \E c \in Commands : Key(c) \/ Run(c) \/ Handle(c)
  \/ \E r \in Repos : Switch(r) \/ Edit(r)

Spec == Init /\ [][Next]_vars
-----------------------------------------------------------------------------
(* Properties *)

\* The types; an answer of an older generation keeps the number it was issued with.
TypeOK ==
  /\ windows \in BOOLEAN
  /\ file \in [Repos -> Contents] /\ made \subseteq Repos /\ leftovers \subseteq Repos
  /\ edits \in 0 .. MaxEdits
  /\ backups \subseteq [by : Commands, root : Repos, content : Contents]
  /\ repository \in Repos /\ generation \in 1 .. MaxSwitches + 1
  /\ asked \in 0 .. MaxPlans /\ {viewing, loaded, missing, adding, returning, confirm} \subseteq BOOLEAN
  /\ plan \in Plans \cup {NoPlan} /\ preview \in Plans \cup {NoPlan}
  /\ command \in [Commands ->
       [kind : {"idle", "open", "catalog", "create", "mutate", "apply"},
        at : {"start", "checked", "absent", "aside", "installed", "message"},
        generation : 0 .. MaxSwitches + 1,
        plan : Plans \cup {NoPlan},
        outcome : {"none", "failed", "missing", "unreadable", "present", "planned",
                   "conflict", "applied"},
        raced : BOOLEAN]]

\* However stale a plan is (made for a file that was missing, confirmed late, in another
\* repository, or twice), no rename of its Apply takes away other bytes than it was made
\* from, on Unix or in the several renames of Windows, installing, or moving the old file
\* back: except what another program or another Apply wrote after its check, which the
\* code cannot see.
StalePlansRefused ==
  [][\A c \in Commands :
       LET p == command[c].plan
       IN /\ command[c].at \in {"checked", "absent", "aside", "installed"} /\ p # NoPlan
          /\ command'[c].at # command[c].at
          /\ file'[p.root] # file[p.root]
          => \/ command[c].raced
             \/ Hash(file[p.root]) = p.before /\ command[c].at \in {"checked", "absent"}
             \/ file[p.root] = "missing" /\ command[c].at = "aside"]_vars

\* A .gitignore that exists is on disk at every moment, whole, at its place or moved aside,
\* so a crash between any two steps of the replacement does not take it away.
FileSurvives ==
  \A r \in made : file[r] = "missing" =>
    r \in leftovers \/ \E b \in backups : b.root = r

\* A preview on the screen is that of the plan y would apply, and what can be confirmed
\* is a plan.
PreviewIsThePlan ==
  /\ preview # NoPlan => confirm /\ preview = plan
  /\ confirm => plan # NoPlan
=============================================================================
