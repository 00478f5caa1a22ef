------------------------ MODULE GitignoreManager_proofs ------------------------
(***************************************************************************)
(* Proofs about the .gitignore workspace, for any repositories, texts and  *)
(* number of commands at once, and any bounds; and, from "Induction and    *)
(* recursion" on, about the plans, for any catalog and any document.       *)
(***************************************************************************)
EXTENDS GitignoreManager, GitignoreDocument, SequenceTheorems, WellFoundedInduction, TLAPS

-----------------------------------------------------------------------------
(* Commands.                                                               *)

CommandType ==
  [kind : {"idle", "open", "catalog", "create", "mutate", "apply"},
   at : {"start", "checked", "absent", "aside", "installed", "message"},
   generation : 0 .. MaxSwitches + 1,
   plan : Plans \cup {NoPlan},
   outcome : {"none", "failed", "missing", "unreadable", "present", "planned",
              "conflict", "applied"},
   raced : BOOLEAN]

\* What MakePlan proposes is never that the file be missing.
Writable == {p \in Plans : p.after # "missing"}

\* A command at work has a plan (which names its repository), only Apply gets past its
\* first step without a message, and its message says how it ended.
Sound(k) ==
  /\ k \in CommandType
  /\ k.kind # "idle" => k.plan \in Writable
  /\ k.at \in {"checked", "absent", "aside", "installed"} => k.kind = "apply"
  /\ k.at = "message" => k.kind # "idle"
  /\ k.at = "message" /\ k.kind = "apply" => k.outcome \in {"failed", "conflict", "applied"}

\* Between its check of the file and its last rename over it.
Past == {"checked", "absent", "aside"}

SoundCommands == command \in [Commands -> CommandType] /\ \A c \in Commands : Sound(command[c])

LEMMA IdleSound == Sound(Idle)
BY BoundsAssumption DEF Idle, Sound, CommandType

LEMMA NewSound ==
  ASSUME TypeOK, NEW p \in Writable, NEW kind \in {"open", "catalog", "create", "mutate", "apply"}
  PROVE  Sound(New(kind, p))
<1>1. generation \in 0 .. MaxSwitches + 1
  BY BoundsAssumption DEF TypeOK
<1> QED BY <1>1 DEF New, Sound, CommandType, Writable

LEMMA BlankIsPlan == ASSUME TypeOK PROVE Blank \in Writable
BY DEF TypeOK, Blank, Plans, Contents, Writable

\* A command that answers with its message, or goes on with Apply.
LEMMA AnswerSound ==
  ASSUME NEW k, Sound(k), k.kind # "idle",
         NEW outcome \in {"failed", "missing", "unreadable", "present", "conflict", "applied"},
         k.kind = "apply" => outcome \in {"failed", "conflict", "applied"}
  PROVE  Sound([k EXCEPT !.at = "message", !.outcome = outcome])
BY DEF Sound, CommandType

LEMMA AdvanceSound ==
  ASSUME NEW k, Sound(k), k.kind = "apply",
         NEW at \in {"checked", "absent", "aside", "installed"}
  PROVE  Sound([k EXCEPT !.at = at])
BY DEF Sound, CommandType

LEMMA PlannedSound ==
  ASSUME NEW k, Sound(k), k.kind \in {"create", "mutate"}, NEW now \in Contents,
         NEW text \in Contents \ {"missing"}
  PROVE  Sound([k EXCEPT !.at = "message", !.outcome = "planned",
                         !.plan.before = now, !.plan.after = text])
<1>1. [[k.plan EXCEPT !.before = now] EXCEPT !.after = text] \in Writable
  BY DEF Sound, Plans, Writable
<1> QED BY <1>1 DEF Sound, CommandType, Writable

\* What Raced changes of a command.
LEMMA RacedCommands ==
  ASSUME SoundCommands, NEW root, NEW writers, NEW c \in Commands
  PROVE  LET k == Raced(root, writers)[c]
         IN /\ Sound(k)
            /\ k.kind = command[c].kind /\ k.at = command[c].at /\ k.plan = command[c].plan
            /\ k.generation = command[c].generation /\ k.outcome = command[c].outcome
            /\ command[c].raced => k.raced
            /\ c \notin writers /\ command[c].plan.root = root /\ k.at \in Past => k.raced
<1>1. Sound(command[c])
  BY DEF SoundCommands
<1>2. Sound([command[c] EXCEPT !.raced = TRUE])
  BY <1>1 DEF Sound, CommandType
<1> QED BY <1>1, <1>2 DEF Raced, Sound, CommandType, Past

LEMMA OneSound ==
  ASSUME SoundCommands, NEW c \in Commands, NEW k, Sound(k),
         command' = [command EXCEPT ![c] = k]
  PROVE  SoundCommands'
BY DEF SoundCommands, Sound

LEMMA RacedSound ==
  ASSUME SoundCommands, NEW c \in Commands, NEW k, Sound(k), NEW root, NEW writers,
         command' = [Raced(root, writers) EXCEPT ![c] = k]
  PROVE  SoundCommands'
<1>1. \A d \in Commands : Sound(Raced(root, writers)[d])
  BY RacedCommands
<1>2. DOMAIN Raced(root, writers) = Commands
  BY DEF Raced
<1>3. \A d \in Commands : Sound(command'[d])
  BY <1>1, <1>2
<1>4. DOMAIN command' = Commands /\ command' = [d \in Commands |-> command'[d]]
  BY <1>2
<1> QED BY <1>3, <1>4 DEF SoundCommands, Sound
-----------------------------------------------------------------------------
(* The types, and the plan that can be confirmed.                          *)

Confirmable == PreviewIsThePlan /\ plan \in Writable \cup {NoPlan}
DialogInv == TypeOK /\ SoundCommands /\ Confirmable

DiskType == /\ file \in [Repos -> Contents] /\ made \subseteq Repos /\ leftovers \subseteq Repos
            /\ edits \in 0 .. MaxEdits
            /\ backups \subseteq [by : Commands, root : Repos, content : Contents]

\* A step of a command that leaves the dialog alone.
LEMMA DialogKept ==
  ASSUME DialogInv, SoundCommands', DiskType', UNCHANGED <<windows, session, dialog>>
  PROVE  DialogInv'
BY DEF DialogInv, TypeOK, DiskType, session, dialog, Confirmable, PreviewIsThePlan, SoundCommands, CommandType

LEMMA Initially == Init => DialogInv
<1> SUFFICES ASSUME Init PROVE DialogInv
  OBVIOUS
<1>1. SoundCommands
  BY IdleSound DEF Init, SoundCommands, Sound
<1>2. DiskType
  BY BoundsAssumption DEF Init, DiskType, Contents
<1>3. {windows, viewing, loaded, missing, adding, returning, confirm} \subseteq BOOLEAN
  BY DEF Init
<1>4. repository \in Repos /\ generation \in 1 .. MaxSwitches + 1 /\ asked \in 0 .. MaxPlans
  BY BoundsAssumption DEF Init
<1>5. plan = NoPlan /\ preview = NoPlan /\ ~confirm
  BY DEF Init
<1> QED BY <1>1, <1>2, <1>3, <1>4, <1>5
        DEF DialogInv, TypeOK, DiskType, Confirmable, PreviewIsThePlan, SoundCommands, CommandType

LEMMA KeysKeepDialog ==
  ASSUME DialogInv, NEW c \in Commands, Key(c)
  PROVE  DialogInv'
<1>1. Blank \in Writable /\ TypeOK
  BY BlankIsPlan DEF DialogInv
<1>2. SoundCommands'
  <2>1. ASSUME NEW kind \in {"open", "catalog", "create", "mutate", "apply"},
               NEW p \in Writable, Issue(c, kind, p)
        PROVE  SoundCommands'
    <3>1. Sound(New(kind, p))
      BY <1>1, <2>1, NewSound
    <3> QED BY <2>1, <3>1, OneSound DEF Issue, DialogInv
  <2>2. confirm => plan \in Writable
    BY DEF DialogInv, Confirmable, PreviewIsThePlan
  <2>3. CASE Open(c)
    BY <1>1, <2>1, <2>3 DEF Open
  <2>4. CASE Catalog(c)
    BY <1>1, <2>1, <2>4 DEF Catalog
  <2>5. CASE Preview(c)
    BY <1>1, <2>1, <2>5 DEF Preview
  <2>6. CASE Yes(c)
    BY <2>1, <2>2, <2>6 DEF Yes
  <2> QED BY <2>3, <2>4, <2>5, <2>6 DEF Key
<1>3. DiskType'
  BY <1>1 DEF Key, Open, Catalog, Preview, Yes, disk, TypeOK, DiskType
<1>4. CASE Open(c)
  BY <1>1, <1>2, <1>3, <1>4
     DEF Open, dialog, DialogInv, TypeOK, DiskType, SoundCommands, CommandType, Confirmable, PreviewIsThePlan
<1>5. CASE Catalog(c)
  BY <1>2, <1>3, <1>5, DialogKept DEF Catalog
<1>6. CASE Preview(c)
  <2>1. asked' \in 0 .. MaxPlans
    BY <1>1, <1>6, BoundsAssumption DEF Preview, TypeOK
  <2>2. adding' \in BOOLEAN
    BY <1>6 DEF Preview
  <2> QED BY <1>1, <1>2, <1>3, <1>6, <2>1, <2>2
          DEF Preview, session, DialogInv, TypeOK, DiskType, SoundCommands, CommandType,
              Confirmable, PreviewIsThePlan
<1>7. CASE Yes(c)
  BY <1>1, <1>2, <1>3, <1>7, ZenonT(60)
     DEF Yes, CloseDialog, session, DialogInv, TypeOK, DiskType, SoundCommands, CommandType,
         Confirmable, PreviewIsThePlan
<1> QED BY <1>4, <1>5, <1>6, <1>7 DEF Key

LEMMA RunsKeepDialog ==
  ASSUME DialogInv, NEW c \in Commands, Run(c)
  PROVE  DialogInv'
<1> DEFINE k == command[c]
<1>1. TypeOK /\ SoundCommands /\ Sound(k)
  BY DEF DialogInv, SoundCommands
<1>2. UNCHANGED <<windows, session, dialog>>
  BY ZenonT(60) DEF Run, ReadFile, MakePlan, Apply, Check, FindNone, Replace, MoveAside, FailToReplace, Install,
         RemoveBackup, Restore
<1>3. k.kind # "idle"
  BY <1>1 DEF Run, ReadFile, MakePlan, Apply, Check, FindNone, Replace, MoveAside, FailToReplace, Install,
         RemoveBackup, Restore, Sound
<1>4. k.plan.root \in Repos /\ k.plan.after \in Contents
  BY <1>1, <1>3, SMTT(60) DEF Sound, Plans, Writable
<1>5. ASSUME NEW outcome \in {"failed", "missing", "unreadable", "present", "conflict", "applied"},
             k.kind = "apply" => outcome \in {"failed", "conflict", "applied"}, Answer(c, outcome)
      PROVE  SoundCommands'
  <2>1. command' = [command EXCEPT ![c] = [k EXCEPT !.at = "message", !.outcome = outcome]]
    BY <1>5 DEF Answer
  <2> QED BY <1>1, <1>3, <1>5, <2>1, AnswerSound, OneSound
<1>6. CASE ReadFile(c)
  <2>1. SoundCommands'
    BY <1>5, <1>6 DEF ReadFile
  <2> QED BY <1>1, <1>2, <1>6, <2>1, DialogKept DEF ReadFile, disk, DiskType, TypeOK
<1>7. CASE MakePlan(c)
  <2>1. SoundCommands'
    <3>1. CASE Answer(c, "failed")
      BY <1>5, <3>1
    <3>2. ASSUME NEW text \in Texts \cup {"empty"}, NEW now \in Contents,
                 command' = [command EXCEPT
                  ![c].at = "message", ![c].outcome = "planned",
                  ![c].plan.before = now, ![c].plan.after = text]
          PROVE  SoundCommands'
      <4>1. command' = [command EXCEPT ![c] = [k EXCEPT !.at = "message",
                  !.outcome = "planned", !.plan.before = now, !.plan.after = text]]
        BY <3>2
      <4>2. now \in Contents /\ text \in Contents \ {"missing"}
        BY TextsAssumption DEF Contents
      <4>3. Sound([k EXCEPT !.at = "message", !.outcome = "planned",
                            !.plan.before = now, !.plan.after = text])
        BY <1>1, <1>7, <4>2, PlannedSound DEF MakePlan
      <4> QED BY <1>1, <4>1, <4>3, OneSound
    <3>3. (IF command[c].kind = "create" THEN "empty" ELSE file[command[c].plan.root]) \in Contents
      BY <1>1, <1>4 DEF TypeOK, Contents
    <3> QED BY <1>7, <3>1, <3>2, <3>3 DEF MakePlan
  <2> QED BY <1>1, <1>2, <1>7, <2>1, DialogKept DEF MakePlan, disk, DiskType, TypeOK
<1>8. CASE Apply(c)
  <2>1. k.kind = "apply"
    BY <1>1, <1>8 DEF Apply, Check, FindNone, Replace, MoveAside, FailToReplace, Install,
                      RemoveBackup, Restore, Sound
  <2>2. CASE Check(c)
    <3>1. SoundCommands'
      <4>1. CASE command' = [command EXCEPT ![c].at = "checked"]
        <5>1. command' = [command EXCEPT ![c] = [k EXCEPT !.at = "checked"]]
          BY <4>1
        <5> QED BY <1>1, <2>1, <5>1, AdvanceSound, OneSound
      <4> QED BY <1>5, <2>2, <4>1 DEF Check
    <3> QED BY <1>1, <1>2, <2>2, <3>1, DialogKept DEF Check, disk, DiskType, TypeOK
  <2>11. CASE FindNone(c)
    <3>1. command' = [command EXCEPT ![c] = [k EXCEPT !.at = "absent"]]
      BY <2>11 DEF FindNone
    <3>2. SoundCommands'
      BY <1>1, <2>1, <3>1, AdvanceSound, OneSound
    <3> QED BY <1>1, <1>2, <2>11, <3>2, DialogKept DEF FindNone, disk, DiskType, TypeOK
  <2>3. ASSUME NEW root, NEW at \in {"checked", "aside", "installed"},
               command' = [Raced(root, {c}) EXCEPT ![c].at = at]
        PROVE  SoundCommands'
    <3>1. Sound([Raced(root, {c})[c] EXCEPT !.at = at])
      <4> DEFINE r == Raced(root, {c})[c]
      <4>1. Sound(r) /\ r.kind = "apply"
        BY <1>1, <2>1, RacedCommands
      <4> HIDE DEF r
      <4>2. Sound([r EXCEPT !.at = at])
        BY <4>1, AdvanceSound
      <4> QED BY <4>2 DEF r
    <3>2. command' = [Raced(root, {c}) EXCEPT ![c] = [Raced(root, {c})[c] EXCEPT !.at = at]]
      BY <2>3
    <3> QED BY <1>1, <3>1, <3>2, RacedSound
  <2>4. ASSUME NEW root, NEW outcome \in {"applied", "failed"},
               command' = [Raced(root, {c}) EXCEPT ![c].at = "message", ![c].outcome = outcome]
        PROVE  SoundCommands'
    <3>1. Sound([Raced(root, {c})[c] EXCEPT !.at = "message", !.outcome = outcome])
      <4> DEFINE r == Raced(root, {c})[c]
      <4>1. Sound(r) /\ r.kind = "apply"
        BY <1>1, <2>1, RacedCommands, SMTT(60)
      <4> HIDE DEF r
      <4>2. Sound([r EXCEPT !.at = "message", !.outcome = outcome])
        BY <4>1, AnswerSound
      <4> QED BY <4>2 DEF r
    <3>2. command' = [Raced(root, {c}) EXCEPT
                        ![c] = [Raced(root, {c})[c] EXCEPT !.at = "message", !.outcome = outcome]]
      BY <2>4
    <3> QED BY <1>1, <3>1, <3>2, RacedSound
  <2>5. CASE Replace(c)
    <3>1. SoundCommands'
      BY <2>4, <2>5 DEF Replace
    <3>2. DiskType'
      BY <1>1, <1>4, <2>5 DEF Replace, Write, TypeOK, DiskType
    <3> QED BY <1>2, <3>1, <3>2, DialogKept
  <2>6. CASE MoveAside(c)
    <3>1. SoundCommands'
      BY <2>3, <2>6 DEF MoveAside
    <3>2. DiskType'
      BY <1>1, <1>4, <2>6 DEF MoveAside, Write, TypeOK, DiskType, Contents
    <3> QED BY <1>2, <3>1, <3>2, DialogKept
  <2>7. CASE FailToReplace(c)
    <3>1. SoundCommands'
      BY <1>5, <2>7 DEF FailToReplace
    <3> QED BY <1>1, <1>2, <2>7, <3>1, DialogKept DEF FailToReplace, disk, DiskType, TypeOK
  <2>8. CASE Install(c)
    <3>1. SoundCommands'
      BY <2>3, <2>8 DEF Install
    <3>2. DiskType'
      BY <1>1, <1>4, <2>8 DEF Install, Write, TypeOK, DiskType
    <3> QED BY <1>2, <3>1, <3>2, DialogKept
  <2>9. CASE RemoveBackup(c)
    <3>1. SoundCommands'
      BY <1>5, <2>9 DEF RemoveBackup
    <3>2. DiskType'
      BY <1>1, <1>4, <2>9 DEF RemoveBackup, Forget, LeaveBackup, TypeOK, DiskType
    <3> QED BY <1>2, <3>1, <3>2, DialogKept
  <2>10. CASE Restore(c)
    <3>1. SoundCommands'
      BY <1>5, <2>4, <2>10 DEF Restore
    <3>2. DiskType'
      BY <1>1, <1>4, <2>10 DEF Restore, Forget, LeaveBackup, Write, TypeOK, DiskType
    <3> QED BY <1>2, <3>1, <3>2, DialogKept
  <2> QED BY <1>8, <2>2, <2>5, <2>6, <2>7, <2>8, <2>9, <2>10, <2>11, SMTT(60) DEF Apply
<1> QED BY <1>6, <1>7, <1>8 DEF Run

LEMMA MessagesKeepDialog ==
  ASSUME DialogInv, NEW c \in Commands, Handle(c)
  PROVE  DialogInv'
<1> DEFINE k == command[c]
<1>1. TypeOK /\ SoundCommands /\ Sound(k) /\ Blank \in Writable
  BY BlankIsPlan DEF DialogInv, SoundCommands
<1>2. UNCHANGED <<windows, disk>> /\ DiskType'
  BY <1>1 DEF Handle, Drop, Ready, CatalogReady, PreviewReady, Finished, WatchHint, disk, DiskType,
              TypeOK
<1>3. SoundCommands'
  <2>1. CASE End(c)
    BY <1>1, <2>1, IdleSound, OneSound DEF End
  <2>2. CASE Reload(c)
    BY <1>1, <2>2, NewSound, OneSound DEF Reload
  <2>3. CASE Issue(c, "open", Blank)
    BY <1>1, <2>3, NewSound, OneSound DEF Issue
  <2>4. CASE Finished(c)
    <3>1. k.outcome \in {"failed", "conflict", "applied"}
      BY <1>1, <2>4 DEF Finished, Arrives, Sound
    <3> QED BY <2>1, <2>2, <2>4, <3>1 DEF Finished
  <2>5. CASE Drop(c) \/ Ready(c) \/ CatalogReady(c) \/ PreviewReady(c) \/ WatchHint(c)
    BY <2>1, <2>2, <2>3, <2>5 DEF Drop, Ready, CatalogReady, PreviewReady, WatchHint
  <2> QED BY <2>4, <2>5 DEF Handle
<1>4. CASE Drop(c) \/ CatalogReady(c)
  BY <1>2, <1>3, <1>4, DialogKept DEF Drop, CatalogReady
<1>5. CASE Ready(c)
  <2>1. {loaded', missing'} \subseteq BOOLEAN
    BY <1>1, <1>5 DEF Ready, TypeOK
  <2>2. /\ \/ UNCHANGED <<confirm, plan, preview>>
           \/ preview' = NoPlan /\ UNCHANGED <<confirm, plan>>
           \/ preview' = NoPlan /\ plan' = NoPlan /\ confirm' = FALSE
        /\ UNCHANGED <<session, asked, adding, returning>>
    BY <1>5 DEF Ready, CloseDialog
  <2>3. Confirmable' /\ confirm' \in BOOLEAN
        /\ plan' \in Plans \cup {NoPlan} /\ preview' \in Plans \cup {NoPlan}
    <3>1. /\ confirm \in BOOLEAN /\ plan \in Plans \cup {NoPlan} /\ preview \in Plans \cup {NoPlan}
          /\ Confirmable
      BY DEF DialogInv, TypeOK
    <3>2. CASE UNCHANGED <<confirm, plan, preview>>
      BY <3>1, <3>2 DEF Confirmable, PreviewIsThePlan
    <3>3. CASE preview' = NoPlan /\ UNCHANGED <<confirm, plan>>
      BY <3>1, <3>3 DEF Confirmable, PreviewIsThePlan
    <3>4. CASE preview' = NoPlan /\ plan' = NoPlan /\ confirm' = FALSE
      BY <3>1, <3>4 DEF Confirmable, PreviewIsThePlan
    <3> QED BY <2>2, <3>2, <3>3, <3>4
  <2> QED BY <1>1, <1>2, <1>3, <2>1, <2>2, <2>3
          DEF session, DialogInv, TypeOK, DiskType, SoundCommands, CommandType
<1>6. CASE PreviewReady(c)
  <2>1. k.plan \in Writable /\ k.plan \in Plans /\ k.plan # NoPlan
    BY <1>1, <1>6, PlanAssumption DEF PreviewReady, Arrives, Sound, Writable
  <2>2. \/ UNCHANGED <<confirm, plan, preview>>
        \/ confirm' = TRUE /\ plan' = k.plan /\ preview' = k.plan
    BY <1>6 DEF PreviewReady
  <2>3. UNCHANGED <<session, asked, loaded, missing, adding, returning>>
    BY <1>6 DEF PreviewReady
  <2>4. Confirmable' /\ confirm' \in BOOLEAN
        /\ plan' \in Plans \cup {NoPlan} /\ preview' \in Plans \cup {NoPlan}
    <3>1. /\ confirm \in BOOLEAN /\ plan \in Plans \cup {NoPlan} /\ preview \in Plans \cup {NoPlan}
          /\ Confirmable
      BY DEF DialogInv, TypeOK
    <3>2. CASE UNCHANGED <<confirm, plan, preview>>
      BY <3>1, <3>2 DEF Confirmable, PreviewIsThePlan
    <3>3. CASE confirm' = TRUE /\ plan' = k.plan /\ preview' = k.plan
      BY <2>1, <3>3 DEF Confirmable, PreviewIsThePlan
    <3> QED BY <2>2, <3>2, <3>3
  <2> QED BY <1>1, <1>2, <1>3, <2>3, <2>4
          DEF session, DialogInv, TypeOK, DiskType, SoundCommands, CommandType
<1>7. CASE Finished(c)
  <2>1. returning' \in BOOLEAN
    <3>1. k.outcome \in {"failed", "conflict", "applied"}
      BY <1>1, <1>7 DEF Finished, Arrives, Sound
    <3> QED BY <1>1, <1>7, <3>1 DEF Finished, TypeOK
  <2>2. UNCHANGED <<session, asked, loaded, missing, adding, confirm, plan, preview>>
    BY <1>7 DEF Finished
  <2> QED BY <1>1, <1>2, <1>3, <2>1, <2>2
          DEF session, DialogInv, TypeOK, DiskType, SoundCommands, CommandType, Confirmable, PreviewIsThePlan
<1>8. CASE WatchHint(c)
  BY <1>1, <1>2, <1>3, <1>8
     DEF WatchHint, CloseDialog, session, DialogInv, TypeOK, DiskType, SoundCommands, CommandType,
         Confirmable, PreviewIsThePlan
<1> QED BY <1>4, <1>5, <1>6, <1>7, <1>8 DEF Handle

\* Writing for nobody: another program's edit races everybody.
LEMMA EditRaces ==
  ASSUME SoundCommands, NEW r, command' = Raced(r, {})
  PROVE  SoundCommands'
<1>1. \A d \in Commands : Sound(command'[d])
  BY RacedCommands
<1>2. command' = [d \in Commands |-> command'[d]]
  BY DEF Raced
<1> QED BY <1>1, <1>2 DEF SoundCommands, Sound

LEMMA DialogInductive ==
  ASSUME DialogInv, [Next]_vars
  PROVE  DialogInv'
<1>1. TypeOK /\ SoundCommands
  BY DEF DialogInv
<1>2. CASE UNCHANGED vars
  BY <1>2 DEF vars, disk, session, dialog, DialogInv, TypeOK, SoundCommands, CommandType,
              Confirmable, PreviewIsThePlan, Sound
<1>3. CASE Leave
  <2>1. SoundCommands'
    BY <1>1, <1>3 DEF Leave, SoundCommands
  <2> QED BY <1>1, <1>3, <2>1
          DEF Leave, disk, dialog, DialogInv, TypeOK, SoundCommands, CommandType, Confirmable, PreviewIsThePlan
<1>4. CASE No
  <2>1. SoundCommands'
    BY <1>1, <1>4 DEF No, SoundCommands
  <2> QED BY <1>1, <1>4, <2>1
          DEF No, CloseDialog, disk, session, DialogInv, TypeOK, SoundCommands, CommandType,
              Confirmable, PreviewIsThePlan
<1>5. ASSUME NEW c \in Commands, Key(c) \/ Run(c) \/ Handle(c) PROVE DialogInv'
  BY <1>5, KeysKeepDialog, RunsKeepDialog, MessagesKeepDialog
<1>6. ASSUME NEW r \in Repos, Switch(r) PROVE DialogInv'
  <2>1. SoundCommands'
    BY <1>1, <1>6 DEF Switch, SoundCommands
  <2>2. repository' \in Repos /\ generation' \in 1 .. MaxSwitches + 1 /\ viewing' \in BOOLEAN
    BY <1>1, <1>6, BoundsAssumption DEF Switch, TypeOK
  <2> QED BY <1>1, <1>6, <2>1, <2>2
          DEF Switch, disk, dialog, DialogInv, TypeOK, SoundCommands, CommandType, Confirmable, PreviewIsThePlan
<1>7. ASSUME NEW r \in Repos, Edit(r) PROVE DialogInv'
  <2>1. SoundCommands'
    BY <1>1, <1>7, EditRaces DEF Edit
  <2>2. DiskType'
    BY <1>1, <1>7, BoundsAssumption DEF Edit, Write, TypeOK, DiskType
  <2> QED BY <1>7, <2>1, <2>2, DialogKept DEF Edit
<1> QED BY <1>2, <1>3, <1>4, <1>5, <1>6, <1>7 DEF Next

\* Every variable of the workspace keeps its type, whatever arrives when.
THEOREM TypeCorrect == Spec => []TypeOK
<1>1. DialogInv => TypeOK
  BY DEF DialogInv
<1> QED BY <1>1, Initially, DialogInductive, PTL DEF Spec

\* A preview on the screen is that of the plan that y would apply, although commands of two
\* previews, reloads, hints and a switch of the repository arrive in any order.
THEOREM PreviewAlwaysThePlan == Spec => []PreviewIsThePlan
<1>1. DialogInv => PreviewIsThePlan
  BY DEF DialogInv, Confirmable
<1> QED BY <1>1, Initially, DialogInductive, PTL DEF Spec

-----------------------------------------------------------------------------
(* What a crash would find.                                                *)

\* A file that was moved aside belongs to a command that has not ended its replacement.
BackupsOwned ==
  \A b \in backups :
    /\ command[b.by].at \in {"aside", "installed"} /\ command[b.by].plan.root = b.root
    /\ b.content # "missing"

\* The backups that FileSurvives counts on are those whose place was not taken: a backup
\* whose command has installed the new file is about to be removed.
Survives ==
  \A r \in made : file[r] = "missing" =>
    r \in leftovers \/ \E b \in backups : b.root = r /\ command[b.by].at = "aside"

DiskInv == DialogInv /\ BackupsOwned /\ Survives

\* The steps that write nothing: they end commands, and start them, but never one that
\* replaces a file.
Bystander ==
  /\ UNCHANGED disk
  /\ \A c \in Commands : command[c].at \in {"aside", "installed"} =>
       command'[c].at = command[c].at /\ command'[c].plan = command[c].plan

LEMMA BystanderKeepsDisk ==
  ASSUME DiskInv, DialogInv', Bystander
  PROVE  DiskInv'
<1>1. \A b \in backups : b.by \in Commands
  BY DEF DiskInv, DialogInv, TypeOK
<1>2. BackupsOwned'
  BY <1>1 DEF DiskInv, Bystander, disk, BackupsOwned
<1>3. Survives'
  BY <1>1 DEF DiskInv, Bystander, disk, Survives
<1> QED BY <1>2, <1>3 DEF DiskInv

LEMMA OneIsBystander ==
  ASSUME SoundCommands, UNCHANGED disk,
         NEW c \in Commands, NEW k, command' = [command EXCEPT ![c] = k],
         command[c].at \notin {"aside", "installed"}
  PROVE  Bystander
BY DEF SoundCommands, Bystander

LEMMA KeysAndMessagesStandBy ==
  ASSUME DialogInv, NEW c \in Commands, Key(c) \/ Handle(c)
  PROVE  Bystander
<1> DEFINE k == command[c]
<1>1. SoundCommands /\ Sound(k)
  BY DEF DialogInv, SoundCommands
<1>2. UNCHANGED disk
  BY DEF Key, Open, Catalog, Preview, Yes, Handle, Drop, Ready, CatalogReady, PreviewReady,
         Finished, WatchHint
<1>3. ASSUME NEW kind, NEW p, Issue(c, kind, p) PROVE Bystander
  <2>1. command[c].at = "start"
    BY <1>3 DEF Issue, Idle
  <2> QED BY <1>1, <1>2, <1>3, <2>1, OneIsBystander DEF Issue
<1>4. CASE Key(c)
  BY <1>3, <1>4 DEF Key, Open, Catalog, Preview, Yes
<1>5. ASSUME k.at \notin {"aside", "installed"}, End(c) \/ Reload(c) PROVE Bystander
  BY <1>1, <1>2, <1>5, OneIsBystander DEF End, Reload
<1>6. CASE WatchHint(c)
  BY <1>3, <1>6 DEF WatchHint
<1>7. CASE Finished(c)
  <2>1. k.outcome \in {"failed", "conflict", "applied"} /\ k.at = "message"
    BY <1>1, <1>7 DEF Finished, Arrives, Sound
  <2> QED BY <1>5, <1>7, <2>1 DEF Finished
<1>8. CASE Drop(c) \/ Ready(c) \/ CatalogReady(c) \/ PreviewReady(c)
  <2>1. k.at \notin {"aside", "installed"}
    BY <1>1, <1>8 DEF Drop, Ready, CatalogReady, PreviewReady, Arrives, Sound
  <2> QED BY <1>5, <1>8, <2>1 DEF Drop, Ready, CatalogReady, PreviewReady
<1> QED BY <1>4, <1>6, <1>7, <1>8 DEF Handle

\* A step of c that marks the others as raced moves none of them.
Kept(c) == \A d \in Commands \ {c} : command'[d].at = command[d].at
                                     /\ command'[d].plan = command[d].plan

LEMMA RacedAt ==
  ASSUME SoundCommands, NEW c \in Commands, NEW root, NEW at,
         command' = [Raced(root, {c}) EXCEPT ![c].at = at]
  PROVE  Kept(c) /\ command'[c].at = at /\ command'[c].plan = command[c].plan
<1> DEFINE raced == Raced(root, {c})
<1>1. \A d \in Commands : raced[d].at = command[d].at /\ raced[d].plan = command[d].plan
  BY RacedCommands
<1>2. raced[c] \in CommandType /\ raced = [d \in Commands |-> raced[d]]
  BY RacedCommands DEF Raced, Sound
<1> HIDE DEF raced
<1> QED BY <1>1, <1>2 DEF Kept, CommandType, raced

LEMMA RacedMessage ==
  ASSUME SoundCommands, NEW c \in Commands, NEW root, NEW outcome,
         command' = [Raced(root, {c}) EXCEPT ![c].at = "message", ![c].outcome = outcome]
  PROVE  Kept(c)
<1> DEFINE raced == Raced(root, {c})
<1>1. \A d \in Commands : raced[d].at = command[d].at /\ raced[d].plan = command[d].plan
  BY RacedCommands
<1>2. raced = [d \in Commands |-> raced[d]]
  BY DEF Raced
<1> HIDE DEF raced
<1> QED BY <1>1, <1>2 DEF Kept, raced

\* What survives of the repositories that c does not write.
LEMMA SurvivesElsewhere ==
  ASSUME DiskInv, NEW c \in Commands, Kept(c), NEW root,
         \A b \in backups : b.by = c => b.root = root,
         \A b \in backups : b.by # c => b \in backups',
         leftovers \subseteq leftovers',
         NEW r \in made, r # root, file[r] = "missing"
  PROVE  r \in leftovers' \/ \E b \in backups' : b.root = r /\ command'[b.by].at = "aside"
<1>1. CASE r \in leftovers
  BY <1>1
<1>2. CASE r \notin leftovers
  <2>1. PICK b \in backups : b.root = r /\ command[b.by].at = "aside"
    BY <1>2 DEF DiskInv, Survives
  <2>2. b.by \in Commands \ {c}
    BY <2>1 DEF DiskInv, DialogInv, TypeOK
  <2> QED BY <2>1, <2>2 DEF Kept
<1> QED BY <1>1, <1>2

LEMMA RunsKeepDisk ==
  ASSUME DiskInv, NEW c \in Commands, Run(c)
  PROVE  DiskInv'
<1> DEFINE k == command[c]
           root == k.plan.root
<1>1. DialogInv /\ TypeOK /\ SoundCommands /\ Sound(k) /\ DialogInv'
  BY RunsKeepDialog DEF DiskInv, DialogInv, SoundCommands
<1>2. \A b \in backups : b.by \in Commands /\ b.root \in Repos
  BY <1>1, SMTT(60) DEF TypeOK
<1>3. k.kind # "idle" /\ root \in Repos
  BY <1>1 DEF Run, ReadFile, MakePlan, Apply, Check, FindNone, Replace, MoveAside, FailToReplace, Install,
         RemoveBackup, Restore, Sound, Plans, Writable
<1>4. \A b \in backups : b.by = c => k.at \in {"aside", "installed"} /\ b.root = root
  BY DEF DiskInv, BackupsOwned
<1>5. CASE ReadFile(c) \/ MakePlan(c) \/ Check(c) \/ FindNone(c) \/ FailToReplace(c)
  <2>1. UNCHANGED disk /\ k.at \notin {"aside", "installed"}
    BY <1>5 DEF ReadFile, MakePlan, Check, FindNone, FailToReplace
  <2>2. \A d \in Commands \ {c} : command'[d] = command[d]
    BY <1>1, <1>5 DEF ReadFile, MakePlan, Check, FindNone, FailToReplace, Answer, SoundCommands
  <2>3. Bystander
    BY <2>1, <2>2 DEF Bystander
  <2> QED BY <1>1, <2>3, BystanderKeepsDisk
<1>6. CASE Replace(c)
  <2>1. Kept(c)
    BY <1>1, <1>6, RacedMessage DEF Replace
  <2>2. \A b \in backups : b.by # c
    BY <1>4, <1>6 DEF Replace
  <2>3. BackupsOwned'
    BY <1>2, <1>6, <2>1, <2>2 DEF Replace, DiskInv, BackupsOwned, Kept
  <2>4. file'[root] # "missing"
    BY <1>1, <1>3, <1>6 DEF Replace, Write, TypeOK, Sound, Writable
  <2>5. Survives'
    <3> SUFFICES ASSUME NEW r \in made', file'[r] = "missing"
                 PROVE  r \in leftovers' \/ \E b \in backups' : b.root = r /\ command'[b.by].at = "aside"
      BY DEF Survives
    <3>1. r # root /\ r \in made /\ file[r] = "missing"
      BY <1>1, <1>3, <1>6, <2>4 DEF Replace, Write, TypeOK
    <3>2. leftovers \subseteq leftovers' /\ \A b \in backups : b.by # c => b \in backups'
      BY <1>6 DEF Replace
    <3> HIDE DEF k, root
    <3> QED BY <1>4, <2>1, <3>1, <3>2, SurvivesElsewhere
  <2> QED BY <1>1, <2>3, <2>5 DEF DiskInv
<1>7. CASE MoveAside(c)
  <2>1. Kept(c) /\ command'[c].at = "aside" /\ command'[c].plan = k.plan
    BY <1>1, <1>7, RacedAt DEF MoveAside
  <2>3. backups' = backups \cup {[by |-> c, root |-> root, content |-> file[root]]}
    BY <1>7 DEF MoveAside
  <2>4. \A b \in backups : b.by # c
    BY <1>4, <1>7 DEF MoveAside
  <2>5. BackupsOwned'
    <3> SUFFICES ASSUME NEW b \in backups'
                 PROVE  /\ command'[b.by].at \in {"aside", "installed"}
                        /\ command'[b.by].plan.root = b.root /\ b.content # "missing"
      BY DEF BackupsOwned
    <3>1. CASE b \in backups
      BY <1>2, <2>1, <2>4, <3>1 DEF DiskInv, BackupsOwned, Kept
    <3>2. CASE b = [by |-> c, root |-> root, content |-> file[root]]
      BY <1>7, <2>1, <3>2 DEF MoveAside
    <3> QED BY <2>3, <3>1, <3>2
  <2>6. Survives'
    <3> SUFFICES ASSUME NEW r \in made', file'[r] = "missing"
                 PROVE  r \in leftovers' \/ \E b \in backups' : b.root = r /\ command'[b.by].at = "aside"
      BY DEF Survives
    <3>1. CASE r = root
      <4> DEFINE b == [by |-> c, root |-> root, content |-> file[root]]
      <4>1. b \in backups' /\ b.by = c /\ b.root = root
        BY <2>3
      <4> QED BY <2>1, <3>1, <4>1
    <3>2. CASE r # root
      <4>1. r \in made /\ file[r] = "missing" /\ leftovers' = leftovers
        BY <1>1, <1>3, <1>7, <3>2 DEF MoveAside, Write, TypeOK
      <4>2. \A b \in backups : b \in backups'
        BY <2>3
      <4> QED BY <1>4, <2>1, <3>2, <4>1, <4>2, SurvivesElsewhere, SMTT(60)
    <3> QED BY <3>1, <3>2
  <2> QED BY <1>1, <2>5, <2>6 DEF DiskInv
<1>8. CASE Install(c)
  <2>1. Kept(c) /\ command'[c].at = "installed" /\ command'[c].plan = k.plan
    BY <1>1, <1>8, RacedAt DEF Install
  <2>3. BackupsOwned'
    BY <1>2, <1>4, <1>8, <2>1, ZenonT(60) DEF Install, DiskInv, BackupsOwned, Kept
  <2>4. file'[root] # "missing"
    BY <1>1, <1>3, <1>8 DEF Install, Write, TypeOK, Sound, Writable
  <2>5. Survives'
    <3> SUFFICES ASSUME NEW r \in made', file'[r] = "missing"
                 PROVE  r \in leftovers' \/ \E b \in backups' : b.root = r /\ command'[b.by].at = "aside"
      BY DEF Survives
    <3>1. r # root /\ r \in made /\ file[r] = "missing"
      BY <1>1, <1>3, <1>8, <2>4 DEF Install, Write, TypeOK
    <3>2. leftovers \subseteq leftovers' /\ \A b \in backups : b.by # c => b \in backups'
      BY <1>8 DEF Install
    <3> HIDE DEF k, root
    <3> QED BY <1>4, <2>1, <3>1, <3>2, SurvivesElsewhere
  <2> QED BY <1>1, <2>3, <2>5 DEF DiskInv
<1>9. ASSUME Forget(c), UNCHANGED <<file, made>>,
             \A d \in Commands \ {c} : command'[d] = command[d],
             leftovers \subseteq leftovers', k.at = "installed" \/ root \in leftovers'
      PROVE  DiskInv'
  <2>1. BackupsOwned'
    BY <1>2, <1>9 DEF Forget, DiskInv, BackupsOwned
  <2>2. Survives'
    BY <1>2, <1>4, <1>9 DEF Forget, DiskInv, Survives
  <2> QED BY <1>1, <2>1, <2>2 DEF DiskInv
<1>10. ASSUME NEW outcome, Answer(c, outcome) PROVE \A d \in Commands \ {c} : command'[d] = command[d]
  BY <1>1, <1>10 DEF Answer, SoundCommands
<1>11. CASE RemoveBackup(c)
  BY <1>9, <1>10, <1>11 DEF RemoveBackup, LeaveBackup
<1>12. CASE Restore(c)
  <2>1. CASE LeaveBackup(c) /\ UNCHANGED <<file, made>> /\ Answer(c, "failed")
    BY <1>9, <1>10, <2>1 DEF LeaveBackup
  <2>2. CASE /\ \E b \in backups : b.by = c /\ Write(root, b.content)
             /\ Forget(c) /\ UNCHANGED leftovers
             /\ made' = made \cup {root}
             /\ command' = [Raced(root, {c}) EXCEPT ![c].at = "message", ![c].outcome = "failed"]
    <3>1. Kept(c)
      BY <1>1, <2>2, RacedMessage
    <3>2. file'[root] # "missing"
      BY <1>1, <1>3, <2>2 DEF Write, TypeOK, DiskInv, BackupsOwned
    <3>3. BackupsOwned'
      BY <1>2, <2>2, <3>1 DEF Forget, DiskInv, BackupsOwned, Kept
    <3>4. Survives'
      <4> SUFFICES ASSUME NEW r \in made', file'[r] = "missing"
                   PROVE  \/ r \in leftovers'
                          \/ \E b \in backups' : b.root = r /\ command'[b.by].at = "aside"
        BY DEF Survives
      <4>1. r # root /\ r \in made /\ file[r] = "missing"
        BY <1>1, <1>3, <2>2, <3>2 DEF Write, TypeOK
      <4>2. leftovers \subseteq leftovers' /\ \A b \in backups : b.by # c => b \in backups'
        BY <2>2 DEF Forget
      <4> HIDE DEF k, root
      <4> QED BY <1>4, <3>1, <4>1, <4>2, SurvivesElsewhere
    <3> QED BY <1>1, <3>3, <3>4 DEF DiskInv
  <2> QED BY <1>12, <2>1, <2>2 DEF Restore
<1> QED BY <1>5, <1>6, <1>7, <1>8, <1>11, <1>12 DEF Run, Apply

LEMMA DiskInitially == Init => DiskInv
BY Initially DEF Init, DiskInv, BackupsOwned, Survives

LEMMA DiskInductive ==
  ASSUME DiskInv, [Next]_vars
  PROVE  DiskInv'
<1>1. DialogInv /\ DialogInv' /\ SoundCommands
  BY DialogInductive DEF DiskInv, DialogInv
<1>2. CASE UNCHANGED vars \/ Leave \/ No
  <2>1. Bystander
    BY <1>2 DEF vars, disk, Leave, No, Bystander
  <2> QED BY <1>1, <2>1, BystanderKeepsDisk
<1>3. ASSUME NEW c \in Commands, Key(c) \/ Handle(c) PROVE DiskInv'
  BY <1>1, <1>3, KeysAndMessagesStandBy, BystanderKeepsDisk
<1>4. ASSUME NEW c \in Commands, Run(c) PROVE DiskInv'
  BY <1>4, RunsKeepDisk
<1>5. ASSUME NEW r \in Repos, Switch(r) PROVE DiskInv'
  <2>1. Bystander
    BY <1>5 DEF Switch, Bystander
  <2> QED BY <1>1, <2>1, BystanderKeepsDisk
<1>6. ASSUME NEW r \in Repos, Edit(r) PROVE DiskInv'
  <2>1. \A d \in Commands : command'[d].at = command[d].at /\ command'[d].plan = command[d].plan
    BY <1>1, <1>6, RacedCommands DEF Edit
  <2>2. \A b \in backups : b.by \in Commands
    BY <1>1 DEF DialogInv, TypeOK
  <2>3. BackupsOwned'
    BY <1>6, <2>1, <2>2 DEF Edit, DiskInv, BackupsOwned
  <2>4. Survives'
    BY <1>1, <1>6, <2>1, <2>2 DEF Edit, Write, DialogInv, TypeOK, DiskInv, Survives
  <2> QED BY <1>1, <2>3, <2>4 DEF DiskInv
<1> QED BY <1>2, <1>3, <1>4, <1>5, <1>6 DEF Next

\* A .gitignore that was made is found again after a crash between any two steps of any
\* number of Applies, on Unix and on Windows: at its place, or moved aside.
THEOREM FileAlwaysSurvives == Spec => []FileSurvives
<1>1. DiskInv => FileSurvives
  BY DEF DiskInv, Survives, FileSurvives
<1> QED BY <1>1, DiskInitially, DiskInductive, PTL DEF Spec

-----------------------------------------------------------------------------
(* Plans made for other bytes.                                             *)

\* What a command that nobody has raced finds where it is about to rename.
Found(k, content) ==
  IF k.at = "aside" THEN content = "missing" ELSE Hash(content) = k.plan.before

\* Past the check the file is what the plan was made for, or missing once it was moved
\* aside, unless somebody wrote it since.
Fresh ==
  \A c \in Commands : command[c].at \in Past /\ ~command[c].raced =>
    Found(command[c], file[command[c].plan.root])

LEMMA FreshElsewhere ==
  ASSUME SoundCommands, Fresh, NEW d \in Commands, NEW root, NEW k,
         k.at \in Past, ~k.raced,
         k.at = command[d].at, k.plan = command[d].plan, command[d].raced => k.raced,
         command[d].plan.root = root => k.raced,
         \A r \in Repos : r # root => file'[r] = file[r]
  PROVE  Found(k, file'[k.plan.root])
<1>1. command[d].plan \in Plans
  BY DEF SoundCommands, Sound, Writable, Past
<1>2. command[d].plan.root # root /\ command[d].plan.root \in Repos
  BY <1>1 DEF Plans
<1> QED BY <1>2 DEF Fresh, Found

\* Whoever writes a file races the others that are past their check of it.
LEMMA WritersRace ==
  ASSUME SoundCommands, Fresh, NEW c \in Commands, NEW root, NEW k,
         k.at \in Past => Found(k, file'[k.plan.root]),
         command' = [Raced(root, {c}) EXCEPT ![c] = k],
         \A r \in Repos : r # root => file'[r] = file[r]
  PROVE  Fresh'
<1> SUFFICES ASSUME NEW d \in Commands, command'[d].at \in Past, ~command'[d].raced
             PROVE  Found(command'[d], file'[command'[d].plan.root])
  BY DEF Fresh, Found, Hash
<1> DEFINE raced == Raced(root, {c})
<1>1. raced = [e \in Commands |-> raced[e]]
  BY DEF Raced
<1>2. CASE d = c
  BY <1>1, <1>2
<1>3. CASE d # c
  <2>1. command'[d] = raced[d]
    BY <1>1, <1>3
  <2>2. /\ raced[d].at = command[d].at /\ raced[d].plan = command[d].plan
        /\ command[d].raced => raced[d].raced
        /\ command[d].plan.root = root /\ raced[d].at \in Past => raced[d].raced
    BY <1>3, RacedCommands
  <2> HIDE DEF raced
  <2> QED BY <2>1, <2>2, FreshElsewhere
<1> QED BY <1>2, <1>3

LEMMA FreshInductive ==
  ASSUME DialogInv, Fresh, [Next]_vars
  PROVE  Fresh'
<1>1. TypeOK /\ SoundCommands
  BY DEF DialogInv
<1>2. CASE UNCHANGED <<file, command>>
  BY <1>2 DEF Fresh, Found, Hash
<1>3. ASSUME NEW c \in Commands, NEW k, UNCHANGED file, command' = [command EXCEPT ![c] = k],
             k.at \notin Past \/ k.raced \/ Found(k, file[k.plan.root])
      PROVE  Fresh'
  BY <1>1, <1>3 DEF Fresh, Found, Hash, SoundCommands
<1>4. ASSUME NEW c \in Commands, Key(c) \/ Handle(c) PROVE Fresh'
  <2>1. \E k : command' = [command EXCEPT ![c] = k] /\ k.at \notin Past
    <3>1. ASSUME NEW kind, NEW p, Issue(c, kind, p)
          PROVE  \E k : command' = [command EXCEPT ![c] = k] /\ k.at \notin Past
      <4>1. New(kind, p).at \notin Past
        BY DEF New, Past
      <4> QED BY <3>1, <4>1 DEF Issue
    <3>2. CASE End(c) \/ Reload(c)
      <4>1. Idle.at \notin Past /\ New("open", Blank).at \notin Past
        BY DEF Idle, New, Past
      <4> QED BY <3>2, <4>1 DEF End, Reload
    <3>3. CASE Finished(c)
      <4>1. command[c].outcome \in {"failed", "conflict", "applied"}
        BY <1>1, <3>3 DEF Finished, Arrives, SoundCommands, Sound
      <4> QED BY <3>2, <3>3, <4>1 DEF Finished
    <3> QED BY <1>4, <3>1, <3>2, <3>3
            DEF Key, Open, Catalog, Preview, Yes, Handle, Drop, Ready, CatalogReady, PreviewReady,
                WatchHint
  <2>2. UNCHANGED file
    BY <1>4 DEF Key, Open, Catalog, Preview, Yes, Handle, Drop, Ready, CatalogReady, PreviewReady,
                Finished, WatchHint, disk
  <2> QED BY <1>3, <2>1, <2>2
<1>5. ASSUME NEW c \in Commands, Run(c) PROVE Fresh'
  <2> DEFINE k == command[c]
             root == k.plan.root
  <2>0. k \in CommandType
    BY <1>1 DEF SoundCommands, Sound
  <2>1. ASSUME NEW outcome, Answer(c, outcome), UNCHANGED file PROVE Fresh'
    <3>1. command' = [command EXCEPT ![c] = [k EXCEPT !.at = "message", !.outcome = outcome]]
      BY <2>1 DEF Answer
    <3>2. [k EXCEPT !.at = "message", !.outcome = outcome].at \notin Past
      BY <2>0 DEF CommandType, Past
    <3> QED BY <1>3, <2>1, <3>1, <3>2
  <2>2. CASE ReadFile(c)
    BY <2>1, <2>2 DEF ReadFile, disk
  <2>3. CASE MakePlan(c)
    <3>1. CASE Answer(c, "failed")
      BY <2>1, <2>3, <3>1 DEF MakePlan, disk
    <3>2. ASSUME NEW text, NEW now,
                 command' = [command EXCEPT
                  ![c].at = "message", ![c].outcome = "planned",
                  ![c].plan.before = now, ![c].plan.after = text]
          PROVE  Fresh'
      <4>1. command' = [command EXCEPT ![c] = [k EXCEPT !.at = "message",
                  !.outcome = "planned", !.plan.before = now, !.plan.after = text]]
        BY <3>2
      <4>2. [k EXCEPT !.at = "message", !.outcome = "planned",
                      !.plan.before = now, !.plan.after = text].at \notin Past
        BY <2>0 DEF CommandType, Past
      <4> QED BY <1>3, <2>3, <4>1, <4>2 DEF MakePlan, disk
    <3> QED BY <2>3, <3>1, <3>2 DEF MakePlan
  <2>4. CASE Check(c)
    <3>1. CASE command' = [command EXCEPT ![c].at = "checked"] /\ Hash(file[root]) = k.plan.before
      <4>1. command' = [command EXCEPT ![c] = [k EXCEPT !.at = "checked"]]
        BY <3>1
      <4>2. [k EXCEPT !.at = "checked"].plan = k.plan /\ [k EXCEPT !.at = "checked"].at = "checked"
        BY <2>0 DEF CommandType
      <4>3. Found([k EXCEPT !.at = "checked"], file[[k EXCEPT !.at = "checked"].plan.root])
        BY <3>1, <4>2 DEF Found
      <4> QED BY <1>3, <2>4, <4>1, <4>3 DEF Check, disk
    <3> QED BY <2>1, <2>4, <3>1 DEF Check, disk
  <2>13. CASE FindNone(c)
    <3> DEFINE next == [k EXCEPT !.at = "absent"]
    <3>1. command' = [command EXCEPT ![c] = next] /\ UNCHANGED file
      BY <2>13 DEF FindNone, disk
    <3>2. next.plan = k.plan /\ next.raced = k.raced /\ next.at = "absent"
      BY <2>0 DEF CommandType
    <3>3. k.at = "checked"
      BY <2>13 DEF FindNone
    <3>4. next.raced \/ Found(next, file[next.plan.root])
      <4> HIDE DEF next
      <4> QED BY <3>2, <3>3 DEF Fresh, Found, Past
    <3> HIDE DEF next
    <3> QED BY <1>3, <3>1, <3>4
  <2>5. ASSUME NEW at \in {"aside", "installed"},
               command' = [Raced(root, {c}) EXCEPT ![c].at = at],
               NEW content, Write(root, content), at = "aside" => content = "missing"
        PROVE  Fresh'
    <3> DEFINE r == Raced(root, {c})[c]
               next == [r EXCEPT !.at = at]
    <3>1. command' = [Raced(root, {c}) EXCEPT ![c] = next]
      BY <2>5
    <3>2. r \in CommandType /\ r.plan = k.plan
      BY <1>1, RacedCommands DEF Sound
    <3>3. next.at = at /\ next.plan = k.plan
      <4> HIDE DEF r
      <4> QED BY <3>2 DEF CommandType
    <3>4. \A x \in Repos : x # root => file'[x] = file[x]
      BY <1>1, <2>5 DEF Write, TypeOK
    <3>5. next.at \in Past => Found(next, file'[next.plan.root])
      <4> SUFFICES ASSUME at = "aside" PROVE Found(next, file'[root])
        BY <2>5, <3>3 DEF Past
      <4>1. root \in Repos
        BY <1>1, <1>5 DEF Run, ReadFile, MakePlan, Apply, Check, FindNone, Replace, MoveAside,
             FailToReplace, Install, RemoveBackup, Restore, SoundCommands, Sound, Writable, Plans
      <4>2. file'[root] = "missing"
        BY <1>1, <2>5, <4>1 DEF Write, TypeOK
      <4> HIDE DEF next
      <4> QED BY <3>3, <4>2 DEF Found
    <3> HIDE DEF r, next, root, k
    <3> QED BY <1>1, <3>1, <3>4, <3>5, WritersRace
  <2>6. ASSUME NEW outcome, NEW content, Write(root, content),
               command' = [Raced(root, {c}) EXCEPT ![c].at = "message", ![c].outcome = outcome]
        PROVE  Fresh'
    <3> DEFINE r == Raced(root, {c})[c]
    <3>1. command' = [Raced(root, {c}) EXCEPT ![c] = [r EXCEPT !.at = "message", !.outcome = outcome]]
      BY <2>6
    <3>2. r \in CommandType
      BY <1>1, RacedCommands DEF Sound
    <3>3. [r EXCEPT !.at = "message", !.outcome = outcome].at \notin Past
      <4> HIDE DEF r
      <4> QED BY <3>2 DEF CommandType, Past
    <3>4. \A x \in Repos : x # root => file'[x] = file[x]
      BY <1>1, <2>6 DEF Write, TypeOK
    <3> HIDE DEF r, root, k
    <3> QED BY <1>1, <3>1, <3>3, <3>4, WritersRace
  <2>7. CASE Replace(c)
    BY <2>6, <2>7 DEF Replace
  <2>8. CASE MoveAside(c)
    BY <2>5, <2>8 DEF MoveAside
  <2>9. CASE FailToReplace(c)
    BY <2>1, <2>9 DEF FailToReplace, disk
  <2>10. CASE Install(c)
    BY <2>5, <2>10 DEF Install
  <2>11. CASE RemoveBackup(c)
    BY <2>1, <2>11 DEF RemoveBackup
  <2>12. CASE Restore(c)
    BY <2>1, <2>6, <2>12 DEF Restore
  <2> QED BY <1>5, <2>2, <2>3, <2>4, <2>7, <2>8, <2>9, <2>10, <2>11, <2>12, <2>13
        DEF Run, Apply
<1>6. ASSUME NEW r \in Repos, Edit(r) PROVE Fresh'
  <2> SUFFICES ASSUME NEW d \in Commands, command'[d].at \in Past, ~command'[d].raced
               PROVE  Found(command'[d], file'[command'[d].plan.root])
    BY DEF Fresh, Found, Hash
  <2>1. command'[d] = Raced(r, {})[d]
    BY <1>6 DEF Edit
  <2>2. /\ command'[d].at = command[d].at /\ command'[d].plan = command[d].plan
        /\ command[d].raced => command'[d].raced
        /\ command[d].plan.root = r => command'[d].raced
    BY <1>1, <2>1, RacedCommands
  <2>3. \A x \in Repos : x # r => file'[x] = file[x]
    BY <1>1, <1>6 DEF Edit, Write, TypeOK
  <2> QED BY <1>1, <2>2, <2>3, FreshElsewhere
<1> QED BY <1>2, <1>4, <1>5, <1>6 DEF Next, vars, disk, Leave, No, Switch

\* What a step of Apply may take away.
Refused(c) ==
  LET p == command[c].plan
  IN /\ command[c].at \in {"checked", "absent", "aside", "installed"} /\ p # NoPlan
     /\ command'[c].at # command[c].at
     /\ file'[p.root] # file[p.root]
     => \/ command[c].raced
        \/ Hash(file[p.root]) = p.before /\ command[c].at \in {"checked", "absent"}
        \/ file[p.root] = "missing" /\ command[c].at = "aside"

LEMMA StepRefuses ==
  ASSUME DialogInv, Fresh, [Next]_vars, NEW c \in Commands
  PROVE  Refused(c)
<1> DEFINE p == command[c].plan
<1> SUFFICES ASSUME command[c].at \in {"checked", "absent", "aside", "installed"},
                    command'[c].at # command[c].at, file'[p.root] # file[p.root]
             PROVE  \/ command[c].raced
                    \/ Hash(file[p.root]) = p.before /\ command[c].at \in {"checked", "absent"}
                    \/ file[p.root] = "missing" /\ command[c].at = "aside"
  BY DEF Refused
<1>1. TypeOK /\ SoundCommands
  BY DEF DialogInv
<1>2. CASE command[c].at # "installed"
  BY <1>2 DEF Fresh, Found, Past
<1>3. CASE command[c].at = "installed"
  <2>1. \A d \in Commands : ~Key(d) /\ ~Handle(d) /\ ~ReadFile(d) /\ ~MakePlan(d) /\ ~Check(d)
                            /\ ~FindNone(d) /\ ~FailToReplace(d) /\ ~RemoveBackup(d)
    BY ZenonT(60) DEF Key, Open, Catalog, Preview, Yes, Handle, Drop, Ready, CatalogReady, PreviewReady,
           Finished, WatchHint, ReadFile, MakePlan, Check, FindNone, FailToReplace, RemoveBackup, disk
  <2>2. \A r \in Repos : ~Edit(r) /\ ~Switch(r)
    BY <1>1, RacedCommands DEF Edit, Switch, disk
  <2>3. PICK d \in Commands : Replace(d) \/ MoveAside(d) \/ Install(d) \/ Restore(d)
    BY <2>1, <2>2 DEF Next, vars, disk, Leave, No, Run, Apply
  <2>4. CASE d = c
    BY <1>1, <1>3, <2>3, <2>4, ZenonT(60) DEF Replace, MoveAside, Install, Restore
  <2>5. CASE d # c
    <3>1. CASE Replace(d)
      <4>1. PICK outcome \in {"applied", "failed"} :
              command' = [Raced(command[d].plan.root, {d}) EXCEPT
                           ![d].at = "message", ![d].outcome = outcome]
        BY <3>1 DEF Replace
      <4> QED BY <1>1, <2>5, <4>1, RacedMessage DEF Kept
    <3>2. CASE MoveAside(d)
      <4>1. command' = [Raced(command[d].plan.root, {d}) EXCEPT ![d].at = "aside"]
        BY <3>2 DEF MoveAside
      <4> QED BY <1>1, <2>5, <4>1, RacedAt DEF Kept
    <3>3. CASE Install(d)
      <4>1. command' = [Raced(command[d].plan.root, {d}) EXCEPT ![d].at = "installed"]
        BY <3>3, SMTT(60) DEF Install
      <4> QED BY <1>1, <2>5, <4>1, RacedAt DEF Kept
    <3>4. CASE Restore(d)
      <4>1. CASE UNCHANGED file
        BY <4>1, SMTT(60)
      <4>2. CASE command' = [Raced(command[d].plan.root, {d}) EXCEPT
                               ![d].at = "message", ![d].outcome = "failed"]
        BY <1>1, <2>5, <4>2, RacedMessage DEF Kept
      <4> QED BY <3>4, <4>1, <4>2 DEF Restore
    <3> QED BY <2>3, <3>1, <3>2, <3>3, <3>4, SMTT(60)
  <2> QED BY <2>4, <2>5
<1> QED BY <1>2, <1>3

\* However stale a plan is, no rename of its Apply takes away other bytes than it was made
\* from, or what somebody else wrote after its check: for any number of Applies at once,
\* on Unix and on Windows.
THEOREM StalePlansAlwaysRefused == Spec => StalePlansRefused
<1>1. Init => DialogInv /\ Fresh
  BY Initially DEF Init, Fresh, Idle, Past
<1>2. DialogInv /\ Fresh /\ [Next]_vars => (DialogInv /\ Fresh)'
  BY DialogInductive, FreshInductive
<1>3. DialogInv /\ Fresh /\ [Next]_vars => \A c \in Commands : Refused(c)
  BY StepRefuses
<1>4. DialogInv /\ Fresh /\ [Next]_vars =>
        [\A c \in Commands :
           LET p == command[c].plan
           IN /\ command[c].at \in {"checked", "absent", "aside", "installed"} /\ p # NoPlan
              /\ command'[c].at # command[c].at
              /\ file'[p.root] # file[p.root]
              => \/ command[c].raced
                 \/ Hash(file[p.root]) = p.before /\ command[c].at \in {"checked", "absent"}
                 \/ file[p.root] = "missing" /\ command[c].at = "aside"]_vars
  BY <1>3 DEF Refused
<1> QED BY <1>1, <1>2, <1>4, PTL DEF Spec, StalePlansRefused

-----------------------------------------------------------------------------
(* Induction and recursion over 0..n.                                      *)

\* A set of naturals that is not empty has a least element.
LEMMA Least ==
  ASSUME NEW T \in SUBSET Nat, T # {}
  PROVE  \E x \in T : \A y \in T : x <= y
<1>1. PICK x \in T : \A y \in T : ~(<<y, x>> \in OpToRel(<, Nat))
  BY NatLessThanWellFounded, WFMin
<1>2. \A y \in T : ~(y < x)
  BY <1>1 DEF OpToRel
<1> QED BY <1>2

LEMMA Induction ==
  ASSUME NEW n \in Nat, NEW T, 0 \in T, \A i \in 1..n : i - 1 \in T => i \in T
  PROVE  0..n \subseteq T
<1> DEFINE others == (0..n) \ T
<1>1. ASSUME others # {} PROVE FALSE
  <2>1. PICK i \in others : \A j \in others : i <= j
    <3>1. others \in SUBSET Nat
      OBVIOUS
    <3> HIDE DEF others
    <3> QED BY <1>1, <3>1, Least
  <2>2. i \in 1..n /\ i - 1 \in 0..n /\ i - 1 \notin others
    BY <2>1
  <2> QED BY <2>2
<1> QED BY <1>1

\* f is computed from base by the steps 1..n; what the steps make stays in the sets V[i].
Computed(f, n, base, step) ==
  /\ f = [i \in 0..n |-> f[i]] /\ f[0] = base
  /\ \A i \in 1..n : f[i] = step[i][f[i - 1]]
StepsStay(n, V, step) == \A i \in 1..n : \A v \in V[i - 1] : step[i][v] \in V[i]
Stays(f, n, V) == \A i \in 0..n : f[i] \in V[i]

\* A recursive function exists when its steps stay in some sets, and stays in them.
LEMMA Recursion ==
  ASSUME NEW n \in Nat, NEW V, NEW base \in V[0], NEW step, StepsStay(n, V, step)
  PROVE  \E f : Computed(f, n, base, step) /\ Stays(f, n, V)
<1> USE DEF Computed, StepsStay, Stays
<1> DEFINE Computes(m, f) == Computed(f, m, base, step) /\ Stays(f, m, V)
           T == {m \in 0..n : \E f : Computes(m, f)}
<1>1. 0 \in T
  <2>1. PICK f : f = [i \in 0..0 |-> base]
    OBVIOUS
  <2>2. \A i \in 0..0 : i = 0 /\ f[i] = base /\ base \in V[i]
    BY <2>1
  <2>3. Computes(0, f)
    BY <2>1, <2>2
  <2> QED BY <2>3
<1>2. ASSUME NEW m \in 1..n, m - 1 \in T PROVE m \in T
  <2>1. PICK f : Computes(m - 1, f)
    BY <1>2
  <2>2. PICK g : g = [i \in 0..m |-> IF i = m THEN step[m][f[m - 1]] ELSE f[i]]
    OBVIOUS
  <2>3. /\ \A i \in 0..(m - 1) : g[i] = f[i]
        /\ g[m] = step[m][f[m - 1]] /\ f[m - 1] \in V[m - 1]
    BY <2>1, <2>2
  <2>4. g[m] = step[m][g[m - 1]] /\ g[m] \in V[m] /\ g[0] = base
    BY <2>1, <2>3
  <2>5. \A i \in 0..m : i = m \/ i \in 0..(m - 1)
    OBVIOUS
  <2>6. \A i \in 1..m : i = m \/ (i \in 1..(m - 1) /\ i - 1 \in 0..(m - 1) /\ i \in 0..(m - 1))
    OBVIOUS
  <2>7. \A i \in 0..m : g[i] \in V[i]
    BY <2>1, <2>3, <2>4, <2>5
  <2>8. \A i \in 1..m : g[i] = step[i][g[i - 1]]
    BY <2>1, <2>3, <2>4, <2>6
  <2>9. g = [i \in 0..m |-> g[i]]
    BY <2>2
  <2>10. Computes(m, g)
    BY <2>4, <2>7, <2>8, <2>9
  <2> HIDE DEF Computes
  <2> QED BY <2>10
<1> HIDE DEF T
<1>3. 0..n \subseteq T
  BY <1>1, <1>2, Induction
<1>4. n \in T
  BY <1>3
<1> QED BY <1>4 DEF T

-----------------------------------------------------------------------------
(* What Without keeps.                                                     *)

\* f takes the lines of d one by one, and passes over those that are gone.
PassesOver(f, L, d, gone) ==
  /\ f[0] = <<>> /\ Without(d, gone) = f[Len(d)]
  /\ \A i \in 0..Len(d) : f[i] \in Seq(L)
  /\ \A i \in 1..Len(d) :
       f[i] = IF i \in gone THEN f[i - 1] ELSE Append(f[i - 1], d[i])

LEMMA WithoutSteps ==
  ASSUME NEW L, NEW d \in Seq(L), NEW gone
  PROVE  \E f : PassesOver(f, L, d, gone)
<1> DEFINE n == Len(d)
           next(i, v) == IF i \in gone THEN v ELSE Append(v, d[i])
           V == [i \in 0..n |-> Seq(L)]
           step == [i \in 1..n |-> [v \in Seq(L) |-> next(i, v)]]
<1>1. n \in Nat /\ \A i \in 1..n : d[i] \in L
  BY LenProperties
<1>2. <<>> \in V[0]
  BY <1>1, EmptySeq
<1>3. \A i \in 1..n : \A v \in Seq(L) : next(i, v) \in Seq(L)
  BY <1>1, AppendProperties
<1>10. \A i \in 0..n : V[i] = Seq(L)
  OBVIOUS
<1>11. \A i \in 1..n : \A v \in Seq(L) : step[i][v] = next(i, v)
  OBVIOUS
<1>12. \A i \in 1..n : \A v \in V[i - 1] : step[i][v] = next(i, v) /\ step[i][v] \in V[i]
  <2> SUFFICES ASSUME NEW i \in 1..n, NEW v \in V[i - 1]
               PROVE  step[i][v] = next(i, v) /\ step[i][v] \in V[i]
    OBVIOUS
  <2>1. i - 1 \in 0..n /\ i \in 0..n
    OBVIOUS
  <2> HIDE DEF V, step, next
  <2> QED BY <1>3, <1>10, <1>11, <2>1
<1> HIDE DEF V, step
<1>13. StepsStay(n, V, step)
  BY <1>12 DEF StepsStay
<1>4. PICK f : Computed(f, n, <<>>, step) /\ Stays(f, n, V)
  BY <1>1, <1>2, <1>13, Recursion
<1> HIDE DEF next
<1>5. \A i \in 1..n : f[i] = next(i, f[i - 1])
  <2> SUFFICES ASSUME NEW i \in 1..n PROVE f[i] = next(i, f[i - 1])
    OBVIOUS
  <2>1. i - 1 \in 0..n /\ i # 0 /\ i \in 0..n
    BY <1>1
  <2>2. f[i - 1] \in V[i - 1] /\ f[i] = step[i][f[i - 1]]
    BY <1>4, <2>1 DEF Computed, Stays
  <2> QED BY <1>12, <2>2
<1> DEFINE Left(g) == g = [i \in 0..n |-> IF i = 0 THEN <<>>
                                          ELSE IF i \in gone THEN g[i - 1] ELSE Append(g[i - 1], d[i])]
<1>6. Left(f)
  <2>1. \A i \in 0..n : f[i] = IF i = 0 THEN <<>>
                               ELSE IF i \in gone THEN f[i - 1] ELSE Append(f[i - 1], d[i])
    <3>1. \A i \in 0..n : i # 0 => i \in 1..n
      OBVIOUS
    <3>2. \A i \in 1..n : f[i] = IF i \in gone THEN f[i - 1] ELSE Append(f[i - 1], d[i])
      BY <1>5 DEF next
    <3> QED BY <3>1, <3>2, <1>4, SMTT(60) DEF Computed
  <2>2. f = [i \in 0..n |-> f[i]]
    BY <1>4 DEF Computed
  <2> QED BY <2>1, <2>2
<1>7. PICK g : g = CHOOSE h : Left(h)
  OBVIOUS
<1>8. Left(g)
  BY <1>6, <1>7
<1>9. Without(d, gone) = g[n]
  BY <1>7 DEF Without
<1>14. g[0] = <<>> /\ \A i \in 1..n : g[i] = next(i, g[i - 1])
  <2>1. \A i \in 0..n : g[i] = IF i = 0 THEN <<>>
                               ELSE IF i \in gone THEN g[i - 1] ELSE Append(g[i - 1], d[i])
    BY <1>8
  <2>2. 0 \in 0..n /\ \A i \in 1..n : i \in 0..n /\ i # 0
    BY <1>1
  <2>3. g[0] = <<>>
    BY <2>1, <2>2
  <2>4. \A i \in 1..n : g[i] = IF i \in gone THEN g[i - 1] ELSE Append(g[i - 1], d[i])
    BY <2>1, <2>2
  <2> HIDE DEF Left
  <2> QED BY <2>3, <2>4 DEF next
<1> HIDE DEF Left
<1> DEFINE T == {i \in 0..n : g[i] \in Seq(L)}
<1>15. 0 \in T
  <2>1. g[0] \in Seq(L)
    BY <1>14, EmptySeq, Zenon
  <2>2. 0 \in 0..n
    BY <1>1
  <2> QED BY <2>1, <2>2
<1>16. \A i \in 1..n : i - 1 \in T => i \in T
  <2>1. \A i \in 1..n : i \in 0..n
    OBVIOUS
  <2> QED BY <1>3, <1>14, <2>1
<1> HIDE DEF T
<1>17. 0..n \subseteq T
  BY <1>1, <1>15, <1>16, Induction
<1>18. \A i \in 0..n : g[i] \in Seq(L)
  BY <1>17 DEF T
<1>19. \A i \in 1..n : g[i] = IF i \in gone THEN g[i - 1] ELSE Append(g[i - 1], d[i])
  BY <1>14 DEF next
<1>20. PassesOver(g, L, d, gone)
  BY <1>9, <1>14, <1>18, <1>19 DEF PassesOver
<1> QED BY <1>20

\* e is the lines 1..n of d that are not gone: its k-th line is line at[k] of d.
Picks(e, d, n, gone, at) ==
  /\ at \in [1..Len(e) -> 1..n]
  /\ \A k \in 1..Len(e) : at[k] \notin gone /\ e[k] = d[at[k]]
  /\ \A k, l \in 1..Len(e) : k < l => at[k] < at[l]
  /\ \A i \in 1..n : i \in gone \/ \E k \in 1..Len(e) : at[k] = i

LEMMA PickedEmpty == ASSUME NEW d, NEW gone PROVE \E at : Picks(<<>>, d, 0, gone, at)
<1>1. PICK at : at = [k \in 1..0 |-> 0]
  OBVIOUS
<1>2. Len(<<>>) = 0 /\ 1..0 = {}
  OBVIOUS
<1>3. at \in [1..0 -> 1..0]
  BY <1>1, <1>2
<1>4. Picks(<<>>, d, 0, gone, at)
  BY <1>2, <1>3 DEF Picks
<1> QED BY <1>4

LEMMA PickedGone ==
  ASSUME NEW L, NEW e \in Seq(L), NEW d, NEW n \in Nat \ {0}, NEW gone, n \in gone, NEW at,
         Picks(e, d, n - 1, gone, at)
  PROVE  Picks(e, d, n, gone, at)
<1>1. \A i \in 1..n : i = n \/ i \in 1..(n - 1)
  OBVIOUS
<1>2. 1..(n - 1) \subseteq 1..n
  OBVIOUS
<1>3. at \in [1..Len(e) -> 1..n]
  BY <1>2 DEF Picks
<1> QED BY <1>1, <1>3 DEF Picks

LEMMA PickedKept ==
  ASSUME NEW L, NEW e \in Seq(L), NEW d, NEW n \in Nat \ {0}, d[n] \in L, NEW gone, n \notin gone,
         NEW at, Picks(e, d, n - 1, gone, at)
  PROVE  \E to : Picks(Append(e, d[n]), d, n, gone, to)
<1>1. PICK m \in Nat : m = Len(e)
  BY LenProperties
<1>2. PICK to : to = [k \in 1..(m + 1) |-> IF k = m + 1 THEN n ELSE at[k]]
  OBVIOUS
<1>3. PICK x : x = Append(e, d[n])
  OBVIOUS
<1>4. Len(x) = m + 1 /\ x[m + 1] = d[n] /\ \A k \in 1..m : x[k] = e[k]
  BY <1>1, <1>3, AppendProperties
<1>5. \A k \in 1..(m + 1) : k = m + 1 \/ k \in 1..m
  BY <1>1
<1>6. /\ \A k \in 1..m : to[k] = at[k] /\ at[k] \in 1..(n - 1)
      /\ to[m + 1] = n
  BY <1>1, <1>2 DEF Picks
<1>7. to \in [1..(m + 1) -> 1..n]
  <2>1. \A k \in 1..(m + 1) : to[k] \in 1..n
    BY <1>5, <1>6
  <2> QED BY <1>2, <2>1
<1>8. \A k \in 1..(m + 1) : to[k] \notin gone /\ x[k] = d[to[k]]
  BY <1>1, <1>4, <1>5, <1>6 DEF Picks
<1>9. \A k, l \in 1..(m + 1) : k < l => to[k] < to[l]
  <2> SUFFICES ASSUME NEW k \in 1..(m + 1), NEW l \in 1..(m + 1), k < l PROVE to[k] < to[l]
    OBVIOUS
  <2>1. k \in 1..m /\ to[k] = at[k] /\ at[k] \in 1..(n - 1)
    BY <1>1, <1>6
  <2>2. CASE l = m + 1
    BY <2>1, <2>2, <1>6
  <2>3. CASE l \in 1..m
    BY <2>1, <2>3, <1>1, <1>6 DEF Picks
  <2> QED BY <1>5, <2>2, <2>3
<1>10. \A i \in 1..n : i \in gone \/ \E k \in 1..(m + 1) : to[k] = i
  <2> SUFFICES ASSUME NEW i \in 1..n, i \notin gone PROVE \E k \in 1..(m + 1) : to[k] = i
    OBVIOUS
  <2>1. CASE i = n
    BY <2>1, <1>6
  <2>2. CASE i # n
    <3>1. PICK k \in 1..m : at[k] = i
      BY <1>1, <2>2 DEF Picks
    <3>2. k \in 1..(m + 1)
      OBVIOUS
    <3> QED BY <3>1, <3>2, <1>6
  <2> QED BY <2>1, <2>2
<1>11. Picks(x, d, n, gone, to)
  BY <1>4, <1>7, <1>8, <1>9, <1>10 DEF Picks
<1> QED BY <1>3, <1>11

\* What is left of a document are the lines that are not gone, in their order.
LEMMA WithoutPicks ==
  ASSUME NEW L, NEW d \in Seq(L), NEW gone
  PROVE  Without(d, gone) \in Seq(L) /\ \E at : Picks(Without(d, gone), d, Len(d), gone, at)
<1>0. PICK f : PassesOver(f, L, d, gone)
  BY WithoutSteps
<1>1. /\ f[0] = <<>> /\ Without(d, gone) = f[Len(d)]
      /\ \A i \in 0..Len(d) : f[i] \in Seq(L)
      /\ \A i \in 1..Len(d) :
           f[i] = IF i \in gone THEN f[i - 1] ELSE Append(f[i - 1], d[i])
  BY <1>0 DEF PassesOver
<1>2. PICK n \in Nat : n = Len(d)
  BY LenProperties
<1>3. \A i \in 1..n : d[i] \in L
  BY <1>2, LenProperties
<1> DEFINE T == {i \in 0..n : \E at : Picks(f[i], d, i, gone, at)}
<1>4. 0 \in T
  <2>1. \E at : Picks(<<>>, d, 0, gone, at)
    BY PickedEmpty
  <2>2. \E at : Picks(f[0], d, 0, gone, at)
    BY <1>1, <2>1, Zenon
  <2> QED BY <2>2
<1>5. ASSUME NEW i \in 1..n, i - 1 \in T PROVE i \in T
  <2>1. i - 1 \in 0..n /\ i \in 0..n /\ i \in Nat \ {0}
    OBVIOUS
  <2>2. PICK at : Picks(f[i - 1], d, i - 1, gone, at)
    BY <1>5
  <2>3. f[i - 1] \in Seq(L) /\ f[i] = IF i \in gone THEN f[i - 1] ELSE Append(f[i - 1], d[i])
    BY <1>1, <1>2, <2>1
  <2>4. CASE i \in gone
    <3>1. Picks(f[i], d, i, gone, at)
      BY <2>1, <2>2, <2>3, <2>4, PickedGone
    <3> QED BY <2>1, <3>1
  <2>5. CASE i \notin gone
    <3>1. \E to : Picks(Append(f[i - 1], d[i]), d, i, gone, to)
      BY <1>3, <2>1, <2>2, <2>3, <2>5, PickedKept
    <3> QED BY <2>1, <2>3, <2>5, <3>1
  <2> QED BY <2>4, <2>5
<1> HIDE DEF T
<1>6. 0..n \subseteq T
  BY <1>4, <1>5, Induction
<1>7. n \in 0..n /\ n \in T
  BY <1>6
<1> QED BY <1>1, <1>2, <1>7 DEF T

\* The lines k..k+w are the lines i..i+w of the document read.
Shifted(at, k, i, w) == \A l \in 0..w : at[k + l] = i + l

\* Lines that follow each other and are not gone stay next to each other.
LEMMA PiecesStay ==
  ASSUME NEW d, NEW n \in Nat, NEW e, Len(e) \in Nat, NEW gone, NEW at, Picks(e, d, n, gone, at),
         NEW i \in 1..n, NEW j \in i..n, \A l \in i..j : l \notin gone
  PROVE  \E k \in 1..Len(e) : k + (j - i) \in 1..Len(e) /\ Shifted(at, k, i, j - i)
<1>1. PICK m \in Nat : m = Len(e)
  OBVIOUS
<1>2. /\ \A k \in 1..m : at[k] \in 1..n
      /\ \A k, l \in 1..m : k < l => at[k] < at[l]
      /\ \A l \in i..j : \E k \in 1..m : at[k] = l
  BY <1>1, SMTT(60) DEF Picks
<1>3. PICK k \in 1..m : at[k] = i
  BY <1>2
<1> DEFINE T == {l \in 0..(j - i) : k + l \in 1..m /\ at[k + l] = i + l}
<1>4. 0 \in T
  BY <1>3
<1>5. ASSUME NEW l \in 1..(j - i), l - 1 \in T PROVE l \in T
  <2>1. k + (l - 1) \in 1..m /\ at[k + (l - 1)] = i + (l - 1)
    BY <1>5
  <2>2. PICK q \in 1..m : at[q] = i + l
    BY <1>2
  <2>3. k + (l - 1) < q
    BY <1>2, <2>1, <2>2
  <2>4. k + l \in 1..m /\ k + l <= q
    BY <2>3
  <2>5. i + (l - 1) < at[k + l] /\ at[k + l] \in 1..n
    <3>1. k + (l - 1) < k + l
      OBVIOUS
    <3> QED BY <3>1, <1>2, <2>1, <2>4
  <2>6. at[k + l] <= i + l
    BY <1>2, <2>2, <2>4, SMTT(60)
  <2> QED BY <2>4, <2>5, <2>6
<1>6. j - i \in Nat
  OBVIOUS
<1> HIDE DEF T
<1>7. 0..(j - i) \subseteq T
  BY <1>4, <1>5, <1>6, Induction
<1>8. \A l \in 0..(j - i) : k + l \in 1..m /\ at[k + l] = i + l
  BY <1>7 DEF T
<1>9. k + (j - i) \in 1..m /\ Shifted(at, k, i, j - i)
  BY <1>6, <1>8 DEF Shifted
<1> QED BY <1>1, <1>9

-----------------------------------------------------------------------------
(* Blocks.                                                                 *)

LEMMA BlockFields ==
  ASSUME NEW L, NEW d \in Seq(L), NEW b \in Blocks(d)
  PROVE  /\ b = <<b[1], b[2]>> /\ b[1] \in 1..Len(d) /\ b[2] \in 1..Len(d) /\ b[1] < b[2]
         /\ d[b[1]].kind = "begin" /\ d[b[2]].kind = "end" /\ d[b[2]].of = d[b[1]].of
         /\ \A k \in 1..Len(d) : b[1] < k /\ k < b[2] => d[k].kind # "end"
<1>1. DOMAIN d = 1..Len(d) /\ Len(d) \in Nat
  BY LenProperties
<1>2. b \in (1..Len(d)) \X (1..Len(d))
  BY <1>1 DEF Blocks
<1>3. b = <<b[1], b[2]>> /\ b[1] \in 1..Len(d) /\ b[2] \in 1..Len(d)
  BY <1>2
<1>4. /\ b[1] < b[2] /\ d[b[1]].kind = "begin" /\ d[b[2]].kind = "end" /\ d[b[2]].of = d[b[1]].of
      /\ \A k \in b[1] + 1 .. b[2] - 1 : d[k].kind # "end"
  BY DEF Blocks, IsKind
<1>5. \A k \in 1..Len(d) : b[1] < k /\ k < b[2] => k \in b[1] + 1 .. b[2] - 1
  BY <1>1, <1>3
<1> QED BY <1>3, <1>4, <1>5

LEMMA BlockMade ==
  ASSUME NEW L, NEW d \in Seq(L), NEW i \in 1..Len(d), NEW j \in 1..Len(d), i < j,
         d[i].kind = "begin", d[j].kind = "end", d[i].of = d[j].of,
         \A k \in 1..Len(d) : i < k /\ k < j => d[k].kind # "end"
  PROVE  <<i, j>> \in Blocks(d)
<1>1. DOMAIN d = 1..Len(d) /\ Len(d) \in Nat
  BY LenProperties
<1>2. \A k \in i + 1 .. j - 1 : k \in 1..Len(d) /\ i < k /\ k < j
  BY <1>1
<1>3. <<i, j>> \in (DOMAIN d) \X (DOMAIN d) /\ <<i, j>>[1] = i /\ <<i, j>>[2] = j
  BY <1>1
<1> QED BY <1>2, <1>3 DEF Blocks, IsKind

\* A begin marker opens one block.
LEMMA OneBlockPerBegin ==
  ASSUME NEW L, NEW d \in Seq(L), NEW b \in Blocks(d), NEW c \in Blocks(d), b[1] = c[1]
  PROVE  b = c
<1>1. Len(d) \in Nat
  BY LenProperties
<1>2. b[2] = c[2]
  BY <1>1, BlockFields
<1> QED BY <1>2, BlockFields

\* Blocks of different templates share no line.
LEMMA BlocksApart ==
  ASSUME NEW L, NEW d \in Seq(L), NEW b \in Blocks(d), NEW c \in Blocks(d),
         d[b[1]].of # d[c[1]].of, NEW i \in Lines(b), NEW n \in Nat, n = Len(d)
  PROVE  i \notin Lines(c)
<1>1. /\ b[1] \in 1..n /\ b[2] \in 1..n /\ b[1] < b[2]
      /\ c[1] \in 1..n /\ c[2] \in 1..n /\ c[1] < c[2] /\ b[2] # c[2]
      /\ b[2] # c[1] /\ c[2] # b[1]
      /\ ~(c[1] < b[2] /\ b[2] < c[2]) /\ ~(b[1] < c[2] /\ c[2] < b[2])
  <2>1. d[b[2]].kind # d[c[1]].kind /\ d[c[2]].kind # d[b[1]].kind
    BY BlockFields
  <2> QED BY <2>1, BlockFields
<1> QED BY <1>1 DEF Lines

SamePiece(e, c, d, b) == SubSeq(e, c[1], c[2]) = SubSeq(d, b[1], b[2])

\* A block none of whose lines is gone is a block of what is left, the same line by line.
LEMMA BlockStays ==
  ASSUME NEW L, NEW d \in Seq(L), NEW e \in Seq(L), NEW gone, NEW at,
         Picks(e, d, Len(d), gone, at), NEW b \in Blocks(d), \A i \in Lines(b) : i \notin gone
  PROVE  \E c \in Blocks(e) : /\ at[c[1]] = b[1] /\ at[c[2]] = b[2] /\ e[c[1]] = d[b[1]]
                              /\ SamePiece(e, c, d, b)
<1>1. PICK n \in Nat, m \in Nat : n = Len(d) /\ m = Len(e)
  BY LenProperties
<1>2. PICK i \in 1..n, j \in 1..n : i = b[1] /\ j = b[2]
  BY <1>1, BlockFields
<1>3. /\ i < j /\ d[i].kind = "begin" /\ d[j].kind = "end" /\ d[j].of = d[i].of
      /\ \A k \in 1..n : i < k /\ k < j => d[k].kind # "end"
  BY <1>1, <1>2, BlockFields
<1>4. \A l \in i..j : l \notin gone
  BY <1>2 DEF Lines
<1>13. j \in i..n /\ Picks(e, d, n, gone, at)
  BY <1>1, <1>3
<1>14. PICK k \in 1..m : k + (j - i) \in 1..m /\ Shifted(at, k, i, j - i)
  BY <1>1, <1>4, <1>13, PiecesStay
<1>5. k + (j - i) \in 1..m /\ \A l \in 0..(j - i) : k + l \in 1..m /\ at[k + l] = i + l
  <2>1. \A l \in 0..(j - i) : k + l \in 1..m
    BY <1>14
  <2> QED BY <1>14, <2>1 DEF Shifted
<1>6. \A l \in 0..(j - i) : k + l \in 1..m /\ e[k + l] = d[i + l]
  <2>1. \A q \in 1..m : e[q] = d[at[q]]
    BY <1>1 DEF Picks
  <2> QED BY <1>5, <2>1
<1>7. PICK h \in 1..m : h = k + (j - i)
  BY <1>5
<1>15. k < h
  BY <1>3, <1>7
<1>8. /\ at[k] = i /\ at[h] = j /\ e[k] = d[i] /\ e[h] = d[j] /\ k < h
  <2>1. 0 \in 0..(j - i) /\ j - i \in 0..(j - i) /\ k + 0 = k /\ i + 0 = i /\ i + (j - i) = j
    BY <1>3
  <2>2. at[k] = i /\ e[k] = d[i]
    BY <1>5, <1>6, <2>1
  <2>3. at[h] = j /\ e[h] = d[j]
    BY <1>5, <1>6, <1>7, <2>1
  <2> QED BY <1>15, <2>2, <2>3
<1>9. \A q \in 1..m : k < q /\ q < h => e[q].kind # "end"
  <2> SUFFICES ASSUME NEW q \in 1..m, k < q, q < h PROVE e[q].kind # "end"
    OBVIOUS
  <2>1. q - k \in 0..(j - i) /\ k + (q - k) = q /\ i + (q - k) \in 1..n
        /\ i < i + (q - k) /\ i + (q - k) < j
    BY <1>7
  <2> QED BY <1>3, <1>6, <2>1
<1>10. <<k, h>> \in Blocks(e)
  BY <1>1, <1>3, <1>8, <1>9, BlockMade
<1>11. SubSeq(e, k, h) = SubSeq(d, i, j)
  <2>1. \A q \in k..h : q \in 1..m
    OBVIOUS
  <2>2. \A q \in i..j : q \in 1..n
    OBVIOUS
  <2>3. (\A q \in 1..m : e[q] \in L) /\ (\A q \in 1..n : d[q] \in L)
    BY <1>1, LenProperties
  <2>4. PICK x, y : x = SubSeq(e, k, h) /\ y = SubSeq(d, i, j)
    OBVIOUS
  <2>5. x \in Seq(L) /\ Len(x) = h - k + 1 /\ \A q \in 1..(h - k + 1) : x[q] = e[k + q - 1]
    <3>1. \A q \in k..h : e[q] \in L
      BY <2>1, <2>3
    <3> QED BY <1>15, <2>4, <3>1, SubSeqProperties
  <2>6. y \in Seq(L) /\ Len(y) = j - i + 1 /\ \A q \in 1..(j - i + 1) : y[q] = d[i + q - 1]
    <3>1. \A q \in i..j : d[q] \in L
      BY <2>2, <2>3
    <3> QED BY <1>3, <2>4, <3>1, SubSeqProperties
  <2>7. h - k + 1 = j - i + 1
    BY <1>7
  <2>8. \A q \in 1..(j - i + 1) : x[q] = y[q]
    <3> SUFFICES ASSUME NEW q \in 1..(j - i + 1) PROVE x[q] = y[q]
      OBVIOUS
    <3>1. q - 1 \in 0..(j - i) /\ k + (q - 1) = k + q - 1 /\ i + (q - 1) = i + q - 1
      OBVIOUS
    <3> QED BY <1>6, <2>5, <2>6, <2>7, <3>1
  <2>9. x = y
    BY <2>5, <2>6, <2>7, <2>8, SeqEqual
  <2> QED BY <2>4, <2>9
<1>12. /\ <<k, h>>[1] = k /\ <<k, h>>[2] = h
  OBVIOUS
<1> QED BY <1>2, <1>8, <1>10, <1>11, <1>12 DEF SamePiece

-----------------------------------------------------------------------------
(* The state of a template.                                                *)

LastOf(b, d, t) == b \in BlocksOf(d, t) /\ \A c \in BlocksOf(d, t) : c[1] <= b[1]

LEMMA LastExists ==
  ASSUME NEW L, NEW d \in Seq(L), NEW t, BlocksOf(d, t) # {}
  PROVE  \E b : LastOf(b, d, t)
<1>1. PICK n \in Nat : n = Len(d)
  BY LenProperties
<1>2. PICK from : from = {n - c[1] : c \in BlocksOf(d, t)}
  OBVIOUS
<1>3. \A c \in BlocksOf(d, t) : c[1] \in 1..n
  BY <1>1, BlockFields DEF BlocksOf
<1>4. from \in SUBSET Nat /\ from # {}
  BY <1>2, <1>3
<1>5. PICK x \in from : \A y \in from : x <= y
  BY <1>4, Least
<1>6. PICK b \in BlocksOf(d, t) : x = n - b[1]
  BY <1>2, <1>5
<1>7. ASSUME NEW c \in BlocksOf(d, t) PROVE c[1] <= b[1]
  <2>1. n - c[1] \in from
    BY <1>2
  <2>2. n - b[1] <= n - c[1]
    BY <1>5, <1>6, <2>1
  <2> QED BY <1>3, <2>2
<1> QED BY <1>7 DEF LastOf

LEMMA StateOfLast ==
  ASSUME NEW L, NEW d \in Seq(L), NEW t, NEW b, LastOf(b, d, t)
  PROVE  State(d, t) = IF d[b[1]].hash = "current" THEN "exact" ELSE "edited"
<1>1. PICK last : last = CHOOSE c \in BlocksOf(d, t) : \A x \in BlocksOf(d, t) : x[1] <= c[1]
  OBVIOUS
<1>2. b \in BlocksOf(d, t) /\ \A x \in BlocksOf(d, t) : x[1] <= b[1]
  BY DEF LastOf
<1>3. last \in BlocksOf(d, t) /\ \A x \in BlocksOf(d, t) : x[1] <= last[1]
  BY <1>1, <1>2
<1>4. b \in Blocks(d) /\ last \in Blocks(d) /\ BlocksOf(d, t) # {}
  BY <1>2, <1>3 DEF BlocksOf
<1>5. last[1] = b[1]
  <2>1. last[1] \in Nat /\ b[1] \in Nat
    BY <1>4, BlockFields
  <2> QED BY <1>2, <1>3, <2>1
<1> QED BY <1>1, <1>4, <1>5 DEF State

LEMMA ManagedByBlock ==
  ASSUME NEW L, NEW d \in Seq(L), NEW t
  PROVE  Managed(d, t) <=> BlocksOf(d, t) # {}
<1>1. ASSUME BlocksOf(d, t) # {} PROVE Managed(d, t)
  <2>1. PICK b : LastOf(b, d, t)
    BY <1>1, LastExists
  <2> QED BY <2>1, StateOfLast DEF Managed
<1>2. ASSUME BlocksOf(d, t) = {} PROVE ~Managed(d, t)
  BY <1>2 DEF Managed, State
<1> QED BY <1>1, <1>2

\* The begin markers of a document.
LEMMA BeginForms ==
  ASSUME NEW d \in Seq(Formats), NEW i \in 1..Len(d), d[i].kind = "begin"
  PROVE  d[i].of \in Templates /\ d[i] \in {Begin(d[i].of, "current"), Begin(d[i].of, "stale")}
<1>1. d[i] \in Formats
  BY LenProperties
<1>2. PICK l \in Formats : l = d[i]
  BY <1>1
<1>3. l \in {Begin(t, h) : t \in Templates, h \in {"current", "stale"}}
  BY <1>2 DEF Formats, Rule, BlankLine, EndLine
<1>4. PICK t \in Templates, h \in {"current", "stale"} : l = Begin(t, h)
  BY <1>3
<1>5. l.of = t
  BY <1>4 DEF Begin
<1> QED BY <1>2, <1>4, <1>5

-----------------------------------------------------------------------------
(* Removal.                                                                *)

Gone(d, S) == (UNION {Lines(b) : b \in BlocksIn(d, S)}) \cup SafeToRemove(d, S)

\* Removal leaves the blocks of the other templates.
LEMMA RemovalSpares ==
  ASSUME NEW L, NEW d \in Seq(L), NEW S, NEW b \in Blocks(d), d[b[1]].of \notin S,
         NEW i \in Lines(b)
  PROVE  i \notin Gone(d, S)
<1>1. i \notin SafeToRemove(d, S)
  BY DEF SafeToRemove, Handwritten
<1>2. ASSUME NEW c \in BlocksIn(d, S) PROVE i \notin Lines(c)
  <2>1. c \in Blocks(d) /\ d[b[1]].of # d[c[1]].of
    BY <1>2 DEF BlocksIn
  <2>2. Len(d) \in Nat
    BY LenProperties
  <2> QED BY <2>1, <2>2, BlocksApart
<1>3. i \notin UNION {Lines(c) : c \in BlocksIn(d, S)}
  BY <1>2
<1> QED BY <1>1, <1>3 DEF Gone

LEMMA RemovalPicks ==
  ASSUME NEW S, NEW d \in Seq(Formats), NEW e \in PlanRemove(d, S)
  PROVE  e \in Seq(Formats) /\ \E at : Picks(e, d, Len(d), Gone(d, S), at)
<1>1. e = Without(d, Gone(d, S))
  BY DEF PlanRemove, Gone
<1> QED BY <1>1, WithoutPicks

LEMMA RemovalKeepsBlocks ==
  ASSUME NEW S, NEW d \in Seq(Formats), NEW e \in PlanRemove(d, S), NEW t \in Templates \ S
  PROVE  BlockLines(d, t) \subseteq BlockLines(e, t)
<1>1. e \in Seq(Formats)
  BY RemovalPicks
<1>2. PICK at : Picks(e, d, Len(d), Gone(d, S), at)
  BY RemovalPicks
<1>3. ASSUME NEW b \in BlocksOf(d, t)
      PROVE  \E c \in BlocksOf(e, t) : SubSeq(e, c[1], c[2]) = SubSeq(d, b[1], b[2])
  <2>1. b \in Blocks(d) /\ d[b[1]].of = t
    BY <1>3 DEF BlocksOf
  <2>2. \A i \in Lines(b) : i \notin Gone(d, S)
    BY <2>1, RemovalSpares
  <2>3. PICK c \in Blocks(e) : e[c[1]] = d[b[1]] /\ SamePiece(e, c, d, b)
    BY <1>1, <1>2, <2>1, <2>2, BlockStays
  <2> QED BY <2>1, <2>3 DEF BlocksOf, SamePiece
<1> QED BY <1>3 DEF BlockLines

LEMMA RemovalKeepsState ==
  ASSUME NEW S, NEW d \in Seq(Formats), NEW e \in PlanRemove(d, S), NEW t \in Templates \ S,
         Managed(d, t), Opens(d, t)
  PROVE  State(e, t) = State(d, t)
<1>1. e \in Seq(Formats)
  BY RemovalPicks
<1>2. PICK at : Picks(e, d, Len(d), Gone(d, S), at)
  BY RemovalPicks
<1>3. PICK n \in Nat, m \in Nat : n = Len(d) /\ m = Len(e) /\ DOMAIN d = 1..n
  BY <1>1, LenProperties
<1>4. PICK b : LastOf(b, d, t)
  BY ManagedByBlock, LastExists
<1>5. b \in Blocks(d) /\ d[b[1]].of = t
  BY <1>4 DEF LastOf, BlocksOf
<1>6. \A i \in Lines(b) : i \notin Gone(d, S)
  BY <1>5, RemovalSpares
<1>7. PICK c \in Blocks(e) : at[c[1]] = b[1] /\ e[c[1]] = d[b[1]]
  BY <1>1, <1>2, <1>5, <1>6, BlockStays
<1>8. c \in BlocksOf(e, t)
  BY <1>5, <1>7 DEF BlocksOf
<1>9. ASSUME NEW x \in BlocksOf(e, t) PROVE x[1] <= c[1]
  <2>1. x \in Blocks(e) /\ e[x[1]].of = t
    BY <1>9 DEF BlocksOf
  <2>2. x[1] \in 1..m /\ c[1] \in 1..m /\ e[x[1]].kind = "begin"
    BY <1>1, <1>3, <1>7, <2>1, BlockFields
  <2>3. at[x[1]] \in 1..n /\ d[at[x[1]]] = e[x[1]] /\ at[c[1]] \in 1..n
        /\ (c[1] < x[1] => at[c[1]] < at[x[1]])
    BY <1>2, <1>3, <2>2 DEF Picks
  <2>4. d[at[x[1]]] \in {Begin(t, "current"), Begin(t, "stale")}
    BY <1>3, <2>1, <2>2, <2>3, BeginForms, SMTT(60)
  <2>5. PICK y \in Blocks(d) : y[1] = at[x[1]]
    BY <1>3, <2>3, <2>4 DEF Opens
  <2>6. y \in BlocksOf(d, t)
    BY <2>1, <2>3, <2>5 DEF BlocksOf
  <2>7. y[1] <= b[1]
    BY <1>4, <2>6 DEF LastOf
  <2> QED BY <1>7, <2>2, <2>3, <2>5, <2>7
<1>10. LastOf(c, e, t)
  BY <1>8, <1>9 DEF LastOf
<1> QED BY <1>1, <1>4, <1>7, <1>10, StateOfLast

-----------------------------------------------------------------------------
(* What is appended.                                                       *)

LEMMA LineTypes ==
  /\ BlankLine \in Formats /\ \A r \in Rules : Rule(r) \in Formats
  /\ \A t \in Templates : EndLine(t) \in Formats /\ Begin(t, "current") \in Formats
BY DEF Formats

\* A block: its marker, the rules of the template, its end marker.
LEMMA EncodedLines ==
  ASSUME NEW t \in Templates
  PROVE  /\ Encoded(t) \in Seq(Formats) /\ Len(Content[t]) \in Nat \ {0}
         /\ Len(Encoded(t)) = Len(Content[t]) + 2
         /\ Encoded(t)[1] = Begin(t, "current")
         /\ Encoded(t)[Len(Content[t]) + 2] = EndLine(t)
         /\ \A i \in 1..Len(Content[t]) : Encoded(t)[i + 1] = Rule(Content[t][i])
<1>1. PICK body : body = Body(t)
  OBVIOUS
<1>2. PICK n \in Nat \ {0} : n = Len(Content[t])
  BY ContentAssumption, EmptySeq
<1>3. DOMAIN Content[t] = 1..n /\ \A i \in 1..n : Content[t][i] \in Rules
  BY <1>2, ContentAssumption, LenProperties
<1>4. body = [i \in 1..n |-> Rule(Content[t][i])]
  BY <1>1, <1>3 DEF Body
<1>5. \A i \in 1..n : body[i] = Rule(Content[t][i]) /\ body[i] \in Formats
  BY <1>3, <1>4, LineTypes
<1>6. body \in Seq(Formats) /\ Len(body) = n
  <2>1. body \in [1..n -> Formats]
    BY <1>4, <1>5
  <2> QED BY <2>1
<1>7. PICK first, last : first = Begin(t, "current") /\ last = EndLine(t)
  OBVIOUS
<1>8. first \in Formats /\ last \in Formats
  BY <1>7, LineTypes
<1>9. PICK a : a = <<first>> \o body
  OBVIOUS
<1>10. <<first>> \in Seq(Formats) /\ Len(<<first>>) = 1 /\ <<first>>[1] = first
  BY <1>8
<1>11. <<last>> \in Seq(Formats) /\ Len(<<last>>) = 1 /\ <<last>>[1] = last
  BY <1>8
<1>12. /\ a \in Seq(Formats) /\ Len(a) = n + 1 /\ a[1] = first
       /\ \A i \in 1..n : a[i + 1] = body[i]
  <2>1. /\ a \in Seq(Formats) /\ Len(a) = 1 + n
        /\ \A i \in 1..(1 + n) : a[i] = IF i <= 1 THEN <<first>>[i] ELSE body[i - 1]
    BY <1>6, <1>9, <1>10, ConcatProperties
  <2> QED BY <1>10, <2>1
<1>13. PICK e : e = a \o <<last>>
  OBVIOUS
<1>14. /\ e \in Seq(Formats) /\ Len(e) = n + 2 /\ e[1] = first /\ e[n + 2] = last
       /\ \A i \in 1..n : e[i + 1] = body[i]
  <2>1. /\ e \in Seq(Formats) /\ Len(e) = (n + 1) + 1
        /\ \A i \in 1..((n + 1) + 1) : e[i] = IF i <= n + 1 THEN a[i] ELSE <<last>>[i - (n + 1)]
    BY <1>11, <1>12, <1>13, ConcatProperties
  <2> QED BY <1>11, <1>12, <2>1
<1>15. e = Encoded(t)
  BY <1>1, <1>7, <1>9, <1>13 DEF Encoded
<1> QED BY <1>2, <1>5, <1>7, <1>14, <1>15

JoinStep(v, t, S) ==
  IF t \notin S THEN v ELSE v \o (IF v = <<>> THEN <<>> ELSE <<BlankLine>>) \o Encoded(t)

LEMMA JoinStepType ==
  ASSUME NEW S, NEW t \in Templates, NEW v \in Seq(Formats)
  PROVE  JoinStep(v, t, S) \in Seq(Formats)
<1>1. Encoded(t) \in Seq(Formats)
  BY EncodedLines
<1>2. PICK blank : blank = IF v = <<>> THEN <<>> ELSE <<BlankLine>>
  OBVIOUS
<1>3. blank \in Seq(Formats)
  BY <1>2, LineTypes
<1>4. v \o blank \o Encoded(t) \in Seq(Formats)
  BY <1>1, <1>3, ConcatProperties
<1> QED BY <1>2, <1>4 DEF JoinStep

LEMMA JoinedSteps ==
  ASSUME NEW S
  PROVE  \E f : /\ f[0] = <<>> /\ Joined(S) = f[Len(Order)]
                /\ \A i \in 0..Len(Order) : f[i] \in Seq(Formats)
                /\ \A i \in 1..Len(Order) : f[i] = JoinStep(f[i - 1], Order[i], S)
<1> DEFINE n == Len(Order)
           V == [i \in 0..n |-> Seq(Formats)]
           step == [i \in 1..n |-> [v \in Seq(Formats) |-> JoinStep(v, Order[i], S)]]
<1>1. n \in Nat /\ \A i \in 1..n : Order[i] \in Templates
  BY OrderAssumption, LenProperties
<1>2. \A i \in 1..n : \A v \in Seq(Formats) : JoinStep(v, Order[i], S) \in Seq(Formats)
  BY <1>1, JoinStepType
<1>3. \A i \in 0..n : V[i] = Seq(Formats)
  OBVIOUS
<1>4. \A i \in 1..n : \A v \in Seq(Formats) : step[i][v] = JoinStep(v, Order[i], S)
  OBVIOUS
<1> HIDE DEF V, step
<1>5. <<>> \in V[0]
  <2>1. V[0] = Seq(Formats)
    BY <1>1, <1>3
  <2> QED BY <2>1, EmptySeq, Zenon
<1>6. StepsStay(n, V, step)
  <2> SUFFICES ASSUME NEW i \in 1..n, NEW v \in V[i - 1] PROVE step[i][v] \in V[i]
    BY DEF StepsStay
  <2>1. i - 1 \in 0..n /\ i \in 0..n
    BY <1>1
  <2> HIDE DEF n
  <2> QED BY <1>2, <1>3, <1>4, <2>1
<1>7. PICK f : Computed(f, n, <<>>, step) /\ Stays(f, n, V)
  BY <1>1, <1>5, <1>6, Recursion
<1> DEFINE Join(g) == g = [i \in 0..n |->
                             IF i = 0 THEN <<>>
                             ELSE IF Order[i] \notin S THEN g[i - 1]
                             ELSE g[i - 1] \o (IF g[i - 1] = <<>> THEN <<>> ELSE <<BlankLine>>)
                                           \o Encoded(Order[i])]
<1>8. Join(f)
  <2>1. \A i \in 1..n : f[i] = JoinStep(f[i - 1], Order[i], S)
    <3> SUFFICES ASSUME NEW i \in 1..n PROVE f[i] = JoinStep(f[i - 1], Order[i], S)
      OBVIOUS
    <3>1. i - 1 \in 0..n /\ V[i - 1] = Seq(Formats)
      BY <1>1, <1>3
    <3>2. f[i] = step[i][f[i - 1]] /\ f[i - 1] \in Seq(Formats)
      BY <1>7, <3>1 DEF Computed, Stays
    <3> HIDE DEF n
    <3> QED BY <1>4, <3>2
  <2>2. \A i \in 0..n : i # 0 => i \in 1..n
    BY <1>1
  <2>3. \A i \in 0..n : f[i] = IF i = 0 THEN <<>>
                               ELSE IF Order[i] \notin S THEN f[i - 1]
                               ELSE f[i - 1] \o (IF f[i - 1] = <<>> THEN <<>> ELSE <<BlankLine>>)
                                             \o Encoded(Order[i])
    BY <1>7, <2>1, <2>2 DEF Computed, JoinStep
  <2>4. f = [i \in 0..n |-> f[i]]
    BY <1>7 DEF Computed
  <2> QED BY <2>3, <2>4
<1>9. PICK g : g = CHOOSE h : Join(h)
  OBVIOUS
<1>10. Join(g)
  BY <1>8, <1>9
<1>11. Joined(S) = g[n]
  BY <1>9 DEF Joined
<1>12. g[0] = <<>> /\ \A i \in 1..n : g[i] = JoinStep(g[i - 1], Order[i], S)
  <2>1. \A i \in 0..n : g[i] = IF i = 0 THEN <<>>
                               ELSE IF Order[i] \notin S THEN g[i - 1]
                               ELSE g[i - 1] \o (IF g[i - 1] = <<>> THEN <<>> ELSE <<BlankLine>>)
                                             \o Encoded(Order[i])
    BY <1>10
  <2>2. 0 \in 0..n /\ \A i \in 1..n : i \in 0..n /\ i # 0
    BY <1>1
  <2> HIDE DEF Join
  <2> QED BY <2>1, <2>2 DEF JoinStep
<1> HIDE DEF Join
<1> DEFINE T == {i \in 0..n : g[i] \in Seq(Formats)}
<1>13. 0 \in T
  <2>1. g[0] \in Seq(Formats)
    BY <1>12, EmptySeq, Zenon
  <2>2. 0 \in 0..n
    BY <1>1
  <2> QED BY <2>1, <2>2
<1>14. \A i \in 1..n : i - 1 \in T => i \in T
  <2>1. \A i \in 1..n : i \in 0..n
    OBVIOUS
  <2> QED BY <1>2, <1>12, <2>1
<1> HIDE DEF T
<1>15. 0..n \subseteq T
  BY <1>1, <1>13, <1>14, Induction
<1>16. \A i \in 0..n : g[i] \in Seq(Formats)
  BY <1>15 DEF T
<1> QED BY <1>11, <1>12, <1>16

\* The markers of x are of templates of S.
MarksOnly(x, S) == \A i \in 1..Len(x) : x[i].kind \in {"begin", "end"} => x[i].of \in S

LEMMA MarksConcat ==
  ASSUME NEW S, NEW x \in Seq(Formats), NEW y \in Seq(Formats), MarksOnly(x, S), MarksOnly(y, S)
  PROVE  x \o y \in Seq(Formats) /\ MarksOnly(x \o y, S)
<1>1. PICK m \in Nat, n \in Nat : m = Len(x) /\ n = Len(y)
  BY LenProperties
<1>2. PICK z : z = x \o y
  OBVIOUS
<1>3. /\ z \in Seq(Formats) /\ Len(z) = m + n
      /\ \A i \in 1..(m + n) : z[i] = IF i <= m THEN x[i] ELSE y[i - m]
  BY <1>1, <1>2, ConcatProperties
<1>4. \A i \in 1..(m + n) : (i <= m => i \in 1..m) /\ (~(i <= m) => i - m \in 1..n)
  OBVIOUS
<1>5. MarksOnly(z, S)
  BY <1>1, <1>3, <1>4 DEF MarksOnly
<1> QED BY <1>2, <1>3, <1>5

LEMMA MarksSmall ==
  ASSUME NEW S
  PROVE  /\ <<>> \in Seq(Formats) /\ MarksOnly(<<>>, S)
         /\ <<BlankLine>> \in Seq(Formats) /\ MarksOnly(<<BlankLine>>, S)
<1>1. MarksOnly(<<>>, S)
  BY DEF MarksOnly
<1>2. PICK l : l = BlankLine
  OBVIOUS
<1>3. l \in Formats /\ l.kind = "blank"
  BY <1>2, LineTypes DEF BlankLine
<1>4. <<l>> \in Seq(Formats) /\ MarksOnly(<<l>>, S)
  BY <1>3 DEF MarksOnly
<1> QED BY <1>1, <1>2, <1>4

LEMMA MarksEncoded ==
  ASSUME NEW S, NEW t \in Templates \cap S
  PROVE  MarksOnly(Encoded(t), S)
<1>1. PICK n \in Nat : n = Len(Content[t])
  BY EncodedLines
<1>2. PICK e : e = Encoded(t)
  OBVIOUS
<1>3. /\ Len(e) = n + 2 /\ e[1].of = t /\ e[n + 2].of = t
      /\ \A i \in 1..n : e[i + 1].kind = "rule"
  <2>1. /\ Len(e) = n + 2 /\ e[1] = Begin(t, "current") /\ e[n + 2] = EndLine(t)
        /\ \A i \in 1..n : e[i + 1] = Rule(Content[t][i])
    BY <1>1, <1>2, EncodedLines
  <2>2. Begin(t, "current").of = t /\ EndLine(t).of = t /\ \A r : Rule(r).kind = "rule"
    BY DEF Begin, EndLine, Rule
  <2> QED BY <2>1, <2>2
<1>4. \A i \in 1..(n + 2) : i = 1 \/ i = n + 2 \/ (i - 1 \in 1..n /\ (i - 1) + 1 = i)
  OBVIOUS
<1>5. \A i \in 1..(n + 2) : i = 1 \/ i = n + 2 \/ e[i].kind = "rule"
  BY <1>3, <1>4
<1>6. MarksOnly(e, S)
  BY <1>3, <1>5 DEF MarksOnly
<1> QED BY <1>2, <1>6

LEMMA JoinedMarks ==
  ASSUME NEW S
  PROVE  Joined(S) \in Seq(Formats) /\ MarksOnly(Joined(S), S)
<1>1. PICK f : /\ f[0] = <<>> /\ Joined(S) = f[Len(Order)]
               /\ \A i \in 0..Len(Order) : f[i] \in Seq(Formats)
               /\ \A i \in 1..Len(Order) : f[i] = JoinStep(f[i - 1], Order[i], S)
  BY JoinedSteps
<1>2. PICK n \in Nat : n = Len(Order) /\ \A i \in 1..n : Order[i] \in Templates
  BY OrderAssumption, LenProperties
<1> DEFINE T == {i \in 0..n : MarksOnly(f[i], S)}
<1>3. 0 \in T
  <2>1. MarksOnly(f[0], S)
    BY <1>1, MarksSmall, Zenon
  <2> QED BY <2>1
<1>4. ASSUME NEW i \in 1..n, i - 1 \in T PROVE i \in T
  <2>1. PICK v, t : v = f[i - 1] /\ t = Order[i]
    OBVIOUS
  <2>2. v \in Seq(Formats) /\ MarksOnly(v, S) /\ t \in Templates /\ f[i] = JoinStep(v, t, S)
    BY <1>1, <1>2, <1>4, <2>1
  <2>3. CASE t \notin S
    BY <2>2, <2>3 DEF JoinStep
  <2>4. CASE t \in S
    <3>1. PICK blank : blank = IF v = <<>> THEN <<>> ELSE <<BlankLine>>
      OBVIOUS
    <3>2. blank \in Seq(Formats) /\ MarksOnly(blank, S)
      BY <3>1, MarksSmall, Zenon
    <3>3. v \o blank \in Seq(Formats) /\ MarksOnly(v \o blank, S)
      BY <2>2, <3>2, MarksConcat
    <3>4. MarksOnly((v \o blank) \o Encoded(t), S)
      BY <2>2, <2>4, <3>3, EncodedLines, MarksEncoded, MarksConcat
    <3>5. f[i] = (v \o blank) \o Encoded(t)
      BY <2>2, <2>4, <3>1, Zenon DEF JoinStep
    <3>6. MarksOnly(f[i], S)
      BY <3>4, <3>5, Zenon
    <3> QED BY <3>6
  <2> QED BY <2>3, <2>4
<1> HIDE DEF T
<1>5. 0..n \subseteq T
  BY <1>3, <1>4, Induction
<1>6. n \in 0..n /\ n \in T
  BY <1>5
<1> QED BY <1>1, <1>2, <1>6 DEF T

\* What the plan to add appends has only markers of the templates it adds.
LEMMA Appended ==
  ASSUME NEW S, NEW d \in Seq(Formats), NEW e \in PlanAdd(d, S)
  PROVE  \E x \in Seq(Formats) : e = d \o x /\ MarksOnly(x, S)
<1>1. PICK j, sep : j = Joined(Additions(d, S)) /\ sep = Separator(d)
  OBVIOUS
<1>2. e = d \o sep \o j
  BY <1>1 DEF PlanAdd
<1>3. j \in Seq(Formats) /\ MarksOnly(j, Additions(d, S))
  BY <1>1, JoinedMarks
<1>4. MarksOnly(j, S)
  BY <1>3 DEF MarksOnly, Additions
<1>5. sep \in Seq(Formats) /\ MarksOnly(sep, S)
  BY <1>1, MarksSmall, Zenon DEF Separator
<1>6. sep \o j \in Seq(Formats) /\ MarksOnly(sep \o j, S)
  BY <1>3, <1>4, <1>5, MarksConcat
<1>7. e = d \o (sep \o j)
  BY <1>2, <1>3, <1>5, ConcatAssociative
<1> QED BY <1>6, <1>7

LEMMA AdditionType ==
  ASSUME NEW S, NEW d \in Seq(Formats), NEW e \in PlanAdd(d, S)
  PROVE  e \in Seq(Formats)
<1>1. PICK x \in Seq(Formats) : e = d \o x
  BY Appended
<1>2. d \o x \in Seq(Formats)
  BY ConcatProperties
<1> QED BY <1>1, <1>2

\* A document to which x was appended.
Extends(e, d, x) ==
  /\ e \in Seq(Formats) /\ Len(e) = Len(d) + Len(x)
  /\ \A i \in 1..Len(d) : e[i] = d[i]
  /\ \A i \in 1..Len(x) : e[Len(d) + i] = x[i]

LEMMA ConcatExtends ==
  ASSUME NEW d \in Seq(Formats), NEW x \in Seq(Formats)
  PROVE  Extends(d \o x, d, x)
<1>1. PICK m \in Nat, n \in Nat : m = Len(d) /\ n = Len(x)
  BY LenProperties
<1>2. PICK e : e = d \o x
  OBVIOUS
<1>3. /\ e \in Seq(Formats) /\ Len(e) = m + n
      /\ \A i \in 1..(m + n) : e[i] = IF i <= m THEN d[i] ELSE x[i - m]
  BY <1>1, <1>2, ConcatProperties
<1>4. \A i \in 1..m : i \in 1..(m + n) /\ i <= m
  OBVIOUS
<1>5. \A i \in 1..n : m + i \in 1..(m + n) /\ ~(m + i <= m) /\ (m + i) - m = i
  OBVIOUS
<1>6. \A i \in 1..m : e[i] = d[i]
  BY <1>3, <1>4
<1>7. \A i \in 1..n : e[m + i] = x[i]
  BY <1>3, <1>5
<1>8. Extends(e, d, x)
  BY <1>1, <1>3, <1>6, <1>7 DEF Extends
<1> QED BY <1>2, <1>8

\* The blocks of a document stay its blocks, line for line, when x is appended.
LEMMA BlocksStayInFront ==
  ASSUME NEW d \in Seq(Formats), NEW x \in Seq(Formats), NEW e, Extends(e, d, x), NEW b \in Blocks(d)
  PROVE  b \in Blocks(e) /\ e[b[1]] = d[b[1]] /\ SamePiece(e, b, d, b)
<1>1. PICK m \in Nat, n \in Nat : m = Len(d) /\ n = Len(x)
  BY LenProperties
<1>2. PICK i \in 1..m, j \in 1..m : i = b[1] /\ j = b[2] /\ b = <<i, j>>
  BY <1>1, BlockFields
<1>3. /\ i < j /\ d[i].kind = "begin" /\ d[j].kind = "end" /\ d[j].of = d[i].of
      /\ \A k \in 1..m : i < k /\ k < j => d[k].kind # "end"
  BY <1>1, <1>2, BlockFields
<1>4. e \in Seq(Formats) /\ Len(e) = m + n /\ \A k \in 1..m : e[k] = d[k]
  BY <1>1 DEF Extends
<1>5. i \in 1..Len(e) /\ j \in 1..Len(e) /\ \A k \in 1..Len(e) : i < k /\ k < j => k \in 1..m
  BY <1>4
<1>6. <<i, j>> \in Blocks(e)
  BY <1>3, <1>4, <1>5, BlockMade
<1>7. SubSeq(e, i, j) = SubSeq(d, i, j)
  <2>1. \A q \in i..j : q \in 1..m
    OBVIOUS
  <2>2. \A q \in 1..m : d[q] \in Formats
    BY <1>1, LenProperties
  <2>3. PICK y, z : y = SubSeq(e, i, j) /\ z = SubSeq(d, i, j)
    OBVIOUS
  <2>4. \A q \in i..j : e[q] \in Formats /\ d[q] \in Formats
    BY <1>4, <2>1, <2>2
  <2>5. /\ y \in Seq(Formats) /\ Len(y) = j - i + 1 /\ \A q \in 1..(j - i + 1) : y[q] = e[i + q - 1]
        /\ z \in Seq(Formats) /\ Len(z) = j - i + 1 /\ \A q \in 1..(j - i + 1) : z[q] = d[i + q - 1]
    BY <1>3, <2>3, <2>4, SubSeqProperties
  <2>6. \A q \in 1..(j - i + 1) : i + q - 1 \in 1..m
    OBVIOUS
  <2>7. \A q \in 1..(j - i + 1) : y[q] = z[q]
    BY <1>4, <2>5, <2>6
  <2>8. y = z
    BY <2>5, <2>7, SeqEqual
  <2> QED BY <2>3, <2>8
<1> QED BY <1>2, <1>4, <1>6, <1>7 DEF SamePiece

\* No other block of a template none of whose markers is appended.
LEMMA NoBlockBehind ==
  ASSUME NEW d \in Seq(Formats), NEW x \in Seq(Formats), NEW e, Extends(e, d, x),
         NEW S, MarksOnly(x, S), NEW b \in Blocks(e), e[b[1]].of \notin S
  PROVE  b \in Blocks(d) /\ e[b[1]] = d[b[1]]
<1>1. PICK m \in Nat, n \in Nat : m = Len(d) /\ n = Len(x)
  BY LenProperties
<1>2. e \in Seq(Formats) /\ Len(e) = m + n /\ (\A k \in 1..m : e[k] = d[k])
      /\ \A k \in 1..n : e[m + k] = x[k]
  BY <1>1 DEF Extends
<1>9. PICK p \in Nat : p = Len(e) /\ p = m + n
  BY <1>1, <1>2
<1>3. PICK i \in 1..p, j \in 1..p : i = b[1] /\ j = b[2] /\ b = <<i, j>>
  BY <1>2, <1>9, BlockFields
<1>4. /\ i < j /\ e[i].kind = "begin" /\ e[j].kind = "end" /\ e[j].of = e[i].of
      /\ \A k \in 1..p : i < k /\ k < j => e[k].kind # "end"
  <2>1. /\ b[1] < b[2] /\ e[b[1]].kind = "begin" /\ e[b[2]].kind = "end" /\ e[b[2]].of = e[b[1]].of
        /\ \A k \in 1..Len(e) : b[1] < k /\ k < b[2] => e[k].kind # "end"
    BY <1>2, BlockFields
  <2> QED BY <1>3, <1>9, <2>1
<1>5. j <= m
  <2> SUFFICES ASSUME ~(j <= m) PROVE FALSE
    OBVIOUS
  <2>1. j - m \in 1..n /\ m + (j - m) = j
    BY <1>1, <1>9
  <2>2. e[j] = x[j - m]
    BY <1>2, <2>1
  <2>3. x[j - m].of \in S
    BY <1>1, <1>4, <2>1, <2>2 DEF MarksOnly
  <2> QED BY <1>3, <1>4, <2>2, <2>3
<1>6. i \in 1..m /\ j \in 1..m /\ \A k \in 1..m : k \in 1..p
  BY <1>4, <1>5, <1>9
<1>7. /\ d[i] = e[i] /\ d[j] = e[j]
      /\ \A k \in 1..m : i < k /\ k < j => d[k].kind # "end"
  BY <1>2, <1>4, <1>6
<1>8. <<i, j>> \in Blocks(d)
  BY <1>1, <1>4, <1>6, <1>7, BlockMade
<1> QED BY <1>3, <1>7, <1>8

LEMMA AdditionKeeps ==
  ASSUME NEW S, NEW d \in Seq(Formats), NEW e \in PlanAdd(d, S), NEW t \in Templates \ S
  PROVE  /\ BlockLines(d, t) \subseteq BlockLines(e, t)
         /\ Managed(d, t) => State(e, t) = State(d, t)
<1>1. PICK x \in Seq(Formats) : e = d \o x /\ MarksOnly(x, S)
  BY Appended
<1>2. Extends(e, d, x)
  BY <1>1, ConcatExtends
<1>3. e \in Seq(Formats) /\ MarksOnly(x, S)
  BY <1>1, <1>2 DEF Extends
<1>4. \A b \in BlocksOf(d, t) : b \in BlocksOf(e, t) /\ e[b[1]] = d[b[1]] /\ SamePiece(e, b, d, b)
  BY <1>2, BlocksStayInFront DEF BlocksOf
<1>5. \A b \in BlocksOf(e, t) : b \in BlocksOf(d, t)
  <2> SUFFICES ASSUME NEW b \in BlocksOf(e, t) PROVE b \in BlocksOf(d, t)
    OBVIOUS
  <2>1. b \in Blocks(e) /\ e[b[1]].of = t /\ t \notin S
    BY DEF BlocksOf
  <2>2. b \in Blocks(d) /\ e[b[1]] = d[b[1]]
    <3>1. e[b[1]].of \notin S
      BY <2>1
    <3> QED BY <1>2, <1>3, <2>1, <3>1, NoBlockBehind
  <2> QED BY <2>1, <2>2 DEF BlocksOf
<1>6. BlockLines(d, t) \subseteq BlockLines(e, t)
  BY <1>4 DEF BlockLines, SamePiece
<1>7. ASSUME Managed(d, t) PROVE State(e, t) = State(d, t)
  <2>1. PICK b : LastOf(b, d, t)
    BY <1>7, ManagedByBlock, LastExists
  <2>2. LastOf(b, e, t)
    BY <1>4, <1>5, <2>1 DEF LastOf
  <2>3. e[b[1]] = d[b[1]]
    BY <1>4, <2>1 DEF LastOf
  <2> QED BY <1>3, <2>1, <2>2, <2>3, StateOfLast
<1> QED BY <1>6, <1>7

-----------------------------------------------------------------------------
(* Every plan makes a document.                                            *)

LEMMA PieceType ==
  ASSUME NEW v \in Seq(Formats), NEW m \in Nat \ {0}, NEW n \in Int, n <= Len(v)
  PROVE  SubSeq(v, m, n) \in Seq(Formats) /\ (m = 1 /\ n \in Nat => Len(SubSeq(v, m, n)) = n)
<1>1. PICK k \in Nat : k = Len(v) /\ \A i \in 1..k : v[i] \in Formats
  BY LenProperties
<1>2. \A i \in m..n : v[i] \in Formats
  BY <1>1
<1>3. PICK s : s = SubSeq(v, m, n)
  OBVIOUS
<1>4. s \in Seq(Formats) /\ Len(s) = IF m <= n THEN n - m + 1 ELSE 0
  BY <1>2, <1>3, SubSeqProperties
<1> QED BY <1>3, <1>4

LEMMA BlockPutType ==
  ASSUME NEW v \in Seq(Formats), NEW i \in Nat \ {0}, i <= Len(v) + 1, NEW j \in Nat \ {0},
         NEW t \in Templates
  PROVE  LET e == SubSeq(v, 1, i - 1) \o Encoded(t) \o SubSeq(v, j, Len(v))
         IN e \in Seq(Formats) /\ Len(e) >= i - 1
<1>1. PICK n \in Nat : n = Len(v)
  BY LenProperties
<1>2. PICK x, y, z : x = SubSeq(v, 1, i - 1) /\ y = Encoded(t) /\ z = SubSeq(v, j, n)
  OBVIOUS
<1>3. x \in Seq(Formats) /\ Len(x) = i - 1
  <2>1. i - 1 \in Int /\ i - 1 <= Len(v) /\ i - 1 \in Nat /\ 1 \in Nat \ {0}
    BY <1>1
  <2> QED BY <1>2, <2>1, PieceType
<1>4. z \in Seq(Formats)
  BY <1>1, <1>2, PieceType
<1>5. y \in Seq(Formats)
  BY <1>2, EncodedLines
<1>6. x \o y \in Seq(Formats) /\ Len(x \o y) = (i - 1) + Len(y)
  BY <1>3, <1>5, ConcatProperties
<1>7. (x \o y) \o z \in Seq(Formats) /\ Len((x \o y) \o z) = ((i - 1) + Len(y)) + Len(z)
  BY <1>4, <1>6, ConcatProperties
<1>8. Len(y) \in Nat /\ Len(z) \in Nat
  BY <1>4, <1>5, LenProperties
<1>9. Len((x \o y) \o z) >= i - 1
  BY <1>7, <1>8
<1> QED BY <1>1, <1>2, <1>7, <1>9

LEMMA AdoptionType ==
  ASSUME NEW d \in Seq(Formats), NEW t \in Templates, NEW e \in PlanAdopt(d, t)
  PROVE  e \in Seq(Formats)
<1>1. PICK n \in Nat : n = Len(d) /\ DOMAIN d = 1..n
  BY LenProperties
<1>2. PICK i : i = CHOOSE k \in Segments(d, t) : \A j \in Segments(d, t) : k <= j
  OBVIOUS
<1>3. Segments(d, t) \subseteq 1..n /\ Segments(d, t) # {}
  BY <1>1 DEF Segments, PlanAdopt
<1>4. \E k \in Segments(d, t) : \A j \in Segments(d, t) : k <= j
  BY <1>3, Least
<1>5. i \in Segments(d, t)
  BY <1>2, <1>4
<1>6. i \in 1..n
  BY <1>3, <1>5
<1>7. Len(Content[t]) \in Nat \ {0}
  BY EncodedLines
<1>8. PICK j \in Nat \ {0} : j = i + Len(Content[t])
  BY <1>6, <1>7
<1>9. i \in Nat \ {0} /\ i <= Len(d) + 1
  BY <1>1, <1>6
<1>10. e = SubSeq(d, 1, i - 1) \o Encoded(t) \o SubSeq(d, j, Len(d))
  BY <1>2, <1>8 DEF PlanAdopt
<1> QED BY <1>9, <1>10, BlockPutType

UpdateStep(d, S, k, v) ==
  LET i == Len(d) - k + 1
      stale == {b \in Stale(d, S) : b[1] = i}
  IN IF stale = {} THEN v ELSE Replaced(v, CHOOSE b \in stale : TRUE, d[i].of)
AtLeast(n) == {s \in Seq(Formats) : Len(s) >= n}

LEMMA UpdateStepType ==
  ASSUME NEW d \in Seq(Formats), NEW S, NEW k \in 1..Len(d), NEW v \in AtLeast(Len(d) - (k - 1))
  PROVE  UpdateStep(d, S, k, v) \in AtLeast(Len(d) - k)
<1>1. PICK n \in Nat : n = Len(d)
  BY LenProperties
<1>2. PICK i \in 1..n : i = Len(d) - k + 1
  BY <1>1
<1>3. PICK stale : stale = {b \in Stale(d, S) : b[1] = i}
  OBVIOUS
<1>4. v \in Seq(Formats) /\ i <= Len(v) /\ Len(v) \in Nat /\ n - k = i - 1
  BY <1>1, <1>2, LenProperties DEF AtLeast
<1>5. CASE stale = {}
  <2>1. UpdateStep(d, S, k, v) = v
    BY <1>2, <1>3, <1>5 DEF UpdateStep
  <2> QED BY <1>1, <1>4, <2>1 DEF AtLeast
<1>6. CASE stale # {}
  <2>1. PICK b : b = CHOOSE c \in stale : TRUE
    OBVIOUS
  <2>2. b \in stale
    BY <1>6, <2>1
  <2>3. b \in Blocks(d) /\ b[1] = i
    BY <1>3, <2>2 DEF Stale, BlocksIn
  <2>4. b[2] \in 1..n /\ d[i].kind = "begin"
    BY <1>1, <2>3, BlockFields
  <2>5. PICK t \in Templates : t = d[i].of
    BY <1>1, <2>4, BeginForms
  <2>6. UpdateStep(d, S, k, v) = Replaced(v, b, t)
    BY <1>2, <1>3, <1>6, <2>1, <2>5 DEF UpdateStep
  <2>7. PICK j \in Nat \ {0} : j = b[2] + 1
    BY <2>4
  <2>8. PICK e : e = SubSeq(v, 1, i - 1) \o Encoded(t) \o SubSeq(v, j, Len(v))
    OBVIOUS
  <2>9. UpdateStep(d, S, k, v) = e
    BY <2>3, <2>6, <2>7, <2>8 DEF Replaced
  <2>10. e \in Seq(Formats) /\ Len(e) >= i - 1
    <3>1. i \in Nat \ {0} /\ i <= Len(v) + 1 /\ v \in Seq(Formats)
      BY <1>4
    <3> QED BY <2>8, <3>1, BlockPutType
  <2>11. Len(d) - k = i - 1
    BY <1>1, <1>4
  <2>12. e \in AtLeast(Len(d) - k)
    BY <2>10, <2>11 DEF AtLeast
  <2> QED BY <2>9, <2>12
<1> QED BY <1>5, <1>6

\* The document after each line that was looked at.
Updating(d, S, g) == g[0] = d /\ \A k \in 1..Len(d) : g[k] = UpdateStep(d, S, k, g[k - 1])

LEMMA UpdateSteps ==
  ASSUME NEW d \in Seq(Formats), NEW S, NEW e \in PlanUpdate(d, S)
  PROVE  \E g : Updating(d, S, g) /\ e = g[Len(d)]
<1> DEFINE n == Len(d)
           V == [k \in 0..n |-> AtLeast(n - k)]
           step == [k \in 1..n |-> [v \in AtLeast(n - (k - 1)) |-> UpdateStep(d, S, k, v)]]
<1>1. n \in Nat
  BY LenProperties
<1>2. \A k \in 1..n : \A v \in AtLeast(n - (k - 1)) : UpdateStep(d, S, k, v) \in AtLeast(n - k)
  BY UpdateStepType
<1>3. \A k \in 0..n : V[k] = AtLeast(n - k)
  OBVIOUS
<1>4. \A k \in 1..n : \A v \in AtLeast(n - (k - 1)) : step[k][v] = UpdateStep(d, S, k, v)
  OBVIOUS
<1> HIDE DEF V, step
<1>5. d \in V[0]
  <2>1. V[0] = AtLeast(n - 0) /\ d \in AtLeast(n) /\ n - 0 = n
    BY <1>1, <1>3 DEF AtLeast
  <2> QED BY <2>1
<1>6. StepsStay(n, V, step)
  <2> SUFFICES ASSUME NEW k \in 1..n, NEW v \in V[k - 1] PROVE step[k][v] \in V[k]
    BY DEF StepsStay
  <2>1. k - 1 \in 0..n /\ k \in 0..n
    BY <1>1
  <2> HIDE DEF n
  <2> QED BY <1>2, <1>3, <1>4, <2>1
<1>7. PICK f : Computed(f, n, d, step) /\ Stays(f, n, V)
  BY <1>1, <1>5, <1>6, Recursion
<1> DEFINE Patched(g) == g = [k \in 0..n |->
                             IF k = 0 THEN d
                             ELSE IF {b \in Stale(d, S) : b[1] = n - k + 1} = {} THEN g[k - 1]
                             ELSE Replaced(g[k - 1], CHOOSE b \in {b \in Stale(d, S) : b[1] = n - k + 1} : TRUE,
                                           d[n - k + 1].of)]
<1>8. Patched(f)
  <2>1. \A k \in 1..n : f[k] = UpdateStep(d, S, k, f[k - 1])
    <3> SUFFICES ASSUME NEW k \in 1..n PROVE f[k] = UpdateStep(d, S, k, f[k - 1])
      OBVIOUS
    <3>1. k - 1 \in 0..n /\ V[k - 1] = AtLeast(n - (k - 1))
      BY <1>1, <1>3
    <3>2. f[k] = step[k][f[k - 1]] /\ f[k - 1] \in AtLeast(n - (k - 1))
      BY <1>7, <3>1 DEF Computed, Stays
    <3> HIDE DEF n
    <3> QED BY <1>4, <3>2
  <2>2. \A k \in 0..n : k # 0 => k \in 1..n
    BY <1>1
  <2>3. \A k \in 0..n : f[k] = IF k = 0 THEN d
                               ELSE IF {b \in Stale(d, S) : b[1] = n - k + 1} = {} THEN f[k - 1]
                               ELSE Replaced(f[k - 1], CHOOSE b \in {b \in Stale(d, S) : b[1] = n - k + 1} : TRUE,
                                             d[n - k + 1].of)
    BY <1>7, <2>1, <2>2 DEF Computed, UpdateStep
  <2>4. f = [k \in 0..n |-> f[k]]
    BY <1>7 DEF Computed
  <2> QED BY <2>3, <2>4
<1>9. PICK g : g = CHOOSE h : Patched(h)
  OBVIOUS
<1>10. Patched(g)
  BY <1>8, <1>9
<1>11. e = g[n]
  BY <1>9 DEF PlanUpdate
<1>12. g[0] = d /\ \A k \in 1..n : g[k] = UpdateStep(d, S, k, g[k - 1])
  <2>1. \A k \in 0..n : g[k] = IF k = 0 THEN d
                               ELSE IF {b \in Stale(d, S) : b[1] = n - k + 1} = {} THEN g[k - 1]
                               ELSE Replaced(g[k - 1], CHOOSE b \in {b \in Stale(d, S) : b[1] = n - k + 1} : TRUE,
                                             d[n - k + 1].of)
    BY <1>10
  <2>2. 0 \in 0..n /\ \A k \in 1..n : k \in 0..n /\ k # 0
    BY <1>1
  <2> HIDE DEF Patched
  <2> QED BY <2>1, <2>2 DEF UpdateStep
<1> HIDE DEF Patched
<1> QED BY <1>11, <1>12 DEF Updating

LEMMA UpdateType ==
  ASSUME NEW d \in Seq(Formats), NEW S, NEW e \in PlanUpdate(d, S)
  PROVE  e \in Seq(Formats)
<1>1. PICK n \in Nat : n = Len(d)
  BY LenProperties
<1>2. PICK g : Updating(d, S, g) /\ e = g[Len(d)]
  BY UpdateSteps
<1> DEFINE T == {k \in 0..n : g[k] \in AtLeast(n - k)}
<1>3. 0 \in T
  BY <1>1, <1>2 DEF AtLeast, Updating
<1>4. ASSUME NEW k \in 1..n, k - 1 \in T PROVE k \in T
  <2>1. k \in 0..n /\ g[k - 1] \in AtLeast(Len(d) - (k - 1)) /\ g[k] = UpdateStep(d, S, k, g[k - 1])
    BY <1>1, <1>2, <1>4 DEF Updating
  <2>2. UpdateStep(d, S, k, g[k - 1]) \in AtLeast(Len(d) - k)
    BY <1>1, <2>1, UpdateStepType
  <2> QED BY <1>1, <2>1, <2>2
<1> HIDE DEF T
<1>5. 0..n \subseteq T
  BY <1>1, <1>3, <1>4, Induction
<1>6. g[n] \in AtLeast(n - n)
  <2>1. n \in 0..n
    BY <1>1
  <2> QED BY <1>5, <2>1 DEF T
<1> QED BY <1>1, <1>2, <1>6 DEF AtLeast

\* A rule that stays and lies in no block lies in no block afterwards, where every begin
\* marker opened one.
LEMMA HandwrittenStays ==
  ASSUME NEW S, NEW d \in Seq(Formats), NEW e \in PlanRemove(d, S), WellFormed(d),
         NEW at, Picks(e, d, Len(d), Gone(d, S), at),
         NEW k \in 1..Len(e), at[k] \in Handwritten(d)
  PROVE  k \in Handwritten(e)
<1>1. e \in Seq(Formats)
  BY RemovalPicks
<1>2. PICK n \in Nat, m \in Nat : n = Len(d) /\ m = Len(e) /\ DOMAIN d = 1..n /\ DOMAIN e = 1..m
  BY <1>1, LenProperties
<1>3. /\ \A q \in 1..m : at[q] \in 1..n /\ at[q] \notin Gone(d, S) /\ e[q] = d[at[q]]
      /\ \A q, r \in 1..m : q < r => at[q] < at[r]
  BY <1>2 DEF Picks
<1>4. e[k] = d[at[k]] /\ d[at[k]].kind = "rule" /\ \A b \in Blocks(d) : at[k] \notin Lines(b)
  BY <1>2, <1>3 DEF Handwritten, RuleLines, IsKind
<1>5. ASSUME NEW c \in Blocks(e), k \in Lines(c) PROVE FALSE
  <2>1. c[1] \in 1..m /\ c[2] \in 1..m /\ e[c[1]].kind = "begin" /\ c[1] <= k /\ k <= c[2]
    BY <1>1, <1>2, <1>5, BlockFields DEF Lines
  <2>2. at[c[1]] \in 1..n /\ d[at[c[1]]].kind = "begin"
    BY <1>3, <2>1
  <2>3. PICK b \in Blocks(d) : b[1] = at[c[1]]
    BY <1>2, <2>2 DEF WellFormed, IsKind
  <2>4. b[1] \in 1..n /\ b[2] \in 1..n /\ b[1] < b[2]
    BY <1>2, BlockFields
  <2>5. d[b[1]].of \notin S
    <3>1. SUFFICES ASSUME d[b[1]].of \in S PROVE FALSE
      OBVIOUS
    <3>2. b \in BlocksIn(d, S) /\ b[1] \in Lines(b)
      BY <2>4, <3>1 DEF BlocksIn, Lines
    <3>3. b[1] \in Gone(d, S)
      BY <3>2 DEF Gone
    <3> QED BY <1>3, <2>1, <2>3, <3>3
  <2>6. PICK x \in Blocks(e) : at[x[1]] = b[1] /\ at[x[2]] = b[2]
    <3>1. \A i \in Lines(b) : i \notin Gone(d, S)
      BY <2>5, RemovalSpares
    <3> QED BY <1>1, <3>1, BlockStays
  <2>7. x[1] \in 1..m /\ x[2] \in 1..m
    BY <1>1, <1>2, BlockFields
  <2>8. x[1] = c[1]
    <3>1. at[x[1]] = at[c[1]] /\ at[c[1]] \in Int
      BY <1>3, <2>1, <2>3, <2>6
    <3>2. ~(x[1] < c[1]) /\ ~(c[1] < x[1])
      BY <1>3, <2>1, <2>7, <3>1
    <3> QED BY <2>1, <2>7, <3>2
  <2>9. x = c
    BY <1>1, <2>8, OneBlockPerBegin
  <2>10. at[c[1]] <= at[k] /\ at[k] <= at[c[2]]
    BY <1>2, <1>3, <2>1, SMTT(60)
  <2>11. at[k] \in Lines(b)
    BY <1>2, <1>3, <2>3, <2>4, <2>6, <2>9, <2>10 DEF Lines
  <2> QED BY <1>4, <2>11
<1> QED BY <1>2, <1>4, <1>5 DEF Handwritten, RuleLines, IsKind

\* The rules of a template that stays and is written by hand are not removed.
LEMMA HandwrittenNotGone ==
  ASSUME NEW S, NEW d \in Seq(Formats), NEW t \in Templates \ S, ByHand(d, t), ~Managed(d, t),
         NEW i \in Handwritten(d), d[i].of \in ToSet(Content[t])
  PROVE  i \notin Gone(d, S)
<1>1. State(d, t) = "full"
  <2>1. BlocksOf(d, t) = {}
    BY ManagedByBlock
  <2>2. ToSet(Content[t]) \subseteq RulesOf(d)
    BY DEF ByHand, RulesOf, Handwritten
  <2>3. ToSet(Content[t]) \cap RulesOf(d) = ToSet(Content[t])
    BY <2>2
  <2> QED BY <2>1, <2>3 DEF State
<1>2. t \in ReferencedBy(d[i].of) \cap (Installed(d) \ S)
  BY <1>1 DEF ReferencedBy, Installed
<1>3. i \notin SafeToRemove(d, S)
  BY <1>2 DEF SafeToRemove
<1>4. i \notin UNION {Lines(b) : b \in BlocksIn(d, S)}
  BY DEF BlocksIn, Handwritten
<1> QED BY <1>3, <1>4 DEF Gone

LEMMA RemovalKeepsByHand ==
  ASSUME NEW S, NEW d \in Seq(Formats), NEW e \in PlanRemove(d, S), NEW t \in Templates \ S,
         ByHand(d, t), ~Managed(d, t)
  PROVE  /\ ToSet(Content[t]) \subseteq RulesOf(e)
         /\ WellFormed(d) => ByHand(e, t)
<1>1. e \in Seq(Formats)
  BY RemovalPicks
<1>2. PICK at : Picks(e, d, Len(d), Gone(d, S), at)
  BY RemovalPicks
<1>3. PICK n \in Nat, m \in Nat : n = Len(d) /\ m = Len(e) /\ DOMAIN d = 1..n /\ DOMAIN e = 1..m
  BY <1>1, LenProperties
<1>4. ASSUME NEW r \in ToSet(Content[t])
      PROVE  \E k \in 1..m : at[k] \in Handwritten(d) /\ e[k] = d[at[k]] /\ e[k].of = r
  <2>1. PICK i \in Handwritten(d) : d[i].of = r
    BY DEF ByHand
  <2>2. i \notin Gone(d, S)
    BY <2>1, HandwrittenNotGone
  <2>3. i \in 1..n
    BY <1>3 DEF Handwritten, RuleLines
  <2>4. PICK k \in 1..m : at[k] = i
    BY <1>2, <1>3, <2>2, <2>3 DEF Picks
  <2>5. e[k] = d[at[k]]
    BY <1>2, <1>3 DEF Picks
  <2> QED BY <2>1, <2>4, <2>5
<1>5. ToSet(Content[t]) \subseteq RulesOf(e)
  <2>1. \A i \in Handwritten(d) : d[i].kind = "rule"
    BY DEF Handwritten, RuleLines, IsKind
  <2> QED BY <1>3, <1>4, <2>1 DEF RulesOf, RuleLines, IsKind
<1>6. ASSUME WellFormed(d) PROVE ByHand(e, t)
  <2>1. ASSUME NEW r \in ToSet(Content[t]) PROVE \E k \in Handwritten(e) : e[k].of = r
    <3>1. PICK k \in 1..m : at[k] \in Handwritten(d) /\ e[k].of = r
      BY <1>4
    <3>2. k \in Handwritten(e)
      BY <1>2, <1>3, <1>6, <3>1, HandwrittenStays
    <3> QED BY <3>1, <3>2
  <2> QED BY <2>1 DEF ByHand
<1> QED BY <1>5, <1>6

-----------------------------------------------------------------------------
(* Adding one template, and removing it again.                             *)

LEMMA JoinedOne ==
  ASSUME NEW t \in Templates
  PROVE  Joined({t}) = Encoded(t)
<1>1. PICK f : /\ f[0] = <<>> /\ Joined({t}) = f[Len(Order)]
               /\ \A i \in 0..Len(Order) : f[i] \in Seq(Formats)
               /\ \A i \in 1..Len(Order) : f[i] = JoinStep(f[i - 1], Order[i], {t})
  BY JoinedSteps
<1>2. PICK n \in Nat : n = Len(Order) /\ DOMAIN Order = 1..n
  BY OrderAssumption, LenProperties
<1>3. PICK p \in 1..n : Order[p] = t
  BY <1>2 DEF Templates, ToSet
<1>4. \A i \in 1..n : Order[i] = t => i = p
  BY <1>2, <1>3, OrderAssumption
<1>5. PICK e : e = Encoded(t)
  OBVIOUS
<1>6. e \in Seq(Formats)
  BY <1>5, EncodedLines
<1>7. JoinStep(<<>>, t, {t}) = e
  <2>1. <<>> \o <<>> = <<>> /\ <<>> \o e = e
    BY <1>6, ConcatEmptySeq, EmptySeq
  <2>2. JoinStep(<<>>, t, {t}) = (<<>> \o <<>>) \o e
    BY <1>5, Zenon DEF JoinStep
  <2> QED BY <2>1, <2>2, Zenon
<1>8. \A v, u : u # t => JoinStep(v, u, {t}) = v
  BY Zenon DEF JoinStep
<1>9. PICK empty : empty = <<>>
  OBVIOUS
<1>10. f[0] = empty /\ JoinStep(empty, t, {t}) = e
  BY <1>1, <1>7, <1>9, Zenon
<1> DEFINE T == {i \in 0..n : f[i] = IF i < p THEN empty ELSE e}
<1>11. 0 \in T
  BY <1>10
<1>12. ASSUME NEW i \in 1..n, i - 1 \in T PROVE i \in T
  <2>1. f[i] = JoinStep(f[i - 1], Order[i], {t}) /\ f[i - 1] = IF i - 1 < p THEN empty ELSE e
    BY <1>1, <1>2, <1>12
  <2>2. CASE i < p
    <3>1. Order[i] # t /\ f[i - 1] = empty
      BY <1>4, <2>1, <2>2
    <3>2. f[i] = empty
      BY <1>8, <2>1, <3>1, Zenon
    <3> QED BY <2>2, <3>2
  <2>3. CASE i = p
    <3>1. Order[i] = t /\ f[i - 1] = empty
      BY <1>3, <2>1, <2>3
    <3>2. f[i] = e
      BY <1>10, <2>1, <3>1, Zenon
    <3> QED BY <2>3, <3>2
  <2>4. CASE p < i
    <3>1. Order[i] # t /\ f[i - 1] = e
      BY <1>4, <2>1, <2>4
    <3>2. f[i] = e
      BY <1>8, <2>1, <3>1, Zenon
    <3> QED BY <2>4, <3>2
  <2> QED BY <2>2, <2>3, <2>4
<1> HIDE DEF T
<1>13. 0..n \subseteq T
  BY <1>11, <1>12, Induction
<1>14. n \in T
  BY <1>13
<1>15. f[n] = e
  BY <1>14 DEF T
<1> QED BY <1>1, <1>2, <1>5, <1>15

\* When the last lines go, the first ones are left.
LEMMA FrontLeft ==
  ASSUME NEW front \in Seq(Formats), NEW x \in Seq(Formats), NEW e, Extends(e, front, x),
         NEW gone, gone = Len(front) + 1 .. Len(front) + Len(x)
  PROVE  Without(e, gone) = front
<1>1. PICK n \in Nat, w \in Nat : n = Len(front) /\ w = Len(x)
  BY LenProperties
<1>2. e \in Seq(Formats) /\ Len(e) = n + w /\ \A i \in 1..n : e[i] = front[i]
  BY <1>1 DEF Extends
<1>3. PICK y : y = Without(e, gone)
  OBVIOUS
<1>4. y \in Seq(Formats)
  BY <1>2, <1>3, WithoutPicks
<1>5. PICK at : Picks(y, e, Len(e), gone, at)
  BY <1>2, <1>3, WithoutPicks
<1>6. PICK m \in Nat : m = Len(y)
  BY <1>4, LenProperties
<1>7. /\ \A k \in 1..m : at[k] \in 1..(n + w) /\ at[k] \notin gone /\ y[k] = e[at[k]]
      /\ \A k, l \in 1..m : k < l => at[k] < at[l]
  BY <1>2, <1>5, <1>6 DEF Picks
<1>8. \A k \in 1..m : at[k] \in 1..n
  BY <1>1, <1>7
<1>9. m = n /\ \A k \in 1..n : at[k] = k
  <2>1. CASE n = 0
    <3>1. m = 0
      <4> SUFFICES ASSUME m # 0 PROVE FALSE
        OBVIOUS
      <4>1. 1 \in 1..m
        OBVIOUS
      <4> QED BY <1>8, <2>1, <4>1
    <3> QED BY <2>1, <3>1
  <2>2. CASE n # 0
    <3>1. Picks(y, e, n + w, gone, at) /\ n + w \in Nat /\ 1 \in 1..(n + w) /\ n \in 1..(n + w)
          /\ \A l \in 1..n : l \notin gone
      BY <1>1, <1>2, <1>5, <2>2
    <3>2. PICK k \in 1..m : k + (n - 1) \in 1..m /\ Shifted(at, k, 1, n - 1)
      BY <1>6, <3>1, PiecesStay
    <3>3. at[k] = 1 /\ \A l \in 0..(n - 1) : at[k + l] = 1 + l
      <4>1. \A l \in 0..(n - 1) : at[k + l] = 1 + l
        BY <3>2 DEF Shifted
      <4>2. 0 \in 0..(n - 1) /\ k + 0 = k
        BY <2>2
      <4> QED BY <4>1, <4>2
    <3>4. k = 1
      <4> SUFFICES ASSUME k # 1 PROVE FALSE
        OBVIOUS
      <4>1. k - 1 \in 1..m /\ k - 1 < k
        OBVIOUS
      <4>2. at[k - 1] < at[k] /\ at[k - 1] \in 1..n
        BY <1>7, <1>8, <4>1
      <4> QED BY <3>3, <4>2
    <3>5. \A q \in 1..n : at[q] = q
      <4> SUFFICES ASSUME NEW q \in 1..n PROVE at[q] = q
        OBVIOUS
      <4>1. q - 1 \in 0..(n - 1) /\ 1 + (q - 1) = q
        OBVIOUS
      <4> QED BY <3>3, <3>4, <4>1
    <3>6. m = n
      <4> SUFFICES ASSUME m # n PROVE FALSE
        OBVIOUS
      <4>1. n + 1 \in 1..m /\ n \in 1..m /\ n < n + 1 /\ n \in 1..n
        BY <2>2, <3>2, <3>4
      <4>2. at[n] < at[n + 1] /\ at[n] = n /\ at[n + 1] \in 1..n
        BY <1>7, <1>8, <3>5, <4>1
      <4> QED BY <4>2
    <3> QED BY <3>5, <3>6
  <2> QED BY <2>1, <2>2
<1>10. \A k \in 1..n : y[k] = front[k]
  BY <1>2, <1>7, <1>9
<1>11. y = front
  BY <1>1, <1>4, <1>6, <1>9, <1>10, SeqEqual
<1> QED BY <1>3, <1>11

LEMMA AbsentTemplate ==
  ASSUME NEW d \in Seq(Formats), NEW t, State(d, t) = "absent"
  PROVE  BlocksOf(d, t) = {} /\ ToSet(Content[t]) \cap RulesOf(d) = {}
<1>1. BlocksOf(d, t) = {}
  BY ManagedByBlock DEF Managed
<1> QED BY <1>1 DEF State

\* The document after a template that was absent was added: what the user wrote, which has
\* neither a begin marker nor a rule of the template; a separator; its block.
Added(e, d, front, n, w, t) ==
  /\ e \in Seq(Formats) /\ Len(e) = n + (w + 2) /\ w \in Nat \ {0} /\ n \in Nat
  /\ front \in Seq(Formats) /\ Len(front) = n /\ Extends(e, front, Encoded(t))
  /\ \A i \in 1..n : ~(e[i].kind = "begin" /\ e[i].of = t)
  /\ \A i \in 1..n : ~(e[i].kind = "rule" /\ e[i].of \in ToSet(Content[t]))
  /\ e[n + 1] = Begin(t, "current") /\ e[n + (w + 2)] = EndLine(t)
  /\ \A i \in n + 2 .. n + (w + 1) : e[i].kind = "rule"

LEMMA AdditionOfOne ==
  ASSUME NEW d \in Seq(Formats), NEW t \in Templates, NEW e \in PlanAdd(d, {t}), WellFormed(d),
         State(d, t) = "absent"
  PROVE  \E n, w : Added(e, d, d \o Separator(d), n, w, t)
<1>1. PICK sep, x, front : sep = Separator(d) /\ x = Encoded(t) /\ front = d \o sep
  OBVIOUS
<1>2. sep \in Seq(Formats) /\ \A i \in 1..Len(sep) : sep[i].kind = "blank"
  <2>1. sep = <<>> \/ sep = <<BlankLine>>
    BY <1>1, Zenon DEF Separator
  <2>2. PICK l : l = BlankLine
    OBVIOUS
  <2>3. l \in Formats /\ l.kind = "blank"
    BY <2>2, LineTypes DEF BlankLine
  <2>4. sep = <<>> \/ sep = <<l>>
    BY <2>1, <2>2, Zenon
  <2>5. CASE sep = <<l>>
    BY <2>3, <2>5
  <2>6. CASE sep = <<>>
    <3>1. sep \in Seq(Formats) /\ Len(sep) = 0
      BY <2>6, EmptySeq, Zenon
    <3> QED BY <3>1
  <2> QED BY <2>4, <2>5, <2>6
<1>3. front \in Seq(Formats) /\ Extends(front, d, sep)
  BY <1>1, <1>2, ConcatExtends, ConcatProperties
<1>4. PICK w \in Nat \ {0} : w = Len(Content[t])
  BY EncodedLines
<1>5. /\ x \in Seq(Formats) /\ Len(x) = w + 2 /\ x[1] = Begin(t, "current")
      /\ x[w + 2] = EndLine(t) /\ \A i \in 1..w : x[i + 1] = Rule(Content[t][i])
  BY <1>1, <1>4, EncodedLines
<1>6. e = front \o x
  <2>1. Additions(d, {t}) = {t}
    BY DEF PlanAdd, Additions
  <2>2. e = (d \o Separator(d)) \o Joined({t})
    BY <2>1 DEF PlanAdd
  <2> QED BY <1>1, <2>2, JoinedOne
<1>7. Extends(e, front, x)
  BY <1>3, <1>5, <1>6, ConcatExtends
<1>8. PICK k \in Nat, n \in Nat : k = Len(d) /\ n = Len(front) /\ DOMAIN d = 1..k
  BY <1>3, LenProperties
<1>9. /\ e \in Seq(Formats) /\ Len(e) = n + (w + 2) /\ \A i \in 1..n : e[i] = front[i]
      /\ \A i \in 1..(w + 2) : e[n + i] = x[i]
  BY <1>5, <1>7, <1>8 DEF Extends
<1>10. \A i \in 1..n : (i \in 1..k /\ e[i] = d[i]) \/ e[i].kind = "blank"
  <2>1. /\ n = k + Len(sep) /\ Len(sep) \in Nat /\ \A i \in 1..k : front[i] = d[i]
        /\ \A i \in 1..Len(sep) : front[k + i] = sep[i]
    BY <1>2, <1>3, <1>8, LenProperties DEF Extends
  <2> SUFFICES ASSUME NEW i \in 1..n PROVE (i \in 1..k /\ e[i] = d[i]) \/ e[i].kind = "blank"
    OBVIOUS
  <2>2. CASE i <= k
    BY <1>9, <2>1, <2>2
  <2>3. CASE ~(i <= k)
    <3>1. i - k \in 1..Len(sep) /\ k + (i - k) = i
      BY <2>1, <2>3
    <3>2. front[i] = sep[i - k]
      BY <2>1, <3>1
    <3> QED BY <1>2, <1>9, <3>1, <3>2
  <2> QED BY <2>2, <2>3
<1>11. \A i \in 1..n : ~(e[i].kind = "begin" /\ e[i].of = t)
  <2> SUFFICES ASSUME NEW i \in 1..n, e[i].kind = "begin", e[i].of = t PROVE FALSE
    OBVIOUS
  <2>1. i \in 1..k /\ d[i].kind = "begin" /\ d[i].of = t
    BY <1>10
  <2>2. PICK b \in Blocks(d) : b[1] = i
    BY <1>8, <2>1 DEF WellFormed, IsKind
  <2>3. b \in BlocksOf(d, t)
    BY <2>1, <2>2 DEF BlocksOf
  <2> QED BY <2>3, AbsentTemplate
<1>12. \A i \in 1..n : ~(e[i].kind = "rule" /\ e[i].of \in ToSet(Content[t]))
  <2> SUFFICES ASSUME NEW i \in 1..n, e[i].kind = "rule", e[i].of \in ToSet(Content[t]) PROVE FALSE
    OBVIOUS
  <2>1. i \in 1..k /\ d[i].kind = "rule" /\ d[i].of \in ToSet(Content[t])
    BY <1>10
  <2>2. d[i].of \in RulesOf(d)
    BY <1>8, <2>1 DEF RulesOf, RuleLines, IsKind
  <2> QED BY <2>1, <2>2, AbsentTemplate
<1>13. e[n + 1] = Begin(t, "current") /\ e[n + (w + 2)] = EndLine(t)
  <2>1. 1 \in 1..(w + 2) /\ w + 2 \in 1..(w + 2)
    OBVIOUS
  <2> QED BY <1>5, <1>9, <2>1
<1>14. \A i \in n + 2 .. n + (w + 1) : e[i].kind = "rule"
  <2> SUFFICES ASSUME NEW i \in n + 2 .. n + (w + 1) PROVE e[i].kind = "rule"
    OBVIOUS
  <2>1. PICK j \in 1..w : i = n + (j + 1) /\ j + 1 \in 1..(w + 2)
    <3>1. i - (n + 1) \in 1..w /\ i = n + ((i - (n + 1)) + 1)
          /\ (i - (n + 1)) + 1 \in 1..(w + 2)
      OBVIOUS
    <3> QED BY <3>1
  <2>2. e[i] = Rule(Content[t][j])
    BY <1>5, <1>9, <2>1
  <2>3. \A r : Rule(r).kind = "rule"
    BY DEF Rule
  <2> QED BY <2>2, <2>3
<1>15. Added(e, d, front, n, w, t)
  BY <1>1, <1>3, <1>7, <1>8, <1>9, <1>11, <1>12, <1>13, <1>14 DEF Added
<1> QED BY <1>1, <1>15

LEMMA OneBlockAdded ==
  ASSUME NEW e, NEW d, NEW front, NEW n, NEW w, NEW t, Added(e, d, front, n, w, t)
  PROVE  /\ BlocksIn(e, {t}) = {<<n + 1, n + (w + 2)>>}
         /\ SafeToRemove(e, {t}) = {}
<1>1. PICK i, j : i = n + 1 /\ j = n + (w + 2)
  OBVIOUS
<1>2. /\ e \in Seq(Formats) /\ n \in Nat /\ w \in Nat \ {0} /\ Len(e) = j
      /\ i \in 1..j /\ j \in 1..j /\ i < j
  BY <1>1 DEF Added
<1>3. /\ e[i].kind = "begin" /\ e[i].of = t /\ e[j].kind = "end" /\ e[j].of = t
      /\ \A k \in 1..j : i < k /\ k < j => e[k].kind = "rule"
  <2>1. /\ e[i] = Begin(t, "current") /\ e[j] = EndLine(t)
        /\ \A k \in n + 2 .. n + (w + 1) : e[k].kind = "rule"
    BY <1>1 DEF Added
  <2>2. \A k \in 1..j : i < k /\ k < j => k \in n + 2 .. n + (w + 1)
    BY <1>1, <1>2
  <2> QED BY <2>1, <2>2 DEF Begin, EndLine
<1>4. <<i, j>> \in Blocks(e)
  BY <1>2, <1>3, BlockMade
<1>5. ASSUME NEW b \in BlocksIn(e, {t}) PROVE b = <<i, j>>
  <2>1. b \in Blocks(e) /\ e[b[1]].of = t
    BY <1>5 DEF BlocksIn
  <2>2. b[1] \in 1..j /\ e[b[1]].kind = "begin" /\ b[2] \in 1..j /\ b[1] < b[2]
    BY <1>2, <2>1, BlockFields
  <2>3. ~(b[1] \in 1..n)
    BY <2>1, <2>2 DEF Added
  <2>4. b[1] = i
    BY <1>1, <1>2, <1>3, <2>2, <2>3
  <2>5. <<i, j>>[1] = b[1]
    BY <2>4
  <2> QED BY <1>2, <1>4, <2>1, <2>5, OneBlockPerBegin
<1>6. <<i, j>> \in BlocksIn(e, {t})
  BY <1>3, <1>4 DEF BlocksIn
<1>7. ASSUME NEW k \in SafeToRemove(e, {t}) PROVE FALSE
  <2>1. k \in Handwritten(e) /\ t \in ReferencedBy(e[k].of)
    BY <1>7 DEF SafeToRemove
  <2>2. e[k].of \in ToSet(Content[t])
    BY <2>1 DEF ReferencedBy
  <2>3. k \in 1..j /\ e[k].kind = "rule" /\ k \notin Lines(<<i, j>>)
    <3>1. DOMAIN e = 1..j
      BY <1>2, LenProperties
    <3> QED BY <1>4, <2>1, <3>1 DEF Handwritten, RuleLines, IsKind
  <2>4. ~(k \in 1..n)
    BY <2>2, <2>3 DEF Added
  <2>5. k \in i..j
    BY <1>1, <1>2, <2>3, <2>4
  <2>6. Lines(<<i, j>>) = i..j
    BY DEF Lines
  <2> QED BY <2>3, <2>5, <2>6
<1> QED BY <1>1, <1>5, <1>6, <1>7

LEMMA RemovedAgain ==
  ASSUME NEW d \in Seq(Formats), NEW t \in Templates, NEW e \in PlanAdd(d, {t}), WellFormed(d),
         State(d, t) = "absent"
  PROVE  PlanRemove(e, {t}) = {d \o Separator(d)}
<1>1. PICK front : front = d \o Separator(d)
  OBVIOUS
<1>2. PICK n, w : Added(e, d, front, n, w, t)
  BY <1>1, AdditionOfOne
<1>3. PICK b : b = <<n + 1, n + (w + 2)>>
  OBVIOUS
<1>4. BlocksIn(e, {t}) = {b} /\ SafeToRemove(e, {t}) = {}
  <2>1. BlocksIn(e, {t}) = {<<n + 1, n + (w + 2)>>} /\ SafeToRemove(e, {t}) = {}
    BY <1>2, OneBlockAdded
  <2> QED BY <1>3, <2>1, Zenon
<1>5. Lines(b) = n + 1 .. n + (w + 2) /\ b[1] = n + 1
  BY <1>3 DEF Lines
<1>6. PICK gone : gone = n + 1 .. n + (w + 2)
  OBVIOUS
<1>7. (UNION {Lines(c) : c \in BlocksIn(e, {t})}) \cup SafeToRemove(e, {t}) = gone
  BY <1>4, <1>5, <1>6
<1>8. n + 1 \in gone /\ e[b[1]].hash # "stale"
  BY <1>2, <1>5, <1>6 DEF Added, Begin
<1>9. Without(e, gone) = front
  <2>1. /\ front \in Seq(Formats) /\ Len(front) = n /\ Extends(e, front, Encoded(t))
        /\ Len(e) = n + (w + 2) /\ n \in Nat /\ w \in Nat
    BY <1>2 DEF Added
  <2>2. Encoded(t) \in Seq(Formats)
    BY EncodedLines
  <2>3. Len(Encoded(t)) = w + 2
    <3>1. Len(e) = n + Len(Encoded(t)) /\ Len(Encoded(t)) \in Nat
      BY <2>1, <2>2, LenProperties DEF Extends
    <3> QED BY <2>1, <3>1
  <2> QED BY <1>6, <2>1, <2>2, <2>3, FrontLeft
<1>10. PlanRemove(e, {t}) = {Without(e, gone)}
  BY <1>4, <1>7, <1>8 DEF PlanRemove
<1> QED BY <1>1, <1>9, <1>10

-----------------------------------------------------------------------------
(* Two documents in turn.                                                  *)

Both(s, t) == s \o t

LEMMA BothExtends ==
  ASSUME NEW d \in Seq(Formats), NEW x \in Seq(Formats)
  PROVE  Both(d, x) \in Seq(Formats) /\ Extends(Both(d, x), d, x)
BY ConcatExtends DEF Both, Extends

LEMMA BothGrouped ==
  ASSUME NEW S, NEW s \in Seq(S), NEW t \in Seq(S), NEW u \in Seq(S)
  PROVE  Both(Both(s, t), u) = Both(s, Both(t, u))
<1>1. (s \o t) \o u = s \o (t \o u)
  BY ConcatAssociative
<1> QED BY <1>1, Zenon DEF Both

LEMMA BothNone == \A S : \A s \in Seq(S) : Both(s, <<>>) = s /\ Both(<<>>, s) = s
BY ConcatEmptySeq, Zenon DEF Both

LEMMA BothMore ==
  ASSUME NEW S, NEW s \in Seq(S), NEW t \in Seq(S), NEW l \in S
  PROVE  Append(Both(s, t), l) = Both(s, Append(t, l))
<1>1. Append(s \o t, l) = s \o Append(t, l)
  OBVIOUS
<1> QED BY <1>1, Zenon DEF Both

LEMMA BothParts ==
  ASSUME NEW d \in Seq(Formats), NEW x \in Seq(Formats)
  PROVE  /\ SubSeq(Both(d, x), 1, Len(d)) = d
         /\ SubSeq(Both(d, x), Len(d) + 1, Len(Both(d, x))) = x
<1>1. PICK n \in Nat, m \in Nat : n = Len(d) /\ m = Len(x)
  BY LenProperties
<1>2. PICK e : e = Both(d, x)
  BY Zenon
<1>3. /\ e \in Seq(Formats) /\ Len(e) = n + m
      /\ \A i \in 1..n : e[i] = d[i]
      /\ \A i \in 1..m : e[n + i] = x[i]
  BY <1>1, <1>2, BothExtends DEF Extends
<1>4. \A i \in 1..(n + m) : e[i] \in Formats
  BY <1>3, LenProperties
<1>5. PICK a : a = SubSeq(e, 1, n)
  BY Zenon
<1>6. PICK b : b = SubSeq(e, n + 1, n + m)
  BY Zenon
<1>7. a \in Seq(Formats) /\ Len(a) = n /\ \A i \in 1..n : a[i] = e[i]
  <2>1. \A i \in 1..n : e[i] \in Formats
    BY <1>1, <1>4
  <2>2. /\ a \in Seq(Formats) /\ Len(a) = IF 1 <= n THEN n - 1 + 1 ELSE 0
        /\ \A i \in 1..(n - 1 + 1) : a[i] = e[1 + i - 1]
    BY <1>5, <2>1, SubSeqProperties
  <2>3. n - 1 + 1 = n /\ (\A i \in 1..n : 1 + i - 1 = i) /\ (~(1 <= n) => n = 0)
    BY <1>1
  <2> QED BY <2>2, <2>3
<1>8. b \in Seq(Formats) /\ Len(b) = m /\ \A i \in 1..m : b[i] = e[n + i]
  <2>1. \A i \in (n + 1)..(n + m) : e[i] \in Formats
    BY <1>1, <1>4
  <2>2. /\ b \in Seq(Formats) /\ Len(b) = IF n + 1 <= n + m THEN (n + m) - (n + 1) + 1 ELSE 0
        /\ \A i \in 1..((n + m) - (n + 1) + 1) : b[i] = e[(n + 1) + i - 1]
    BY <1>6, <2>1, SubSeqProperties
  <2>3. /\ (n + m) - (n + 1) + 1 = m /\ (\A i \in 1..m : (n + 1) + i - 1 = n + i)
        /\ ~(n + 1 <= n + m) => m = 0
    BY <1>1
  <2> QED BY <2>2, <2>3
<1>9. a = d
  BY <1>1, <1>3, <1>7, SeqEqual
<1>10. b = x
  BY <1>1, <1>3, <1>8, SeqEqual
<1> QED BY <1>1, <1>2, <1>3, <1>5, <1>6, <1>9, <1>10

\* What is gone of two documents in turn.
Splits(gone, n, here, m, there) ==
  /\ \A i \in 1..n : i \in gone <=> i \in here
  /\ \A i \in 1..m : n + i \in gone <=> i \in there

LEMMA WithoutBoth ==
  ASSUME NEW d \in Seq(Formats), NEW x \in Seq(Formats), NEW gone, NEW here, NEW there,
         Splits(gone, Len(d), here, Len(x), there)
  PROVE  Without(Both(d, x), gone) = Both(Without(d, here), Without(x, there))
<1>1. PICK n \in Nat, m \in Nat : n = Len(d) /\ m = Len(x)
  BY LenProperties
<1>2. PICK e : e = Both(d, x)
  BY Zenon
<1>3. /\ e \in Seq(Formats) /\ Len(e) = n + m
      /\ \A i \in 1..n : e[i] = d[i]
      /\ \A i \in 1..m : e[n + i] = x[i] /\ x[i] \in Formats
  BY <1>1, <1>2, BothExtends, LenProperties DEF Extends
<1>4. PICK f : PassesOver(f, Formats, d, here)
  BY WithoutSteps, Zenon
<1>5. PICK g : PassesOver(g, Formats, x, there)
  BY WithoutSteps, Zenon
<1>6. PICK h : PassesOver(h, Formats, e, gone)
  BY <1>3, WithoutSteps, Zenon
<1>7. /\ \A i \in 0..n : f[i] \in Seq(Formats)
      /\ \A i \in 0..m : g[i] \in Seq(Formats)
  BY <1>1, <1>4, <1>5 DEF PassesOver
<1> DEFINE A == {i \in 0..n : h[i] = f[i]}
           B == {i \in 0..m : h[n + i] = Both(f[n], g[i])}
<1>8. \A i \in 0..n : i \in A
  <2>1. 0 \in A
    <3>1. h[0] = f[0]
      BY <1>4, <1>6, Zenon DEF PassesOver
    <3> QED BY <1>1, <3>1
  <2>2. ASSUME NEW i \in 1..n, i - 1 \in A PROVE i \in A
    <3>1. /\ h[i] = IF i \in gone THEN h[i - 1] ELSE Append(h[i - 1], e[i])
          /\ f[i] = IF i \in here THEN f[i - 1] ELSE Append(f[i - 1], d[i])
      BY <1>1, <1>3, <1>4, <1>6 DEF PassesOver
    <3>2. e[i] = d[i] /\ h[i - 1] = f[i - 1] /\ (i \in gone <=> i \in here)
      BY <1>1, <1>3, <2>2 DEF Splits
    <3>3. h[i] = f[i]
      BY <3>1, <3>2
    <3> QED BY <3>3
  <2> HIDE DEF A
  <2>3. 0..n \subseteq A
    BY <1>1, <2>1, <2>2, Induction
  <2> QED BY <2>3
<1>9. \A i \in 0..m : i \in B
  <2>1. 0 \in B
    <3>1. h[n] = f[n] /\ f[n] \in Seq(Formats)
      BY <1>7, <1>8
    <3>2. f[n] = Both(f[n], g[0])
      BY <1>5, <3>1, BothNone, Zenon DEF PassesOver
    <3>3. n + 0 = n /\ 0 \in 0..m
      BY <1>1
    <3>4. h[n + 0] = Both(f[n], g[0])
      BY <3>1, <3>2, <3>3
    <3> QED BY <3>3, <3>4
  <2>2. ASSUME NEW i \in 1..m, i - 1 \in B PROVE i \in B
    <3>1. i \in 0..m /\ i - 1 \in 0..m /\ n + i \in 1..(n + m) /\ (n + i) - 1 = n + (i - 1)
      BY <1>1
    <3>2. /\ h[n + i] = IF n + i \in gone THEN h[(n + i) - 1] ELSE Append(h[(n + i) - 1], e[n + i])
          /\ g[i] = IF i \in there THEN g[i - 1] ELSE Append(g[i - 1], x[i])
      BY <1>1, <1>3, <1>5, <1>6, <3>1 DEF PassesOver
    <3>3. e[n + i] = x[i] /\ x[i] \in Formats /\ (n + i \in gone <=> i \in there)
      BY <1>1, <1>3 DEF Splits
    <3>4. h[(n + i) - 1] = Both(f[n], g[i - 1])
      BY <2>2, <3>1
    <3>5. f[n] \in Seq(Formats) /\ g[i - 1] \in Seq(Formats)
      BY <1>1, <1>7, <3>1
    <3>6. Append(Both(f[n], g[i - 1]), x[i]) = Both(f[n], Append(g[i - 1], x[i]))
      <4>1. PICK s, t, l : s = f[n] /\ t = g[i - 1] /\ l = x[i]
        BY Zenon
      <4>2. s \in Seq(Formats) /\ t \in Seq(Formats) /\ l \in Formats
        BY <3>3, <3>5, <4>1
      <4>3. Append(Both(s, t), l) = Both(s, Append(t, l))
        BY <4>2, BothMore
      <4> QED BY <4>1, <4>3, Zenon
    <3>7. h[n + i] = Both(f[n], g[i])
      BY <3>2, <3>3, <3>4, <3>6, Zenon
    <3> QED BY <3>1, <3>7
  <2> HIDE DEF B
  <2>3. 0..m \subseteq B
    BY <1>1, <2>1, <2>2, Induction
  <2> QED BY <2>3
<1>10. h[n + m] = Both(f[n], g[m])
  <2>1. m \in 0..m
    BY <1>1
  <2> QED BY <1>9, <2>1
<1> QED BY <1>1, <1>2, <1>3, <1>4, <1>5, <1>6, <1>10 DEF PassesOver

LEMMA WithoutAll ==
  ASSUME NEW d \in Seq(Formats), NEW gone, \A i \in 1..Len(d) : i \in gone
  PROVE  Without(d, gone) = <<>>
<1>1. PICK n \in Nat : n = Len(d)
  BY LenProperties
<1>2. PICK f : PassesOver(f, Formats, d, gone)
  BY WithoutSteps, Zenon
<1> DEFINE T == {i \in 0..n : f[i] = f[0]}
<1>3. 0 \in T
  BY <1>1
<1>4. ASSUME NEW i \in 1..n, i - 1 \in T PROVE i \in T
  <2>1. f[i] = f[i - 1] /\ i \in 0..n
    BY <1>1, <1>2 DEF PassesOver
  <2> QED BY <1>4, <2>1
<1>5. 0..n \subseteq T
  <2> HIDE DEF T
  <2> QED BY <1>1, <1>3, <1>4, Induction
<1>6. f[n] = f[0]
  BY <1>1, <1>5
<1> QED BY <1>1, <1>2, <1>6, Zenon DEF PassesOver
-----------------------------------------------------------------------------
(* The blocks of two documents in turn.                                    *)

Covered(d, S) == UNION {Lines(b) : b \in BlocksIn(d, S)}

LEMMA Opened ==
  ASSUME NEW d \in Seq(Formats), WellFormed(d), NEW i \in 1..Len(d), d[i].kind = "begin"
  PROVE  \E j \in 1..Len(d) : i < j /\ <<i, j>> \in Blocks(d)
<1>1. DOMAIN d = 1..Len(d)
  BY LenProperties
<1>2. PICK b \in Blocks(d) : b[1] = i
  BY <1>1 DEF WellFormed, IsKind
<1>3. b = <<i, b[2]>> /\ b[2] \in 1..Len(d) /\ i < b[2]
  BY <1>2, BlockFields
<1> QED BY <1>3

\* A block between places of a document.
LEMMA BlockBetween ==
  ASSUME NEW d \in Seq(Formats), NEW i, NEW j, <<i, j>> \in Blocks(d)
  PROVE  /\ i \in 1..Len(d) /\ j \in 1..Len(d) /\ i < j
         /\ d[i].kind = "begin" /\ d[j].kind = "end" /\ d[j].of = d[i].of
         /\ \A k \in 1..Len(d) : i < k /\ k < j => d[k].kind # "end"
<1>1. PICK b : b = <<i, j>>
  BY Zenon
<1>2. b \in Blocks(d) /\ b[1] = i /\ b[2] = j
  BY <1>1
<1> QED BY <1>2, BlockFields

LEMMA BlockPair ==
  ASSUME NEW d \in Seq(Formats), NEW b \in Blocks(d)
  PROVE  \E i, j \in 1..Len(d) : b = <<i, j>> /\ b[1] = i /\ b[2] = j
BY BlockFields

\* A block of e that is one of its first part d, or of x behind it.
InFront(e, d, i, j) == <<i, j>> \in Blocks(d) /\ i \in 1..Len(d) /\ j \in 1..Len(d) /\ e[i] = d[i]
IsBehind(e, d, x, i, j) ==
  \E p, q \in 1..Len(x) : /\ <<p, q>> \in Blocks(x) /\ i = Len(d) + p /\ j = Len(d) + q
                          /\ e[i] = x[p]
Put(e, n, x, i, j) == <<n + i, n + j>> \in Blocks(e) /\ e[n + i] = x[i]

LEMMA BlockBehind ==
  ASSUME NEW d \in Seq(Formats), NEW x \in Seq(Formats), NEW e, Extends(e, d, x),
         NEW i, NEW j, <<i, j>> \in Blocks(x)
  PROVE  Put(e, Len(d), x, i, j)
<1>1. PICK n \in Nat, m \in Nat : n = Len(d) /\ m = Len(x)
  BY LenProperties
<1>2. /\ e \in Seq(Formats) /\ Len(e) = n + m
      /\ \A k \in 1..m : e[n + k] = x[k]
  BY <1>1 DEF Extends
<1>3. /\ i \in 1..m /\ j \in 1..m /\ i < j
      /\ x[i].kind = "begin" /\ x[j].kind = "end" /\ x[j].of = x[i].of
      /\ \A k \in 1..m : i < k /\ k < j => x[k].kind # "end"
  BY <1>1, BlockBetween
<1>4. e[n + i] = x[i] /\ e[n + j] = x[j]
  BY <1>2, <1>3
<1>5. PICK a \in 1..(n + m), b \in 1..(n + m) : a = n + i /\ b = n + j /\ a < b
  BY <1>1, <1>3
<1>6. ASSUME NEW k \in 1..(n + m), a < k, k < b PROVE e[k].kind # "end"
  <2>1. k - n \in 1..m /\ n + (k - n) = k /\ i < k - n /\ k - n < j
    BY <1>1, <1>3, <1>5, <1>6
  <2>2. e[k] = x[k - n]
    BY <1>2, <2>1
  <2> QED BY <1>3, <2>1, <2>2
<1>7. <<a, b>> \in Blocks(e)
  BY <1>2, <1>3, <1>4, <1>5, <1>6, BlockMade
<1> QED BY <1>1, <1>4, <1>5, <1>7 DEF Put

\* Behind a document all of whose begin markers open a block, a block is one of either.
LEMMA BlockSides ==
  ASSUME NEW d \in Seq(Formats), NEW x \in Seq(Formats), NEW e, Extends(e, d, x), WellFormed(d),
         NEW i, NEW j, <<i, j>> \in Blocks(e)
  PROVE  InFront(e, d, i, j) \/ IsBehind(e, d, x, i, j)
<1>1. PICK n \in Nat, m \in Nat : n = Len(d) /\ m = Len(x)
  BY LenProperties
<1>2. /\ e \in Seq(Formats) /\ Len(e) = n + m
      /\ \A k \in 1..n : e[k] = d[k]
      /\ \A k \in 1..m : e[n + k] = x[k]
  BY <1>1 DEF Extends
<1>3. /\ i \in 1..(n + m) /\ j \in 1..(n + m) /\ i < j
      /\ e[i].kind = "begin" /\ e[j].kind = "end" /\ e[j].of = e[i].of
      /\ \A k \in 1..(n + m) : i < k /\ k < j => e[k].kind # "end"
  BY <1>2, BlockBetween
<1>4. CASE i <= n
  <2>1. i \in 1..n /\ d[i].kind = "begin"
    BY <1>2, <1>3, <1>4
  <2>2. PICK l \in 1..n : i < l /\ <<i, l>> \in Blocks(d)
    BY <1>1, <2>1, Opened
  <2>3. <<i, l>> \in Blocks(e)
    <3>1. PICK b : b = <<i, l>>
      BY Zenon
    <3>2. b \in Blocks(e)
      BY <2>2, <3>1, BlocksStayInFront, Zenon
    <3> QED BY <3>1, <3>2
  <2>4. <<i, j>> = <<i, l>>
    <3>1. PICK b, c : b = <<i, j>> /\ c = <<i, l>>
      BY Zenon
    <3>2. b[1] = c[1]
      BY <3>1
    <3>3. b = c
      BY <1>2, <2>3, <3>1, <3>2, OneBlockPerBegin
    <3> QED BY <3>1, <3>3
  <2>5. j = l
    BY <2>4
  <2> QED BY <1>1, <1>2, <2>1, <2>2, <2>5 DEF InFront
<1>5. CASE ~(i <= n)
  <2>1. PICK p \in 1..m, q \in 1..m : i = n + p /\ j = n + q /\ p < q
    <3>1. i - n \in 1..m /\ j - n \in 1..m /\ i = n + (i - n) /\ j = n + (j - n) /\ i - n < j - n
      <4>1. i \in 1..(n + m) /\ j \in 1..(n + m) /\ i < j
        BY <1>3
      <4> QED BY <1>1, <1>5, <4>1
    <3> QED BY <3>1
  <2>2. e[i] = x[p] /\ e[j] = x[q]
    BY <1>2, <2>1
  <2>3. ASSUME NEW k \in 1..m, p < k, k < q PROVE x[k].kind # "end"
    <3>1. n + k \in 1..(n + m) /\ i < n + k /\ n + k < j
      BY <1>1, <2>1, <2>3
    <3> QED BY <1>2, <1>3, <3>1
  <2>4. <<p, q>> \in Blocks(x)
    BY <1>1, <1>3, <2>1, <2>2, <2>3, BlockMade
  <2> QED BY <1>1, <2>1, <2>2, <2>4 DEF IsBehind
<1> QED BY <1>4, <1>5

LEMMA InCovered ==
  ASSUME NEW d \in Seq(Formats), NEW S, NEW k
  PROVE  k \in Covered(d, S) <=> \E i, j \in 1..Len(d) : /\ <<i, j>> \in Blocks(d) /\ d[i].of \in S
                                                         /\ k \in i..j
<1>1. ASSUME k \in Covered(d, S)
      PROVE  \E i, j \in 1..Len(d) : <<i, j>> \in Blocks(d) /\ d[i].of \in S /\ k \in i..j
  <2>1. PICK b : b \in BlocksIn(d, S) /\ k \in Lines(b)
    BY <1>1 DEF Covered
  <2>2. PICK i \in 1..Len(d), j \in 1..Len(d) : b = <<i, j>> /\ b[1] = i /\ b[2] = j
    BY <2>1, BlockPair DEF BlocksIn
  <2> QED BY <2>1, <2>2 DEF BlocksIn, Lines
<1>2. ASSUME NEW i, NEW j, <<i, j>> \in Blocks(d), d[i].of \in S, k \in i..j
      PROVE  k \in Covered(d, S)
  <2>1. PICK b : b = <<i, j>>
    BY Zenon
  <2>2. b[1] = i /\ b[2] = j
    BY <2>1
  <2>3. b \in BlocksIn(d, S) /\ k \in Lines(b)
    BY <1>2, <2>1, <2>2 DEF BlocksIn, Lines
  <2> QED BY <2>3 DEF Covered
<1> QED BY <1>1, <1>2

LEMMA CoveredSides ==
  ASSUME NEW d \in Seq(Formats), NEW x \in Seq(Formats), NEW e, Extends(e, d, x), WellFormed(d), NEW S
  PROVE  Splits(Covered(e, S), Len(d), Covered(d, S), Len(x), Covered(x, S))
<1>1. PICK n \in Nat, m \in Nat : n = Len(d) /\ m = Len(x)
  BY LenProperties
<1>2. e \in Seq(Formats) /\ Len(e) = n + m
  BY <1>1 DEF Extends
<1>3. ASSUME NEW k \in 1..(n + m), k \in Covered(e, S)
      PROVE  (k \in 1..n /\ k \in Covered(d, S)) \/ (k - n \in 1..m /\ k - n \in Covered(x, S))
  <2>1. PICK i, j : <<i, j>> \in Blocks(e) /\ e[i].of \in S /\ k \in i..j
    BY <1>2, <1>3, InCovered, Zenon
  <2>2. CASE <<i, j>> \in Blocks(d) /\ i \in 1..n /\ j \in 1..n /\ e[i] = d[i]
    <3>1. k \in 1..n
      BY <2>1, <2>2
    <3>2. k \in Covered(d, S)
      BY <1>1, <2>1, <2>2, InCovered, Zenon
    <3> QED BY <3>1, <3>2
  <2>3. CASE \E p, q \in 1..m : <<p, q>> \in Blocks(x) /\ i = n + p /\ j = n + q /\ e[i] = x[p]
    <3>1. PICK p \in 1..m, q \in 1..m : <<p, q>> \in Blocks(x) /\ i = n + p /\ j = n + q /\ e[i] = x[p]
      BY <2>3
    <3>2. k - n \in p..q /\ k - n \in 1..m
      BY <1>1, <2>1, <3>1
    <3>3. k - n \in Covered(x, S)
      BY <1>1, <2>1, <3>1, <3>2, InCovered, Zenon
    <3> QED BY <3>2, <3>3
  <2>4. InFront(e, d, i, j) \/ IsBehind(e, d, x, i, j)
    BY <2>1, BlockSides
  <2> QED BY <1>1, <2>2, <2>3, <2>4 DEF InFront, IsBehind
<1>4. ASSUME NEW k \in 1..n PROVE k \in Covered(e, S) <=> k \in Covered(d, S)
  <2>1. k \in 1..(n + m) /\ ~(k - n \in 1..m)
    BY <1>1
  <2>2. ASSUME k \in Covered(d, S) PROVE k \in Covered(e, S)
    <3>1. PICK i \in 1..n, j \in 1..n : <<i, j>> \in Blocks(d) /\ d[i].of \in S /\ k \in i..j
      BY <1>1, <2>2, InCovered, Zenon
    <3>2. PICK b : b = <<i, j>>
      BY Zenon
    <3>3. b \in Blocks(e) /\ e[b[1]] = d[b[1]] /\ b[1] = i
      BY <3>1, <3>2, BlocksStayInFront
    <3>4. i \in 1..Len(e) /\ j \in 1..Len(e)
      BY <1>1, <1>2
    <3> QED BY <1>2, <3>1, <3>2, <3>3, <3>4, InCovered
  <2> QED BY <1>3, <2>1, <2>2
<1>5. ASSUME NEW k \in 1..m PROVE n + k \in Covered(e, S) <=> k \in Covered(x, S)
  <2>1. n + k \in 1..(n + m) /\ ~(n + k \in 1..n) /\ (n + k) - n = k
    BY <1>1
  <2>2. ASSUME k \in Covered(x, S) PROVE n + k \in Covered(e, S)
    <3>1. PICK i \in 1..m, j \in 1..m : <<i, j>> \in Blocks(x) /\ x[i].of \in S /\ k \in i..j
      BY <1>1, <2>2, InCovered, Zenon
    <3>2. <<n + i, n + j>> \in Blocks(e) /\ e[n + i] = x[i]
      <4>1. Put(e, Len(d), x, i, j)
        BY <3>1, BlockBehind
      <4> QED BY <1>1, <4>1 DEF Put
    <3>3. PICK a \in 1..(n + m), b \in 1..(n + m) : a = n + i /\ b = n + j /\ n + k \in a..b
      BY <1>1, <3>1
    <3> QED BY <1>2, <3>1, <3>2, <3>3, InCovered
  <2>3. ASSUME n + k \in Covered(e, S) PROVE k \in Covered(x, S)
    <3>1. \/ n + k \in 1..n /\ n + k \in Covered(d, S)
          \/ (n + k) - n \in 1..m /\ (n + k) - n \in Covered(x, S)
      BY <1>3, <2>1, <2>3
    <3> QED BY <2>1, <3>1
  <2> QED BY <2>2, <2>3
<1> QED BY <1>1, <1>4, <1>5 DEF Splits

LEMMA OutsideBoth ==
  ASSUME NEW d \in Seq(Formats), NEW x \in Seq(Formats), WellFormed(d), NEW S
  PROVE  Outside(Both(d, x), S) = Both(Outside(d, S), Outside(x, S))
<1>1. PICK e : e = Both(d, x)
  BY Zenon
<1>2. Extends(e, d, x)
  BY <1>1, BothExtends
<1>3. Splits(Covered(e, S), Len(d), Covered(d, S), Len(x), Covered(x, S))
  BY <1>2, CoveredSides
<1>4. Without(Both(d, x), Covered(e, S)) = Both(Without(d, Covered(d, S)), Without(x, Covered(x, S)))
  BY <1>3, WithoutBoth
<1> QED BY <1>1, <1>4 DEF Outside, Covered

LEMMA WellFormedBoth ==
  ASSUME NEW d \in Seq(Formats), NEW x \in Seq(Formats), WellFormed(d), WellFormed(x)
  PROVE  WellFormed(Both(d, x))
<1>1. PICK e : e = Both(d, x)
  BY Zenon
<1>2. Extends(e, d, x)
  BY <1>1, BothExtends
<1>3. PICK n \in Nat, m \in Nat : n = Len(d) /\ m = Len(x)
  BY LenProperties
<1>4. /\ e \in Seq(Formats) /\ Len(e) = n + m /\ DOMAIN e = 1..(n + m)
      /\ \A k \in 1..n : e[k] = d[k]
      /\ \A k \in 1..m : e[n + k] = x[k]
  BY <1>2, <1>3, LenProperties DEF Extends
<1>5. ASSUME NEW i \in 1..(n + m), e[i].kind = "begin" PROVE \E b \in Blocks(e) : b[1] = i
  <2>1. CASE i <= n
    <3>1. i \in 1..n /\ d[i].kind = "begin"
      BY <1>4, <1>5, <2>1
    <3>2. PICK j : <<i, j>> \in Blocks(d)
      BY <1>3, <3>1, Opened
    <3>3. PICK b : b = <<i, j>>
      BY Zenon
    <3>4. b \in Blocks(e) /\ b[1] = i
      BY <1>2, <3>2, <3>3, BlocksStayInFront
    <3> QED BY <3>4
  <2>2. CASE ~(i <= n)
    <3>1. PICK p \in 1..m : i = n + p
      <4>1. i - n \in 1..m /\ i = n + (i - n)
        BY <1>3, <2>2
      <4> QED BY <4>1
    <3>2. x[p].kind = "begin"
      BY <1>4, <1>5, <3>1
    <3>3. PICK q : <<p, q>> \in Blocks(x)
      BY <1>3, <3>1, <3>2, Opened
    <3>4. <<n + p, n + q>> \in Blocks(e)
      <4>1. Put(e, Len(d), x, p, q)
        BY <1>2, <3>3, BlockBehind
      <4> QED BY <1>3, <4>1 DEF Put
    <3>5. <<n + p, n + q>>[1] = i
      BY <3>1
    <3> QED BY <3>4, <3>5
  <2> QED BY <2>1, <2>2
<1> QED BY <1>1, <1>4, <1>5 DEF WellFormed, IsKind
-----------------------------------------------------------------------------
(* An update of a document whose markers are in order.                     *)

\* None of the blocks of S is stale.
AllCurrent(d, S) == \A i, j : <<i, j>> \in Blocks(d) /\ d[i].of \in S => d[i].hash # "stale"

\* One block of a template of S, and nothing else.
Alone(m, S) ==
  \E l \in Nat : /\ l >= 2 /\ Len(m) = l /\ m[1].kind = "begin" /\ m[l].kind = "end"
                 /\ m[l].of = m[1].of /\ m[1].of \in S
                 /\ \A k \in 1..l : 1 < k /\ k < l => m[k].kind \notin {"begin", "end"}

LEMMA StaleBlocks ==
  ASSUME NEW d \in Seq(Formats), NEW S, AllCurrent(d, S)
  PROVE  Stale(d, S) = {}
<1>1. ASSUME NEW b \in Stale(d, S) PROVE FALSE
  <2>1. b \in Blocks(d) /\ d[b[1]].of \in S /\ d[b[1]].hash = "stale"
    BY DEF Stale, BlocksIn
  <2>2. PICK i, j : b = <<i, j>> /\ b[1] = i
    BY <2>1, BlockPair
  <2> QED BY <2>1, <2>2 DEF AllCurrent
<1> QED BY <1>1

LEMMA CurrentBoth ==
  ASSUME NEW d \in Seq(Formats), NEW x \in Seq(Formats), WellFormed(d), NEW S,
         AllCurrent(d, S), AllCurrent(x, S)
  PROVE  AllCurrent(Both(d, x), S)
<1>1. PICK e : e = Both(d, x)
  BY Zenon
<1>2. Extends(e, d, x)
  BY <1>1, BothExtends
<1>3. ASSUME NEW i, NEW j, <<i, j>> \in Blocks(e), e[i].of \in S PROVE e[i].hash # "stale"
  <2>1. InFront(e, d, i, j) \/ IsBehind(e, d, x, i, j)
    BY <1>2, <1>3, BlockSides
  <2>2. CASE InFront(e, d, i, j)
    BY <1>3, <2>2 DEF InFront, AllCurrent
  <2>3. CASE IsBehind(e, d, x, i, j)
    <3>1. PICK p, q : <<p, q>> \in Blocks(x) /\ e[i] = x[p]
      BY <2>3 DEF IsBehind
    <3> QED BY <1>3, <3>1 DEF AllCurrent
  <2> QED BY <2>1, <2>2, <2>3
<1> QED BY <1>1, <1>3 DEF AllCurrent

LEMMA AloneFacts ==
  ASSUME NEW m \in Seq(Formats), NEW S, Alone(m, S)
  PROVE  /\ WellFormed(m) /\ Outside(m, S) = <<>>
         /\ \A i, j : <<i, j>> \in Blocks(m) => i = 1
<1>1. PICK l \in Nat : /\ l >= 2 /\ Len(m) = l /\ m[1].kind = "begin" /\ m[l].kind = "end"
                       /\ m[l].of = m[1].of /\ m[1].of \in S
                       /\ \A k \in 1..l : 1 < k /\ k < l => m[k].kind \notin {"begin", "end"}
  BY DEF Alone
<1>2. DOMAIN m = 1..l /\ 1 \in 1..l /\ l \in 1..l /\ 1 < l
  BY <1>1, LenProperties
<1>3. <<1, l>> \in Blocks(m)
  BY <1>1, <1>2, BlockMade
<1>4. ASSUME NEW i \in 1..l, m[i].kind = "begin" PROVE i = 1
  <2>1. i = 1 \/ i = l \/ (1 < i /\ i < l)
    BY <1>1
  <2> QED BY <1>1, <1>4, <2>1
<1>5. WellFormed(m)
  <2>1. <<1, l>>[1] = 1
    OBVIOUS
  <2> QED BY <1>2, <1>3, <1>4, <2>1 DEF WellFormed, IsKind
<1>6. ASSUME NEW i, NEW j, <<i, j>> \in Blocks(m) PROVE i = 1
  BY <1>1, <1>4, <1>6, BlockBetween
<1>7. \A k \in 1..Len(m) : k \in Covered(m, S)
  BY <1>1, <1>2, <1>3, InCovered
<1>8. Outside(m, S) = <<>>
  BY <1>7, WithoutAll DEF Outside, Covered
<1> QED BY <1>5, <1>6, <1>8

LEMMA EncodedAlone ==
  ASSUME NEW S, NEW t \in Templates, t \in S
  PROVE  Encoded(t) \in Seq(Formats) /\ Alone(Encoded(t), S) /\ AllCurrent(Encoded(t), S)
<1>0. PICK m : m = Encoded(t)
  BY Zenon
<1>1. PICK w \in Nat : m = Encoded(t) /\ w = Len(Content[t]) /\ w # 0
  BY <1>0, EncodedLines
<1>2. /\ m \in Seq(Formats) /\ Len(m) = w + 2
      /\ m[1] = Begin(t, "current") /\ m[w + 2] = EndLine(t)
      /\ \A i \in 1..w : m[i + 1] = Rule(Content[t][i])
  BY <1>1, EncodedLines
<1>3. PICK l \in Nat : l = w + 2 /\ l >= 2
  OBVIOUS
<1>4. \A k \in 1..l : 1 < k /\ k < l => m[k].kind \notin {"begin", "end"}
  <2> SUFFICES ASSUME NEW k \in 1..l, 1 < k, k < l PROVE m[k].kind \notin {"begin", "end"}
    OBVIOUS
  <2>1. k - 1 \in 1..w /\ (k - 1) + 1 = k
    BY <1>3
  <2>2. m[k] = Rule(Content[t][k - 1])
    BY <1>2, <2>1
  <2> QED BY <2>2 DEF Rule
<1>5. /\ m[1].kind = "begin" /\ m[1].of = t /\ m[1].hash = "current"
      /\ m[l].kind = "end" /\ m[l].of = t
  BY <1>2, <1>3 DEF Begin, EndLine
<1>6. Alone(m, S)
  BY <1>2, <1>3, <1>4, <1>5 DEF Alone
<1>7. AllCurrent(m, S)
  <2>1. \A i, j : <<i, j>> \in Blocks(m) => i = 1
    BY <1>2, <1>6, AloneFacts
  <2> QED BY <1>5, <2>1 DEF AllCurrent
<1> QED BY <1>1, <1>2, <1>6, <1>7

LEMMA OnePlace ==
  ASSUME NEW d \in Seq(Formats), Disjoint(d), NEW i, NEW j, <<i, j>> \in Blocks(d),
         NEW p, NEW q, <<p, q>> \in Blocks(d), NEW r, r \in i..j, r \in p..q
  PROVE  i = p /\ j = q
<1>1. PICK b, c : b = <<i, j>> /\ c = <<p, q>>
  BY Zenon
<1>2. b[1] = i /\ b[2] = j /\ c[1] = p /\ c[2] = q
  BY <1>1
<1>3. r \in Lines(b) /\ r \in Lines(c)
  BY <1>2 DEF Lines
<1>4. b \in Blocks(d) /\ c \in Blocks(d)
  BY <1>1
<1>5. b = c
  BY <1>3, <1>4 DEF Disjoint
<1> QED BY <1>2, <1>5

\* A document before one of its blocks, that block, and what is behind it.
Parted(a, i, j, S, above, own, below) ==
  /\ above \in Seq(Formats) /\ own \in Seq(Formats) /\ below \in Seq(Formats)
  /\ a = Both(above, Both(own, below)) /\ Len(above) = i - 1 /\ Len(own) = j - i + 1
  /\ WellFormed(above) /\ Disjoint(above) /\ WellFormed(below) /\ Alone(own, S)
  /\ \A p, q : <<p, q>> \in Blocks(a) /\ p < i => <<p, q>> \in Blocks(above)
  /\ \A p, q : <<p, q>> \in Blocks(below) => \E r, z : <<r, z>> \in Blocks(a) /\ r > i /\ a[r] = below[p]

LEMMA PartLines ==
  ASSUME NEW a \in Seq(Formats), NEW m \in 1..(Len(a) + 1), NEW n \in (m - 1)..Len(a)
  PROVE  /\ SubSeq(a, m, n) \in Seq(Formats) /\ Len(SubSeq(a, m, n)) = n - m + 1
         /\ \A k \in 1..(n - m + 1) : SubSeq(a, m, n)[k] = a[m + k - 1]
<1>1. \A k \in m..n : a[k] \in Formats
  BY LenProperties
<1> QED BY <1>1, LenProperties, SubSeqProperties

\* The lines of a up to i, those from i to j, and the rest.
CutAt(a, i, j, above, own, below) ==
  /\ above \in Seq(Formats) /\ own \in Seq(Formats) /\ below \in Seq(Formats)
  /\ a = Both(above, Both(own, below))
  /\ Len(above) = i - 1 /\ Len(own) = j - i + 1 /\ Len(below) = Len(a) - j
  /\ \A k \in 1..(i - 1) : above[k] = a[k]
  /\ \A k \in 1..(j - i + 1) : own[k] = a[i + k - 1]
  /\ \A k \in 1..(Len(a) - j) : below[k] = a[j + k]

LEMMA ThreeParts ==
  ASSUME NEW a \in Seq(Formats), NEW i \in 1..Len(a), NEW j \in i..Len(a)
  PROVE  \E above, own, below : CutAt(a, i, j, above, own, below)
<1>1. PICK n \in Nat : n = Len(a)
  BY LenProperties
<1>2. PICK x : x = SubSeq(a, 1, i - 1)
  BY Zenon
<1>3. PICK y : y = SubSeq(a, i, j)
  BY Zenon
<1>4. PICK z : z = SubSeq(a, j + 1, n)
  BY Zenon
<1>5. x \in Seq(Formats) /\ Len(x) = i - 1 /\ \A k \in 1..(i - 1) : x[k] = a[k]
  <2>1. 1 \in 1..(Len(a) + 1) /\ i - 1 \in (1 - 1)..Len(a) /\ (i - 1) - 1 + 1 = i - 1
    BY <1>1
  <2>2. \A k \in 1..(i - 1) : 1 + k - 1 = k
    BY <1>1
  <2>3. /\ SubSeq(a, 1, i - 1) \in Seq(Formats) /\ Len(SubSeq(a, 1, i - 1)) = (i - 1) - 1 + 1
        /\ \A k \in 1..((i - 1) - 1 + 1) : SubSeq(a, 1, i - 1)[k] = a[1 + k - 1]
    BY <2>1, PartLines
  <2> QED BY <1>2, <2>1, <2>2, <2>3
<1>6. y \in Seq(Formats) /\ Len(y) = j - i + 1 /\ \A k \in 1..(j - i + 1) : y[k] = a[i + k - 1]
  <2>1. i \in 1..(Len(a) + 1) /\ j \in (i - 1)..Len(a)
    BY <1>1
  <2> QED BY <1>3, <2>1, PartLines
<1>7. z \in Seq(Formats) /\ Len(z) = n - j /\ \A k \in 1..(n - j) : z[k] = a[j + k]
  <2>1. j + 1 \in 1..(Len(a) + 1) /\ n \in ((j + 1) - 1)..Len(a) /\ n - (j + 1) + 1 = n - j
    BY <1>1
  <2>2. \A k \in 1..(n - j) : (j + 1) + k - 1 = j + k
    BY <1>1
  <2>3. /\ SubSeq(a, j + 1, n) \in Seq(Formats) /\ Len(SubSeq(a, j + 1, n)) = n - (j + 1) + 1
        /\ \A k \in 1..(n - (j + 1) + 1) : SubSeq(a, j + 1, n)[k] = a[(j + 1) + k - 1]
    BY <2>1, PartLines
  <2> QED BY <1>4, <2>1, <2>2, <2>3
<1>8. PICK v : v = Both(y, z)
  BY Zenon
<1>9. /\ v \in Seq(Formats) /\ Len(v) = n - i + 1
      /\ \A k \in 1..(j - i + 1) : v[k] = y[k]
      /\ \A k \in 1..(n - j) : v[(j - i + 1) + k] = z[k]
  <2>1. v \in Seq(Formats) /\ Extends(v, y, z)
    BY <1>6, <1>7, <1>8, BothExtends
  <2>2. (j - i + 1) + (n - j) = n - i + 1
    BY <1>1
  <2> QED BY <1>6, <1>7, <2>1, <2>2 DEF Extends
<1>10. PICK u : u = Both(x, v)
  BY Zenon
<1>11. /\ u \in Seq(Formats) /\ Len(u) = n
       /\ \A k \in 1..(i - 1) : u[k] = x[k]
       /\ \A k \in 1..(n - i + 1) : u[(i - 1) + k] = v[k]
  <2>1. u \in Seq(Formats) /\ Extends(u, x, v)
    BY <1>5, <1>9, <1>10, BothExtends
  <2>2. (i - 1) + (n - i + 1) = n
    BY <1>1
  <2> QED BY <1>5, <1>9, <2>1, <2>2 DEF Extends
<1>12. ASSUME NEW k \in 1..n PROVE u[k] = a[k]
  <2>1. CASE k < i
    <3>1. k \in 1..(i - 1)
      BY <1>1, <2>1
    <3> QED BY <1>5, <1>11, <3>1
  <2>2. CASE ~(k < i) /\ k <= j
    <3>1. k - i + 1 \in 1..(j - i + 1) /\ k - i + 1 \in 1..(n - i + 1) /\ (i - 1) + (k - i + 1) = k
          /\ i + (k - i + 1) - 1 = k
      BY <1>1, <2>2
    <3>2. u[k] = v[k - i + 1] /\ v[k - i + 1] = y[k - i + 1] /\ y[k - i + 1] = a[k]
      BY <1>6, <1>9, <1>11, <3>1
    <3> QED BY <3>2
  <2>3. CASE ~(k <= j)
    <3>1. /\ k - j \in 1..(n - j) /\ (j - i + 1) + (k - j) = k - i + 1 /\ j + (k - j) = k
          /\ k - i + 1 \in 1..(n - i + 1) /\ (i - 1) + (k - i + 1) = k
      BY <1>1, <2>3
    <3>2. u[k] = v[k - i + 1] /\ v[k - i + 1] = z[k - j] /\ z[k - j] = a[k]
      BY <1>7, <1>9, <1>11, <3>1
    <3> QED BY <3>2
  <2>4. k < i \/ (~(k < i) /\ k <= j) \/ ~(k <= j)
    BY <1>1
  <2> QED BY <2>1, <2>2, <2>3, <2>4
<1>13. u = a
  BY <1>1, <1>11, <1>12, SeqEqual
<1>14. a = Both(x, Both(y, z))
  BY <1>8, <1>10, <1>13, Zenon
<1>15. CutAt(a, i, j, x, y, z)
  BY <1>1, <1>5, <1>6, <1>7, <1>14 DEF CutAt
<1> QED BY <1>15

LEMMA BlockParted ==
  ASSUME NEW a \in Seq(Formats), WellFormed(a), Disjoint(a), NEW i, NEW j, <<i, j>> \in Blocks(a),
         NEW S, a[i].of \in S
  PROVE  \E above, own, below : Parted(a, i, j, S, above, own, below)
<1>1. PICK n \in Nat : n = Len(a)
  BY LenProperties
<1>2. /\ i \in 1..n /\ j \in 1..n /\ i < j
      /\ a[i].kind = "begin" /\ a[j].kind = "end" /\ a[j].of = a[i].of
      /\ \A k \in 1..n : i < k /\ k < j => a[k].kind # "end"
  BY <1>1, BlockBetween
<1>3. PICK above \in Seq(Formats), own \in Seq(Formats), below \in Seq(Formats) :
           /\ a = Both(above, Both(own, below))
           /\ Len(above) = i - 1 /\ Len(own) = j - i + 1 /\ Len(below) = n - j
           /\ \A k \in 1..(i - 1) : above[k] = a[k]
           /\ \A k \in 1..(j - i + 1) : own[k] = a[i + k - 1]
           /\ \A k \in 1..(n - j) : below[k] = a[j + k]
  <2>1. i \in 1..Len(a) /\ j \in i..Len(a)
    BY <1>1, <1>2
  <2>2. PICK above, own, below : CutAt(a, i, j, above, own, below)
    BY <2>1, ThreeParts
  <2> QED BY <1>1, <2>2 DEF CutAt
<1>4. PICK v : v = Both(own, below)
  BY Zenon
<1>5. v \in Seq(Formats) /\ Extends(a, above, v)
  BY <1>3, <1>4, BothExtends
\* A block that begins before this one is above it.
<1>6. ASSUME NEW p, NEW q, <<p, q>> \in Blocks(a), p < i PROVE <<p, q>> \in Blocks(above)
  <2>1. /\ p \in 1..n /\ q \in 1..n /\ p < q
        /\ a[p].kind = "begin" /\ a[q].kind = "end" /\ a[q].of = a[p].of
        /\ \A k \in 1..n : p < k /\ k < q => a[k].kind # "end"
    BY <1>1, <1>6, BlockBetween
  <2>2. q < i
    <3> SUFFICES ASSUME ~(q < i) PROVE FALSE
      OBVIOUS
    <3>1. i \in i..j /\ i \in p..q
      BY <1>1, <1>2, <1>6, <2>1
    <3>2. i = p
      BY <1>6, <3>1, OnePlace
    <3> QED BY <1>2, <1>6, <3>2
  <2>3. p \in 1..(i - 1) /\ q \in 1..(i - 1) /\ \A k \in 1..(i - 1) : k \in 1..n
    BY <1>1, <1>2, <1>6, <2>1, <2>2
  <2>4. above[p] = a[p] /\ above[q] = a[q] /\ \A k \in 1..(i - 1) : above[k] = a[k]
    BY <1>3, <2>3
  <2>5. \A k \in 1..(i - 1) : p < k /\ k < q => above[k].kind # "end"
    BY <2>1, <2>3, <2>4
  <2> QED BY <1>3, <2>1, <2>3, <2>4, <2>5, BlockMade
\* One that begins behind it is below it.
<1>7. ASSUME NEW p, NEW q, <<p, q>> \in Blocks(a), j < p PROVE <<p - j, q - j>> \in Blocks(below)
  <2>1. /\ p \in 1..n /\ q \in 1..n /\ p < q
        /\ a[p].kind = "begin" /\ a[q].kind = "end" /\ a[q].of = a[p].of
        /\ \A k \in 1..n : p < k /\ k < q => a[k].kind # "end"
    BY <1>1, <1>7, BlockBetween
  <2>2. PICK r \in 1..(n - j), z \in 1..(n - j) : r = p - j /\ z = q - j /\ j + r = p /\ j + z = q /\ r < z
    <3>1. p - j \in 1..(n - j) /\ q - j \in 1..(n - j) /\ j + (p - j) = p /\ j + (q - j) = q
          /\ p - j < q - j
      BY <1>1, <1>2, <1>7, <2>1
    <3> QED BY <3>1
  <2>3. below[r] = a[p] /\ below[z] = a[q]
    BY <1>3, <2>2
  <2>4. ASSUME NEW k \in 1..(n - j), r < k, k < z PROVE below[k].kind # "end"
    <3>1. j + k \in 1..n /\ p < j + k /\ j + k < q
      BY <1>1, <1>2, <2>1, <2>2, <2>4
    <3> QED BY <1>3, <2>1, <3>1
  <2>5. <<r, z>> \in Blocks(below)
    BY <1>3, <2>1, <2>2, <2>3, <2>4, BlockMade
  <2> QED BY <2>2, <2>5
<1>8. WellFormed(above)
  <2>1. DOMAIN above = 1..(i - 1) /\ DOMAIN a = 1..n
    BY <1>1, <1>3, LenProperties
  <2>2. ASSUME NEW p \in 1..(i - 1), above[p].kind = "begin" PROVE \E b \in Blocks(above) : b[1] = p
    <3>1. p \in 1..n /\ a[p].kind = "begin" /\ p < i
      BY <1>1, <1>2, <1>3, <2>2
    <3>2. PICK q : <<p, q>> \in Blocks(a)
      BY <1>1, <3>1, Opened
    <3>3. <<p, q>> \in Blocks(above)
      BY <1>6, <3>1, <3>2
    <3>4. <<p, q>>[1] = p
      OBVIOUS
    <3> QED BY <3>3, <3>4
  <2> QED BY <2>1, <2>2 DEF WellFormed, IsKind
<1>9. Disjoint(above)
  <2>1. \A b \in Blocks(above) : b \in Blocks(a)
    BY <1>5, BlocksStayInFront
  <2> QED BY <2>1 DEF Disjoint
<1>10. WellFormed(below)
  <2>1. DOMAIN below = 1..(n - j)
    BY <1>1, <1>2, <1>3, LenProperties
  <2>2. ASSUME NEW r \in 1..(n - j), below[r].kind = "begin" PROVE \E b \in Blocks(below) : b[1] = r
    <3>1. j + r \in 1..n /\ j < j + r /\ a[j + r].kind = "begin" /\ (j + r) - j = r
      BY <1>1, <1>2, <1>3, <2>2
    <3>2. PICK q : <<j + r, q>> \in Blocks(a)
      BY <1>1, <3>1, Opened
    <3>3. <<(j + r) - j, q - j>> \in Blocks(below)
      BY <1>7, <3>1, <3>2
    <3>4. <<(j + r) - j, q - j>>[1] = r
      BY <3>1
    <3> QED BY <3>3, <3>4
  <2> QED BY <2>1, <2>2 DEF WellFormed, IsKind
<1>11. Alone(own, S)
  <2>1. PICK l \in Nat : l = j - i + 1 /\ l >= 2 /\ i + l - 1 = j /\ i + 1 - 1 = i /\ 1 \in 1..l /\ l \in 1..l
    <3>1. j - i + 1 \in Nat /\ j - i + 1 >= 2 /\ i + (j - i + 1) - 1 = j /\ i + 1 - 1 = i
      BY <1>1, <1>2
    <3> QED BY <3>1
  <2>2. own[1] = a[i] /\ own[l] = a[j] /\ Len(own) = l
    BY <1>3, <2>1
  <2>3. ASSUME NEW k \in 1..l, 1 < k, k < l PROVE own[k].kind \notin {"begin", "end"}
    <3>1. PICK r \in 1..n : r = i + k - 1 /\ i < r /\ r < j
      <4>1. i + k - 1 \in 1..n /\ i < i + k - 1 /\ i + k - 1 < j
        BY <1>1, <1>2, <2>1, <2>3
      <4> QED BY <4>1
    <3>2. own[k] = a[r] /\ a[r].kind # "end"
      BY <1>2, <1>3, <2>1, <3>1
    <3>3. ASSUME a[r].kind = "begin" PROVE FALSE
      <4>1. PICK q : <<r, q>> \in Blocks(a) /\ q \in 1..n /\ r < q
        BY <1>1, <3>3, Opened
      <4>2. r \in r..q /\ r \in i..j
        BY <1>1, <1>2, <3>1, <4>1
      <4>3. i = r
        BY <4>1, <4>2, OnePlace
      <4> QED BY <1>2, <3>1, <4>3
    <3> QED BY <3>2, <3>3
  <2> QED BY <1>2, <2>1, <2>2, <2>3 DEF Alone
<1>12. ASSUME NEW p, NEW q, <<p, q>> \in Blocks(below)
       PROVE  \E r, z : <<r, z>> \in Blocks(a) /\ r > i /\ a[r] = below[p]
  <2>1. PICK front : front = Both(above, own)
    BY Zenon
  <2>2. a = Both(front, below) /\ front \in Seq(Formats) /\ Extends(front, above, own)
    <3>1. Both(front, below) = Both(above, Both(own, below))
      <4>1. Both(Both(above, own), below) = Both(above, Both(own, below))
        BY <1>3, BothGrouped
      <4> QED BY <2>1, <4>1, Zenon
    <3>2. front \in Seq(Formats) /\ Extends(front, above, own)
      BY <1>3, <2>1, BothExtends
    <3> QED BY <1>3, <3>1, <3>2, Zenon
  <2>3. Extends(a, front, below)
    BY <1>3, <2>2, BothExtends
  <2>4. Len(front) = j
    <3>1. Len(front) = Len(above) + Len(own)
      BY <2>2 DEF Extends
    <3> QED BY <1>1, <1>2, <1>3, <3>1
  <2>5. Put(a, Len(front), below, p, q)
    BY <1>3, <1>12, <2>2, <2>3, BlockBehind
  <2>6. p \in 1..(n - j) /\ j + p > i
    BY <1>1, <1>2, <1>3, <1>12, BlockBetween
  <2> QED BY <2>4, <2>5, <2>6 DEF Put
<1>13. Parted(a, i, j, S, above, own, below)
  BY <1>3, <1>6, <1>8, <1>9, <1>10, <1>11, <1>12 DEF Parted
<1> QED BY <1>13

Around(i, j, above, own, below) ==
  /\ above \in Seq(Formats) /\ own \in Seq(Formats) /\ below \in Seq(Formats)
  /\ i \in Nat /\ j \in Nat /\ Len(above) = i - 1 /\ Len(own) = j - i + 1

LEMMA ReplacedParts ==
  ASSUME NEW i, NEW j, NEW above, NEW own, NEW below, Around(i, j, above, own, below),
         NEW now \in Seq(Formats), NEW t \in Templates, NEW b, b[1] = i, b[2] = j
  PROVE  Replaced(Both(Both(above, Both(own, below)), now), b, t)
           = Both(above, Both(Encoded(t), Both(below, now)))
<1>0. /\ above \in Seq(Formats) /\ own \in Seq(Formats) /\ below \in Seq(Formats)
      /\ i \in Nat /\ j \in Nat /\ Len(above) = i - 1 /\ Len(own) = j - i + 1
  BY DEF Around
<1>1. PICK v : v = Both(Both(above, Both(own, below)), now)
  BY Zenon
<1>2. PICK rest : rest = Both(below, now)
  BY Zenon
<1>3. PICK front : front = Both(above, own)
  BY Zenon
<1>4. PICK back : back = Both(own, rest)
  BY Zenon
<1>5. PICK piece : piece = Both(own, below)
  BY Zenon
<1>6. PICK new : new = Encoded(t)
  BY Zenon
<1>7. /\ rest \in Seq(Formats) /\ front \in Seq(Formats) /\ piece \in Seq(Formats)
      /\ new \in Seq(Formats)
  <2>1. t \in Templates => new \in Seq(Formats)
    BY <1>0, <1>6, EncodedLines
  <2> QED BY <1>0, <1>2, <1>3, <1>5, <2>1, BothExtends
<1>8. back \in Seq(Formats)
  BY <1>0, <1>4, <1>7, BothExtends
<1>9. v = Both(above, back)
  <2>1. Both(Both(above, piece), now) = Both(above, Both(piece, now))
    BY <1>0, <1>7, BothGrouped
  <2>2. Both(Both(own, below), now) = Both(own, Both(below, now))
    BY <1>0, BothGrouped
  <2> QED BY <1>0, <1>1, <1>2, <1>4, <1>5, <2>1, <2>2, Zenon
<1>10. v = Both(front, rest)
  <2>1. Both(Both(above, own), rest) = Both(above, Both(own, rest))
    BY <1>0, <1>7, BothGrouped
  <2> QED BY <1>0, <1>3, <1>4, <1>9, <2>1, Zenon
<1>11. Len(front) = j
  <2>1. Len(front) = Len(above) + Len(own)
    BY <1>0, <1>3, BothExtends DEF Extends
  <2> QED BY <1>0, <2>1
<1>12. SubSeq(v, 1, i - 1) = above
  <2>1. SubSeq(Both(above, back), 1, Len(above)) = above
    BY <1>0, <1>8, BothParts
  <2> QED BY <1>0, <1>9, <2>1, Zenon
<1>13. SubSeq(v, j + 1, Len(v)) = rest
  <2>1. SubSeq(Both(front, rest), Len(front) + 1, Len(Both(front, rest))) = rest
    BY <1>0, <1>7, BothParts
  <2> QED BY <1>0, <1>10, <1>11, <2>1, Zenon
<1>14. Replaced(v, b, t) = SubSeq(v, 1, i - 1) \o new \o SubSeq(v, j + 1, Len(v))
  BY <1>0, <1>6, Zenon DEF Replaced
<1>15. Replaced(v, b, t) = Both(Both(above, new), rest)
  BY <1>0, <1>12, <1>13, <1>14, Zenon DEF Both
<1>16. Both(Both(above, new), rest) = Both(above, Both(new, rest))
  BY <1>0, <1>7, BothGrouped
<1> QED BY <1>0, <1>1, <1>2, <1>6, <1>15, <1>16, Zenon

\* The blocks of S that are stale, among those that begin in the first n lines.
StaleAt(d, S, i, j) == <<i, j>> \in Blocks(d) /\ d[i].of \in S /\ d[i].hash = "stale"

\* After k lines of d, from the last: what is above is as it was, and what was below is
\* rewritten.
Rewriting(d, S, k, v, above, was, now) ==
  /\ above \in Seq(Formats) /\ was \in Seq(Formats) /\ now \in Seq(Formats)
  /\ d = Both(above, was) /\ v = Both(above, now)
  /\ WellFormed(above) /\ Disjoint(above)
  /\ Outside(now, S) = Outside(was, S) /\ AllCurrent(now, S)
  /\ \A i, j : StaleAt(above, S, i, j) => i <= Len(d) - k
  /\ \A i, j : StaleAt(d, S, i, j) /\ i <= Len(d) - k => <<i, j>> \in Blocks(above)
Rewritten(d, S, k, v) == \E above, was, now : Rewriting(d, S, k, v, above, was, now)

LEMMA NothingRewritten ==
  ASSUME NEW d \in Seq(Formats), WellFormed(d), Disjoint(d), NEW S
  PROVE  Rewritten(d, S, 0, d)
<1>1. PICK none : none = <<>>
  BY Zenon
<1>2. none \in Seq(Formats) /\ d = Both(d, none)
  BY <1>1, BothNone
<1>3. AllCurrent(none, S)
  <2>1. Len(none) = 0
    BY <1>1
  <2>2. ASSUME NEW i, NEW j, <<i, j>> \in Blocks(none) PROVE FALSE
    <3>1. i \in 1..Len(none)
      BY <1>2, <2>2, BlockBetween
    <3> QED BY <2>1, <3>1
  <2> QED BY <2>2 DEF AllCurrent
<1>4. \A i, j : StaleAt(d, S, i, j) => i <= Len(d) - 0 /\ <<i, j>> \in Blocks(d)
  BY BlockBetween, LenProperties DEF StaleAt
<1>5. Rewriting(d, S, 0, d, d, none, none)
  BY <1>2, <1>3, <1>4 DEF Rewriting
<1> QED BY <1>5 DEF Rewritten

\* A line at which no stale block of S begins is passed over.
LEMMA LinePassed ==
  ASSUME NEW d \in Seq(Formats), NEW S, NEW k \in 1..Len(d), NEW v,
         \A j : ~StaleAt(d, S, Len(d) - k + 1, j), Rewritten(d, S, k - 1, v)
  PROVE  Rewritten(d, S, k, v)
<1>1. PICK n \in Nat : n = Len(d)
  BY LenProperties
<1>2. PICK above, was, now : Rewriting(d, S, k - 1, v, above, was, now)
  BY DEF Rewritten
<1>3. /\ above \in Seq(Formats) /\ was \in Seq(Formats) /\ now \in Seq(Formats)
      /\ Extends(d, above, was)
  BY <1>2, BothExtends DEF Rewriting
<1>4. ASSUME NEW i, NEW j, StaleAt(above, S, i, j) PROVE i <= n - k
  <2>1. <<i, j>> \in Blocks(above)
    BY <1>4 DEF StaleAt
  <2>2. i \in 1..Len(above)
    BY <1>3, <2>1, BlockBetween
  <2>3. StaleAt(d, S, i, j)
    <3>1. <<i, j>> \in Blocks(d)
      BY <1>3, <2>1, BlocksStayInFront
    <3>2. d[i] = above[i]
      BY <1>3, <2>2 DEF Extends
    <3> QED BY <1>4, <3>1, <3>2 DEF StaleAt
  <2>4. i <= n - (k - 1) /\ i # n - k + 1
    <3>1. i <= Len(d) - (k - 1)
      BY <1>2, <1>4 DEF Rewriting
    <3> QED BY <1>1, <2>3, <3>1
  <2>5. i \in Nat
    BY <1>3, <2>2, LenProperties
  <2> QED BY <1>1, <2>4, <2>5
<1>5. ASSUME NEW i, NEW j, StaleAt(d, S, i, j), i <= n - k PROVE <<i, j>> \in Blocks(above)
  <2>1. i \in 1..n
    BY <1>1, <1>5, BlockBetween DEF StaleAt
  <2>2. i <= n - (k - 1)
    BY <1>1, <1>5, <2>1
  <2> QED BY <1>1, <1>2, <1>5, <2>2 DEF Rewriting
<1>6. Rewriting(d, S, k, v, above, was, now)
  BY <1>1, <1>2, <1>4, <1>5 DEF Rewriting
<1> QED BY <1>6 DEF Rewritten

\* What is rewritten at a block: the block gives way to its template's.
LEMMA BlockRewritten ==
  ASSUME NEW d \in Seq(Formats), NEW S, NEW k \in 1..Len(d), NEW v, NEW i \in Nat, NEW j, NEW b,
         Len(d) = (k - 1) + i, b[1] = i, b[2] = j, StaleAt(d, S, i, j), Rewritten(d, S, k - 1, v)
  PROVE  Rewritten(d, S, k, Replaced(v, b, d[i].of))
<1>1. PICK n \in Nat : n = Len(d)
  BY LenProperties
<1>2. PICK above, was, now : Rewriting(d, S, k - 1, v, above, was, now)
  BY DEF Rewritten
<1>3. /\ above \in Seq(Formats) /\ was \in Seq(Formats) /\ now \in Seq(Formats)
      /\ d = Both(above, was) /\ v = Both(above, now) /\ Extends(d, above, was)
      /\ WellFormed(above) /\ Disjoint(above)
      /\ Outside(now, S) = Outside(was, S) /\ AllCurrent(now, S)
  BY <1>2, BothExtends DEF Rewriting
<1>4. <<i, j>> \in Blocks(above) /\ i <= n - (k - 1)
  <2>1. i <= Len(d) - (k - 1)
    BY <1>1
  <2> QED BY <1>1, <1>2, <2>1 DEF Rewriting
<1>5. /\ i \in 1..Len(above) /\ j \in 1..Len(above) /\ i < j /\ above[i] = d[i]
  BY <1>3, <1>4, BlockBetween DEF Extends
<1>6. PICK t \in Templates : t = d[i].of /\ t \in S
  <2>1. d[i].kind = "begin" /\ i \in 1..Len(d) /\ d[i].of \in S
    BY BlockBetween DEF StaleAt
  <2> QED BY <2>1, BeginForms
<1>7. PICK front, own, below : Parted(above, i, j, S, front, own, below)
  BY <1>3, <1>4, <1>5, <1>6, BlockParted
<1>8. /\ front \in Seq(Formats) /\ own \in Seq(Formats) /\ below \in Seq(Formats)
      /\ above = Both(front, Both(own, below)) /\ Len(front) = i - 1 /\ Len(own) = j - i + 1
      /\ WellFormed(front) /\ Disjoint(front) /\ WellFormed(below) /\ Alone(own, S)
  BY <1>7 DEF Parted
<1>9. PICK new : new = Encoded(t)
  BY Zenon
<1>10. new \in Seq(Formats) /\ Alone(new, S) /\ AllCurrent(new, S)
  BY <1>6, <1>9, EncodedAlone
<1>11. PICK wasRest \in Seq(Formats), nowRest \in Seq(Formats) :
           wasRest = Both(below, was) /\ nowRest = Both(below, now)
  BY <1>3, <1>8, BothExtends
<1>12. PICK wasAll \in Seq(Formats), nowAll \in Seq(Formats) :
           wasAll = Both(own, wasRest) /\ nowAll = Both(new, nowRest)
  BY <1>8, <1>10, <1>11, BothExtends
<1>13. d = Both(front, wasAll)
  <2>1. PICK piece \in Seq(Formats) : piece = Both(own, below)
    BY <1>8, BothExtends
  <2>2. Both(Both(front, piece), was) = Both(front, Both(piece, was))
    BY <1>3, <1>8, BothGrouped
  <2>3. Both(Both(own, below), was) = Both(own, Both(below, was))
    BY <1>3, <1>8, BothGrouped
  <2> QED BY <1>3, <1>8, <1>11, <1>12, <2>1, <2>2, <2>3, Zenon
<1>14. Replaced(v, b, d[i].of) = Both(front, nowAll)
  <2>1. j \in Nat
    BY <1>3, <1>5, LenProperties
  <2>2. Replaced(Both(Both(front, Both(own, below)), now), b, t)
          = Both(front, Both(Encoded(t), Both(below, now)))
    <3>1. Around(i, j, front, own, below)
      BY <1>8, <2>1 DEF Around
    <3> QED BY <1>3, <3>1, ReplacedParts
  <2> QED BY <1>3, <1>6, <1>8, <1>9, <1>11, <1>12, <2>2, Zenon
<1>15. Outside(nowAll, S) = Outside(wasAll, S)
  <2>1. Outside(own, S) = <<>> /\ WellFormed(own) /\ Outside(new, S) = <<>> /\ WellFormed(new)
    BY <1>8, <1>10, AloneFacts
  <2>2. /\ Outside(Both(own, wasRest), S) = Both(Outside(own, S), Outside(wasRest, S))
        /\ Outside(Both(new, nowRest), S) = Both(Outside(new, S), Outside(nowRest, S))
    BY <1>8, <1>10, <1>11, <2>1, OutsideBoth
  <2>3. /\ Outside(Both(below, was), S) = Both(Outside(below, S), Outside(was, S))
        /\ Outside(Both(below, now), S) = Both(Outside(below, S), Outside(now, S))
    BY <1>3, <1>8, OutsideBoth
  <2>4. Outside(nowRest, S) = Outside(wasRest, S)
    BY <1>3, <1>11, <2>3, Zenon
  <2> QED BY <1>12, <2>1, <2>2, <2>4, Zenon
<1>16. AllCurrent(nowAll, S)
  <2>1. AllCurrent(below, S)
    <3>1. ASSUME NEW p, NEW q, <<p, q>> \in Blocks(below), below[p].of \in S, below[p].hash = "stale"
          PROVE FALSE
      <4>1. PICK r, z : <<r, z>> \in Blocks(above) /\ r > i /\ above[r] = below[p]
        BY <1>7, <3>1 DEF Parted
      <4>2. StaleAt(above, S, r, z)
        BY <3>1, <4>1 DEF StaleAt
      <4>3. r <= n - (k - 1)
        BY <1>1, <1>2, <4>2 DEF Rewriting
      <4>4. r \in Nat
        BY <1>3, <4>1, BlockBetween, LenProperties
      <4> QED BY <1>1, <4>1, <4>3, <4>4
    <3> QED BY <3>1 DEF AllCurrent
  <2>2. AllCurrent(nowRest, S)
    BY <1>3, <1>8, <1>11, <2>1, CurrentBoth
  <2>3. WellFormed(new)
    BY <1>10, AloneFacts
  <2> QED BY <1>10, <1>11, <1>12, <2>2, <2>3, CurrentBoth
<1>17. ASSUME NEW p, NEW q, StaleAt(front, S, p, q) PROVE p <= n - k
  <2>1. p \in 1..Len(front)
    BY <1>8, <1>17, BlockBetween DEF StaleAt
  <2>2. Len(front) = n - k
    BY <1>1, <1>8
  <2> QED BY <1>1, <2>1, <2>2
<1>18. ASSUME NEW p, NEW q, StaleAt(d, S, p, q), p <= n - k PROVE <<p, q>> \in Blocks(front)
  <2>1. p \in 1..n
    BY <1>1, <1>18, BlockBetween DEF StaleAt
  <2>2. p <= n - (k - 1) /\ p < i
    BY <1>1, <1>18, <2>1
  <2>3. <<p, q>> \in Blocks(above)
    BY <1>1, <1>2, <1>18, <2>2 DEF Rewriting
  <2> QED BY <1>7, <2>2, <2>3 DEF Parted
<1>19. Rewriting(d, S, k, Replaced(v, b, d[i].of), front, wasAll, nowAll)
  BY <1>1, <1>8, <1>12, <1>13, <1>14, <1>15, <1>16, <1>17, <1>18 DEF Rewriting
<1> QED BY <1>19 DEF Rewritten

LEMMA UpdateRewrites ==
  ASSUME NEW d \in Seq(Formats), NEW S, NEW k \in 1..Len(d), NEW v, Rewritten(d, S, k - 1, v)
  PROVE  Rewritten(d, S, k, UpdateStep(d, S, k, v))
<1>1. PICK n \in Nat : n = Len(d)
  BY LenProperties
<1>2. PICK i \in Nat : i = Len(d) - k + 1 /\ Len(d) = (k - 1) + i
  BY <1>1
<1>3. PICK stale : stale = {b \in Stale(d, S) : b[1] = i}
  BY Zenon
<1>4. CASE stale = {}
  <2>1. UpdateStep(d, S, k, v) = v
    BY <1>2, <1>3, <1>4 DEF UpdateStep
  <2>2. ASSUME NEW j, StaleAt(d, S, i, j) PROVE FALSE
    <3>1. PICK b : b = <<i, j>>
      BY Zenon
    <3>2. b[1] = i
      BY <3>1
    <3>3. b \in Stale(d, S)
      BY <2>2, <3>1, <3>2 DEF StaleAt, Stale, BlocksIn
    <3> QED BY <1>3, <1>4, <3>2, <3>3
  <2>3. \A j : ~StaleAt(d, S, Len(d) - k + 1, j)
    BY <1>2, <2>2
  <2> QED BY <2>1, <2>3, LinePassed
<1>5. CASE stale # {}
  <2>1. PICK b : b = CHOOSE c \in stale : TRUE
    BY Zenon
  <2>2. b \in stale
    BY <1>5, <2>1
  <2>3. b \in Stale(d, S) /\ b[1] = i
    BY <1>3, <2>2
  <2>4. PICK p, j : b = <<p, j>> /\ b[1] = p /\ b[2] = j
    BY <2>3, BlockPair DEF Stale, BlocksIn
  <2>5. StaleAt(d, S, i, j)
    BY <2>3, <2>4 DEF StaleAt, Stale, BlocksIn
  <2>6. UpdateStep(d, S, k, v) = Replaced(v, b, d[i].of)
    BY <1>2, <1>3, <1>5, <2>1 DEF UpdateStep
  <2>7. Rewritten(d, S, k, Replaced(v, b, d[i].of))
    BY <1>2, <2>3, <2>4, <2>5, BlockRewritten
  <2> QED BY <2>6, <2>7
<1> QED BY <1>4, <1>5

LEMMA UpdatedOutside ==
  ASSUME NEW d \in Seq(Formats), WellFormed(d), Disjoint(d), NEW S, NEW e \in PlanUpdate(d, S)
  PROVE  Outside(e, S) = Outside(d, S) /\ Stale(e, S) = {}
<1>1. PICK n \in Nat : n = Len(d)
  BY LenProperties
<1>2. PICK g : Updating(d, S, g) /\ e = g[Len(d)]
  BY UpdateSteps
<1> DEFINE T == {k \in 0..n : Rewritten(d, S, k, g[k])}
<1>3. 0 \in T
  <2>1. Rewritten(d, S, 0, d)
    BY NothingRewritten
  <2> QED BY <1>1, <1>2, <2>1 DEF Updating
<1>4. ASSUME NEW k \in 1..n, k - 1 \in T PROVE k \in T
  <2>1. k \in 0..n /\ Rewritten(d, S, k - 1, g[k - 1]) /\ g[k] = UpdateStep(d, S, k, g[k - 1])
    BY <1>1, <1>2, <1>4 DEF Updating
  <2>2. Rewritten(d, S, k, UpdateStep(d, S, k, g[k - 1]))
    BY <1>1, <2>1, UpdateRewrites
  <2> QED BY <2>1, <2>2
<1> HIDE DEF T
<1>5. 0..n \subseteq T
  BY <1>1, <1>3, <1>4, Induction
<1>6. Rewritten(d, S, n, e)
  <2>1. n \in 0..n
    BY <1>1
  <2> QED BY <1>1, <1>2, <1>5, <2>1 DEF T
<1>7. PICK above, was, now : Rewriting(d, S, n, e, above, was, now)
  BY <1>6 DEF Rewritten
<1>8. /\ above \in Seq(Formats) /\ was \in Seq(Formats) /\ now \in Seq(Formats)
      /\ d = Both(above, was) /\ e = Both(above, now) /\ WellFormed(above)
      /\ Outside(now, S) = Outside(was, S) /\ AllCurrent(now, S)
  BY <1>7 DEF Rewriting
<1>9. AllCurrent(above, S)
  <2>1. ASSUME NEW i, NEW j, <<i, j>> \in Blocks(above), above[i].of \in S, above[i].hash = "stale"
        PROVE FALSE
    <3>1. i <= n - n
      BY <1>1, <1>7, <2>1 DEF Rewriting, StaleAt
    <3>2. i \in 1..Len(above)
      BY <1>8, <2>1, BlockBetween
    <3> QED BY <1>1, <3>1, <3>2
  <2> QED BY <2>1 DEF AllCurrent
<1>10. Stale(e, S) = {}
  <2>1. e \in Seq(Formats) /\ AllCurrent(e, S)
    BY <1>8, <1>9, BothExtends, CurrentBoth
  <2> QED BY <2>1, StaleBlocks
<1>11. /\ Outside(Both(above, was), S) = Both(Outside(above, S), Outside(was, S))
       /\ Outside(Both(above, now), S) = Both(Outside(above, S), Outside(now, S))
  BY <1>8, OutsideBoth
<1>12. Outside(e, S) = Outside(d, S)
  BY <1>8, <1>11, Zenon
<1> QED BY <1>10, <1>12
-----------------------------------------------------------------------------
(* The properties.                                                         *)

LEMMA DocumentInductive ==
  ASSUME DocumentTypeOK, [DocumentNext]_documentVars
  PROVE  DocumentTypeOK'
<1>1. CASE UNCHANGED documentVars
  BY <1>1 DEF DocumentTypeOK, documentVars
<1>2. CASE DocumentNext
  <2>1. \E S \in Selections, t \in Templates :
          /\ writes < MaxWrites /\ writes' = writes + 1
          /\ \/ doc' \in PlanAdd(doc, S) \/ doc' \in PlanRemove(doc, S)
             \/ doc' \in PlanUpdate(doc, S) \/ doc' \in PlanAdopt(doc, t)
    <3>1. \A t \in Templates : {t} \in Selections
      BY DEF Selections
    <3>2. \A S \in Selections : \E t : t \in Templates
      BY DEF Selections
    <3> QED BY <1>2, <3>1, <3>2 DEF DocumentNext, CreateTemplates, AddTemplates, RemoveTemplates,
                                    UpdateTemplates, AdoptTemplate, WritePlan, PlanCreate
  <2>2. doc \in Seq(Formats)
    BY DEF DocumentTypeOK
  <2>3. doc' \in Seq(Formats)
    BY <2>1, <2>2, AdditionType, RemovalPicks, UpdateType, AdoptionType
  <2> QED BY <2>1, <2>3, WritesAssumption DEF DocumentTypeOK
<1> QED BY <1>1, <1>2

\* Every plan makes lines of the format of a document with such lines.
THEOREM DocumentTypeCorrect == DocumentSpec => []DocumentTypeOK
<1>1. DocumentInit => DocumentTypeOK
  BY DocumentsAssumption, WritesAssumption DEF DocumentInit, DocumentTypeOK
<1> QED BY <1>1, DocumentInductive, PTL DEF DocumentSpec

\* However broken the markers of the file are, adding or removing some templates leaves
\* the blocks of the others in one piece, for every catalog and every document.
THEOREM OthersAlwaysUndisturbed == DocumentSpec => OthersUndisturbed
<1>1. ASSUME DocumentTypeOK, NEW S \in Selections, AddTemplates(S) \/ RemoveTemplates(S)
      PROVE  KeepsOthers(S)
  <2>1. doc \in Seq(Formats)
    BY <1>1 DEF DocumentTypeOK
  <2>2. doc' \in PlanAdd(doc, S) \/ doc' \in PlanRemove(doc, S)
    BY <1>1 DEF AddTemplates, RemoveTemplates, WritePlan
  <2>3. CASE doc' \in PlanAdd(doc, S)
    BY <2>1, <2>3, AdditionKeeps DEF KeepsOthers
  <2>4. CASE doc' \in PlanRemove(doc, S)
    BY <2>1, <2>4, RemovalKeepsBlocks, RemovalKeepsState DEF KeepsOthers
  <2> QED BY <2>2, <2>3, <2>4
<1>2. ASSUME DocumentTypeOK, [DocumentNext]_documentVars
      PROVE  [\A S \in Selections : AddTemplates(S) \/ RemoveTemplates(S) => KeepsOthers(S)]_documentVars
  BY <1>1, <1>2
<1> QED BY <1>2, DocumentTypeCorrect, PTL DEF DocumentSpec, OthersUndisturbed

\* Removal takes no rule from a template that stays and that the user wrote by hand.
THEOREM HandwrittenAlwaysStay == DocumentSpec => HandwrittenTemplatesStay
<1>1. ASSUME DocumentTypeOK, NEW S \in Selections, RemoveTemplates(S), NEW t \in Templates \ S,
             ByHand(doc, t), ~Managed(doc, t)
      PROVE  ToSet(Content[t]) \subseteq RulesOf(doc') /\ (WellFormed(doc) => ByHand(doc', t))
  <2>1. doc \in Seq(Formats) /\ doc' \in PlanRemove(doc, S)
    BY <1>1 DEF DocumentTypeOK, RemoveTemplates, WritePlan
  <2> QED BY <1>1, <2>1, RemovalKeepsByHand
<1>2. ASSUME DocumentTypeOK, [DocumentNext]_documentVars
      PROVE  [\A S \in Selections : RemoveTemplates(S) =>
                \A t \in Templates \ S : ByHand(doc, t) /\ ~Managed(doc, t) =>
                  /\ ToSet(Content[t]) \subseteq RulesOf(doc')
                  /\ WellFormed(doc) => ByHand(doc', t)]_documentVars
  BY <1>1, <1>2
<1> QED BY <1>2, DocumentTypeCorrect, PTL DEF DocumentSpec, HandwrittenTemplatesStay

\* A template none of whose rules were there can be added and removed again.
THEOREM AddAlwaysReversible == DocumentSpec => AddIsReversible
<1>1. ASSUME DocumentTypeOK, NEW t \in Templates, AddTemplates({t}), WellFormed(doc),
             State(doc, t) = "absent"
      PROVE  PlanRemove(doc', {t}) = {doc \o Separator(doc)}
  <2>1. doc \in Seq(Formats) /\ doc' \in PlanAdd(doc, {t}) /\ WellFormed(doc)
    BY <1>1 DEF DocumentTypeOK, AddTemplates, WritePlan
  <2> QED BY <1>1, <2>1, RemovedAgain
<1>2. ASSUME DocumentTypeOK, [DocumentNext]_documentVars
      PROVE  [\A t \in Templates : AddTemplates({t}) /\ WellFormed(doc) /\ State(doc, t) = "absent" =>
                PlanRemove(doc', {t}) = {doc \o Separator(doc)}]_documentVars
  BY <1>1, <1>2
<1> QED BY <1>2, DocumentTypeCorrect, PTL DEF DocumentSpec, AddIsReversible

\* Whatever templates an update is asked for, in a file whose markers are in order it
\* replaces their blocks and not a line outside them, and none of them is stale afterwards
\* (update.go: the edits are made from the last to the first).
THEOREM UpdatesAlwaysLocal == DocumentSpec => UpdateIsLocal
<1>1. ASSUME DocumentTypeOK, NEW S \in Selections, UpdateTemplates(S), Tidy(doc)
      PROVE  Outside(doc', S) = Outside(doc, S) /\ Stale(doc', S) = {}
  <2>1. doc \in Seq(Formats) /\ doc' \in PlanUpdate(doc, S) /\ WellFormed(doc) /\ Disjoint(doc)
    BY <1>1 DEF DocumentTypeOK, UpdateTemplates, WritePlan, Tidy
  <2> QED BY <2>1, UpdatedOutside
<1>2. ASSUME DocumentTypeOK, [DocumentNext]_documentVars
      PROVE  [\A S \in Selections : UpdateTemplates(S) /\ Tidy(doc) =>
                Outside(doc', S) = Outside(doc, S) /\ Stale(doc', S) = {}]_documentVars
  BY <1>1, <1>2
<1> QED BY <1>2, DocumentTypeCorrect, PTL DEF DocumentSpec, UpdateIsLocal
=============================================================================
