---------------------------- MODULE CustomCommands ----------------------------
(***************************************************************************)
(* Custom commands (internal/customcmd and their part of the application): *)
(* a command of the configuration is started from the palette or its key,  *)
(* asks for what it needs in a form of prompts, may ask to be confirmed in *)
(* a second form, and runs as a process outside Git.  A value is a set of  *)
(* words: empty, one word typed or chosen, or the several words of a       *)
(* multi-select.  The lengths and the pattern a prompt sets are the values *)
(* it accepts.                                                             *)
(***************************************************************************)
EXTENDS Naturals, FiniteSets, Sequences, SequencesExt

CONSTANTS Commands,    \* the configured commands: contexts, confirm, prompts, args,
                       \* whether they mutate or refresh
          Words,       \* what can be typed
          Places,      \* what a command may be started on: view, path, sha, branch,
                       \* url, and the lists loaded
          CommandWork  \* how much a behaviour may do

VARIABLES form,        \* m.CustomCommandForm and m.CustomCommandPending
          kept,        \* m.CustomCommandPromptValues, <<>> for nil
          place,       \* what the workspaces show
          processes,   \* commands running
          told,        \* what m.Status says of the last command
          session,     \* m.repositoryGeneration
          commandWork  \* what is left of one element of CommandWork

commandVars == <<form, kept, place, processes, told, session, commandWork>>

ConfirmID == "__confirm"
NoForm == [of |-> "none", prompts |-> <<>>, values |-> <<>>, picked |-> <<>>, at |-> 0,
           input |-> {}, cursor |-> 0]
PromptKinds == {"text", "secret", "confirm", "select", "multi"}
Prompts == [id : STRING \cup {ConfirmID}, kind : PromptKinds, required : BOOLEAN, options : Seq(STRING),
            source : STRING \cup {"none"}, default : SUBSET STRING, accepts : SUBSET SUBSET STRING]
Chooses(p) == p.kind \in {"select", "multi"}
IDs(prompts) == {prompts[i].id : i \in DOMAIN prompts}
Accepts(p, v) == v \in p.accepts /\ (p.required => v # {})
Distinct(s) == \A i, j \in DOMAIN s : s[i] = s[j] => i = j

(* validatePrompt, and the check of a default NewForm adds to it.           *)
PromptValid(p) ==
    /\ p.kind \in PromptKinds /\ Distinct(p.options)
    /\ ~Chooses(p) => p.options = <<>> /\ p.source = "none"
    /\ Chooses(p) => p.options # <<>> \/ p.source # "none"
    /\ p.default # {} => /\ p.kind \notin {"secret", "confirm"} /\ p.default \in p.accepts
                         /\ Chooses(p) => p.default \subseteq ToSet(p.options)
FormValid(prompts) ==
    /\ prompts # <<>> /\ \A i \in DOMAIN prompts : PromptValid(prompts[i])
    /\ Cardinality(IDs(prompts)) = Len(prompts)

ContextNames == {"repo", "path", "sha", "branch", "remote", "tag", "url"}
CommandValid(c) ==
    /\ c.contexts \subseteq {"status", "history", "compare", "github", "any"}
    /\ c.prompts # <<>> => FormValid(c.prompts)
    /\ \A a \in c.args : (a.prompt /\ a.name \in IDs(c.prompts)) \/ (~a.prompt /\ a.name \in ContextNames)

ASSUME CommandBounds ==
    /\ \A name \in DOMAIN Commands : Commands[name].prompts \in Seq(Prompts) /\ CommandValid(Commands[name])
    /\ \A there \in Places : \A source \in DOMAIN there.lists : there.lists[source] \in Seq(STRING)
    /\ \A name \in DOMAIN Commands : \A p \in ToSet(Commands[name].prompts) :
          p.source = "none" \/ \A there \in Places : p.source \in DOMAIN there.lists
    /\ CommandWork \subseteq [starts : Nat, moves : Nat]

CommandTypeOK ==
    /\ form.prompts # <<>> => /\ form.of \in DOMAIN Commands /\ form.at \in DOMAIN form.prompts
                              /\ DOMAIN form.values = IDs(form.prompts)
    /\ \A id \in DOMAIN kept : IsFiniteSet(kept[id])
    /\ place \in Places /\ session \in Nat \ {0}
    /\ \A p \in processes : p.command \in DOMAIN Commands /\ p.session <= session
    /\ told \in {"nothing", "asked", "refused", "ready", "cancelled", "complete", "output", "hidden", "failed"}
    /\ commandWork \in [starts : Nat, moves : Nat]

CommandInit ==
    /\ form = NoForm /\ kept = <<>> /\ place \in Places /\ processes = {}
    /\ told = "nothing" /\ session = 1 /\ commandWork \in CommandWork

-----------------------------------------------------------------------------
(* customCommandContext: it fills neither the remote nor the tag.           *)
ContextValue(name) ==
    CASE name = "repo" -> {"repo"} [] name = "path" -> place.path [] name = "branch" -> place.branch
      [] name = "sha" /\ place.view = "history" -> place.sha
      [] name = "url" /\ place.view = "github" -> place.url
      [] OTHER -> {}

(* ResolvePrompts adds the words of a loaded list to a prompt's own, each    *)
(* once.                                                                    *)
Unique(words) ==
    LET seen[i \in 0 .. Len(words)] ==
          IF i = 0 THEN <<>>
          ELSE IF words[i] \in ToSet(seen[i - 1]) THEN seen[i - 1] ELSE Append(seen[i - 1], words[i])
    IN seen[Len(words)]
Resolved(p) ==
    IF p.source = "none" THEN p ELSE [p EXCEPT !.options = Unique(@ \o place.lists[p.source])]
Resolvable(prompts) ==
    LET resolved == [i \in DOMAIN prompts |-> Resolved(prompts[i])] IN
    /\ \A i \in DOMAIN prompts : prompts[i].source # "none" => resolved[i].options # <<>>
    /\ FormValid(resolved)

(* loadCurrent and NewForm.                                                 *)
FirstIn(options, value) ==
    IF \E i \in DOMAIN options : {options[i]} = value
      THEN CHOOSE i \in DOMAIN options : {options[i]} = value ELSE 1
LoadPrompt(f, i) == [f EXCEPT !.at = i, !.input = f.values[f.prompts[i].id],
                              !.cursor = FirstIn(f.prompts[i].options, f.values[f.prompts[i].id])]
FormFor(name, prompts) ==
    LET defaults == [id \in IDs(prompts) |-> (CHOOSE p \in ToSet(prompts) : p.id = id).default] IN
    LoadPrompt([NoForm EXCEPT !.of = name, !.prompts = prompts, !.values = defaults, !.picked = defaults], 1)
ConfirmPrompt == [id |-> ConfirmID, kind |-> "confirm", required |-> FALSE, options |-> <<>>,
                  source |-> "none", default |-> {}, accepts |-> {{}}]

-----------------------------------------------------------------------------
(* runCustomCommand, with the values k at hand: it opens a form, refuses, or *)
(* starts the process.  A refusal leaves the values where they are.         *)
ArgValue(a, k) == IF ~a.prompt THEN ContextValue(a.name)
                  ELSE IF a.name \in DOMAIN k THEN k[a.name] ELSE {}
Expandable(c, k) == \A a \in c.args : ArgValue(a, k) # {}
InContext(c) == c.contexts = {} \/ c.contexts \cap {"any", place.view} # {}
Confirmed(k) == ConfirmID \in DOMAIN k /\ k[ConfirmID] = {"true"}
Secret(c, k) == \E i \in DOMAIN c.prompts :
    c.prompts[i].kind = "secret" /\ c.prompts[i].id \in DOMAIN k /\ k[c.prompts[i].id] # {}

AskFirst(name) ==
    LET prompts == Commands[name].prompts IN
    /\ prompts # <<>> /\ kept = <<>> /\ Resolvable(prompts)
    /\ form' = FormFor(name, [i \in DOMAIN prompts |-> Resolved(prompts[i])])
    /\ kept' = kept /\ told' = "asked" /\ UNCHANGED processes
Refuse(name, k) ==
    LET c == Commands[name] IN
    /\ IF c.prompts # <<>> /\ k = <<>> THEN ~Resolvable(c.prompts)
       ELSE ~(InContext(c) /\ Expandable(c, k))
    /\ form' = NoForm /\ kept' = k /\ told' = "refused" /\ UNCHANGED processes
Ready(c, k) == (c.prompts = <<>> \/ k # <<>>) /\ InContext(c) /\ Expandable(c, k)
AskToConfirm(name, k) ==
    /\ Ready(Commands[name], k) /\ Commands[name].confirm /\ ~Confirmed(k)
    /\ form' = FormFor(name, <<ConfirmPrompt>>)
    /\ kept' = k /\ told' = "asked" /\ UNCHANGED processes
StartProcess(name, k) ==
    LET c == Commands[name] IN
    /\ Ready(c, k) /\ (c.confirm => Confirmed(k))
    /\ processes' = processes \cup
         {[id |-> commandWork.starts, command |-> name, hidden |-> Secret(c, k),
           refresh |-> c.refresh \/ c.mutates, session |-> session]}
    /\ form' = NoForm /\ kept' = <<>> /\ told' = IF form = NoForm THEN told ELSE "ready"
RunCustomCommand(name, k) ==
    Refuse(name, k) \/ AskToConfirm(name, k) \/ StartProcess(name, k)

ChooseCommand(name) ==  \* from the palette, or by the command's key
    /\ commandWork.starts > 0 /\ form = NoForm
    /\ commandWork' = [commandWork EXCEPT !.starts = @ - 1]
    /\ AskFirst(name) \/ RunCustomCommand(name, kept)
    /\ UNCHANGED <<place, session>>

-----------------------------------------------------------------------------
(* The keys and clicks of a form (Form.Handle).                             *)
Prompt == form.prompts[form.at]
InForm(kinds) == form.prompts # <<>> /\ Prompt.kind \in kinds
Edit(f) == form' = f /\ UNCHANGED <<kept, place, processes, told, session, commandWork>>
Type(v) == InForm({"text", "secret"}) /\ v # form.input /\ Edit([form EXCEPT !.input = v])
MoveField ==  \* up, down, and a click, which moves as often as it takes
    /\ InForm({"select", "multi"})
    /\ \E i \in DOMAIN Prompt.options : i # form.cursor /\ Edit([form EXCEPT !.cursor = i])
TogglePick(id, word) == [form EXCEPT !.picked[id] = IF word \in @ THEN @ \ {word} ELSE @ \cup {word}]
Space == InForm({"multi"}) /\ Edit(TogglePick(Prompt.id, Prompt.options[form.cursor]))

(* advance: the last prompt accepted submits the form.                      *)
AdvanceForm(value) ==
    LET f == [form EXCEPT !.input = value, !.values[Prompt.id] = value] IN
    /\ IF form.at < Len(form.prompts)
         THEN form' = LoadPrompt(f, form.at + 1) /\ UNCHANGED <<kept, processes, told>>
         ELSE RunCustomCommand(form.of, f.values)
    /\ UNCHANGED <<place, session, commandWork>>
Entered == CASE Prompt.kind = "select" -> {Prompt.options[form.cursor]}
             [] Prompt.kind = "multi" -> form.picked[Prompt.id] \cap ToSet(Prompt.options)
             [] OTHER -> form.input
Enter ==
    /\ InForm({"text", "secret", "select", "multi"})
    /\ IF Accepts(Prompt, Entered) THEN AdvanceForm(Entered)
       ELSE Edit([form EXCEPT !.input = Entered])
SayYes == InForm({"confirm"}) /\ AdvanceForm({"true"})
LeaveForm ==  \* esc, and n to a question
    /\ form # NoForm
    /\ form' = NoForm /\ kept' = <<>> /\ told' = "cancelled"
    /\ UNCHANGED <<place, processes, session, commandWork>>

(* Run, and CustomCommandFinishedMsg, which is dropped when another         *)
(* repository was opened since.                                             *)
EndProcess(p, output) ==
    /\ processes' = processes \ {p}
    /\ told' = IF p.session # session THEN told
               ELSE IF p.hidden /\ output # "failed" THEN "hidden" ELSE output
    /\ UNCHANGED <<form, kept, place, session, commandWork>>

(* The user moves about, and refreshes change what is shown: the view stays *)
(* while a form is open, and a repository is opened only without one.       *)
MoveAbout(there) ==
    /\ commandWork.moves > 0 /\ commandWork' = [commandWork EXCEPT !.moves = @ - 1]
    /\ place' = there /\ (form # NoForm => there.view = place.view)
    /\ session' \in {session} \cup (IF form = NoForm THEN {session + 1} ELSE {})
    /\ UNCHANGED <<form, kept, processes, told>>

CommandNext ==
    \/ \E name \in DOMAIN Commands : ChooseCommand(name)
    \/ \E w \in Words : Type({w})
    \/ Type({})
    \/ MoveField \/ Space \/ Enter \/ SayYes \/ LeaveForm
    \/ \E p \in processes, output \in {"complete", "output", "failed"} : EndProcess(p, output)
    \/ \E there \in Places : MoveAbout(there)

CommandSpec == CommandInit /\ [][CommandNext]_commandVars

-----------------------------------------------------------------------------
(* A prompt that was passed keeps an answer it accepts, among the words it  *)
(* offered, while the later ones are answered, whatever the lists and the   *)
(* defaults were.                                                           *)
PassedPromptsHold ==
    \A i \in 1..(form.at - 1) :
        LET p == form.prompts[i] IN
        p.kind # "confirm" =>
            /\ form.values[p.id] \in p.accepts /\ (p.required => form.values[p.id] # {})
            /\ Chooses(p) => form.values[p.id] \subseteq ToSet(p.options)

(* What docs/advanced-workflows.md:112-113 says: a command that requires    *)
(* confirmation starts as the user says yes to the question about it.       *)
(* runCustomCommand keeps the values of a form, the yes among them, when it *)
(* refuses, and the next command takes them for its own.                    *)
ConfirmedEachTime ==
    [][\A p \in processes' \ processes :
           Commands[p.command].confirm =>
               form.of = p.command /\ IDs(form.prompts) = {ConfirmID}]_commandVars
===============================================================================
