---------------------------- MODULE StashWorkspace ----------------------------
(***************************************************************************)
(* The Stashes workspace.  A stash is a number; Git names one by its place  *)
(* in the list, newest first, and so do the rows, the questions and the    *)
(* operations they start, which run side by side in Git's own time.        *)
(***************************************************************************)
EXTENDS Naturals, Sequences, FiniteSets, SequencesExt

CONSTANTS StashWork  \* how much a behaviour may do: questions, previews, events outside

ASSUME StashBounds == StashWork \subseteq [asks : Nat, previews : Nat, outside : Nat]

VARIABLES stack, newest, \* Git's stashes, and how many were ever made
          dirty,         \* the worktree has changes
          entries, picked, \* m.Stashes.Entries and Selected, 0 when there are none
          stashReads,    \* lists read, StashesReadyMsg to come
          preview, previews, \* m.StashPreviewRef and its text, the reads of one
          stashAsk,      \* the question open: what to do, to which place, and what is there
          stashJobs,     \* operations under way
          stashWork      \* what is left of one element of StashWork

stashVars == <<stack, newest, dirty, entries, picked, stashReads, preview, previews, stashAsk,
               stashJobs, stashWork>>

NoStashQuestion == [kind |-> "none", ref |-> 0, named |-> 0]
NoPreview == [ref |-> 0, text |-> 0]
Distinctly(s) == \A i, j \in DOMAIN s : s[i] = s[j] => i = j

StashTypeOK ==
    /\ stack \in Seq(1..newest) /\ Distinctly(stack) /\ dirty \in BOOLEAN
    /\ entries \in Seq(1..newest) /\ picked \in 0..Len(entries) /\ (entries # <<>> => picked # 0)
    /\ stashAsk.kind \in {"none", "create", "apply", "pop", "drop", "branch"}
    /\ \A j \in stashJobs : j.step \in {"asked", "checked", "done"}
    /\ preview.text \in 0..newest /\ stashWork \in [asks : Nat, previews : Nat, outside : Nat]

StashInit ==
    /\ newest = 2 /\ stack = <<2, 1>> /\ dirty \in BOOLEAN
    /\ entries = stack /\ picked = 1 /\ stashReads = {}
    /\ preview = NoPreview /\ previews = {} /\ stashAsk = NoStashQuestion /\ stashJobs = {}
    /\ stashWork \in StashWork

StashSpends(what) == stashWork[what] > 0 /\ stashWork' = [stashWork EXCEPT ![what] = @ - 1]
Shows == UNCHANGED <<entries, picked, preview>>
GitStays == UNCHANGED <<stack, newest, dirty>>

-----------------------------------------------------------------------------
(* loadStashes and StashesReadyMsg: SetEntries keeps the place selected.    *)
StashesReady ==
    \E l \in stashReads :
        /\ stashReads' = stashReads \ {l}
        /\ \/ /\ entries' = l
              /\ picked' = IF l = <<>> THEN 0 ELSE IF picked \in DOMAIN l THEN picked ELSE 1
           \/ UNCHANGED <<entries, picked>>
        /\ UNCHANGED <<preview, previews, stashAsk, stashJobs, stashWork>> /\ GitStays
MoveStash ==
    /\ stashAsk.kind = "none" /\ picked' \in DOMAIN entries \ {picked}
    /\ UNCHANGED <<entries, preview, previews, stashReads, stashAsk, stashJobs, stashWork>> /\ GitStays

(* previewSelectedStash; the text comes by the place.                       *)
PreviewStash ==
    /\ stashAsk.kind = "none" /\ picked \in DOMAIN entries /\ StashSpends("previews")
    /\ previews' = previews \cup {[ref |-> picked, text |-> IF picked \in DOMAIN stack THEN stack[picked] ELSE 0]}
    /\ UNCHANGED <<stashReads, stashAsk, stashJobs>> /\ Shows /\ GitStays
PreviewReady ==
    \E p \in previews :
        /\ previews' = previews \ {p} /\ preview' = IF p.text = 0 THEN preview ELSE p
        /\ UNCHANGED <<entries, picked, stashReads, stashAsk, stashJobs, stashWork>> /\ GitStays

(* Questions: a, p, D and b about the row selected, and a message for new   *)
(* ones; then y or enter, n or esc.                                         *)
AskStash ==
    /\ stashAsk.kind = "none" /\ StashSpends("asks")
    /\ \/ stashAsk' = [NoStashQuestion EXCEPT !.kind = "create"]
       \/ /\ picked \in DOMAIN entries
          /\ \E k \in {"apply", "pop", "drop", "branch"} :
                 stashAsk' = [kind |-> k, ref |-> picked, named |-> entries[picked]]
    /\ UNCHANGED <<previews, stashReads, stashJobs>> /\ Shows /\ GitStays
AnswerStash ==
    /\ stashAsk.kind # "none" /\ stashAsk' = NoStashQuestion
    /\ stashJobs' \in {stashJobs,
           stashJobs \cup {[id |-> stashWork, kind |-> stashAsk.kind, ref |-> stashAsk.ref,
                            named |-> stashAsk.named, took |-> 0, step |-> "asked"]}}
    /\ UNCHANGED <<previews, stashReads, stashWork>> /\ Shows /\ GitStays

-----------------------------------------------------------------------------
(* The operations.  ApplyChecked, PopChecked and BranchChecked look whether *)
(* the worktree is clean, and then ask Git, in another process.             *)
Becomes(j, next) == stashJobs' = (stashJobs \ {j}) \cup {next}
Checks == {"apply", "pop", "branch"}
RequireClean ==
    \E j \in stashJobs :
        /\ j.step = "asked" /\ j.kind \in Checks
        /\ Becomes(j, [j EXCEPT !.step = IF dirty THEN "done" ELSE "checked"])
        /\ UNCHANGED <<previews, stashReads, stashAsk, stashWork>> /\ Shows /\ GitStays
GitMay(j) == IF j.kind \in Checks THEN j.step = "checked" ELSE j.step = "asked"
GitStashes ==
    \E j \in stashJobs :
        /\ GitMay(j)
        /\ \/ /\ j.kind # "create" /\ j.ref \in DOMAIN stack
              /\ Becomes(j, [j EXCEPT !.step = "done", !.took = stack[j.ref]])
              /\ stack' = IF j.kind = "apply" THEN stack ELSE RemoveAt(stack, j.ref)
              /\ dirty' = (dirty \/ j.kind # "drop") /\ UNCHANGED newest
           \/ /\ j.kind = "create" /\ dirty
              /\ Becomes(j, [j EXCEPT !.step = "done"])
              /\ newest' = newest + 1 /\ stack' = <<newest + 1>> \o stack
              /\ dirty' \in BOOLEAN  \* untracked files stay unless they are included
           \/ Becomes(j, [j EXCEPT !.step = "done"]) /\ GitStays  \* nothing to save, a conflict, no such stash
        /\ UNCHANGED <<previews, stashReads, stashAsk, stashWork>> /\ Shows
StashFinished ==
    \E j \in stashJobs :
        /\ j.step = "done" /\ stashJobs' = stashJobs \ {j} /\ stashReads' = stashReads \cup {stack}
        /\ UNCHANGED <<previews, stashAsk, stashWork>> /\ Shows /\ GitStays
StashOutside ==  \* another terminal edits, or stashes
    /\ StashSpends("outside")
    /\ \/ dirty' = ~dirty /\ UNCHANGED <<stack, newest>>
       \/ dirty /\ newest' = newest + 1 /\ stack' = <<newest + 1>> \o stack /\ dirty' = FALSE
    /\ UNCHANGED <<previews, stashReads, stashAsk, stashJobs>> /\ Shows

StashNext ==
    \/ StashesReady \/ MoveStash \/ PreviewStash \/ PreviewReady \/ AskStash \/ AnswerStash
    \/ RequireClean \/ GitStashes \/ StashFinished \/ StashOutside

-----------------------------------------------------------------------------
(* "Deletion requires exact confirmation" (docs/advanced-workflows.md:127):   *)
(* the stash dropped or restored is the one the question was about.  The     *)
(* question and the operation say only its place, which names another stash *)
(* once one was made or dropped.                                            *)
StashIsTheNamed == \A j \in stashJobs : j.took \in {0, j.named}
===============================================================================
