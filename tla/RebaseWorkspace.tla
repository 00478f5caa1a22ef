--------------------------- MODULE RebaseWorkspace ---------------------------
(***************************************************************************)
(* Interactive rebases and historical edits: the plan on the screen        *)
(* (rebase/plan.go, ui/rebaseview), the todo that git/rebase.go hands to   *)
(* Git, the composer that amends a commit at which Git stops, and the      *)
(* continue or abort that follows.  A commit is the set of the changes it  *)
(* holds, a branch the sequence of its commits, the oldest first.          *)
(***************************************************************************)
EXTENDS Integers, Sequences, FiniteSets, SequencesExt

CONSTANTS Commits,     \* commits of the branch at first
          Upstream,    \* how many of them the upstream has; 0: there is none
          OtherBranches, \* what the other branches have
          PageSize,    \* commits of a page of the history, 100 in the code
          PlanActions, \* what a commit of the plan may be given
          RebaseWork   \* how much a behaviour may do: edits of plans, Git commands
                       \* begun in gitwatch, commands of the other terminal,
                       \* pages of the history asked for

ASSUME RebaseBounds ==
    /\ Commits \in Nat \ {0} /\ Upstream \in 0..Commits
    /\ OtherBranches \subseteq Seq(SUBSET Int) /\ PageSize \in Nat \ {0}
    /\ RebaseWork \subseteq [keys : Nat, runs : Nat, other : Nat, loads : Nat]
    /\ PlanActions \subseteq {"pick", "reword", "edit", "squash", "fixup", "drop"}
    /\ "pick" \in PlanActions

VARIABLES branch,     \* what Git has
          rebase,     \* the rebase Git has in progress
          loaded,     \* m.HistoryCommits, here the oldest first; a row is its commit's
                      \* chain, from the first of its ancestors to itself
          paging,     \* m.HistorySkip, m.HistoryHasMore; known (ghost): the changes of
                      \* the branch when the first page of the rows was read
          pages,      \* HistoryReadyMsg on the way
          sheet,      \* m.Rebase: the plan, the base, the selection
          dialog,     \* m.RebaseConfirmAction, m.RebaseAutosquashConfirm
          historical, \* m.HistoricalRebaseAction
          rebaseView, \* the workspace on the screen
          runs,       \* Git commands begun and not handled yet
          lost,       \* changes a rebase begun here by a plan that reaches its base took
                      \* off without being told to
          work,       \* what the behaviour may still do, of RebaseWork at first
          started     \* Git commands begun

rbVars == <<branch, rebase, loaded, paging, pages, sheet, dialog, historical, rebaseView,
            runs, lost, work, started>>

Changes(s) == UNION {s[i] : i \in DOMAIN s}
Melds == {"squash", "fixup"}
Stopped == {"conflict", "edit"}

NoRebase == [at |-> "none", todo |-> <<>>, head |-> <<>>, whole |-> FALSE, excused |-> {}]
EmptySheet == [plan |-> <<>>, base |-> <<>>, bases |-> {}, selected |-> 1,
               marked |-> {}, published |-> FALSE, error |-> FALSE, known |-> {}]

RbTypeOK ==
    /\ \A i \in DOMAIN branch : IsFiniteSet(branch[i])
    /\ rebase.at \in {"none", "running", "conflict", "edit"}
    /\ rebase.whole \in BOOLEAN
    /\ paging.skip \in Nat /\ paging.more \in BOOLEAN
    /\ \A i \in DOMAIN sheet.plan : sheet.plan[i].action \in PlanActions
    /\ sheet.selected \in Int /\ sheet.marked \subseteq Int
    /\ dialog \in {"none", "autosquash"} \cup PlanActions
    /\ historical \in {"none", "edit", "reword"}
    /\ rebaseView \in {"Log", "Rebase", "Commit"}
    /\ work \in [keys : Nat, runs : Nat, other : Nat, loads : Nat] /\ started \in Nat

(* history.LoadPage: what git log --skip -n prints.                         *)
Page(n, skip) ==
    LET last == IF skip < Len(branch) THEN Len(branch) - skip ELSE 0
        first == IF last > PageSize THEN last - PageSize ELSE 0 IN
    [n |-> n, skip |-> skip, more |-> first > 0, known |-> Changes(branch),
     rows |-> [i \in 1..(last - first) |-> SubSeq(branch, 1, first + i)]]

(* HistoryReadyMsg: the first page begins the rows anew, another goes under *)
(* the rows there are.                                                      *)
WithPage(page) == IF page.skip = 0 THEN page.rows ELSE page.rows \o loaded
Paged(page) == [skip |-> page.skip + Len(page.rows), more |-> page.more,
                known |-> IF page.skip = 0 THEN page.known ELSE paging.known]

RbInit ==
    /\ branch = [i \in 1..Commits |-> {i}]
    /\ rebase = NoRebase /\ pages = {}
    /\ loaded = Page(0, 0).rows
    /\ paging = [skip |-> Len(loaded), more |-> Page(0, 0).more, known |-> Changes(branch)]
    /\ sheet = EmptySheet /\ dialog = "none" /\ historical = "none"
    /\ rebaseView = "Log" /\ runs = {} /\ lost = {}
    /\ work \in RebaseWork /\ started = 0

-----------------------------------------------------------------------------
(* rebase/plan.go                                                           *)

Parse(commits) == [i \in DOMAIN commits |->
                     [commit |-> Last(commits[i]), action |-> "pick", changed |-> FALSE]]

FaultyRender(plan) ==  \* rows that were not changed are left out
    LET edited == SelectSeq(plan, LAMBDA line : line.changed) IN
    [i \in DOMAIN edited |-> [commit |-> edited[i].commit, action |-> edited[i].action]]

(* The line a row had when it was parsed is kept, and used unless the row   *)
(* counts as changed.                                                       *)
Render(plan) == [i \in DOMAIN plan |->
                   [commit |-> plan[i].commit,
                    action |-> IF plan[i].changed THEN plan[i].action ELSE "pick"]]

Validate(plan) == plan # <<>> => plan[1].action \notin Melds

ChangeActions(plan, rows, action) ==
    [i \in DOMAIN plan |->
       IF i \in rows
         THEN [plan[i] EXCEPT !.action = action, !.changed = action # plan[i].action]
         ELSE plan[i]]

(* The rows first..last moved before row to, counted before the move.       *)
MoveRange(plan, first, last, to) ==
    LET picked == SubSeq(plan, first, last)
        rest == SubSeq(plan, 1, first - 1) \o SubSeq(plan, last + 1, Len(plan))
        before == IF to > last THEN to - 1 - (last - first + 1) ELSE to - 1
    IN  SubSeq(rest, 1, before) \o picked \o SubSeq(rest, before + 1, Len(rest))

-----------------------------------------------------------------------------
(* The other terminal commits, or starts and drives a rebase of its own.    *)

Picks(commits) == [i \in DOMAIN commits |-> [commit |-> commits[i], action |-> "pick"]]
Begin(head, todo, whole, excused) ==
    [at |-> "running", todo |-> todo, head |-> head, whole |-> whole, excused |-> excused]

Continued(r) ==
    [r EXCEPT !.at = "running",
              !.head = IF r.at = "conflict" /\ ~(Head(r.todo).commit \subseteq Changes(r.head))
                         THEN Append(@, Head(r.todo).commit) ELSE @,
              !.todo = IF r.at = "conflict" THEN Tail(@) ELSE @]
Skipped(r) == [r EXCEPT !.at = "running",
                        !.excused = IF r.at = "conflict" THEN @ \cup Head(r.todo).commit ELSE @,
                        !.todo = IF r.at = "conflict" THEN Tail(@) ELSE @]

RebaseOutside ==
    /\ work.other > 0 /\ work' = [work EXCEPT !.other = @ - 1]
    /\ \/ /\ rebase.at = "none"
          /\ branch' = Append(branch, {-work.other})
          /\ UNCHANGED rebase
       \/ /\ rebase.at = "none" /\ UNCHANGED branch
          /\ \E b \in 0..(Len(branch) - 1) :
               rebase' = Begin(SubSeq(branch, 1, b),
                               Picks(SubSeq(branch, b + 1, Len(branch))), FALSE, {})
       \/ /\ rebase.at \in Stopped /\ UNCHANGED branch
          /\ rebase' \in {Continued(rebase), Skipped(rebase), NoRebase}
    /\ UNCHANGED <<loaded, paging, pages, sheet, dialog, historical, rebaseView, runs, lost,
                   started>>

(* Git takes the next line of the todo.  A commit whose changes are there   *)
(* already stops it, any other may conflict; the editor a reword opens may  *)
(* fail, which stops it after the commit.                                   *)
GitSteps ==
    /\ rebase.at = "running"
    /\ IF rebase.todo = <<>>
         THEN /\ branch' = rebase.head /\ rebase' = NoRebase
              /\ lost' = IF rebase.whole
                           THEN lost \cup ((Changes(branch) \ Changes(rebase.head)) \ rebase.excused)
                           ELSE lost
         ELSE LET line == Head(rebase.todo)
                  next == [rebase EXCEPT !.todo = Tail(@)] IN
              /\ \/ line.action = "drop" /\ rebase' = next
                 \/ /\ line.action # "drop" /\ rebase' = [rebase EXCEPT !.at = "conflict"]
                 \/ /\ line.action \in Melds /\ rebase.head # <<>>
                    /\ rebase' = [next EXCEPT !.head = Append(Front(@), Last(@) \cup line.commit)]
                 \/ /\ line.action \notin Melds \cup {"drop"}
                    /\ ~(line.commit \subseteq Changes(rebase.head))
                    /\ \E stop \in {line.action = "edit", line.action \in {"edit", "reword"}} :
                         rebase' = [next EXCEPT !.head = Append(@, line.commit),
                                                !.at = IF stop THEN "edit" ELSE "running"]
              /\ UNCHANGED <<branch, lost>>
    /\ UNCHANGED <<loaded, paging, pages, sheet, dialog, historical, rebaseView, runs, work,
                   started>>

-----------------------------------------------------------------------------
(* The log, and the two ways to a plan: openRebaseWorkspace and             *)
(* openHistoricalRebase.  The plan holds every commit loaded.               *)

(* A page is read when it is asked for: what happens between does not depend *)
(* on the rows.  Asking cancels the page before, which may have been read.   *)
LoadHistory ==
    /\ work.loads > 0 /\ work' = [work EXCEPT !.loads = @ - 1]
    /\ \E skip \in {0, paging.skip}, kept \in SUBSET pages :
         /\ skip # 0 => rebaseView = "Log" /\ paging.more
         /\ pages' = kept \cup {Page(work.loads, skip)}
    /\ UNCHANGED <<branch, rebase, loaded, paging, sheet, dialog, historical, rebaseView,
                   runs, lost, started>>

HistoryReady ==
    /\ \E page \in pages :
         /\ loaded' = WithPage(page) /\ paging' = Paged(page)
         /\ pages' = pages \ {page}
    /\ UNCHANGED <<branch, rebase, sheet, dialog, historical, rebaseView, runs, lost,
                   work, started>>

Opened(bases, plan, published) ==
    [EmptySheet EXCEPT !.plan = plan, !.bases = bases, !.published = published,
                       !.base = CHOOSE b \in bases : \A c \in bases : Len(b) >= Len(c),
                       !.known = paging.known]
UpstreamChain == [i \in 1..Upstream |-> {i}]
ParentOf(row) == IF Len(loaded[row]) > 1 THEN {Front(loaded[row])} ELSE {}

OpenRebase ==
    /\ rebaseView = "Log" /\ loaded # <<>>
    /\ \E bases \in {{other} : other \in OtherBranches}
                    \cup {ParentOf(row) \cup (IF Upstream > 0 THEN {UpstreamChain} ELSE {}) :
                            row \in DOMAIN loaded} :
         /\ bases # {}
         /\ sheet' = Opened(bases, Parse(loaded), UpstreamChain \in Range(loaded))
    /\ rebaseView' = "Rebase"
    /\ UNCHANGED <<branch, rebase, loaded, paging, pages, dialog, historical, runs, lost, work,
                   started>>

OpenHistorical ==
    /\ rebaseView = "Log"
    /\ \E row \in DOMAIN loaded, action \in {"edit", "reword"} :
         /\ action \in PlanActions /\ ParentOf(row) # {}
         /\ LET same == {i \in DOMAIN loaded : loaded[i] = loaded[row]} IN
            sheet' = Opened(ParentOf(row), ChangeActions(Parse(loaded), same, action),
                            loaded[row] = UpstreamChain)
         /\ historical' = action
    /\ rebaseView' = "Rebase"
    /\ UNCHANGED <<branch, rebase, loaded, paging, pages, dialog, runs, lost, work, started>>

-----------------------------------------------------------------------------
(* Model.updateRebaseKey                                                    *)

Typing == rebaseView = "Rebase"
Editing == /\ Typing /\ dialog = "none" /\ work.keys > 0 /\ work' = [work EXCEPT !.keys = @ - 1]
           /\ UNCHANGED <<branch, rebase, loaded, paging, pages, historical, rebaseView, runs, lost,
                          started>>
MarkedRows == IF sheet.marked = {} THEN {sheet.selected} ELSE sheet.marked

CloseSheet ==
    /\ Typing /\ dialog = "none" /\ rebaseView' = "Log"
    /\ UNCHANGED <<branch, rebase, loaded, paging, pages, sheet, dialog, historical, runs, lost,
                   work, started>>

ChooseBase ==
    /\ Editing /\ \E b \in sheet.bases \ {sheet.base} : sheet' = [sheet EXCEPT !.base = b]
    /\ UNCHANGED dialog

(* The cursor stays on the plan; it may have been left outside by a move.   *)
MoveCursor ==
    /\ Editing
    /\ \E d \in {-1, 1} :
         LET to == sheet.selected + d IN
         sheet' = [sheet EXCEPT !.selected = IF to < 1 THEN 1
                                             ELSE IF to > Len(sheet.plan) THEN Len(sheet.plan)
                                             ELSE to]
    /\ UNCHANGED dialog

ToggleMark ==
    /\ Editing
    /\ sheet' = [sheet EXCEPT !.marked = IF sheet.selected \in @ THEN @ \ {sheet.selected}
                                         ELSE @ \cup {sheet.selected}]
    /\ UNCHANGED dialog

(* Model.ApplyAction: a refused change keeps the plan and sets the error,   *)
(* which the next accepted one clears.                                      *)
Accept(plan) == IF Validate(plan) THEN [sheet EXCEPT !.plan = plan, !.error = FALSE]
                ELSE [sheet EXCEPT !.error = TRUE]
WithAction(action) ==
    IF MarkedRows \subseteq DOMAIN sheet.plan THEN Accept(ChangeActions(sheet.plan, MarkedRows, action))
    ELSE [sheet EXCEPT !.error = TRUE]

PressAction ==
    /\ Editing
    /\ \E a \in PlanActions :
         IF sheet.published /\ a # "pick" THEN dialog' = a /\ UNCHANGED sheet
         ELSE sheet' = WithAction(a) /\ UNCHANGED dialog

Answer ==
    /\ Typing /\ dialog \notin {"none", "autosquash"}
    /\ sheet' \in {WithAction(dialog), sheet} /\ dialog' = "none"
    /\ UNCHANGED <<branch, rebase, loaded, paging, pages, historical, rebaseView, runs, lost,
                   work, started>>

FaultyShift(d) == [Accept(MoveRange(sheet.plan, Min(MarkedRows), Max(MarkedRows),
                              IF d < 0 THEN Min(MarkedRows) - 1 ELSE Max(MarkedRows) + 2))
                     EXCEPT !.selected = @ + d]

(* Model.MoveSelection: a contiguous range moves by one row, its marks and  *)
(* the cursor by as much.                                                   *)
Shift(d) == [Accept(MoveRange(sheet.plan, Min(MarkedRows), Max(MarkedRows),
                              IF d < 0 THEN Min(MarkedRows) - 1 ELSE Max(MarkedRows) + 2))
               EXCEPT !.marked = {m + d : m \in sheet.marked}, !.selected = @ + d]

MoveRows ==
    /\ Editing
    /\ MarkedRows = Min(MarkedRows)..Max(MarkedRows)
    /\ \E d \in {-1, 1} :
         /\ IF d < 0 THEN Min(MarkedRows) # 1 ELSE Max(MarkedRows) # Len(sheet.plan)
         /\ LET next == Shift(d) IN
            sheet' = IF MarkedRows \subseteq DOMAIN sheet.plan /\ ~next.error THEN next
                     ELSE [sheet EXCEPT !.error = TRUE]
    /\ UNCHANGED dialog

-----------------------------------------------------------------------------
(* Git commands: started by a key, run in a goroutine, answered by a        *)
(* message.  A rebase that Git refuses while another is in progress is      *)
(* reported as paused, for DetectOperationState finds the other.            *)

Asked(kind) == [n |-> started + 1, kind |-> kind, at |-> "asked", failed |-> FALSE,
                plan |-> IF kind = "rebase" THEN sheet.plan ELSE <<>>,
                base |-> IF kind = "rebase" THEN sheet.base ELSE <<>>,
                known |-> IF kind = "rebase" THEN sheet.known ELSE {}]
Run(kind) == /\ work.runs > 0 /\ work' = [work EXCEPT !.runs = @ - 1]
             /\ started' = started + 1
             /\ runs' = runs \cup {Asked(kind)}

Start ==
    /\ Typing
    /\ \/ dialog = "none" /\ UNCHANGED dialog
       \/ dialog = "none" /\ sheet.published /\ dialog' = "autosquash"
       \/ dialog = "autosquash" /\ dialog' = "none"
    /\ IF dialog' = "autosquash" \/ sheet.error THEN UNCHANGED <<runs, work, started>>
       ELSE Run("rebase")
    /\ UNCHANGED <<branch, rebase, loaded, paging, pages, sheet, historical, rebaseView, lost>>

Compose ==
    /\ \/ rebaseView = "Log" /\ rebaseView' = "Commit" /\ UNCHANGED <<runs, work, started>>
       \/ rebaseView = "Commit" /\ rebaseView' = "Log" /\ UNCHANGED <<runs, work, started>>
       \/ /\ rebaseView = "Commit" /\ UNCHANGED rebaseView
          /\ Run("commit") \/ (historical # "none" /\ Run("abort"))
    /\ UNCHANGED <<branch, rebase, loaded, paging, pages, sheet, dialog, historical, lost>>

Dropped(plan) == UNION {plan[i].commit : i \in {j \in DOMAIN plan : plan[j].action = "drop"}}
Planned(plan) == UNION {plan[i].commit : i \in DOMAIN plan}

(* The plan lists every commit there was above the base when its rows were  *)
(* loaded.  Only the pages on the screen are in a plan: an older base (an    *)
(* upstream more than a page behind) leaves commits between them, and Git    *)
(* drops what its todo does not list.                                       *)
Reaches(r) == r.known \subseteq Changes(r.base) \cup Planned(r.plan)

(* What Git may make of the command: the branch, its rebase, and whether it *)
(* fails.  A commit made while a rebase is stopped belongs to the rebase.   *)
Outcome(b, r, failed) == [branch |-> b, rebase |-> r, failed |-> failed]
Outcomes(r) ==
    CASE r.kind = "rebase" /\ rebase.at = "none" ->
           {Outcome(branch, Begin(r.base, Render(r.plan), Reaches(r),
                                  Dropped(r.plan) \cup (Changes(branch) \ r.known)), FALSE)}
      [] r.kind = "continue" /\ rebase.at \in Stopped ->
           {Outcome(branch, Continued(rebase), FALSE), Outcome(branch, rebase, TRUE)}
      [] r.kind = "abort" /\ rebase.at \in Stopped -> {Outcome(branch, NoRebase, FALSE)}
      [] r.kind = "commit" ->
           {Outcome(branch, rebase, TRUE), Outcome(branch, rebase, FALSE),
            IF rebase.at = "none" THEN Outcome(Append(branch, {Commits + r.n}), rebase, FALSE)
            ELSE Outcome(branch, [rebase EXCEPT !.head = Append(@, {Commits + r.n})], FALSE)}
      [] OTHER -> {Outcome(branch, rebase, TRUE)}

GitTakes ==
    \E r \in runs :
      /\ r.at = "asked" /\ rebase.at # "running"
      /\ \E o \in Outcomes(r) :
           /\ branch' = o.branch /\ rebase' = o.rebase
           /\ runs' = (runs \ {r}) \cup {[r EXCEPT !.at = "waiting", !.failed = o.failed]}
      /\ UNCHANGED <<loaded, paging, pages, sheet, dialog, historical, rebaseView, lost, work,
                     started>>

(* RebaseFinishedMsg: a stop opens the amend composer of a historical edit. *)
RebaseFinished(r) ==
    /\ r.kind = "rebase"
    /\ rebaseView' = IF rebase.at # "none" /\ historical # "none" THEN "Commit" ELSE rebaseView
    /\ runs' = runs \ {r} /\ UNCHANGED <<historical, work, started>>

(* CommitFinishedMsg: a historical edit goes on with git rebase --continue. *)
CommitFinished(r) ==
    /\ r.kind = "commit" /\ UNCHANGED historical
    /\ \/ r.failed /\ runs' = runs \ {r} /\ UNCHANGED <<rebaseView, work, started>>
       \/ /\ ~r.failed /\ historical = "none"
          /\ rebaseView' = "Log" /\ runs' = runs \ {r} /\ UNCHANGED <<work, started>>
       \/ /\ ~r.failed /\ historical # "none"
          /\ started' = started + 1 /\ UNCHANGED work
          /\ runs' = (runs \ {r}) \cup {Asked("continue")}
          /\ UNCHANGED rebaseView

(* RebaseContinueFinishedMsg, RebaseAbortFinishedMsg: a success forgets the *)
(* historical edit.                                                         *)
LifecycleFinished(r) ==
    /\ r.kind \in {"continue", "abort"} /\ runs' = runs \ {r} /\ UNCHANGED <<work, started>>
    /\ IF r.failed THEN UNCHANGED <<historical, rebaseView>>
       ELSE historical' = "none" /\ rebaseView' = "Log"

Handle ==
    \E r \in runs :
      /\ r.at = "waiting" /\ rebase.at # "running"
      /\ RebaseFinished(r) \/ CommitFinished(r) \/ LifecycleFinished(r)
      /\ UNCHANGED <<branch, rebase, loaded, paging, pages, sheet, dialog, lost>>

RbNext ==
    \/ RebaseOutside \/ GitSteps \/ LoadHistory \/ HistoryReady \/ OpenRebase \/ OpenHistorical
    \/ CloseSheet \/ ChooseBase \/ MoveCursor \/ ToggleMark \/ PressAction \/ Answer
    \/ MoveRows \/ Start \/ Compose \/ GitTakes \/ Handle

RbSpec == RbInit /\ [][RbNext]_rbVars

-----------------------------------------------------------------------------
(* A rebase begun here by a plan that reaches its base takes off the branch *)
(* what the plan on the screen dropped, what somebody skipped and what was  *)
(* committed after the rows of the plan were read, and nothing else.        *)
OnlyDropsLost == lost = {}

(* The edits of a plan reorder it and change actions: no commit is lost or  *)
(* doubled, the first one melds into nothing, and a move carries the marks  *)
(* with the commits they were set on ("preserving its relative order and    *)
(* selection", view.go:144).                                                *)
EditsKeepPlan ==
    [][ /\ sheet.plan # <<>> /\ rebaseView = "Rebase" /\ rebaseView' = "Rebase"
        => /\ {sheet'.plan[i].commit : i \in DOMAIN sheet'.plan}
              = {sheet.plan[i].commit : i \in DOMAIN sheet.plan}
           /\ Len(sheet'.plan) = Len(sheet.plan)
           /\ Validate(sheet'.plan)
           /\ sheet'.plan # sheet.plan /\ sheet.marked \subseteq DOMAIN sheet.plan
              => {sheet'.plan[i].commit : i \in sheet'.marked \cap DOMAIN sheet'.plan}
                 = {sheet.plan[i].commit : i \in sheet.marked} ]_rbVars

(* The todo handed to Git is the plan on the screen: "Changed commits use   *)
(* canonical todo syntax" (plan.go:134).  The code does not keep this: an    *)
(* action given twice to a commit clears its changed flag, and the old line  *)
(* is rendered.                                                             *)
RenderFollowsPlan ==
    \A r \in runs : r.kind = "rebase" =>
      \A i \in DOMAIN r.plan : Render(r.plan)[i].action = r.plan[i].action
=============================================================================
