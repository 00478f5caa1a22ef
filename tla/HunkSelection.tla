----------------------------- MODULE HunkSelection -----------------------------
(***************************************************************************)
(* Staging, unstaging and discarding selected lines: patch/parser.go reads *)
(* a diff, hunks/ keeps the selection and builds a partial patch from it,  *)
(* git/partial.go has git apply check the patch and then apply it.  One    *)
(* file, its three contents, and the diffs of its two sides.               *)
(***************************************************************************)
EXTENDS Integers, Sequences, FiniteSets, SequencesExt

CONSTANTS Files,   \* what the file may hold: sequences of lines
          Parent,  \* what it held before the last commit
          Context, \* lines of context; the code asks for 3, 8 or 20
          Plain,   \* the text of a line with a line feed for its end
          MaxRows, \* how many rows of a diff are kept: m.DiffMaxLines, m.DiffMaxBytes
          HunkWork \* how much a behaviour may do: diffs asked for, patches begun,
                   \* changes of another program

FileLines == UNION {ToSet(f) : f \in Files}

ASSUME HunkBounds == /\ Parent \in Files /\ Files \subseteq Seq(FileLines)
                     /\ Context \in Nat \ {0} /\ MaxRows \in Nat
                     /\ Plain \in [FileLines -> FileLines]
                     /\ HunkWork \subseteq [diffs : Nat, applies : Nat, edits : Nat]

VARIABLES content,   \* what HEAD, the index and the worktree hold
          diff,      \* m.DiffText: an edit script, its last row that is kept;
                     \* m.DiffStaged; m.DiffLoading
          reads,     \* diffs asked for and not handled yet
          diffRequest,
          hunkView,  \* the Hunks workspace is open
          rows, lastRow, picked, \* m.Hunks.Files: the rows, the last that is there;
                     \* m.Hunks.Selection
          historic,  \* m.HistoricalPatchMode
          discardAsked, \* m.HunkDiscardConfirm
          applies,   \* git apply under way
          hunkWork   \* what is left of one element of HunkWork

hunkVars == <<content, diff, reads, diffRequest, hunkView, rows, lastRow, picked,
              historic, discardAsked, applies, hunkWork>>

-----------------------------------------------------------------------------
(* A line of a diff, what is on a side of some of them, and the rows of a   *)
(* sequence that are at the given places.                                   *)

Line(kind, text) == [kind |-> kind, text |-> text]
DiffLines == [kind : {" ", "+", "-"}, text : FileLines]
Changed(line) == line.kind # " "
Size(s) == Cardinality({i \in DOMAIN s : Changed(s[i])})
Texts(lines) == [i \in DOMAIN lines |-> lines[i].text]

Only(s, places) ==
    LET f[i \in 0..Len(s)] == IF i = 0 THEN <<>>
                              ELSE IF i \in places THEN Append(f[i - 1], s[i])
                              ELSE f[i - 1]
    IN  f[Len(s)]
Without(kind, lines) == Only(Texts(lines), {i \in DOMAIN lines : lines[i].kind # kind})
OldSide(lines) == Without("+", lines)
NewSide(lines) == Without("-", lines)

(* git diff: a shortest edit script, the lines taken away before the lines  *)
(* put in.  Longer adds to one the next line of the old side, of the new    *)
(* side or of both.                                                         *)
Longer(old, new, script) ==
    LET i == Len(OldSide(script)) + 1
        j == Len(NewSide(script)) + 1
    IN  {Append(script, l) : l \in {k \in DiffLines :
           /\ k.kind # "+" => i <= Len(old) /\ old[i] = k.text
           /\ k.kind # "-" => j <= Len(new) /\ new[j] = k.text
           /\ k.kind = "-" => script = <<>> \/ script[Len(script)].kind # "+"}}

Scripts(old, new) ==
    LET f[n \in 0..(Len(old) + Len(new))] ==
          IF n = 0 THEN {<<>>} ELSE UNION {Longer(old, new, s) : s \in f[n - 1]}
        whole == {s \in UNION {f[n] : n \in 0..(Len(old) + Len(new))} :
                    OldSide(s) = old /\ NewSide(s) = new}
    IN  {s \in whole : \A t \in whole : Size(s) <= Size(t)}

(* The rows within Context rows of a change, cut into runs.                 *)
NearChange(script) == {i \in DOMAIN script :
    \E k \in DOMAIN script : Changed(script[k]) /\ i - k \in -Context..Context}
RunFrom(a, near) ==
    a..(CHOOSE b \in near : a <= b /\ a..b \subseteq near /\ b + 1 \notin near)
Hunks(script) ==
    LET near == NearChange(script)
        first == Only([i \in DOMAIN script |-> i], {i \in near : i - 1 \notin near})
    IN  [h \in DOMAIN first |-> RunFrom(first[h], near)]

(* limitDiffText: the rows of a diff that are kept, not counting headers.   *)
LastKept(script) ==
    Max({n \in 0..Len(script) : Cardinality({i \in NearChange(script) : i <= n}) <= MaxRows})

-----------------------------------------------------------------------------
(* Selection.BuildPatch: of every hunk the context and the selected lines;  *)
(* the header's starts are those of the whole hunk.                         *)

(* The line a header gives: that of its first row, or of the row before    *)
(* when the hunk has no row of that side.                                  *)
StartOf(before, own) == Len(before) + (IF own = <<>> THEN 0 ELSE 1)

LastOf(own, last) == IF Max(own) <= last THEN Max(own) ELSE last

FaultyRendered(script, last, selected, own) ==
    LET lines == SubSeq(script, Min(own), LastOf(own, last))
    IN  Only(lines, {i \in DOMAIN lines : Min(own) + i - 1 \in selected})

Rendered(script, last, selected, own) ==
    LET lines == SubSeq(script, Min(own), LastOf(own, last))
    IN  Only(lines, {i \in DOMAIN lines : ~Changed(lines[i]) \/ Min(own) + i - 1 \in selected})

PatchHunk(script, last, selected, own) ==
    LET above == SubSeq(script, 1, Min(own) - 1)
        whole == SubSeq(script, Min(own), Max(own))
    IN  [old |-> StartOf(OldSide(above), OldSide(whole)),
         new |-> StartOf(NewSide(above), NewSide(whole)),
         lines |-> Rendered(script, last, selected, own)]

BuildPatch(script, last, selected) ==
    LET all == Hunks(script)
        hunks == Only(all, {h \in DOMAIN all : all[h] \cap selected # {}})
    IN  [i \in DOMAIN hunks |-> PatchHunk(script, last, selected, hunks[i])]

-----------------------------------------------------------------------------
(* git apply, which reads the patch alone: the rows a hunk starts from must *)
(* be there, contiguous, untouched by an earlier hunk, at the start of the  *)
(* file for a hunk of line 1, at its end for a hunk with no context after   *)
(* it; of the places that fit the nearest to the line in the header.        *)

Flip(lines) == [i \in DOMAIN lines |->
                  Line(CASE lines[i].kind = "+" -> "-" [] lines[i].kind = "-" -> "+"
                         [] OTHER -> " ", lines[i].text)]
Reversed(patch) == [h \in DOMAIN patch |-> [old |-> patch[h].new, new |-> patch[h].old,
                                            lines |-> Flip(patch[h].lines)]]

Marked(texts, patched) == [i \in DOMAIN texts |-> [text |-> texts[i], patched |-> patched]]

Fits(image, hunk) ==
    LET pre == Marked(OldSide(hunk.lines), FALSE)
    IN  {p \in 0..(Len(image) - Len(pre)) :
           /\ \A i \in DOMAIN pre : image[p + i] = pre[i]
           /\ hunk.old \in {0, 1} => p = 0
           /\ Changed(hunk.lines[Len(hunk.lines)]) => p + Len(pre) = Len(image)}

Away(p, line) == IF p >= line THEN 2 * (p - line) ELSE 2 * (line - p) + 1
Nearest(places, line) == CHOOSE p \in places : \A q \in places : Away(p, line) <= Away(q, line)

ApplyHunk(result, hunk) ==
    IF ~result.ok \/ Fits(result.image, hunk) = {} THEN [result EXCEPT !.ok = FALSE]
    ELSE LET image == result.image
             at == Nearest(Fits(image, hunk), IF hunk.new = 0 THEN 0 ELSE hunk.new - 1)
         IN  [ok |-> TRUE,
              image |-> SubSeq(image, 1, at) \o Marked(NewSide(hunk.lines), TRUE)
                        \o SubSeq(image, at + Len(OldSide(hunk.lines)) + 1, Len(image))]

GitApply(file, patch) ==
    LET f[h \in 0..Len(patch)] ==
          IF h = 0 THEN [ok |-> patch # <<>>, image |-> Marked(file, FALSE)]
          ELSE ApplyHunk(f[h - 1], patch[h])
        result == f[Len(patch)]
    IN  [ok |-> result.ok, file |-> Texts(result.image)]

-----------------------------------------------------------------------------
NoDiff == [script |-> <<>>, lastRow |-> 0, staged |-> FALSE]
ChangedRows == {i \in DOMAIN rows : Changed(rows[i]) /\ i <= lastRow}

Sides == {"head", "index", "worktree"}
Contents == [Sides -> Seq(FileLines)]
PartialRuns == [how : {"stage", "unstage", "discard", "historical"},
         at : {"asked", "checked", "half", "done"}, ok : BOOLEAN, script : Seq(DiffLines),
         lastRow : Nat, picked : SUBSET Nat, historic : BOOLEAN, before : Contents, after : Contents]

HunkTypeOK ==
    /\ content \in Contents
    /\ diff \in [script : Seq(DiffLines), lastRow : Nat, staged : BOOLEAN]
    /\ reads \subseteq [request : Nat, staged : BOOLEAN] /\ diffRequest \in Nat
    /\ rows \in Seq(DiffLines) /\ lastRow \in Nat /\ picked \subseteq ChangedRows
    /\ {hunkView, historic, discardAsked} \subseteq BOOLEAN
    /\ applies \subseteq PartialRuns
    /\ hunkWork \in [diffs : Nat, applies : Nat, edits : Nat]

HunkInit ==
    /\ content \in [Sides -> Files]
    /\ diff = NoDiff /\ reads = {} /\ diffRequest = 0
    /\ hunkView = FALSE /\ rows = <<>> /\ lastRow = 0 /\ picked = {} /\ historic = FALSE
    /\ discardAsked = FALSE /\ applies = {} /\ hunkWork \in HunkWork

(* Another program changes a file, or stages the worktree.                  *)
HunkEdit ==
    /\ hunkWork.edits > 0 /\ hunkWork' = [hunkWork EXCEPT !.edits = @ - 1]
    /\ \/ \E f \in Files : content' = [content EXCEPT !.worktree = f]
       \/ content' = [content EXCEPT !.index = content.worktree]
    /\ UNCHANGED <<diff, reads, diffRequest, hunkView, rows, lastRow, picked, historic,
                   discardAsked, applies>>

(* openDiff: the older request is cancelled, DiffText is cleared and        *)
(* DiffStaged set at once, to the index when the file has staged changes    *)
(* only; Enter in Status, or c in the Hunks workspace for another context.  *)
OpenDiff ==
    /\ hunkWork.diffs > 0 /\ hunkWork' = [hunkWork EXCEPT !.diffs = @ - 1]
    /\ ~discardAsked
    /\ LET staged == content.head # content.index /\ content.index = content.worktree IN
       /\ diffRequest' = diffRequest + 1
       /\ diff' = [NoDiff EXCEPT !.staged = staged]
       /\ reads' = {[request |-> diffRequest + 1, staged |-> staged]}
    /\ UNCHANGED <<content, hunkView, rows, lastRow, picked, historic, discardAsked, applies>>

(* patch.Parse turns CRLF into LF, and the row it makes of a missing last   *)
(* newline is one that BuildPatch never writes.                             *)
Parsed(script) == [i \in DOMAIN script |-> Line(script[i].kind, Plain[script[i].text])]
Shown(script, last) == rows' = Parsed(script) /\ lastRow' = last /\ picked' = {}

(* DiffReadyMsg: the file is read as it is now; in the Hunks workspace the  *)
(* new rows replace the old ones, and an empty diff leaves them.            *)
DiffReady ==
    \E r \in reads :
      /\ r.request = diffRequest /\ reads' = {}
      /\ \E script \in IF r.staged THEN Scripts(content.head, content.index)
                       ELSE Scripts(content.index, content.worktree) :
           /\ diff' = IF Size(script) = 0 THEN [NoDiff EXCEPT !.staged = r.staged]
                      ELSE [script |-> script, lastRow |-> LastKept(script), staged |-> r.staged]
           /\ IF hunkView /\ Size(script) # 0 THEN Shown(script, LastKept(script))
              ELSE UNCHANGED <<rows, lastRow, picked>>
      /\ UNCHANGED <<content, diffRequest, hunkView, historic, discardAsked, applies,
                     hunkWork>>

-----------------------------------------------------------------------------
(* The Hunks workspace: H over a diff, or over a commit of the Log.  Esc    *)
(* leaves HistoricalPatchMode as it is.                                     *)

Keep == UNCHANGED <<content, diff, reads, diffRequest, applies, hunkWork>>

BeginHunks ==
    /\ ~hunkView /\ diff.script # <<>> /\ hunkView' = TRUE
    /\ Shown(diff.script, diff.lastRow) /\ UNCHANGED <<historic, discardAsked>> /\ Keep

BeginHistoricalHunks ==
    /\ ~hunkView /\ content.head # Parent /\ hunkView' = TRUE /\ historic' = TRUE
    /\ \E script \in Scripts(Parent, content.head) : Shown(script, Len(script))
    /\ UNCHANGED discardAsked /\ Keep

CloseHunks ==
    /\ hunkView /\ ~discardAsked /\ hunkView' = FALSE
    /\ UNCHANGED <<rows, lastRow, picked, historic, discardAsked>> /\ Keep

(* space, a, A and i.                                                       *)
Pick ==
    /\ hunkView /\ ~discardAsked
    /\ \/ \E i \in ChangedRows : picked' = (picked \ {i}) \cup ({i} \ picked)
       \/ \E h \in Range(Hunks(rows)) : picked' = picked \cup (h \cap ChangedRows)
       \/ picked' = ChangedRows
       \/ picked' = ChangedRows \ picked
    /\ UNCHANGED <<hunkView, rows, lastRow, historic, discardAsked>> /\ Keep

(* d asks for the word; it is refused over a staged diff.                   *)
AskDiscard ==
    /\ hunkView /\ ~diff.staged /\ picked # {}
    /\ discardAsked' = ~discardAsked
    /\ UNCHANGED <<hunkView, rows, lastRow, picked, historic>> /\ Keep

(* applySelectedHunks builds the patch and looks at DiffStaged at once.     *)
Begun(how) == [how |-> how, at |-> "asked", ok |-> FALSE, script |-> rows, lastRow |-> lastRow,
               picked |-> picked,
               historic |-> historic, before |-> content, after |-> content]
ApplySelected ==
    /\ hunkView /\ picked # {}
    /\ hunkWork.applies > 0 /\ hunkWork' = [hunkWork EXCEPT !.applies = @ - 1]
    /\ \/ /\ ~discardAsked
          /\ applies' = applies \cup {Begun(IF diff.staged THEN "unstage" ELSE "stage")}
       \/ discardAsked /\ applies' = applies \cup {Begun("discard")}
    /\ discardAsked' = FALSE
    /\ UNCHANGED <<content, diff, reads, diffRequest, hunkView, rows, lastRow, picked, historic>>

(* Enter in HistoricalPatchMode: a rebase stops at the commit, here the     *)
(* last one, and the patch is to be reversed in the worktree and the index. *)
ApplyHistorical ==
    /\ hunkView /\ ~discardAsked /\ historic /\ picked # {}
    /\ content.worktree = content.head /\ content.index = content.head
    /\ hunkWork.applies > 0 /\ hunkWork' = [hunkWork EXCEPT !.applies = @ - 1]
    /\ applies' = applies \cup {Begun("historical")}
    /\ historic' = FALSE /\ hunkView' = FALSE
    /\ UNCHANGED <<content, diff, reads, diffRequest, rows, lastRow, picked, discardAsked>>

-----------------------------------------------------------------------------
(* git/partial.go: git apply --check, and git apply if it agreed; for a     *)
(* historical edit both sides are checked before the first is changed.      *)

Target(how) == IF how \in {"stage", "unstage"} THEN "index" ELSE "worktree"
SidesOf(how) == IF how = "historical" THEN {"worktree", "index"} ELSE {Target(how)}
PatchOf(r) == LET patch == BuildPatch(r.script, r.lastRow, r.picked)
              IN  IF r.how = "stage" THEN patch ELSE Reversed(patch)
Patched(r, side) == GitApply(content[side], PatchOf(r))
Moved(r, s) == applies' = (applies \ {r}) \cup {s}
Rest == UNCHANGED <<diff, reads, diffRequest, hunkView, rows, lastRow, picked, historic,
                    discardAsked, hunkWork>>

CheckPatch ==
    \E r \in applies :
      /\ r.at = "asked"
      /\ LET ok == \A side \in SidesOf(r.how) : Patched(r, side).ok
         IN  Moved(r, [r EXCEPT !.at = IF ok THEN "checked" ELSE "done",
                               !.before = content, !.after = content])
      /\ UNCHANGED content /\ Rest

(* r.before and r.after say what the patch met and left, for the properties.*)
ApplyPatch ==
    \E r \in applies :
      /\ r.at = "checked"
      /\ LET result == Patched(r, Target(r.how))
             left == IF result.ok THEN [content EXCEPT ![Target(r.how)] = result.file] ELSE content
         IN  /\ content' = left
             /\ Moved(r, [r EXCEPT !.at = IF r.how = "historical" /\ result.ok THEN "half"
                                         ELSE "done",
                                   !.ok = result.ok, !.before = content, !.after = left])
      /\ Rest

ApplyToIndex ==
    \E r \in applies :
      /\ r.at = "half"
      /\ LET result == Patched(r, "index")
             left == IF result.ok THEN [content EXCEPT !.index = result.file] ELSE content
         IN  /\ content' = left
             /\ Moved(r, [r EXCEPT !.at = "done", !.ok = result.ok,
                                   !.before.index = content.index, !.after.index = left.index])
      /\ Rest

(* PartialOperationFinishedMsg: the rows and the selection stay.            *)
ApplyFinished ==
    \E r \in applies : /\ r.at = "done" /\ applies' = applies \ {r}
                        /\ UNCHANGED content /\ Rest

HunkNext ==
    \/ HunkEdit \/ OpenDiff \/ DiffReady
    \/ BeginHunks \/ BeginHistoricalHunks \/ CloseHunks \/ Pick \/ AskDiscard
    \/ ApplySelected \/ ApplyHistorical
    \/ CheckPatch \/ ApplyPatch \/ ApplyToIndex \/ ApplyFinished

HunkSpec == HunkInit /\ [][HunkNext]_hunkVars

-----------------------------------------------------------------------------
(* What the selection asks for: the side it is applied to, with the picked  *)
(* rows and no others.                                                      *)
Stands(r) == \A side \in SidesOf(r.how) :
               r.before[side] = IF r.how = "stage" THEN OldSide(r.script) ELSE NewSide(r.script)
Wanted(r) ==
    Only(Texts(r.script),
         {i \in DOMAIN r.script :
            \/ ~Changed(r.script[i])
            \/ (i \in r.picked) = (r.script[i].kind = IF r.how = "stage" THEN "+" ELSE "-")})
Exact(r) == \A side \in SidesOf(r.how) : r.after[side] = Wanted(r)
All(r) == r.picked = {i \in DOMAIN r.script : Changed(r.script[i])}

(* Selecting everything and staging, unstaging or discarding it succeeds and*)
(* moves the side to the other side of the diff, in one piece or in several *)
(* hunks whose lines repeat, as long as the diff is kept in whole and the   *)
(* side is what its rows say: the one the diff was read from, all its lines *)
(* ending in a line feed.  The rows say nothing else of a line's end, and   *)
(* the patch of a file with another is refused or gives it a line feed.     *)
Whole(r) == r.lastRow = Len(r.script)
WholeSelectionExact ==
    \A r \in applies : r.at = "done" /\ Whole(r) /\ All(r) /\ Stands(r) => Exact(r)

(* "Add tests proving unrelated lines are untouched": a discard, or a       *)
(* partial stage, that succeeds on the side its rows were read from changes *)
(* the selected lines and no others.                                        *)
UnselectedUntouched ==
    \A r \in applies : r.at = "done" /\ r.ok /\ ~r.historic /\ Stands(r) => Exact(r)
================================================================================
