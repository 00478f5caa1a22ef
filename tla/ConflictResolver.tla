--------------------------- MODULE ConflictResolver ---------------------------
(***************************************************************************)
(* The conflict workspace: the unmerged paths of the snapshot, the content *)
(* loaded for the selected one (git/conflict_content.go), and the choices: *)
(* a region of the file, rewritten by git/conflicts.go over the regions    *)
(* that conflicts/regions.go finds, or the whole file, by Git.             *)
(*                                                                         *)
(* A merge result is a sequence of texts and of regions; lines are what    *)
(* the program reads and hashes of it.  A file is its lines, what they     *)
(* ought to be: the merge result, or the whole content, that was put there *)
(* last, with the choices made in it since; and whether one of the choices *)
(* was renamed over a content that it had not read.                        *)
(***************************************************************************)
EXTENDS Integers, Sequences, FiniteSets, SequencesExt

CONSTANTS Paths,       \* in the order of ParseIndex
          MergeOf,     \* the merge result Git left at each path
          BlobOf,      \* the whole contents of its stages 2 and 3
          Elsewhere,   \* merge results another program may write
          ConflictWork \* how much a behaviour may do: keys and clicks of the view,
                       \* choices begun, refreshes, changes of another program

(* A merge result is made of texts and of regions.                          *)
Pieces == [text : Seq(STRING)] \cup [ours : Seq(STRING), base : Seq(STRING), theirs : Seq(STRING)]
ASSUME ConflictBounds ==
    /\ Paths \in Seq(STRING) /\ "" \notin Range(Paths)
    /\ Elsewhere \subseteq Seq(Pieces) /\ MergeOf \in [Range(Paths) -> Elsewhere]
    /\ BlobOf \in [Range(Paths) -> [{"ours", "theirs"} -> Seq(Pieces)]]
    /\ ConflictWork \subseteq [keys : Nat, choices : Nat, snapshots : Nat, other : Nat]

VARIABLES files,      \* the worktree, path by path
          unmerged,   \* the paths with stages in the index
          staged,     \* what the index holds of the others
          list,       \* m.Conflict.Conflicts
          chosen, hunk, \* m.Conflict.Selected, 0 when -1; m.Conflict.Hunk
          detail,     \* m.Conflict.Detail
          loads, loadRequest, \* ConflictContentReadyMsg on their way; the request
          choices,    \* resolveConflict and resolveConflictRegion under way
          conflictWork \* what is left of one element of ConflictWork

conflictVars == <<files, unmerged, staged, list, chosen, hunk, detail, loads, loadRequest,
                  choices, conflictWork>>

-----------------------------------------------------------------------------
(* Git's presentation of a merge result, and a choice made in it.           *)

Text(lines) == [text |-> lines]
Region(ours, base, theirs) == [ours |-> ours, base |-> base, theirs |-> theirs]
IsRegion(piece) == "ours" \in DOMAIN piece
Side(piece, side) == CASE side = "ours" -> piece.ours
                       [] side = "theirs" -> piece.theirs
                       [] side = "both" -> piece.ours \o piece.theirs

(* base is empty in the merge style, and <<"|">> at least in diff3.         *)
PieceLines(piece) ==
    IF IsRegion(piece)
      THEN <<"<">> \o piece.ours \o piece.base \o <<"=">> \o piece.theirs \o <<">">>
      ELSE piece.text
Lines(result) ==
    LET written[i \in 0..Len(result)] ==
          IF i = 0 THEN <<>> ELSE written[i - 1] \o PieceLines(result[i])
    IN  written[Len(result)]

Site(result, region, i) ==
    IsRegion(result[i]) /\ Cardinality({k \in 1..i : IsRegion(result[k])}) = region
Choose(result, region, side) ==
    LET at == CHOOSE i \in DOMAIN result : Site(result, region, i)
    IN  [result EXCEPT ![at] = Text(Side(@, side))]
FileOf(result) == [ought |-> result, lines |-> Lines(result), raced |-> FALSE]

-----------------------------------------------------------------------------
(* conflicts/regions.go: line by line, positions counted in lines.  A       *)
(* separator with a base before it ends the base, any other ends ours; a    *)
(* later one ends it again.                                                 *)

Closed == [start |-> 0, baseFrom |-> 0, ours |-> <<>>, theirsFrom |-> 1]
ScanLine(s, lines, i) ==
    LET r == s.open
        opened == [start |-> i, baseFrom |-> 0, ours |-> <<>>, theirsFrom |-> 1]
        before == SubSeq(lines, r.start + 1, i - 1)
        based == [start |-> r.start, baseFrom |-> i + 1, ours |-> before,
                  theirsFrom |-> r.theirsFrom]
        parted == [start |-> r.start, baseFrom |-> r.baseFrom,
                   ours |-> IF r.baseFrom > 0 THEN r.ours ELSE before, theirsFrom |-> i + 1]
        region == [start |-> r.start, end |-> i, ours |-> r.ours,
                   theirs |-> SubSeq(lines, r.theirsFrom, i - 1)]
    IN  CASE lines[i] = "<" /\ r.start = 0 -> [open |-> opened, found |-> s.found]
          [] lines[i] = "|" /\ r.start > 0 -> [open |-> based, found |-> s.found]
          [] lines[i] = "=" /\ r.start > 0 -> [open |-> parted, found |-> s.found]
          [] lines[i] = ">" /\ r.start > 0 -> [open |-> Closed, found |-> Append(s.found, region)]
          [] OTHER -> s
Scan(lines) ==
    LET scanned[i \in 0..Len(lines)] ==
          IF i = 0 THEN [open |-> Closed, found |-> <<>>] ELSE ScanLine(scanned[i - 1], lines, i)
    IN  scanned[Len(lines)]
ParseRegions(lines) == IF Scan(lines).open.start = 0 THEN Scan(lines).found ELSE <<>>

Apply(lines, region, side) ==
    LET r == ParseRegions(lines)[region]
    IN  SubSeq(lines, 1, r.start - 1) \o Side(r, side) \o SubSeq(lines, r.end + 1, Len(lines))

-----------------------------------------------------------------------------
NoDetail == [path |-> "", lines |-> <<>>]
Selected == IF chosen \in DOMAIN list THEN list[chosen] ELSE ""
Regions == Len(ParseRegions(detail.lines))

ConflictTypeOK ==
    /\ DOMAIN files = Range(Paths) /\ DOMAIN staged = Range(Paths)
    /\ unmerged \subseteq Range(Paths)
    /\ chosen \in Nat /\ hunk \in Nat /\ detail.path \in Range(Paths) \cup {""}
    /\ \A l \in loads : l.request <= loadRequest /\ l.read \in BOOLEAN
    /\ \A c \in choices : c.at \in {"asked", "read", "done"}
    /\ conflictWork \in [keys : Nat, choices : Nat, snapshots : Nat, other : Nat]

ConflictInit ==
    /\ files = [p \in Range(Paths) |-> FileOf(MergeOf[p])]
    /\ unmerged = Range(Paths) /\ staged = files
    /\ list = <<>> /\ chosen = 0 /\ hunk = 0 /\ detail = NoDetail
    /\ loads = {} /\ loadRequest = 0 /\ choices = {} /\ conflictWork \in ConflictWork

Spend(what) == conflictWork[what] > 0 /\ conflictWork' = [conflictWork EXCEPT ![what] = @ - 1]

(* An editor, git mergetool, or Git in the other terminal, whose add leaves *)
(* the file in the index.                                                   *)
ConflictOutside ==
    /\ Spend("other")
    /\ \E p \in Range(Paths) :
         \/ /\ \E result \in Elsewhere : files' = [files EXCEPT ![p] = FileOf(result)]
            /\ UNCHANGED <<unmerged, staged>>
         \/ unmerged' = unmerged \cup {p} /\ UNCHANGED <<files, staged>>
         \/ /\ unmerged' = unmerged \ {p} /\ staged' = [staged EXCEPT ![p] = files[p]]
            /\ UNCHANGED files
    /\ UNCHANGED <<list, chosen, hunk, detail, loads, loadRequest, choices>>

(* ParseIndex: the unmerged paths, in order.                                *)
Listed(paths) ==
    LET listed[i \in 0..Len(Paths)] ==
          IF i = 0 THEN <<>>
          ELSE IF Paths[i] \in paths THEN Append(listed[i - 1], Paths[i]) ELSE listed[i - 1]
    IN  listed[Len(Paths)]

(* applySnapshot and SetSnapshot: the load is cancelled, which a result on  *)
(* its way survives, and the detail is dropped; the selected path is found  *)
(* again or the first one selected; the region stays.                       *)
ConflictSnapshot ==
    /\ Spend("snapshots")
    /\ list' = Listed(unmerged)
    /\ chosen' = IF list' = <<>> THEN 0
                 ELSE IF \E i \in DOMAIN list' : list'[i] = Selected
                        THEN CHOOSE i \in DOMAIN list' : list'[i] = Selected ELSE 1
    /\ detail' = NoDetail /\ loads' = {l \in loads : l.read}
    /\ UNCHANGED <<files, unmerged, staged, hunk, loadRequest, choices>>

(* loadConflictContent.                                                     *)
LoadFor(path) ==
    IF path = "" THEN UNCHANGED <<loads, loadRequest>>
    ELSE /\ loadRequest' = loadRequest + 1
         /\ loads' = {l \in loads : l.read}
                     \cup {[request |-> loadRequest + 1, path |-> path, read |-> FALSE,
                            lines |-> <<>>]}

(* Entering the workspace loads; so do j and k, which go round the list.    *)
OpenConflicts ==
    /\ Spend("keys") /\ LoadFor(Selected)
    /\ UNCHANGED <<files, unmerged, staged, list, chosen, hunk, detail, choices>>
MoveConflict ==
    /\ Spend("keys") /\ list # <<>> /\ hunk' = 0
    /\ \E delta \in {-1, 1} : chosen' = ((chosen - 1 + delta + Len(list)) % Len(list)) + 1
    /\ LoadFor(list[chosen'])
    /\ UNCHANGED <<files, unmerged, staged, list, detail, choices>>

(* The wheel moves, and a click selects, without a load: the detail of the  *)
(* other path stays, and under a click the region too.                      *)
PointConflict ==
    /\ Spend("keys") /\ chosen' \in DOMAIN list /\ hunk' \in {hunk, 0}
    /\ UNCHANGED <<files, unmerged, staged, list, detail, loads, loadRequest, choices>>

MoveRegion ==
    /\ Spend("keys")
    /\ hunk' = LET count == Max({1, Regions}) IN (hunk + 1 + count) % count
    /\ UNCHANGED <<files, unmerged, staged, list, chosen, detail, loads, loadRequest, choices>>

ReadContent ==
    \E l \in loads :
      /\ ~l.read
      /\ loads' = (loads \ {l}) \cup {[l EXCEPT !.read = TRUE, !.lines = files[l.path].lines]}
      /\ UNCHANGED <<files, unmerged, staged, list, chosen, hunk, detail, loadRequest, choices,
                     conflictWork>>

(* ConflictContentReadyMsg and SetDetail.                                   *)
ContentReady ==
    \E l \in loads :
      /\ l.read /\ loads' = loads \ {l}
      /\ detail' = IF l.request = loadRequest /\ l.path = Selected
                     THEN [path |-> l.path, lines |-> l.lines] ELSE detail
      /\ UNCHANGED <<files, unmerged, staged, list, chosen, hunk, loadRequest, choices,
                     conflictWork>>

-----------------------------------------------------------------------------
(* O, T and B: SelectedRegion gives the region and the hash of the detail,  *)
(* SelectedConflict the path.                                               *)
ChooseRegion ==
    /\ Spend("choices") /\ Selected # "" /\ hunk < Regions
    /\ \E side \in {"ours", "theirs", "both"} :
         choices' = choices \cup {[path |-> Selected, region |-> hunk + 1, side |-> side,
                                   shown |-> detail.lines, met |-> <<>>, at |-> "asked"]}
    /\ UNCHANGED <<files, unmerged, staged, list, chosen, hunk, detail, loads, loadRequest>>

(* ResolveConflictRegion reads the file, compares the hash, parses the      *)
(* regions again and renames the new content over the file.                 *)
FaultyFresh(c) == TRUE
Fresh(c) == files[c.path].lines = c.shown
ReadForChoice ==
    \E c \in choices :
      /\ c.at = "asked" /\ c.region > 0
      /\ LET lines == files[c.path].lines IN
         choices' = (choices \ {c}) \cup
           {IF Fresh(c) /\ c.region <= Len(ParseRegions(lines))
              THEN [c EXCEPT !.at = "read", !.met = lines] ELSE [c EXCEPT !.at = "done"]}
      /\ UNCHANGED <<files, unmerged, staged, list, chosen, hunk, detail, loads, loadRequest,
                     conflictWork>>

(* The choice asks for a region with the two sides that the view showed.    *)
Intended(result, c) ==
    LET asked == ParseRegions(c.shown)[c.region] IN
    IF \E i \in DOMAIN result : /\ Site(result, c.region, i)
                                /\ result[i].ours = asked.ours /\ result[i].theirs = asked.theirs
      THEN Choose(result, c.region, c.side) ELSE result
Rewritten(file, c) == [ought |-> Intended(file.ought, c), lines |-> Apply(c.met, c.region, c.side),
                     raced |-> file.raced \/ file.lines # c.met]
WriteChoice ==
    \E c \in choices :
      /\ c.at = "read"
      /\ \/ files' = [files EXCEPT ![c.path] = Rewritten(@, c)]
         \/ UNCHANGED files
      /\ choices' = (choices \ {c}) \cup {[c EXCEPT !.at = "done"]}
      /\ UNCHANGED <<unmerged, staged, list, chosen, hunk, detail, loads, loadRequest,
                     conflictWork>>

(* o, t, b, u and m: git checkout --ours, --theirs, --conflict=merge twice, *)
(* git add.  Of a path that is not unmerged the first two write what the    *)
(* index holds, and so do the others unless Git remembers the conflict.     *)
ChooseWhole ==
    /\ Spend("choices") /\ Selected # ""
    /\ \E side \in {"ours", "theirs", "both", "unresolved", "resolved"} :
         choices' = choices \cup {[path |-> Selected, region |-> 0, side |-> side,
                                   shown |-> <<>>, met |-> <<>>, at |-> "asked"]}
    /\ UNCHANGED <<files, unmerged, staged, list, chosen, hunk, detail, loads, loadRequest>>
Checkout(p, file) == files' = [files EXCEPT ![p] = file] /\ UNCHANGED staged
ResolveConflict ==
    \E c \in choices :
      /\ c.at = "asked" /\ c.region = 0
      /\ choices' = (choices \ {c}) \cup {[c EXCEPT !.at = "done"]}
      /\ \/ /\ c.side \in {"ours", "theirs"} /\ c.path \in unmerged /\ UNCHANGED unmerged
            /\ Checkout(c.path, FileOf(BlobOf[c.path][c.side]))
         \/ /\ c.side \in {"both", "unresolved"} /\ unmerged' = unmerged \cup {c.path}
            /\ Checkout(c.path, FileOf(MergeOf[c.path]))
         \/ /\ c.side # "resolved" /\ c.path \notin unmerged /\ UNCHANGED unmerged
            /\ Checkout(c.path, staged[c.path])
         \/ /\ c.side = "resolved" /\ unmerged' = unmerged \ {c.path} /\ UNCHANGED files
            /\ staged' = [staged EXCEPT ![c.path] = files[c.path]]
         \/ UNCHANGED <<files, unmerged, staged>>
      /\ UNCHANGED <<list, chosen, hunk, detail, loads, loadRequest, conflictWork>>

(* OperationFinishedMsg; the refresh it asks for is a ConflictSnapshot.     *)
ChoiceFinished ==
    \E c \in choices :
      /\ c.at = "done" /\ choices' = choices \ {c}
      /\ UNCHANGED <<files, unmerged, staged, list, chosen, hunk, detail, loads, loadRequest,
                     conflictWork>>

ConflictNext ==
    \/ ConflictOutside \/ ConflictSnapshot
    \/ OpenConflicts \/ MoveConflict \/ PointConflict \/ MoveRegion
    \/ ReadContent \/ ContentReady
    \/ ChooseRegion \/ ReadForChoice \/ WriteChoice
    \/ ChooseWhole \/ ResolveConflict \/ ChoiceFinished

ConflictSpec == ConflictInit /\ [][ConflictNext]_conflictVars

-----------------------------------------------------------------------------
(* Whatever the selection, the region and the detail did meanwhile, a file  *)
(* holds all the choices made in it and nothing else: each replaced the     *)
(* region that was shown by the side asked for, in what the ones before it  *)
(* left.  This supposes that nothing wrote the file between the comparison  *)
(* of a hash and the rename: the code cannot tell, and of two choices that  *)
(* overlap so the first one is lost.                                        *)
FileIsTheChoices ==
    \A p \in DOMAIN files : ~files[p].raced => files[p].lines = Lines(files[p].ought)

(* Contents in which no line of a text or of a side can be taken for a      *)
(* marker: the hypothesis under which FileIsTheChoices is proved.           *)
Unmistakable(piece) ==
    IF IsRegion(piece)
      THEN /\ {"<", ">"} \cap (Range(piece.ours) \cup Range(piece.theirs)) = {}
           /\ {"|", "="} \cap Range(piece.theirs) = {} /\ ">" \notin Range(piece.base)
           /\ IF piece.base = <<>> THEN "|" \notin Range(piece.ours)
              ELSE piece.base[1] = "|" /\ \A i \in 2..Len(piece.base) : piece.base[i] # "|"
      ELSE "<" \notin Range(piece.text)
Results == Elsewhere \cup UNION {{BlobOf[p]["ours"], BlobOf[p]["theirs"]} : p \in Range(Paths)}
Unambiguous == \A result \in Results : \A i \in DOMAIN result : Unmistakable(result[i])

(* "No stale conflict view can overwrite a newer external file": a choice   *)
(* is written only over the content it was made in.  The code does not keep *)
(* it for an edit between the comparison and the rename.                    *)
NewerFileKept ==
    [][\A c \in choices : c.at = "read" /\ [c EXCEPT !.at = "done"] \in choices' \ choices
         => files[c.path].lines = c.shown]_conflictVars
================================================================================
