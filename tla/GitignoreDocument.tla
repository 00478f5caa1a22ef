------------------------- MODULE GitignoreDocument -------------------------
(***************************************************************************)
(* internal/gitignore/{managed,match,ownership,manage}: what the plans of  *)
(* the gitignore manager do to the text of a .gitignore file.  A document  *)
(* is a sequence of lines, terminated ones; the begin marker of a managed  *)
(* block carries its template and whether its content hash is the          *)
(* catalog's.  The lines between the markers are never hashed again, so a  *)
(* block is judged by its marker alone.                                    *)
(***************************************************************************)
EXTENDS Naturals, Sequences, FiniteSets, SequencesExt

CONSTANTS
  Order,      \* the catalog's template identifiers, sorted
  Content,    \* the rules of each template
  Documents,  \* documents a user may start from
  MaxWrites   \* bound: mutations applied to one document

Templates == ToSet(Order)
Rules == UNION {ToSet(Content[t]) : t \in Templates}

ASSUME ContentAssumption == \A t \in Templates : Content[t] \in Seq(Rules) /\ Content[t] # <<>>
ASSUME OrderAssumption ==
  Order \in Seq(Templates) /\ \A i, j \in DOMAIN Order : Order[i] = Order[j] => i = j
ASSUME WritesAssumption == MaxWrites \in Nat

Rule(r) == [kind |-> "rule", of |-> r, hash |-> "none"]
BlankLine == [kind |-> "blank", of |-> "none", hash |-> "none"]
Begin(t, h) == [kind |-> "begin", of |-> t, hash |-> h]
EndLine(t) == [kind |-> "end", of |-> t, hash |-> "none"]

Formats == {Rule(r) : r \in Rules} \cup {BlankLine} \cup {EndLine(t) : t \in Templates}
           \cup {Begin(t, h) : t \in Templates, h \in {"current", "stale"}}
ASSUME DocumentsAssumption == Documents \subseteq Seq(Formats)

VARIABLES doc, writes
documentVars == <<doc, writes>>

\* managed.go: EncodeManagedBlock
Body(t) == [i \in DOMAIN Content[t] |-> Rule(Content[t][i])]
\* Faulty: the end marker is forgotten.
EncodedOpen(t) == <<Begin(t, "current")>> \o Body(t)
Encoded(t) == <<Begin(t, "current")>> \o Body(t) \o <<EndLine(t)>>

IsKind(d, i, k) == d[i].kind = k

\* Faulty: the template of the end marker is not compared.
BlocksUnchecked(d) ==
  {b \in (DOMAIN d) \X (DOMAIN d) :
     /\ b[1] < b[2]
     /\ IsKind(d, b[1], "begin") /\ IsKind(d, b[2], "end")
     /\ \A k \in b[1] + 1 .. b[2] - 1 : ~IsKind(d, k, "end")}

\* ParseManagedBlock, as every scanner of the package uses it: a begin marker, up to the
\* next end marker, is a block when the end marker names the same template.
Blocks(d) ==
  {b \in (DOMAIN d) \X (DOMAIN d) :
     /\ b[1] < b[2]
     /\ IsKind(d, b[1], "begin") /\ IsKind(d, b[2], "end")
     /\ d[b[1]].of = d[b[2]].of
     /\ \A k \in b[1] + 1 .. b[2] - 1 : ~IsKind(d, k, "end")}
BlocksOf(d, t) == {b \in Blocks(d) : d[b[1]].of = t}
Lines(b) == b[1] .. b[2]

RuleLines(d) == {i \in DOMAIN d : IsKind(d, i, "rule")}
RulesOf(d) == {d[i].of : i \in RuleLines(d)}

\* match.go: Match.  Of several blocks of one template the last one found decides.
State(d, t) ==
  IF BlocksOf(d, t) # {}
  THEN LET last == CHOOSE b \in BlocksOf(d, t) : \A c \in BlocksOf(d, t) : c[1] <= b[1]
       IN IF d[last[1]].hash = "current" THEN "exact" ELSE "edited"
  ELSE LET present == ToSet(Content[t]) \cap RulesOf(d)
       IN CASE present = ToSet(Content[t]) -> "full"
            [] present = {} -> "absent"
            [] OTHER -> "partial"

Managed(d, t) == State(d, t) \in {"exact", "edited"}
Installed(d) == {t \in Templates : State(d, t) \in {"exact", "full"}}

\* ownership.go: Build (a rule line inside a valid block is managed, any other handwritten)
Handwritten(d) == {i \in RuleLines(d) : \A b \in Blocks(d) : i \notin Lines(b)}
ReferencedBy(r) == {t \in Templates : r \in ToSet(Content[t])}

(***************************************************************************)
(* The plans.  Each is the set of the documents it can propose: one, or    *)
(* none when the planner returns an error.                                 *)
(***************************************************************************)
\* The blank line that separates what is appended from what the user wrote.
Separator(d) ==
  IF d = <<>> \/ (Len(d) > 1 /\ IsKind(d, Len(d), "blank")) THEN <<>> ELSE <<BlankLine>>

\* The blocks of the templates of S in the catalog's order, a blank line between two.
Joined(S) ==
  LET joined[i \in 0 .. Len(Order)] ==
        IF i = 0 THEN <<>>
        ELSE IF Order[i] \notin S THEN joined[i - 1]
        ELSE joined[i - 1] \o (IF joined[i - 1] = <<>> THEN <<>> ELSE <<BlankLine>>)
                          \o Encoded(Order[i])
  IN joined[Len(Order)]

Additions(d, S) == {t \in S : State(d, t) \in {"partial", "absent"}}
PlanAdd(d, S) ==
  IF (\E t \in S : Managed(d, t)) \/ Additions(d, S) = {} THEN {}
  ELSE {d \o Separator(d) \o Joined(Additions(d, S))}

PlanCreate(d, S) == IF d = <<>> THEN PlanAdd(d, S) ELSE {}

\* Faulty: the templates that stay are not asked.
SafeToRemoveShared(d, S) ==
  {i \in Handwritten(d) :
     /\ ReferencedBy(d[i].of) \cap S # {}
     /\ \A j \in Handwritten(d) : d[j].of = d[i].of => j = i}

\* ownership.go: Removal, for the lines outside every block.
SafeToRemove(d, S) ==
  {i \in Handwritten(d) :
     /\ ReferencedBy(d[i].of) \cap S # {}
     /\ ReferencedBy(d[i].of) \cap (Installed(d) \ S) = {}
     /\ \A j \in Handwritten(d) : d[j].of = d[i].of => j = i}

\* The lines that are not gone, in order.
Without(d, gone) ==
  LET kept[i \in 0 .. Len(d)] ==
        IF i = 0 THEN <<>>
        ELSE IF i \in gone THEN kept[i - 1] ELSE Append(kept[i - 1], d[i])
  IN kept[Len(d)]

BlocksIn(d, S) == {b \in Blocks(d) : d[b[1]].of \in S}

PlanRemove(d, S) ==
  LET gone == (UNION {Lines(b) : b \in BlocksIn(d, S)}) \cup SafeToRemove(d, S)
  IN IF (\E b \in BlocksIn(d, S) : d[b[1]].hash = "stale") \/ gone = {} THEN {}
     ELSE {Without(d, gone)}

\* update.go: the edits are applied from the last to the first, each at the offsets it
\* had in the document that was read (an offset past the end, where the slice panics in
\* Go, counts as the end).
Stale(d, S) == {b \in BlocksIn(d, S) : d[b[1]].hash = "stale"}
Replaced(d, b, t) == SubSeq(d, 1, b[1] - 1) \o Encoded(t) \o SubSeq(d, b[2] + 1, Len(d))
PlanUpdate(d, S) ==
  LET stale(i) == {b \in Stale(d, S) : b[1] = i}
      edited[k \in 0 .. Len(d)] ==  \* the last k lines looked at
        LET i == Len(d) - k + 1
        IN IF k = 0 THEN d
           ELSE IF stale(i) = {} THEN edited[k - 1]
           ELSE Replaced(edited[k - 1], CHOOSE b \in stale(i) : TRUE, d[i].of)
  IN IF Stale(d, S) = {} THEN {} ELSE {edited[Len(d)]}

\* adopt.go: wraps the first place where the template's lines stand next to each other.
Segments(d, t) ==
  {i \in DOMAIN d : i + Len(Content[t]) - 1 \in DOMAIN d
                    /\ SubSeq(d, i, i + Len(Content[t]) - 1) = Body(t)}
PlanAdopt(d, t) ==
  IF State(d, t) = "exact" \/ Segments(d, t) = {} THEN {}
  ELSE LET i == CHOOSE k \in Segments(d, t) : \A j \in Segments(d, t) : k <= j
       IN {SubSeq(d, 1, i - 1) \o Encoded(t) \o SubSeq(d, i + Len(Content[t]), Len(d))}

(***************************************************************************)
(* A document and the mutations the user confirms on it, one at a time.    *)
(***************************************************************************)
Selections == (SUBSET Templates) \ {{}}

WritePlan(plans) == writes < MaxWrites /\ writes' = writes + 1 /\ doc' \in plans

DocumentInit == doc \in Documents /\ writes = 0

CreateTemplates(S) == WritePlan(PlanCreate(doc, S))
AddTemplates(S) == WritePlan(PlanAdd(doc, S))
RemoveTemplates(S) == WritePlan(PlanRemove(doc, S))
UpdateTemplates(S) == WritePlan(PlanUpdate(doc, S))
AdoptTemplate(t) == WritePlan(PlanAdopt(doc, t))

DocumentNext == \/ \E S \in Selections : \/ CreateTemplates(S) \/ AddTemplates(S)
                                \/ RemoveTemplates(S) \/ UpdateTemplates(S)
        \/ \E t \in Templates : AdoptTemplate(t)

DocumentSpec == DocumentInit /\ [][DocumentNext]_documentVars

(***************************************************************************)
(* Properties                                                              *)
(***************************************************************************)
\* The document has only lines of the format.
DocumentTypeOK == doc \in Seq(Formats) /\ writes \in 0 .. MaxWrites

\* Every begin marker opens a block of its own.
WellFormed(d) == \A i \in DOMAIN d : IsKind(d, i, "begin") => \E b \in Blocks(d) : b[1] = i
Disjoint(d) == \A b, c \in Blocks(d) : b = c \/ Lines(b) \cap Lines(c) = {}
Tidy(d) == WellFormed(d) /\ Disjoint(d)

Outside(d, S) == Without(d, UNION {Lines(b) : b \in BlocksIn(d, S)})

\* However broken the markers of the file are, adding or removing some templates leaves
\* every block of the others as it was, line for line and in one piece (docs/gitignore-
\* manager.md: blocks are "independently removable"), and those whose begin markers all
\* open a block are matched as before.
Opens(d, t) == \A i \in DOMAIN d : d[i] \in {Begin(t, "current"), Begin(t, "stale")} =>
                 \E b \in Blocks(d) : b[1] = i
BlockLines(d, t) == {SubSeq(d, b[1], b[2]) : b \in BlocksOf(d, t)}
KeepsOthers(S) ==
  \A t \in Templates \ S :
    /\ BlockLines(doc, t) \subseteq BlockLines(doc', t)
    /\ Managed(doc, t) /\ Opens(doc, t) => State(doc', t) = State(doc, t)
OthersUndisturbed ==
  [][\A S \in Selections : AddTemplates(S) \/ RemoveTemplates(S) => KeepsOthers(S)]_documentVars

\* Where every begin marker opens a block, a template none of whose rules were there can
\* be added and removed again, and what the user wrote comes back, with at most the
\* separating line added.
AddIsReversible ==
  [][\A t \in Templates : AddTemplates({t}) /\ WellFormed(doc) /\ State(doc, t) = "absent" =>
       PlanRemove(doc', {t}) = {doc \o Separator(doc)}]_documentVars

\* Removal never takes from a template that stays and that the user wrote by hand, in
\* full and outside every block, one of its rules; and where every begin marker opens a
\* block, none of them comes to lie in one.
ByHand(d, t) == ToSet(Content[t]) \subseteq {d[i].of : i \in Handwritten(d)}
HandwrittenTemplatesStay ==
  [][\A S \in Selections : RemoveTemplates(S) =>
       \A t \in Templates \ S : ByHand(doc, t) /\ ~Managed(doc, t) =>
         /\ ToSet(Content[t]) \subseteq RulesOf(doc')
         /\ WellFormed(doc) => ByHand(doc', t)]_documentVars

\* In a file whose markers are in order, an update replaces the blocks it was asked for
\* and not a line outside them, and leaves none of them stale.
UpdateIsLocal ==
  [][\A S \in Selections : UpdateTemplates(S) /\ Tidy(doc) =>
       Outside(doc', S) = Outside(doc, S) /\ Stale(doc', S) = {}]_documentVars

\* Stated for every file by tasks/completed/199-implement-existing-file-append-remove-
\* adopt-and-update-flows.md ("replace only that block's body/metadata ... Preserve all
\* other file content"): an update leaves the blocks of the other templates alone.  Two
\* begin markers that share an end marker break it: the edits overlap, and the second
\* one is applied at offsets the first one has moved.
UpdatePreservesOthers ==
  [][\A S \in Selections : UpdateTemplates(S) => KeepsOthers(S)]_documentVars

=============================================================================
