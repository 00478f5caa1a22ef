----------------------------- MODULE MCGitignore -----------------------------
(***************************************************************************)
(* Small instances of the .gitignore editor for TLC: the plans over every  *)
(* document of at most MaxLines lines, two templates that share a rule; and *)
(* the workspace that writes them, two repositories, two commands at once, *)
(* one switch.  `part' says which of the two a behaviour is about.         *)
(***************************************************************************)
EXTENDS GitignoreDocument, GitignoreManager

CONSTANTS MaxLines, Parts

MCOrder == <<"A", "B">>
MCContent == [t \in {"A", "B"} |-> IF t = "A" THEN <<"a", "b">> ELSE <<"b">>]
MCDocuments == UNION {[1 .. n -> Formats] : n \in 0 .. MaxLines}

VARIABLE part

MCInit == /\ part \in Parts
          /\ DocumentInit /\ Init
          /\ part # "document" => doc = <<>>
          /\ part # "manager" => windows /\ \A r \in Repos : file[r] = "missing"

MCNext == /\ UNCHANGED part
          /\ \/ part = "document" /\ DocumentNext /\ UNCHANGED vars
             \/ part = "manager" /\ Next /\ UNCHANGED documentVars

MCSpec == MCInit /\ [][MCNext]_<<part, documentVars, vars>>

Symmetry == Permutations(Commands) \cup Permutations(Repos)
=============================================================================
