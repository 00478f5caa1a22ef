------------------------------- MODULE UndoRedo -------------------------------
(***************************************************************************)
(* Commits, the journal record each leaves, and the undo and redo of the   *)
(* journal workspace: undo/policy.go and redo/policy.go move HEAD with     *)
(* git reset --soft once a snapshot agrees with the record.  The commit    *)
(* runs outside the operation engine, undo and redo inside it.             *)
(***************************************************************************)
EXTENDS Integers, Sequences, FiniteSets

CONSTANTS Contents,   \* what the one file may hold
          MaxCommits, \* commits made
          MaxRuns,    \* commands begun in gitwatch
          MaxOutside  \* steps of the other terminal

ASSUME UndoBounds == /\ MaxCommits \in Nat \ {0} /\ MaxRuns \in Nat /\ MaxOutside \in Nat
                     /\ Contents # {}

VARIABLES commits,   \* every commit there is: its parent and the file in it
          head, index, worktree,
          operation, \* an operation of Git is in progress
          shownHead, \* m.Snapshot.Branch.OID
          journal,   \* the records of m.ActivityLog that carry an operation
          asking,    \* m.UndoRecord or m.RedoRecord with its confirmation
          undoRuns,  \* commands under way
          begun, outside

undoVars == <<commits, head, index, worktree, operation, shownHead, journal, asking,
              undoRuns, begun, outside>>

NoCommit == 0
UndoKinds == {"commit", "undo commit", "redo commit"}
NoRecord == [kind |-> "none", old |-> NoCommit, new |-> NoCommit, print |-> <<FALSE, FALSE>>,
             ok |-> FALSE]

UndoTypeOK ==
    /\ head \in DOMAIN commits /\ index \in Contents /\ worktree \in Contents
    /\ \A c \in DOMAIN commits : commits[c].parent \in 0..(c - 1) /\ commits[c].file \in Contents
    /\ shownHead \in DOMAIN commits /\ operation \in BOOLEAN
    /\ \A i \in DOMAIN journal : journal[i].kind \in UndoKinds
    /\ asking.kind \in {"none", "commit", "undo commit"}
    /\ \A r \in undoRuns : r.kind \in UndoKinds
         /\ r.at \in {"asked", "moved", "named", "checked", "refused", "done"}
    /\ begun \in 0..MaxRuns /\ outside \in 0..MaxOutside

UndoInit ==
    /\ \E f \in Contents : commits = <<[parent |-> NoCommit, file |-> f]>> /\ index = f /\ worktree = f
    /\ head = 1 /\ shownHead = 1 /\ operation = FALSE /\ journal = <<>> /\ asking = NoRecord
    /\ undoRuns = {} /\ begun = 0 /\ outside = 0

-----------------------------------------------------------------------------
(* Git                                                                      *)

(* SnapshotFingerprint tells which entries of the status there are and how  *)
(* they differ, not what they hold.                                         *)
Fingerprint == <<index # commits[head].file, worktree # index>>

NewCommit(parent) ==
    /\ Len(commits) < MaxCommits
    /\ commits' = Append(commits, [parent |-> parent, file |-> index])
    /\ head' = Len(commits) + 1

Ancestors(c) == LET f[n \in 0..Len(commits)] ==
                      IF n = NoCommit THEN {} ELSE {n} \cup f[commits[n].parent]
                IN  f[c]

UndoOutside ==
    /\ outside < MaxOutside /\ outside' = outside + 1
    /\ \/ \E f \in Contents \ {worktree} : worktree' = f /\ UNCHANGED <<commits, head, index, operation>>
       \/ index' = worktree /\ UNCHANGED <<commits, head, worktree, operation>>
       \/ index # commits[head].file /\ NewCommit(head) /\ UNCHANGED <<index, worktree, operation>>
       \/ /\ commits[head].parent # NoCommit /\ head' = commits[head].parent
          /\ UNCHANGED <<commits, index, worktree, operation>>
       \/ operation' = ~operation /\ UNCHANGED <<commits, head, index, worktree>>
    /\ UNCHANGED <<shownHead, journal, asking, undoRuns, begun>>

(* Staging in gitwatch, and a refresh that is applied.                      *)
Stage ==
    /\ index # worktree /\ index' = worktree
    /\ UNCHANGED <<commits, head, worktree, operation, shownHead, journal, asking, undoRuns,
                   begun, outside>>

SnapshotApplied ==
    /\ shownHead # head /\ shownHead' = head
    /\ UNCHANGED <<commits, head, index, worktree, operation, journal, asking, undoRuns,
                   begun, outside>>

-----------------------------------------------------------------------------
(* Model.commit: the record takes the HEAD of the snapshot on the screen as *)
(* the old one when the key is pressed; the new one is read after the       *)
(* commit, and so is the fingerprint.                                       *)

UndoBegin(kind, record, amend) ==
    /\ begun < MaxRuns /\ begun' = begun + 1
    /\ undoRuns' = undoRuns \cup {[n |-> begun', kind |-> kind, at |-> "asked", amend |-> amend,
                                   record |-> record]}
Entry(r, at, record) == undoRuns' = (undoRuns \ {r}) \cup {[r EXCEPT !.at = at, !.record = record]}

CommitAsk ==
    /\ \E amend \in BOOLEAN :
         UndoBegin("commit", [NoRecord EXCEPT !.kind = "commit", !.old = shownHead], amend)
    /\ UNCHANGED <<commits, head, index, worktree, operation, shownHead, journal, asking, outside>>

CommitRuns ==
    \E r \in undoRuns :
      /\ r.kind = "commit" /\ r.at = "asked"
      /\ LET parent == IF r.amend THEN commits[head].parent ELSE head IN
         \/ /\ ~operation /\ (r.amend \/ index # commits[head].file)
            /\ NewCommit(parent) /\ Entry(r, "moved", r.record)
         \/ Entry(r, "done", r.record) /\ UNCHANGED <<commits, head>>
      /\ UNCHANGED <<index, worktree, operation, shownHead, journal, asking, begun, outside>>

CommitNamed ==
    \E r \in undoRuns :
      /\ r.kind = "commit" /\ r.at = "moved"
      /\ Entry(r, "named", [r.record EXCEPT !.new = head])
      /\ UNCHANGED <<commits, head, index, worktree, operation, shownHead, journal, asking,
                     begun, outside>>

CommitPrinted ==
    \E r \in undoRuns :
      /\ r.kind = "commit" /\ r.at = "named"
      /\ Entry(r, "done", [r.record EXCEPT !.print = Fingerprint, !.ok = TRUE])
      /\ UNCHANGED <<commits, head, index, worktree, operation, shownHead, journal, asking,
                     begun, outside>>

-----------------------------------------------------------------------------
(* The journal workspace: u on a commit, R on an undo, and y or n.          *)

Undoable(record) == record.ok /\ record.kind \in {"commit", "undo commit"}

Ask ==
    /\ asking = NoRecord
    /\ \E i \in DOMAIN journal : Undoable(journal[i]) /\ asking' = journal[i]
    /\ UNCHANGED <<commits, head, index, worktree, operation, shownHead, journal, undoRuns,
                   begun, outside>>

UndoAnswer ==
    /\ asking # NoRecord /\ asking' = NoRecord
    /\ \/ UndoBegin(IF asking.kind = "commit" THEN "undo commit" ELSE "redo commit", asking, FALSE)
       \/ UNCHANGED <<undoRuns, begun>>
    /\ UNCHANGED <<commits, head, index, worktree, operation, shownHead, journal, outside>>

(* Plan of undo/policy.go and redo/policy.go, on a snapshot read just then. *)
Allowed(record) ==
    /\ ~operation /\ record.old # record.new
    /\ head = record.new /\ Fingerprint = record.print

(* The engine runs one of them at a time, and refuses an identifier that is *)
(* in use; Execute reads a snapshot and then resets.                        *)
Execute ==
    \E r \in undoRuns :
      /\ r.kind # "commit" /\ r.at = "asked"
      /\ \A q \in undoRuns \ {r} : q.kind # "commit" => q.at \in {"asked", "refused", "done"}
      /\ Entry(r, IF Allowed(r.record) THEN "checked" ELSE "refused", r.record)
      /\ UNCHANGED <<commits, head, index, worktree, operation, shownHead, journal, asking,
                     begun, outside>>

UndoReset ==
    \E r \in undoRuns :
      /\ r.at = "checked" /\ head' = r.record.old
      /\ Entry(r, "moved", r.record)
      /\ UNCHANGED <<commits, index, worktree, operation, shownHead, journal, asking, begun, outside>>

ResetPrinted ==
    \E r \in undoRuns :
      /\ r.kind # "commit" /\ r.at \in {"moved", "refused"}
      /\ Entry(r, "done", [kind |-> r.kind, old |-> r.record.new, new |-> r.record.old,
                             print |-> Fingerprint, ok |-> r.at = "moved"])
      /\ UNCHANGED <<commits, head, index, worktree, operation, shownHead, journal, asking,
                     begun, outside>>

(* CommitFinishedMsg, UndoFinishedMsg, RedoFinishedMsg: the outcome is      *)
(* recorded; undo and redo also apply the snapshot they read.               *)
UndoFinished ==
    \E r \in undoRuns :
      /\ r.at = "done" /\ undoRuns' = undoRuns \ {r}
      /\ journal' = Append(journal, r.record)
      /\ shownHead' \in (IF r.kind = "commit" THEN {shownHead} ELSE {shownHead, head})
      /\ UNCHANGED <<commits, head, index, worktree, operation, asking, begun, outside>>

UndoNext ==
    \/ UndoOutside \/ Stage \/ SnapshotApplied
    \/ CommitAsk \/ CommitRuns \/ CommitNamed \/ CommitPrinted
    \/ Ask \/ UndoAnswer \/ Execute \/ UndoReset \/ ResetPrinted \/ UndoFinished

UndoSpec == UndoInit /\ [][UndoNext]_undoVars

-----------------------------------------------------------------------------
(* An undo takes the commit it names off the branch and no other: "If       *)
(* diverged, refuse automatic undo".  The code does not keep this for a      *)
(* commit that somebody makes between the comparison and the reset.          *)
UndoSparesOthers ==
    [][ \A r \in undoRuns :
          r.kind = "undo commit" /\ r.at = "checked" /\ r \notin undoRuns'
          => Ancestors(head) \ Ancestors(head') \subseteq {r.record.new} ]_undoVars
=============================================================================
