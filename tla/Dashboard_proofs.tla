-------------------------- MODULE Dashboard_proofs --------------------------
(***************************************************************************)
(* Proofs about the repository dashboard: batches and submodule operations *)
(* for any number of repositories, modules and workers, the registry for   *)
(* any repositories, automatic fetches for any times and intervals.        *)
(***************************************************************************)
EXTENDS RepositoryBatch, SubmoduleActions, RepositoryRegistry, AutoFetch,
        SequenceTheorems, FiniteSetTheorems, TLAPS

-----------------------------------------------------------------------------
(* One batch: what was sent to a worker, what was not, and what is known.  *)

\* The producer still has what nobody reported on, a pull runs on branches only, and
\* a batch whose results were posted has neither.
BatchSound(x) ==
  /\ x \in Batch /\ x.left \subseteq DOMAIN x.status
  /\ x.kind # "gitignore" => \A p \in DOMAIN x.status : x.status[p] = "none" => p \in x.left
  /\ x.phase # "running" => x.left = {} /\ \A p \in DOMAIN x.status : x.status[p] # "running"
  /\ x.kind = "pull" => \A p \in DOMAIN x.status :
                          p \in Detached => x.status[p] \in {"none", "skipped", "cancelled"}

\* Results that can be retried are those of a batch that was handled.
Reported(action, status) ==
  \E c \in DOMAIN batches : /\ batches[c].phase = "handled" /\ batches[c].kind = action
                            /\ batches[c].status = status

Tables == UNION {[P -> Statuses] : P \in SUBSET Paths}

BatchInv ==
  /\ batchDialog \in [confirm : BOOLEAN, retry : BOOLEAN, action : Actions]
  /\ batchHandle \in 0 .. Len(batches)
  /\ batchResults \in [of : Actions, status : Tables]
  /\ batches \in Seq(Batch) /\ Len(batches) <= MaxBatches
  /\ \A b \in DOMAIN batches : BatchSound(batches[b])
  /\ batchResults.status = Nothing \/ Reported(batchResults.of, batchResults.status)
  /\ batchDialog.confirm /\ batchDialog.retry =>
       Reported(batchDialog.action, batchResults.status)
  /\ RetriesFailuresOnly

LEMMA NothingTable == Nothing \in Tables /\ DOMAIN Nothing = {}
<1>1. Nothing \in [{} -> Statuses] /\ {} \in SUBSET Paths
  BY DEF Nothing
<1> QED BY <1>1 DEF Tables, Nothing

LEMMA TableOf ==
  ASSUME NEW status
  PROVE  status \in Tables <=> status \in [DOMAIN status -> Statuses] /\ DOMAIN status \subseteq Paths
BY DEF Tables

\* What a step of a batch may leave of it: the kind, the request, and, once the results
\* are posted, everything else.
Onward(x, y) ==
  /\ y.kind = x.kind /\ y.retry = x.retry /\ DOMAIN y.status = DOMAIN x.status
  /\ x.phase = "handled" => y.phase = "handled" /\ y.status = x.status

\* A step that takes every batch onward, and leaves the dialog alone or closes it.
LEMMA OnwardKeeps ==
  ASSUME BatchInv, DOMAIN batches' = DOMAIN batches,
         batches' \in Seq(Batch),
         \A b \in DOMAIN batches : BatchSound(batches'[b]) /\ Onward(batches[b], batches'[b]),
         batchHandle' \in 0 .. Len(batches),
         batchDialog' \in [confirm : BOOLEAN, retry : BOOLEAN, action : Actions],
         batchDialog'.confirm => batchDialog' = batchDialog /\ batchResults' = batchResults,
         batchResults' \in [of : Actions, status : Tables],
         \/ batchResults' = batchResults
         \/ Reported(batchResults.of, batchResults.status)'
  PROVE  BatchInv'
<1>1. Len(batches') = Len(batches)
  BY DEF BatchInv
<1>2. \A action, status : Reported(action, status) => Reported(action, status)'
  BY DEF Reported, Onward
<1>3. RetriesFailuresOnly'
  <2> SUFFICES ASSUME NEW b \in DOMAIN batches, batches'[b].retry
               PROVE  \E c \in 1 .. (b - 1) :
                        /\ batches'[c].phase = "handled"
                        /\ batches'[c].kind = batches'[b].kind
                        /\ DOMAIN batches'[b].status = InStatus(batches'[c].status, "failed")
    BY DEF RetriesFailuresOnly
  <2>1. batches[b].retry
    BY DEF Onward
  <2>2. PICK c \in 1 .. (b - 1) :
          /\ batches[c].phase = "handled" /\ batches[c].kind = batches[b].kind
          /\ DOMAIN batches[b].status = InStatus(batches[c].status, "failed")
    BY <2>1 DEF BatchInv, RetriesFailuresOnly
  <2>3. c \in DOMAIN batches
    <3>1. DOMAIN batches = 1 .. Len(batches) /\ Len(batches) \in Nat
      BY LenProperties DEF BatchInv
    <3> QED BY <2>2, <3>1
  <2> QED BY <2>2, <2>3 DEF Onward
<1>4. batchResults'.status = Nothing \/ Reported(batchResults.of, batchResults.status)'
  BY <1>2 DEF BatchInv
<1>5. batchDialog'.confirm /\ batchDialog'.retry =>
        Reported(batchDialog.action, batchResults.status)'
  BY <1>2 DEF BatchInv
<1> QED BY <1>1, <1>3, <1>4, <1>5 DEF BatchInv

-----------------------------------------------------------------------------
(* The steps of a batch at work.                                           *)

LEMMA OneOnward ==
  ASSUME BatchInv, NEW b \in DOMAIN batches, NEW x,
         BatchSound(x), Onward(batches[b], x), batches' = [batches EXCEPT ![b] = x],
         UNCHANGED <<batchDialog, batchHandle, batchResults>>
  PROVE  BatchInv'
<1>1. x \in Batch /\ batches \in Seq(Batch) /\ DOMAIN batches' = DOMAIN batches
  BY DEF BatchSound, BatchInv
<1>2. batches' \in Seq(Batch)
  BY <1>1, ExceptSeq
<1>3. \A c \in DOMAIN batches : BatchSound(batches'[c]) /\ Onward(batches[c], batches'[c])
  BY <1>1 DEF BatchInv, Onward
<1> QED BY <1>1, <1>2, <1>3, OnwardKeeps DEF BatchInv

LEMMA TakeSound ==
  ASSUME BatchInv, NEW b \in DOMAIN batches, NEW p \in DOMAIN batches[b].status, BatchTake(b, p)
  PROVE  BatchInv'
<1> DEFINE x == batches[b]
<1>1. x \in Batch /\ BatchSound(x)
  BY DEF BatchInv, BatchSound
<1>2. PICK s \in Statuses :
        /\ s \in Final \cup {"running"}
        /\ x.kind = "pull" /\ p \in Detached => s = "skipped"
        /\ batches' = [batches EXCEPT ![b].status[p] = s, ![b].left = @ \ {p}]
  BY DEF BatchTake, Final, Statuses
<1> DEFINE y == [x EXCEPT !.status = [x.status EXCEPT ![p] = s], !.left = x.left \ {p}]
<1>3. batches' = [batches EXCEPT ![b] = y]
  BY <1>2
<1>4. /\ y.kind = x.kind /\ y.retry = x.retry /\ y.phase = x.phase /\ y.left = x.left \ {p}
      /\ y.status = [x.status EXCEPT ![p] = s] /\ y.dead = x.dead
  BY <1>1 DEF Batch
<1>5. x.phase = "running"
  BY DEF BatchTake
<1>6. y.status \in Tables /\ DOMAIN y.status = DOMAIN x.status
  BY <1>1, <1>4 DEF Batch, Tables
<1>7. y \in Batch
  BY <1>1, <1>4, <1>6 DEF Batch, Tables
<1> HIDE DEF y
<1>8. BatchSound(y)
  BY <1>1, <1>2, <1>4, <1>5, <1>6, <1>7 DEF BatchSound, Final
<1>9. Onward(x, y)
  BY <1>4, <1>5, <1>6 DEF Onward
<1>10. UNCHANGED <<batchDialog, batchHandle, batchResults>>
  BY DEF BatchTake
<1> QED BY <1>3, <1>8, <1>9, <1>10, OneOnward

LEMMA ReturnSound ==
  ASSUME BatchInv, NEW b \in DOMAIN batches, NEW p \in DOMAIN batches[b].status, BatchReturn(b, p)
  PROVE  BatchInv'
<1> DEFINE x == batches[b]
<1>1. x \in Batch /\ BatchSound(x) /\ x.status[p] = "running"
  BY DEF BatchInv, BatchSound, BatchReturn, Busy, InStatus
<1>2. PICK s \in Final : batches' = [batches EXCEPT ![b].status[p] = s]
  BY DEF BatchReturn, SetStatus, Final
<1> DEFINE y == [x EXCEPT !.status = [x.status EXCEPT ![p] = s]]
<1>3. batches' = [batches EXCEPT ![b] = y]
  BY <1>2
<1>4. /\ y.kind = x.kind /\ y.retry = x.retry /\ y.phase = x.phase /\ y.left = x.left
      /\ y.status = [x.status EXCEPT ![p] = s] /\ y.dead = x.dead
  BY <1>1 DEF Batch
<1>5. x.phase = "running" /\ ~(x.kind = "pull" /\ p \in Detached)
  BY <1>1 DEF BatchSound, Batch
<1>6. y.status \in Tables /\ DOMAIN y.status = DOMAIN x.status
  BY <1>1, <1>4 DEF Batch, Tables, Final, Statuses
<1>7. y \in Batch
  BY <1>1, <1>4, <1>6 DEF Batch, Tables
<1> HIDE DEF y
<1>8. BatchSound(y)
  BY <1>1, <1>2, <1>4, <1>5, <1>6, <1>7 DEF BatchSound, Final
<1>9. Onward(x, y)
  BY <1>4, <1>5, <1>6 DEF Onward
<1>10. UNCHANGED <<batchDialog, batchHandle, batchResults>>
  BY DEF BatchReturn
<1> QED BY <1>3, <1>8, <1>9, <1>10, OneOnward

LEMMA WithdrawSound ==
  ASSUME BatchInv, NEW b \in DOMAIN batches, BatchWithdraw(b)
  PROVE  BatchInv'
<1> DEFINE x == batches[b]
           table == [p \in DOMAIN x.status |->
                       IF p \in x.left /\ x.kind # "gitignore" THEN "cancelled" ELSE x.status[p]]
           y == [x EXCEPT !.left = {}, !.status = table]
<1>1. x \in Batch /\ BatchSound(x) /\ x.phase = "running"
  BY DEF BatchInv, BatchSound, BatchWithdraw
<1>2. batches' = [batches EXCEPT ![b] = y]
  BY DEF BatchWithdraw
<1>3. /\ y.kind = x.kind /\ y.retry = x.retry /\ y.phase = x.phase /\ y.left = {}
      /\ y.status = table
  BY <1>1 DEF Batch
<1>4. table \in Tables
  <2>1. table \in [DOMAIN x.status -> Statuses] /\ DOMAIN x.status \in SUBSET Paths
    BY <1>1 DEF Batch, Tables, Statuses, Final
  <2> QED BY <2>1 DEF Tables
<1>5. y \in Batch
  BY <1>1, <1>3, <1>4 DEF Batch, Tables
<1>6. BatchSound(y)
  <2> HIDE DEF y
  <2>1. x.kind # "gitignore" => \A p \in DOMAIN table : table[p] # "none"
    BY <1>1 DEF BatchSound
  <2>2. x.kind = "pull" => \A p \in DOMAIN table :
                              p \in Detached => table[p] \in {"none", "skipped", "cancelled"}
    BY <1>1 DEF BatchSound
  <2> QED BY <1>1, <1>3, <1>5, <2>1, <2>2 DEF BatchSound
<1>7. Onward(x, y)
  BY <1>1, <1>3 DEF Onward
<1>8. UNCHANGED <<batchDialog, batchHandle, batchResults>>
  BY DEF BatchWithdraw
<1> QED BY <1>2, <1>6, <1>7, <1>8, OneOnward

LEMMA PostSound ==
  ASSUME BatchInv, NEW b \in DOMAIN batches, BatchPost(b)
  PROVE  BatchInv'
<1> DEFINE x == batches[b]
           y == [x EXCEPT !.phase = "posted"]
<1>1. x \in Batch /\ BatchSound(x) /\ x.phase = "running" /\ x.left = {}
      /\ \A p \in DOMAIN x.status : x.status[p] # "running"
  BY DEF BatchInv, BatchSound, BatchPost, Busy, InStatus
<1>2. batches' = [batches EXCEPT ![b] = y]
  BY DEF BatchPost
<1>3. /\ y.kind = x.kind /\ y.retry = x.retry /\ y.phase = "posted" /\ y.left = x.left
      /\ y.status = x.status /\ y \in Batch
  BY <1>1 DEF Batch
<1> HIDE DEF y
<1>4. BatchSound(y) /\ Onward(x, y)
  BY <1>1, <1>3 DEF BatchSound, Onward
<1>5. UNCHANGED <<batchDialog, batchHandle, batchResults>>
  BY DEF BatchPost
<1> QED BY <1>2, <1>4, <1>5, OneOnward

\* Ending the context of batches, and recording which of them was handled.
LEMMA HandleSound ==
  ASSUME BatchInv, NEW b \in DOMAIN batches, BatchHandle(b)
  PROVE  BatchInv'
<1> DEFINE after(c) == [batches[c] EXCEPT !.phase = IF c = b THEN "handled" ELSE @,
                                          !.dead = @ \/ c = batchHandle]
<1>1. batches' = [c \in DOMAIN batches |-> after(c)]
  BY DEF BatchHandle
<1>2. /\ batches[b].phase = "posted" /\ batches[b].kind # "gitignore"
      /\ batchHandle' = 0 /\ ~batchDialog'.confirm
      /\ batchDialog' = [batchDialog EXCEPT !.confirm = FALSE, !.retry = FALSE]
      /\ batchResults' = [of |-> batches[b].kind, status |-> batches[b].status]
  BY DEF BatchHandle, BatchInv
<1>3. ASSUME NEW c \in DOMAIN batches
      PROVE  /\ after(c) \in Batch /\ after(c).kind = batches[c].kind
             /\ after(c).left = batches[c].left /\ after(c).status = batches[c].status
             /\ after(c).retry = batches[c].retry
             /\ after(c).phase = IF c = b THEN "handled" ELSE batches[c].phase
  <2>1. batches[c] \in Batch
    BY DEF BatchInv, BatchSound
  <2>2. (batches[c].dead \/ c = batchHandle) \in BOOLEAN
        /\ (IF c = b THEN "handled" ELSE batches[c].phase) \in {"running", "posted", "handled"}
    BY <2>1 DEF Batch
  <2> QED BY <2>1, <2>2 DEF Batch
<1> HIDE DEF after
<1>4. \A c \in DOMAIN batches : BatchSound(batches'[c]) /\ Onward(batches[c], batches'[c])
  BY <1>1, <1>2, <1>3 DEF BatchInv, BatchSound, Onward
<1>5. DOMAIN batches' = DOMAIN batches /\ batches' \in Seq(Batch)
  BY <1>1, <1>3 DEF BatchInv
<1>6. batchResults' \in [of : Actions, status : Tables]
  <2>1. batches[b] \in Batch
    BY DEF BatchInv, BatchSound
  <2> QED BY <1>2, <2>1 DEF Batch, Tables
<1>7. Reported(batchResults.of, batchResults.status)'
  BY <1>1, <1>2, <1>3, <1>5 DEF Reported
<1>8. batchDialog' \in [confirm : BOOLEAN, retry : BOOLEAN, action : Actions]
  BY <1>2 DEF BatchInv
<1>9. 0 \in 0 .. Len(batches)
  BY LenProperties DEF BatchInv
<1> QED BY <1>2, <1>4, <1>5, <1>6, <1>7, <1>8, <1>9, OnwardKeeps

\* Ending contexts changes nothing else.
LEMMA DeadSound ==
  ASSUME BatchInv, BatchSwitch \/ BatchCancel
  PROVE  BatchInv'
<1> DEFINE dead(x) == [x EXCEPT !.dead = TRUE]
<1>1. ASSUME NEW x, BatchSound(x) PROVE BatchSound(dead(x)) /\ Onward(x, dead(x)) /\ dead(x) \in Batch
  <2>1. x \in Batch
    BY <1>1 DEF BatchSound
  <2>2. /\ dead(x) \in Batch /\ dead(x).kind = x.kind /\ dead(x).left = x.left
        /\ dead(x).status = x.status /\ dead(x).retry = x.retry /\ dead(x).phase = x.phase
    BY <2>1 DEF Batch
  <2> HIDE DEF dead
  <2> QED BY <1>1, <2>2 DEF BatchSound, Onward
<1>2. UNCHANGED <<batchDialog, batchHandle, batchResults>>
  BY DEF BatchSwitch, BatchCancel
<1>3. CASE BatchSwitch
  <2>1. batches' = [b \in DOMAIN batches |-> dead(batches[b])]
    BY <1>3 DEF BatchSwitch
  <2> HIDE DEF dead
  <2>2. \A b \in DOMAIN batches : BatchSound(batches'[b]) /\ Onward(batches[b], batches'[b])
    BY <1>1, <2>1 DEF BatchInv
  <2>3. batches' \in Seq(Batch) /\ DOMAIN batches' = DOMAIN batches
    BY <1>1, <2>1 DEF BatchInv
  <2> QED BY <1>2, <2>2, <2>3, OnwardKeeps DEF BatchInv
<1>4. CASE BatchCancel
  <2>1. batchHandle \in DOMAIN batches
    BY <1>4, LenProperties DEF BatchInv, BatchCancel
  <2>2. batches' = [batches EXCEPT ![batchHandle] = dead(batches[batchHandle])]
    BY <1>4 DEF BatchCancel
  <2> HIDE DEF dead
  <2> QED BY <1>1, <1>2, <2>1, <2>2, OneOnward DEF BatchInv
<1> QED BY <1>3, <1>4

-----------------------------------------------------------------------------
(* Batches that start.                                                     *)

LEMMA StartSound ==
  ASSUME BatchInv, NEW kind \in Actions \cup {"gitignore"}, NEW paths \in SUBSET Paths,
         NEW retry \in BOOLEAN, Len(batches) < MaxBatches,
         batches' = Append(batches, Started(kind, paths, retry)),
         retry => paths = InStatus(batchResults.status, "failed") /\ Reported(kind, batchResults.status),
         batchHandle' \in 0 .. Len(batches) + 1,
         batchDialog' \in [confirm : BOOLEAN, retry : BOOLEAN, action : Actions],
         batchDialog'.confirm => batchDialog' = batchDialog,
         batchResults' = batchResults
  PROVE  BatchInv'
<1> DEFINE x == Started(kind, paths, retry)
<1>1. /\ x.kind = kind /\ x.left = paths /\ x.retry = retry /\ x.phase = "running"
      /\ DOMAIN x.status = paths /\ \A p \in paths : x.status[p] = "none"
      /\ x.status \in [paths -> Statuses] /\ x.dead = FALSE
  BY DEF Started, Statuses
<1>2. x \in Batch
  <2>1. [p \in paths |-> "none"] \in Tables
    BY <1>1 DEF Tables, Started
  <2> QED BY <2>1 DEF Started, Batch, Tables
<1>3. BatchSound(x)
  <2> HIDE DEF x
  <2> QED BY <1>1, <1>2 DEF BatchSound
<1> HIDE DEF x
<1>4. batches \in Seq(Batch) /\ batches' = Append(batches, x) /\ Len(batches) \in Nat
  BY LenProperties DEF BatchInv, x
<1>5. /\ batches' \in Seq(Batch) /\ Len(batches') = Len(batches) + 1
      /\ DOMAIN batches = 1 .. Len(batches) /\ DOMAIN batches' = 1 .. Len(batches) + 1
      /\ batches'[Len(batches) + 1] = x
      /\ \A b \in DOMAIN batches : batches'[b] = batches[b]
  BY <1>2, <1>4, AppendProperties, LenProperties
<1>6. \A b \in DOMAIN batches' : BatchSound(batches'[b])
  BY <1>3, <1>4, <1>5 DEF BatchInv
<1>7. \A action, status : Reported(action, status) => Reported(action, status)'
  BY <1>4, <1>5 DEF Reported
<1>8. RetriesFailuresOnly'
  <2> SUFFICES ASSUME NEW b \in DOMAIN batches', batches'[b].retry
               PROVE  \E c \in 1 .. (b - 1) :
                        /\ batches'[c].phase = "handled"
                        /\ batches'[c].kind = batches'[b].kind
                        /\ DOMAIN batches'[b].status = InStatus(batches'[c].status, "failed")
    BY DEF RetriesFailuresOnly
  <2>1. CASE b \in DOMAIN batches
    <3>1. PICK c \in 1 .. (b - 1) :
            /\ batches[c].phase = "handled" /\ batches[c].kind = batches[b].kind
            /\ DOMAIN batches[b].status = InStatus(batches[c].status, "failed")
      BY <1>5, <2>1 DEF BatchInv, RetriesFailuresOnly
    <3>2. c \in DOMAIN batches
      BY <1>4, <1>5, <2>1
    <3> QED BY <1>5, <2>1, <3>1, <3>2
  <2>2. CASE b = Len(batches) + 1
    <3>1. Reported(kind, batchResults.status) /\ paths = InStatus(batchResults.status, "failed")
      BY <1>1, <1>5, <2>2
    <3>2. PICK c \in DOMAIN batches : batches[c].phase = "handled" /\ batches[c].kind = kind
                                      /\ batches[c].status = batchResults.status
      BY <3>1 DEF Reported
    <3>3. c \in 1 .. (b - 1)
      BY <1>4, <1>5, <2>2
    <3> QED BY <1>1, <1>5, <2>2, <3>1, <3>2, <3>3
  <2> QED BY <1>4, <1>5, <2>1, <2>2
<1>9. Len(batches') <= MaxBatches /\ batchHandle' \in 0 .. Len(batches')
  BY <1>4, <1>5, BatchesAssumption
<1>10. /\ batchResults' \in [of : Actions, status : Tables]
       /\ batchResults'.status = Nothing \/ Reported(batchResults.of, batchResults.status)'
       /\ batchDialog'.confirm /\ batchDialog'.retry =>
            Reported(batchDialog.action, batchResults.status)'
  BY <1>7 DEF BatchInv
<1> QED BY <1>5, <1>6, <1>8, <1>9, <1>10 DEF BatchInv

LEMMA ConfirmSound ==
  ASSUME BatchInv, BatchConfirm
  PROVE  BatchInv'
<1>1. /\ batchDialog \in [confirm : BOOLEAN, retry : BOOLEAN, action : Actions]
      /\ batchResults \in [of : Actions, status : Tables]
      /\ batchDialog.confirm /\ Len(batches) < MaxBatches /\ Len(batches) \in Nat
  BY LenProperties DEF BatchInv, BatchConfirm
<1>2. InStatus(batchResults.status, "failed") \subseteq Paths
  BY <1>1 DEF InStatus, Tables
<1> DEFINE paths == IF batchDialog.retry
                    THEN InStatus(batchResults.status, "failed") \intersect Paths
                    ELSE Paths
<1>3. paths \in SUBSET Paths
      /\ (batchDialog.retry => paths = InStatus(batchResults.status, "failed")
                               /\ Reported(batchDialog.action, batchResults.status))
  BY <1>1, <1>2 DEF BatchInv
<1>4. /\ batches' = Append(batches, Started(batchDialog.action, paths, batchDialog.retry))
      /\ batchHandle' = Len(batches) + 1 /\ batchResults' = batchResults
      /\ batchDialog' = [batchDialog EXCEPT !.confirm = FALSE]
  BY DEF BatchConfirm
<1> HIDE DEF paths
<1>5. /\ batchDialog' \in [confirm : BOOLEAN, retry : BOOLEAN, action : Actions]
      /\ ~batchDialog'.confirm /\ batchHandle' \in 0 .. Len(batches) + 1
      /\ batchDialog.action \in Actions \cup {"gitignore"} /\ batchDialog.retry \in BOOLEAN
  <2>1. batchDialog' \in [confirm : BOOLEAN, retry : BOOLEAN, action : Actions]
        /\ ~batchDialog'.confirm
    BY <1>1, <1>4
  <2>2. Len(batches) + 1 \in 0 .. Len(batches) + 1
    BY <1>1
  <2>3. batchDialog.action \in Actions /\ batchDialog.retry \in BOOLEAN
    BY <1>1
  <2> QED BY <1>4, <2>1, <2>2, <2>3
<1> QED BY <1>1, <1>3, <1>4, <1>5, StartSound

LEMMA GitignoreSound ==
  ASSUME BatchInv, GitignoreBatch
  PROVE  BatchInv'
<1>1. /\ batches' = Append(batches, Started("gitignore", Paths, FALSE))
      /\ Len(batches) < MaxBatches /\ Len(batches) \in Nat
      /\ UNCHANGED <<batchDialog, batchHandle, batchResults>>
  BY LenProperties DEF GitignoreBatch, BatchInv
<1>2. batchHandle' \in 0 .. Len(batches) + 1
      /\ batchDialog' \in [confirm : BOOLEAN, retry : BOOLEAN, action : Actions]
  BY <1>1 DEF BatchInv
<1> QED BY <1>1, <1>2, StartSound

-----------------------------------------------------------------------------
(* The dialog.                                                             *)

LEMMA AskSound ==
  ASSUME BatchInv, NEW action \in Actions, BatchAsk(action)
  PROVE  BatchInv'
<1>1. /\ batchDialog' = [confirm |-> TRUE, retry |-> FALSE, action |-> action]
      /\ batchHandle' = 0 /\ batches' = batches
      /\ batchResults' = [batchResults EXCEPT !.status = Nothing]
  BY DEF BatchAsk
<1>2. batchResults' \in [of : Actions, status : Tables] /\ batchResults'.status = Nothing
  BY <1>1, NothingTable DEF BatchInv
<1>3. 0 \in 0 .. Len(batches)
  BY LenProperties DEF BatchInv
<1>4. RetriesFailuresOnly'
  BY <1>1 DEF BatchInv, RetriesFailuresOnly
<1> QED BY <1>1, <1>2, <1>3, <1>4 DEF BatchInv

LEMMA DialogSound ==
  ASSUME BatchInv, BatchAskRetry \/ BatchDecline \/ UNCHANGED batchVars
  PROVE  BatchInv'
<1>1. UNCHANGED <<batchHandle, batchResults, batches>>
  BY DEF BatchAskRetry, BatchDecline, batchVars
<1>2. batchDialog' \in [confirm : BOOLEAN, retry : BOOLEAN, action : Actions]
  <2>1. CASE BatchAskRetry
    BY <2>1 DEF BatchInv, BatchAskRetry
  <2>2. CASE BatchDecline
    BY <2>2 DEF BatchInv, BatchDecline
  <2>3. CASE UNCHANGED batchVars
    BY <2>3 DEF BatchInv, batchVars
  <2> QED BY <2>1, <2>2, <2>3
<1>3. batchDialog'.confirm /\ batchDialog'.retry =>
        Reported(batchDialog'.action, batchResults.status)
  <2>1. CASE BatchAskRetry
    <3>1. batchResults.status # Nothing
      BY <2>1 DEF BatchAskRetry, InStatus, Nothing
    <3> QED BY <2>1, <3>1 DEF BatchAskRetry, BatchInv
  <2>2. CASE BatchDecline
    BY <2>2 DEF BatchDecline, BatchInv
  <2>3. CASE UNCHANGED batchVars
    BY <2>3 DEF batchVars, BatchInv
  <2> QED BY <2>1, <2>2, <2>3
<1>4. RetriesFailuresOnly'
  BY <1>1 DEF BatchInv, RetriesFailuresOnly
<1>5. \A action, status : Reported(action, status)' <=> Reported(action, status)
  BY <1>1 DEF Reported
<1>6. batchDialog'.confirm /\ batchDialog'.retry =>
        Reported(batchDialog.action, batchResults.status)'
  BY <1>1, <1>3, <1>5
<1>7. batchResults'.status = Nothing \/ Reported(batchResults.of, batchResults.status)'
  BY <1>1, <1>5 DEF BatchInv
<1> QED BY <1>1, <1>2, <1>4, <1>6, <1>7 DEF BatchInv

LEMMA BatchInductive ==
  ASSUME BatchInv, [BatchNext]_batchVars
  PROVE  BatchInv'
<1>1. ASSUME NEW b \in DOMAIN batches, BatchWork(b) PROVE BatchInv'
  BY <1>1, TakeSound, ReturnSound, WithdrawSound, PostSound DEF BatchWork
<1> QED BY <1>1, HandleSound, DeadSound, ConfirmSound, GitignoreSound, AskSound, DialogSound
        DEF BatchNext

LEMMA BatchInitially == BatchInit => BatchInv
<1> SUFFICES ASSUME BatchInit PROVE BatchInv
  OBVIOUS
<1>1. batches = <<>> /\ batches \in Seq(Batch) /\ Len(batches) = 0 /\ DOMAIN batches = {}
  BY DEF BatchInit
<1>2. batchResults = [of |-> "fetch", status |-> Nothing]
      /\ batchDialog = [confirm |-> FALSE, retry |-> FALSE, action |-> "fetch"]
  BY DEF BatchInit
<1> QED BY <1>1, <1>2, NothingTable, BatchesAssumption
        DEF BatchInit, BatchInv, RetriesFailuresOnly, Actions

-----------------------------------------------------------------------------

\* When the results of a batch of Git commands are posted every repository has a final one,
\* however the cancellation, the producer and any number of workers interleaved
\* (multirepo.Run).
THEOREM BatchAlwaysAccounts == BatchSpec => []BatchAccountsForEach
<1>1. BatchInv => BatchAccountsForEach
  <2> SUFFICES ASSUME BatchInv, NEW b \in DOMAIN batches, batches[b].phase # "running",
                      batches[b].kind # "gitignore", NEW p \in DOMAIN batches[b].status
               PROVE  batches[b].status[p] \in Final
    BY DEF BatchAccountsForEach
  <2>1. BatchSound(batches[b])
    BY DEF BatchInv
  <2>2. batches[b].status[p] \in Statuses
    BY <2>1 DEF BatchSound, Batch
  <2> QED BY <2>1, <2>2 DEF BatchSound, Statuses
<1> QED BY <1>1, BatchInitially, BatchInductive, PTL DEF BatchSpec

\* A pull runs nothing in a repository without a branch (Request.Validate), in whatever
\* order its workers, its cancellation and a retry come.
THEOREM DetachedAreNeverPulled == BatchSpec => []DetachedNeverPulled
<1>1. BatchInv => DetachedNeverPulled
  BY DEF BatchInv, BatchSound, DetachedNeverPulled
<1> QED BY <1>1, BatchInitially, BatchInductive, PTL DEF BatchSpec

\* A retry goes to the repositories that one earlier batch of the same kind reported as
\* failed, although results are replaced and dialogs closed while it is being asked for
\* (startRepositoryBatchRetry, RepositoryBatchFinishedMsg).
THEOREM RetriesAlwaysFailures == BatchSpec => []RetriesFailuresOnly
<1>1. BatchInv => RetriesFailuresOnly
  BY DEF BatchInv
<1> QED BY <1>1, BatchInitially, BatchInductive, PTL DEF BatchSpec

-----------------------------------------------------------------------------
(* The dialog of submodule operations.                                     *)

\* No operation is of a session to come, and what the dialog says of the ones of
\* this session is true.
SubmoduleInv ==
  /\ SubTypeOK
  /\ \A o \in DOMAIN subOps : subOps[o].generation <= subGeneration
  /\ SubmoduleDialogTruthful
  /\ BulkAccountsForEach

LEMMA SubmoduleBounds == MaxOps \in Nat /\ MaxGeneration \in Nat
BY SubmoduleAssumption

LEMMA SubmodulesInitially == SubInit => SubmoduleInv
<1> SUFFICES ASSUME SubInit PROVE SubmoduleInv
  OBVIOUS
<1>1. NoItems \in Items
  BY DEF NoItems, Items, ItemStates
<1>0. /\ subHandle = 0 /\ subSelected = {} /\ subOutcome = NoItems
      /\ subGeneration = 0 /\ subOps = <<>>
  BY Zenon DEF SubInit
<1>2. subOps = <<>> /\ Len(subOps) = 0 /\ DOMAIN subOps = {} /\ subOps \in Seq(Op)
  BY <1>0
<1>closed. subAction \in Dialogs
  BY Zenon DEF SubInit, Dialogs
<1>3. /\ subHandle \in 0..Len(subOps) /\ subGeneration \in 0..MaxGeneration /\ Len(subOps) <= MaxOps
      /\ subAction \in Dialogs /\ subSelected \subseteq Modules /\ subOutcome \in Items
  BY <1>0, <1>1, <1>2, <1>closed, SubmoduleBounds
<1>4. SubTypeOK
  BY <1>2, <1>3 DEF SubTypeOK
<1> QED BY <1>2, <1>4
     DEF SubInit, SubmoduleInv, SubmoduleDialogTruthful, BulkAccountsForEach, Outstanding

\* A key that moves between questions starts nothing.
LEMMA QuestionKeeps ==
  ASSUME SubmoduleInv, subAction \notin {"running", "bulk-running"},
         subAction' \in Dialogs \ {"running", "bulk-running"}, subSelected' \subseteq Modules,
         UNCHANGED <<subHandle, subOutcome, subGeneration, subOps>>
  PROVE  SubmoduleInv'
BY DEF SubmoduleInv, SubTypeOK, SubmoduleDialogTruthful, BulkAccountsForEach, Outstanding

\* A new operation of this session, when none is outstanding.
LEMMA SubmitKeeps ==
  ASSUME SubmoduleInv, NEW bulk \in BOOLEAN, NEW paths \in SUBSET Modules,
         subAction \notin {"running", "bulk-running"}, Len(subOps) < MaxOps,
         subOps' = Append(subOps, Submitted(bulk, paths)),
         subAction' = IF bulk THEN "bulk-running" ELSE "running",
         subHandle' = IF bulk THEN Len(subOps) + 1 ELSE subHandle,
         UNCHANGED <<subSelected, subOutcome, subGeneration>>
  PROVE  SubmoduleInv'
<1> DEFINE op == Submitted(bulk, paths)
<1>1. /\ subOps \in Seq(Op) /\ subGeneration \in Nat /\ Len(subOps) \in Nat /\ MaxOps \in Nat
      /\ subHandle \in 0..Len(subOps)
  BY SubmoduleBounds, LenProperties DEF SubmoduleInv, SubTypeOK
<1>2. op \in Op /\ op.bulk = bulk /\ op.generation = subGeneration /\ op.phase = "waiting"
  <2>1. [p \in paths |-> "queued"] \in Items
    BY DEF Items, ItemStates
  <2> QED BY <1>1, <2>1 DEF Submitted, Op
<1> HIDE DEF op
<1>3. /\ subOps' \in Seq(Op) /\ Len(subOps') = Len(subOps) + 1
      /\ DOMAIN subOps' = 1..(Len(subOps) + 1) /\ DOMAIN subOps = 1..Len(subOps)
      /\ \A o \in DOMAIN subOps : subOps'[o] = subOps[o]
      /\ subOps'[Len(subOps) + 1] = op
  BY <1>1, <1>2, AppendProperties, LenProperties DEF op
<1>4. ~ \E o \in DOMAIN subOps : Outstanding(o)
  BY DEF SubmoduleInv, SubmoduleDialogTruthful
<1>5. \A o \in DOMAIN subOps' : Outstanding(o)' <=> o = Len(subOps) + 1
  BY <1>1, <1>2, <1>3, <1>4 DEF Outstanding
<1>6. SubTypeOK'
  <2>1. subHandle' \in 0..Len(subOps') /\ Len(subOps') <= MaxOps
    BY <1>1, <1>3
  <2> QED BY <1>1, <1>3, <2>1 DEF SubmoduleInv, SubTypeOK, Dialogs
<1>7. (\A o \in DOMAIN subOps : subOps[o].generation <= subGeneration)'
  BY <1>1, <1>2, <1>3 DEF SubmoduleInv
<1>8. SubmoduleDialogTruthful'
  BY <1>1, <1>2, <1>3, <1>5 DEF SubmoduleDialogTruthful
<1>9. BulkAccountsForEach'
  BY <1>1, <1>2, <1>3 DEF SubmoduleInv, BulkAccountsForEach
<1> QED BY <1>6, <1>7, <1>8, <1>9 DEF SubmoduleInv

\* One operation goes on, of the session and the kind it was submitted with.
LEMMA WorkKeeps ==
  ASSUME SubmoduleInv, NEW o \in DOMAIN subOps, NEW op \in Op,
         subOps' = [subOps EXCEPT ![o] = op],
         op.generation = subOps[o].generation, op.bulk = subOps[o].bulk,
         op.phase = "handled" <=> subOps[o].phase = "handled",
         op.phase \in {"posted", "handled"} =>
           \A p \in DOMAIN op.items : op.items[p] \notin {"queued", "running"},
         Keep
  PROVE  SubmoduleInv'
<1>1. subOps \in Seq(Op)
  BY DEF SubmoduleInv, SubTypeOK
<1>2. /\ subOps' \in Seq(Op) /\ Len(subOps') = Len(subOps) /\ DOMAIN subOps' = DOMAIN subOps
      /\ subOps'[o] = op /\ \A n \in DOMAIN subOps : n # o => subOps'[n] = subOps[n]
  BY <1>1, ExceptSeq
<1>3. \A n \in DOMAIN subOps : Outstanding(n)' <=> Outstanding(n)
  BY <1>2 DEF Outstanding, Keep
<1>4. \A n \in DOMAIN subOps : subOps'[n].bulk = subOps[n].bulk
                               /\ subOps'[n].generation = subOps[n].generation
  BY <1>2
<1>5. SubTypeOK'
  BY <1>2 DEF SubmoduleInv, SubTypeOK, Keep
<1>6. (\A n \in DOMAIN subOps : subOps[n].generation <= subGeneration)'
  BY <1>2, <1>4 DEF SubmoduleInv, Keep
<1>7. SubmoduleDialogTruthful'
  BY <1>2, <1>3, <1>4 DEF SubmoduleInv, SubmoduleDialogTruthful, Keep
<1>8. BulkAccountsForEach'
  BY <1>2 DEF SubmoduleInv, BulkAccountsForEach
<1> QED BY <1>5, <1>6, <1>7, <1>8 DEF SubmoduleInv

LEMMA OpOf ==
  ASSUME SubmoduleInv, NEW o \in DOMAIN subOps
  PROVE  /\ subOps[o] \in Op
         /\ DOMAIN subOps[o].items \subseteq Modules
         /\ subOps[o].items \in [DOMAIN subOps[o].items -> ItemStates]
         /\ \A p \in DOMAIN subOps[o].items : subOps[o].items[p] \in ItemStates
<1>1. subOps[o] \in Op
  BY DEF SubmoduleInv, SubTypeOK
<1>2. PICK P \in SUBSET Modules : subOps[o].items \in [P -> ItemStates]
  BY <1>1 DEF Op, Items
<1> QED BY <1>1, <1>2

\* The operation's own steps.
LEMMA RunKeeps ==
  ASSUME SubmoduleInv, NEW o \in DOMAIN subOps,
         SubRefuse(o) \/ SubBegin(o) \/ SubPost(o) \/ \E p \in Modules : SubTake(o, p) \/ SubReturn(o, p)
  PROVE  SubmoduleInv'
<1> DEFINE op == subOps[o]
<1>0. /\ op \in Op /\ DOMAIN op.items \subseteq Modules
      /\ op.items \in [DOMAIN op.items -> ItemStates]
  BY OpOf
<1>1. CASE SubRefuse(o)
  <2> DEFINE new == [op EXCEPT !.phase = "posted", !.items = NoItems]
  <2>1. NoItems \in Items /\ DOMAIN NoItems = {}
    BY DEF NoItems, Items
  <2>2. /\ new \in Op /\ new.generation = op.generation /\ new.bulk = op.bulk
        /\ new.phase = "posted" /\ op.phase = "waiting" /\ new.items = NoItems
    BY <1>0, <1>1, <2>1 DEF Op, SubRefuse
  <2>3. subOps' = [subOps EXCEPT ![o] = new] /\ Keep
    BY <1>1 DEF SubRefuse
  <2> HIDE DEF new
  <2> QED BY <2>1, <2>2, <2>3, WorkKeeps
<1>2. CASE SubBegin(o)
  <2>1. PICK over \in SUBSET DOMAIN op.items :
          subOps' = [subOps EXCEPT
             ![o].phase = "working",
             ![o].items = [p \in DOMAIN op.items |-> CASE p \in over -> "skipped"
                                             [] p \in Invalid \ over -> "failed"
                                             [] OTHER -> "queued"]]
    BY <1>2 DEF SubBegin
  <2> DEFINE items == [p \in DOMAIN op.items |-> CASE p \in over -> "skipped"
                                             [] p \in Invalid \ over -> "failed"
                                             [] OTHER -> "queued"]
             new == [op EXCEPT !.phase = "working", !.items = items]
  <2>2. items \in Items
    <3>1. items \in [DOMAIN op.items -> ItemStates]
      BY SMTT(60) DEF ItemStates
    <3> HIDE DEF items
    <3> QED BY <3>1, <1>0 DEF Items
  <2>3. subOps' = [subOps EXCEPT ![o] = new] /\ Keep /\ op.phase = "waiting"
    BY <1>2, <2>1 DEF SubBegin
  <2> HIDE DEF items
  <2>4. new \in Op /\ new.generation = op.generation /\ new.bulk = op.bulk /\ new.phase = "working"
    BY <1>0, <2>2 DEF Op
  <2> HIDE DEF new
  <2> QED BY <2>3, <2>4, WorkKeeps
<1>3. CASE SubPost(o)
  <2> DEFINE new == [op EXCEPT !.phase = "posted"]
  <2>1. /\ new \in Op /\ new.generation = op.generation /\ new.bulk = op.bulk
        /\ new.phase = "posted" /\ op.phase = "working" /\ new.items = op.items
    BY <1>0, <1>3 DEF Op, SubPost
  <2>2. subOps' = [subOps EXCEPT ![o] = new] /\ Keep
    BY <1>3 DEF SubPost
  <2>3. \A p \in DOMAIN op.items : op.items[p] \notin {"queued", "running"}
    BY <1>3 DEF SubPost, ItemsIn
  <2> HIDE DEF new
  <2> QED BY <2>1, <2>2, <2>3, WorkKeeps
<1>4. ASSUME NEW p \in Modules, NEW s \in ItemStates, p \in DOMAIN op.items,
             subOps' = [subOps EXCEPT ![o].items[p] = s], Keep,
             op.phase \notin {"posted", "handled"}
      PROVE  SubmoduleInv'
  <2> DEFINE items == [op.items EXCEPT ![p] = s]
             new == [op EXCEPT !.items = items]
  <2>1. items \in Items
    <3>1. items \in [DOMAIN op.items -> ItemStates]
      BY <1>0, <1>4
    <3> HIDE DEF items
    <3> QED BY <3>1, <1>0 DEF Items
  <2>2. subOps' = [subOps EXCEPT ![o] = new]
    BY <1>4
  <2> HIDE DEF items
  <2>3. new \in Op /\ new.generation = op.generation /\ new.bulk = op.bulk /\ new.phase = op.phase
    BY <1>0, <2>1 DEF Op
  <2> HIDE DEF new
  <2> QED BY <1>4, <2>2, <2>3, WorkKeeps
<1>5. ASSUME NEW p \in Modules, SubTake(o, p)
      PROVE  SubmoduleInv'
  <2>1. /\ p \in DOMAIN op.items /\ op.phase = "working" /\ Keep
        /\ \E s \in ItemStates : subOps' = [subOps EXCEPT ![o].items[p] = s]
    BY <1>5 DEF SubTake, ItemsIn, ItemStates
  <2> QED BY <1>4, <2>1
<1>6. ASSUME NEW p \in Modules, SubReturn(o, p)
      PROVE  SubmoduleInv'
  <2>1. /\ p \in DOMAIN op.items /\ op.items[p] = "running" /\ Keep
        /\ \E s \in ItemStates : subOps' = [subOps EXCEPT ![o].items[p] = s]
    BY <1>6 DEF SubReturn, ItemsIn, ItemStates
  <2>2. op.phase \notin {"posted", "handled"}
    BY <2>1 DEF SubmoduleInv, BulkAccountsForEach
  <2> QED BY <1>4, <2>1, <2>2
<1> QED BY <1>1, <1>2, <1>3, <1>5, <1>6

\* Update hears of an operation: one of this session ends the dialog.
LEMMA HandledKeeps ==
  ASSUME SubmoduleInv, NEW o \in DOMAIN subOps, SubHandle(o)
  PROVE  SubmoduleInv'
<1> DEFINE op == subOps[o]
           new == [op EXCEPT !.phase = "handled"]
<1>0. op \in Op
  BY OpOf
<1>1. /\ new \in Op /\ new.generation = op.generation /\ new.bulk = op.bulk
      /\ new.phase = "handled" /\ op.phase = "posted" /\ new.items = op.items
  BY <1>0 DEF Op, SubHandle
<1>2. subOps' = [subOps EXCEPT ![o] = new] /\ subOps \in Seq(Op) /\ subGeneration' = subGeneration
  BY DEF SubHandle, SubmoduleInv, SubTypeOK
<1> HIDE DEF new
<1>3. /\ subOps' \in Seq(Op) /\ Len(subOps') = Len(subOps) /\ DOMAIN subOps' = DOMAIN subOps
      /\ subOps'[o] = new /\ \A n \in DOMAIN subOps : n # o => subOps'[n] = subOps[n]
  BY <1>1, <1>2, ExceptSeq
<1>4. /\ \A n \in DOMAIN subOps : n # o => (Outstanding(n)' <=> Outstanding(n))
      /\ ~Outstanding(o)' /\ (Outstanding(o) <=> op.generation = subGeneration)
  BY <1>1, <1>2, <1>3 DEF Outstanding
<1>5. /\ BulkAccountsForEach'
      /\ \A n \in DOMAIN subOps : /\ subOps'[n].generation = subOps[n].generation
                                  /\ subOps'[n].bulk = subOps[n].bulk
  BY <1>1, <1>3 DEF SubmoduleInv, BulkAccountsForEach
<1>6. (\A n \in DOMAIN subOps : subOps[n].generation <= subGeneration)'
  BY <1>2, <1>3, <1>5 DEF SubmoduleInv
<1>7. CASE op.generation # subGeneration
  <2>1. UNCHANGED <<subAction, subSelected, subHandle, subOutcome>>
    BY <1>7 DEF SubHandle
  <2>2. \A n \in DOMAIN subOps : Outstanding(n)' <=> Outstanding(n)
    BY <1>4, <1>7
  <2>3. SubTypeOK' /\ SubmoduleDialogTruthful'
    BY <1>2, <1>3, <1>5, <2>1, <2>2 DEF SubmoduleInv, SubTypeOK, SubmoduleDialogTruthful
  <2> QED BY <1>5, <1>6, <2>3 DEF SubmoduleInv
<1>8. CASE op.generation = subGeneration
  <2>1. \A n \in DOMAIN subOps : ~Outstanding(n)'
    BY <1>4, <1>8 DEF SubmoduleInv, SubmoduleDialogTruthful
  <2>2. subAction' = "" /\ SubTypeOK'
    <3>1. op.items \in Items /\ Len(subOps) \in Nat
      BY <1>0, <1>2, LenProperties DEF Op
    <3>2. /\ subAction' = "" /\ subAction' \in Dialogs
          /\ subHandle' = 0 \/ subHandle' = subHandle
          /\ subOutcome' = op.items \/ subOutcome' = subOutcome
          /\ subSelected' = {} \/ subSelected' = subSelected
      BY <1>8, Zenon DEF SubHandle, Dialogs
    <3>3. /\ subHandle \in 0..Len(subOps) /\ subOutcome \in Items /\ subSelected \subseteq Modules
          /\ subGeneration \in 0..MaxGeneration /\ Len(subOps) <= MaxOps
      BY DEF SubmoduleInv, SubTypeOK
    <3>4. subHandle' \in 0..Len(subOps')
      <4>1. subHandle' = 0 \/ subHandle' = subHandle
        BY <3>2, Zenon
      <4> QED BY <1>3, <3>1, <3>3, <4>1
    <3> QED BY <1>2, <1>3, <3>1, <3>2, <3>3, <3>4, Zenon DEF SubTypeOK
  <2> QED BY <1>3, <1>5, <1>6, <2>1, <2>2 DEF SubmoduleInv, SubmoduleDialogTruthful
<1> QED BY <1>7, <1>8

LEMMA CancelKeeps ==
  ASSUME SubmoduleInv, SubCancel
  PROVE  SubmoduleInv'
<1>1. subHandle \in DOMAIN subOps
  BY LenProperties DEF SubmoduleInv, SubTypeOK, SubCancel
<1> DEFINE op == subOps[subHandle]
           new == [op EXCEPT !.dead = TRUE]
<1>2. op \in Op
  BY <1>1, OpOf
<1>3. /\ new \in Op /\ new.generation = op.generation /\ new.bulk = op.bulk
      /\ new.phase = op.phase /\ new.items = op.items
  BY <1>2 DEF Op
<1>4. subOps' = [subOps EXCEPT ![subHandle] = new] /\ Keep
  BY DEF SubCancel, Keep
<1>5. op.phase \in {"posted", "handled"} =>
        \A p \in DOMAIN op.items : op.items[p] \notin {"queued", "running"}
  BY <1>1 DEF SubmoduleInv, BulkAccountsForEach
<1> HIDE DEF new
<1> QED BY <1>1, <1>3, <1>4, <1>5, WorkKeeps

\* The operations of the repository that is left are of an older session now.
LEMMA SwitchKeeps ==
  ASSUME SubmoduleInv, SubSwitch
  PROVE  SubmoduleInv'
<1>0. subOps \in Seq(Op) /\ DOMAIN subOps = 1..Len(subOps) /\ Len(subOps) \in Nat
  BY LenProperties DEF SubmoduleInv, SubTypeOK
<1>next. subGeneration < MaxGeneration /\ subGeneration' = subGeneration + 1
  BY Zenon DEF SubSwitch
<1>1. /\ subOps \in Seq(Op) /\ DOMAIN subOps = 1..Len(subOps) /\ Len(subOps) \in Nat
      /\ subGeneration \in Nat /\ subGeneration' \in 0..MaxGeneration
      /\ subGeneration' = subGeneration + 1
  BY <1>0, <1>next, SubmoduleBounds DEF SubmoduleInv, SubTypeOK
<1>2. /\ DOMAIN subOps' = DOMAIN subOps
      /\ \A o \in DOMAIN subOps : /\ subOps'[o] = [subOps[o] EXCEPT !.dead = TRUE]
                                  /\ subOps[o] \in Op
  BY OpOf DEF SubSwitch
<1>3. \A o \in DOMAIN subOps : /\ subOps'[o] \in Op
                               /\ subOps'[o].generation = subOps[o].generation
                               /\ subOps'[o].phase = subOps[o].phase
                               /\ subOps'[o].items = subOps[o].items
  BY <1>2 DEF Op
<1>4. subOps' \in Seq(Op) /\ Len(subOps') = Len(subOps)
  <2>1. subOps' = [o \in 1..Len(subOps) |-> [subOps[o] EXCEPT !.dead = TRUE]]
    BY <1>1 DEF SubSwitch
  <2>2. \A o \in 1..Len(subOps) : [subOps[o] EXCEPT !.dead = TRUE] \in Op
    BY <1>1, <1>2, <1>3
  <2> QED BY <1>1, <2>1, <2>2
<1>5. \A o \in DOMAIN subOps : subOps[o].generation < subGeneration'
  BY <1>1, <1>2 DEF SubmoduleInv, Op
<1>6. \A o \in DOMAIN subOps : ~Outstanding(o)'
  BY <1>1, <1>2, <1>3, <1>5 DEF Outstanding, Op
<1>7. SubTypeOK'
  <2>1. NoItems \in Items
    BY DEF NoItems, Items
  <2>2. /\ subHandle' = 0 /\ subOutcome' \in Items /\ subAction' \in Dialogs
        /\ subSelected' = {}
    BY <2>1, Zenon DEF SubSwitch, Dialogs
  <2> QED BY <1>1, <1>4, <2>2 DEF SubmoduleInv, SubTypeOK
<1>8. SubmoduleDialogTruthful' /\ BulkAccountsForEach'
  BY <1>2, <1>3, <1>6 DEF SubSwitch, SubmoduleInv, SubmoduleDialogTruthful, BulkAccountsForEach
<1>9. (\A o \in DOMAIN subOps : subOps[o].generation <= subGeneration)'
  BY <1>1, <1>2, <1>3, <1>5 DEF Op
<1> QED BY <1>7, <1>8, <1>9 DEF SubmoduleInv

LEMMA SubmodulesInductive ==
  ASSUME SubmoduleInv, [SubNext]_subVars
  PROVE  SubmoduleInv'
<1>0. subSelected \subseteq Modules /\ subAction \in Dialogs
  BY DEF SubmoduleInv, SubTypeOK
<1>1. CASE SubOpenMenu
  BY <1>1, QuestionKeeps DEF SubOpenMenu, Dialog, Dialogs
<1>2. CASE SubClose
  BY <1>2, QuestionKeeps DEF SubClose, Dialog, Dialogs, Confirmations
<1>3. CASE SubAsk
  BY <1>0, <1>3, QuestionKeeps DEF SubAsk, Dialog, Dialogs, Confirmations
<1>4. CASE SubAskBulk
  <2>1. ItemsIn(subOutcome, "failed") \subseteq Modules
    BY DEF SubmoduleInv, SubTypeOK, Items, ItemsIn
  <2> QED BY <1>0, <1>4, <2>1, QuestionKeeps DEF SubAskBulk, Dialog, Dialogs
<1>5. CASE SubRun
  <2>1. /\ subAction \notin {"running", "bulk-running"} /\ subAction' = "running"
        /\ Len(subOps) < MaxOps /\ subOps' = Append(subOps, Submitted(FALSE, {}))
        /\ UNCHANGED <<subSelected, subHandle, subOutcome, subGeneration>>
    BY <1>5 DEF SubRun, Dialog, Confirmations
  <2>2. {} \in SUBSET Modules /\ FALSE \in BOOLEAN
    OBVIOUS
  <2> QED BY <2>1, <2>2, SubmitKeeps
<1>6. CASE SubRunBulk
  BY <1>0, <1>6, SubmitKeeps DEF SubRunBulk, Dialog
<1>7. CASE SubCancel
  BY <1>7, CancelKeeps
<1>8. CASE SubSwitch
  BY <1>8, SwitchKeeps
<1>9. ASSUME NEW o \in DOMAIN subOps,
             \/ SubRefuse(o) \/ SubBegin(o) \/ SubPost(o) \/ SubHandle(o)
             \/ \E p \in Modules : SubTake(o, p) \/ SubReturn(o, p)
      PROVE  SubmoduleInv'
  BY <1>9, RunKeeps, HandledKeeps
<1>10. CASE UNCHANGED subVars
  BY <1>10 DEF subVars, SubmoduleInv, SubTypeOK, SubmoduleDialogTruthful, BulkAccountsForEach, Outstanding
<1> QED BY <1>1, <1>2, <1>3, <1>4, <1>5, <1>6, <1>7, <1>8, <1>9, <1>10 DEF SubNext

\* The Status view is never left swallowing its keys for an operation that is over,
\* nor offers a second one while one of this session is outstanding, whatever
\* order messages, cancellation and switches of the repository come in
\* (updateSubmoduleKey, SubmoduleFinishedMsg, BulkSubmoduleFinishedMsg,
\* setRepository).
THEOREM DialogAlwaysTruthful == SubSpec => []SubmoduleDialogTruthful
<1>1. SubmoduleInv => SubmoduleDialogTruthful
  BY DEF SubmoduleInv
<1> QED BY <1>1, SubmodulesInitially, SubmodulesInductive, PTL DEF SubSpec

\* A bulk operation that Update hears of has an outcome for each of its modules,
\* for any number of modules and workers and however it was cancelled
\* (submodules.Bulk).
THEOREM BulkAlwaysAccounts == SubSpec => []BulkAccountsForEach
<1>1. SubmoduleInv => BulkAccountsForEach
  BY DEF SubmoduleInv
<1> QED BY <1>1, SubmodulesInitially, SubmodulesInductive, PTL DEF SubSpec

-----------------------------------------------------------------------------
(* Automatic fetches.                                                      *)

FetchWait(p) == afGhost.run[p] + Gap(p, afGhost.streak[p])

\* A run feeds each repository of its list once, and only while it feeds has it workers.
RunFed(run) ==
  /\ run \in [phase : {"asked", "feeding", "posted"}, now : Int, all : SUBSET Remotes,
              left : SUBSET Remotes, known : SUBSET Remotes, jobs : {run.jobs}, dead : BOOLEAN]
  /\ run.left \subseteq run.all /\ DOMAIN run.jobs \subseteq run.all \ run.left
  /\ \A p \in DOMAIN run.jobs : run.jobs[p] \in [attempt : Int, state : JobStates]
  /\ run.phase = "asked" => DOMAIN run.jobs = {}
  /\ run.phase # "feeding" =>
       \A p \in DOMAIN run.jobs : run.jobs[p].state \notin {"taken", "fetching"}

\* The attempt a worker was given is the next one; it was due when the run began; and
\* the fetch under way is the last one.
JobDue(run, p) ==
  /\ run.jobs[p].state \in {"taken", "fetching"} => run.jobs[p].attempt = afGhost.streak[p] + 1
  /\ run.jobs[p].state = "taken" /\ p \in DOMAIN afGhost.run => run.now >= FetchWait(p)
  /\ run.jobs[p].state = "fetching" => p \in DOMAIN afGhost.run /\ afGhost.run[p] = run.now

Fetching(p) == \E r \in DOMAIN afRuns : p \in InState(r, {"fetching"})

\* A repository that was fetched is due again no sooner than it must be.
NextSpaced(p) ==
  p \in DOMAIN afGhost.run /\ ~Fetching(p) => p \in DOMAIN afNext /\ afNext[p] >= FetchWait(p)

FetchTyped ==
  /\ afNow \in Int /\ afRegistry \subseteq Remotes
  /\ \A p \in DOMAIN afNext : afNext[p] \in Int
  /\ \A p \in DOMAIN afFails : afFails[p] \in Int
  /\ DOMAIN afGhost = {"streak", "run"} /\ afGhost.streak \in [Remotes -> Nat]
  /\ DOMAIN afGhost.run \subseteq Remotes /\ \A p \in DOMAIN afGhost.run : afGhost.run[p] \in Int

FetchInv ==
  /\ FetchTyped
  /\ DOMAIN afRuns # {} => afRunning
  /\ \A r, s \in DOMAIN afRuns : r = s
  /\ \A r \in DOMAIN afRuns : RunFed(afRuns[r])
  /\ \A r \in DOMAIN afRuns : \A p \in DOMAIN afRuns[r].jobs : JobDue(afRuns[r], p)
  /\ \A p \in Remotes : NextSpaced(p)
  /\ FailuresCounted

LEMMA GapIsInt ==
  ASSUME NEW p \in Remotes, NEW n \in Nat
  PROVE  /\ Gap(p, n) \in Int /\ Gap(p, 0) = IntervalFor[p] /\ IntervalFor[p] \in Int
         /\ n # 0 => Gap(p, n) = Backoff(n)
<1>1. IntervalFor[p] \in Int /\ BackoffMax \in Int
  BY AutoFetchAssumption
<1>2. ASSUME n # 0 PROVE Backoff(n) \in Int
  <2> DEFINE m == n - 1
  <2>1. m \in Nat
    BY <1>2
  <2> HIDE DEF m
  <2>2. 2 ^ m \in Int
    BY <2>1
  <2> QED BY <1>1, <2>2 DEF Backoff, m
<1> QED BY <1>1, <1>2 DEF Gap

LEMMA FetchInitially == AfInit => FetchInv
BY DEF AfInit, FetchInv, FetchTyped, FailuresCounted, NextSpaced, None

\* Only one run exists, so a step of a run replaces them all.
LEMMA OneRunSteps ==
  ASSUME FetchInv, NEW r \in DOMAIN afRuns, NEW run, afRuns' = [afRuns EXCEPT ![r] = run]
  PROVE  DOMAIN afRuns' = DOMAIN afRuns /\ \A s \in DOMAIN afRuns' : s = r /\ afRuns'[s] = run
BY DEF FetchInv

Records == UNCHANGED <<afNext, afFails, afGhost>>

\* A step of the run that leaves its jobs, or adds one.
LEMMA RunGoesOn ==
  ASSUME FetchInv, NEW r \in DOMAIN afRuns, NEW run, afRuns' = [afRuns EXCEPT ![r] = run],
         RunFed(run), Records, UNCHANGED <<afNow, afRegistry, afRunning>>,
         \A p \in DOMAIN run.jobs : JobDue(run, p),
         \A p \in Remotes : p \in DOMAIN run.jobs /\ run.jobs[p].state = "fetching"
                            <=> p \in InState(r, {"fetching"})
  PROVE  FetchInv'
<1>1. DOMAIN afRuns' = DOMAIN afRuns /\ \A s \in DOMAIN afRuns' : s = r /\ afRuns'[s] = run
  BY OneRunSteps
<1>2. \A p \in Remotes : Fetching(p)' <=> Fetching(p)
  BY <1>1 DEF Fetching, InState, FetchInv
<1>3. FetchTyped' /\ FailuresCounted'
  BY DEF FetchInv, FetchTyped, FailuresCounted, Records
<1>4. \A p \in Remotes : NextSpaced(p)'
  BY <1>2 DEF FetchInv, NextSpaced, FetchWait, Records
<1>5. \A s \in DOMAIN afRuns' : \A p \in DOMAIN afRuns'[s].jobs : JobDue(afRuns[s], p)'
  BY <1>1 DEF JobDue, FetchWait, Records
<1>6. \A s \in DOMAIN afRuns' : RunFed(afRuns[s])'
  BY <1>1 DEF RunFed
<1> QED BY <1>1, <1>3, <1>4, <1>5, <1>6 DEF FetchInv

LEMMA BeginKeeps ==
  ASSUME FetchInv, NEW r \in DOMAIN afRuns, AfBegin(r)
  PROVE  FetchInv'
<1> DEFINE run == [afRuns[r] EXCEPT !.phase = IF afRuns[r].dead THEN "posted" ELSE "feeding", !.now = afNow]
<1>1. RunFed(afRuns[r]) /\ afRuns[r].phase = "asked" /\ DOMAIN afRuns[r].jobs = {}
  BY DEF FetchInv, AfBegin, RunFed
<1>2. afRuns' = [afRuns EXCEPT ![r] = run] /\ Records /\ UNCHANGED <<afNow, afRegistry, afRunning>>
  BY DEF AfBegin, Records
<1>3. RunFed(run) /\ DOMAIN run.jobs = {}
  BY <1>1 DEF RunFed, FetchInv, FetchTyped
<1> HIDE DEF run
<1> QED BY <1>1, <1>2, <1>3, RunGoesOn DEF InState

LEMMA StopKeeps ==
  ASSUME FetchInv, NEW r \in DOMAIN afRuns, AfStopFeeding(r)
  PROVE  FetchInv'
<1> DEFINE run == [afRuns[r] EXCEPT !.left = {}]
<1>1. RunFed(afRuns[r]) /\ \A p \in DOMAIN afRuns[r].jobs : JobDue(afRuns[r], p)
  BY DEF FetchInv
<1>2. afRuns' = [afRuns EXCEPT ![r] = run] /\ Records /\ UNCHANGED <<afNow, afRegistry, afRunning>>
  BY DEF AfStopFeeding, Records
<1>3. RunFed(run) /\ run.jobs = afRuns[r].jobs /\ run.now = afRuns[r].now
  BY <1>1 DEF RunFed
<1> HIDE DEF run
<1>4. \A p \in DOMAIN run.jobs : JobDue(run, p)
  BY <1>1, <1>3 DEF JobDue
<1> QED BY <1>2, <1>3, <1>4, RunGoesOn DEF InState

\* A repository that is fed was due, and is not being fetched.
LEMMA FeedKeeps ==
  ASSUME FetchInv, NEW r \in DOMAIN afRuns, NEW p \in Remotes, AfFeed(r, p)
  PROVE  FetchInv'
<1> DEFINE run == afRuns[r]
<1>1. RunFed(run) /\ (\A q \in DOMAIN run.jobs : JobDue(run, q)) /\ p \in run.left /\ run.phase = "feeding"
  BY DEF FetchInv, AfFeed
<1>2. Records /\ UNCHANGED <<afNow, afRegistry, afRunning>>
  BY DEF AfFeed, Records
<1>3. CASE afRuns' = [afRuns EXCEPT ![r].left = @ \ {p}]
  <2> DEFINE new == [run EXCEPT !.left = @ \ {p}]
  <2>1. afRuns' = [afRuns EXCEPT ![r] = new]
    BY <1>3
  <2>2. RunFed(new) /\ new.jobs = run.jobs /\ new.now = run.now
    BY <1>1 DEF RunFed
  <2> HIDE DEF new
  <2>3. \A q \in DOMAIN new.jobs : JobDue(new, q)
    BY <1>1, <2>2 DEF JobDue
  <2> QED BY <1>2, <2>1, <2>2, <2>3, RunGoesOn DEF InState
<1> DEFINE With(job) == [run EXCEPT !.left = @ \ {p}, !.jobs = Assign(@, p, job)]
<1>4. ASSUME NEW attempt \in Int, NEW state \in {"taken", "skipped-active"},
             afRuns' = [afRuns EXCEPT ![r] = With(Job(attempt, state))],
             state = "taken" => /\ attempt = afGhost.streak[p] + 1
                                /\ p \in DOMAIN afGhost.run => run.now >= FetchWait(p)
      PROVE  FetchInv'
  <2> DEFINE jobs == Assign(run.jobs, p, Job(attempt, state))
             new == [run EXCEPT !.left = @ \ {p}, !.jobs = jobs]
  <2>1. afRuns' = [afRuns EXCEPT ![r] = new]
    BY <1>4, <1>1 DEF RunFed
  <2>2. /\ DOMAIN jobs = DOMAIN run.jobs \cup {p} /\ p \notin DOMAIN run.jobs
        /\ jobs[p] \in [attempt : Int, state : JobStates]
        /\ jobs[p].attempt = attempt /\ jobs[p].state = state
        /\ \A q \in DOMAIN run.jobs : jobs[q] = run.jobs[q]
    BY <1>1 DEF Assign, Job, RunFed, JobStates
  <2> HIDE DEF jobs
  <2>3. RunFed(new) /\ new.jobs = jobs /\ new.now = run.now
    BY <1>1, <2>2, ZenonT(60) DEF RunFed
  <2> HIDE DEF new
  <2>4. \A q \in DOMAIN new.jobs : JobDue(new, q)
    BY <1>1, <1>4, <2>2, <2>3 DEF JobDue
  <2>5. \A q \in Remotes : q \in DOMAIN new.jobs /\ new.jobs[q].state = "fetching"
                           <=> q \in InState(r, {"fetching"})
    BY <2>2, <2>3 DEF InState
  <2> QED BY <1>2, <2>1, <2>3, <2>4, <2>5, RunGoesOn
<1>5. CASE afRuns' = [afRuns EXCEPT ![r] = With(Job(0, "skipped-active"))]
  <2>1. 0 \in Int /\ "skipped-active" \in {"taken", "skipped-active"} /\ "skipped-active" # "taken"
    OBVIOUS
  <2> QED BY <1>4, <1>5, <2>1, Zenon
<1>6. CASE Due(p, run.now) /\ afRuns' = [afRuns EXCEPT ![r] = With(Job(Attempt(p), "taken"))]
  <2>1. Attempt(p) = afGhost.streak[p] + 1 /\ afGhost.streak[p] \in Nat
    BY DEF Attempt, FetchInv, FailuresCounted, FetchTyped
  <2>2. ~Fetching(p)
    BY <1>1 DEF Fetching, InState, RunFed, FetchInv
  <2>3. p \in DOMAIN afGhost.run => run.now >= FetchWait(p)
    <3> SUFFICES ASSUME p \in DOMAIN afGhost.run PROVE run.now >= FetchWait(p)
      OBVIOUS
    <3>1. p \in DOMAIN afNext /\ afNext[p] >= FetchWait(p) /\ afNext[p] <= run.now
      BY <1>6, <2>2 DEF FetchInv, NextSpaced, Due
    <3>2. run.now \in Int /\ afNext[p] \in Int /\ FetchWait(p) \in Int
      BY <1>1, <2>1, <3>1, GapIsInt DEF RunFed, FetchInv, FetchTyped, FetchWait
    <3> QED BY <3>1, <3>2
  <2>4. Attempt(p) \in Int /\ "taken" \in {"taken", "skipped-active"}
    BY <2>1
  <2> HIDE DEF With
  <2> QED BY <1>4, <1>6, <2>1, <2>3, <2>4, Zenon
<1>7. ASSUME NEW job,
             afRuns' = [afRuns EXCEPT ![r].left = @ \ {p}, ![r].jobs = Assign(@, p, job)]
      PROVE  afRuns' = [afRuns EXCEPT ![r] = With(job)]
  BY <1>7, <1>1 DEF RunFed
<1> HIDE DEF With
<1> QED BY <1>3, <1>5, <1>6, <1>7, Zenon DEF AfFeed

\* What a worker writes is about its own repository.
OnlyAbout(p) ==
  \A q \in Remotes \ {p} :
    /\ q \in DOMAIN afNext' <=> q \in DOMAIN afNext
    /\ q \in DOMAIN afNext => afNext'[q] = afNext[q]
    /\ q \in DOMAIN afFails' <=> q \in DOMAIN afFails
    /\ q \in DOMAIN afFails => afFails'[q] = afFails[q]
    /\ q \in DOMAIN afGhost'.run <=> q \in DOMAIN afGhost.run
    /\ q \in DOMAIN afGhost.run => afGhost'.run[q] = afGhost.run[q]
    /\ afGhost'.streak[q] = afGhost.streak[q]

Counted(p) == afGhost.streak[p] = IF p \in DOMAIN afFails THEN afFails[p] ELSE 0

\* A worker's step, given what it makes of its own job.
LEMMA WorkerKeeps ==
  ASSUME FetchInv, NEW r \in DOMAIN afRuns, NEW p \in Remotes,
         p \in InState(r, {"taken", "fetching"}), NEW state \in JobStates,
         afRuns' = [afRuns EXCEPT ![r].jobs[p].state = state],
         OnlyAbout(p), FetchTyped', Counted(p)', UNCHANGED afRunning,
         state # "taken",
         state = "fetching" => /\ p \in DOMAIN afGhost'.run /\ afGhost'.run[p] = afRuns[r].now
                               /\ afRuns[r].jobs[p].attempt = afGhost'.streak[p] + 1,
         state # "fetching" /\ p \in DOMAIN afGhost'.run =>
            p \in DOMAIN afNext' /\ afNext'[p] >= FetchWait(p)'
  PROVE  FetchInv'
<1> DEFINE run == afRuns[r]
           jobs == [run.jobs EXCEPT ![p].state = state]
           new == [run EXCEPT !.jobs = jobs]
<1>1. RunFed(run) /\ (\A q \in DOMAIN run.jobs : JobDue(run, q)) /\ p \in DOMAIN run.jobs
      /\ run.jobs[p].state \in {"taken", "fetching"}
  BY DEF FetchInv, InState
<1>2. afRuns' = [afRuns EXCEPT ![r] = new]
  OBVIOUS
<1>3. /\ DOMAIN jobs = DOMAIN run.jobs
      /\ jobs[p] \in [attempt : Int, state : JobStates]
      /\ jobs[p].attempt = run.jobs[p].attempt /\ jobs[p].state = state
      /\ \A q \in DOMAIN run.jobs : q # p => jobs[q] = run.jobs[q]
  BY <1>1 DEF RunFed
<1> HIDE DEF jobs
<1>4. RunFed(new) /\ new.jobs = jobs /\ new.now = run.now
  BY <1>1, <1>3 DEF RunFed
<1> HIDE DEF new
<1>5. DOMAIN afRuns' = DOMAIN afRuns /\ \A s \in DOMAIN afRuns' : s = r /\ afRuns'[s] = new
  BY <1>2, OneRunSteps
<1>6. \A q \in Remotes \ {p} : /\ Fetching(q)' <=> Fetching(q)
                               /\ q \in DOMAIN afGhost.run => FetchWait(q)' = FetchWait(q)
  BY <1>3, <1>4, <1>5 DEF Fetching, InState, FetchInv, OnlyAbout, FetchWait
<1>7. Fetching(p)' <=> state = "fetching"
  BY <1>1, <1>3, <1>4, <1>5 DEF Fetching, InState
<1>8. \A q \in Remotes : NextSpaced(q)'
  BY <1>6, <1>7 DEF NextSpaced, OnlyAbout, FetchInv
<1>9. \A q \in DOMAIN new.jobs : JobDue(afRuns[r], q)'
  <2> SUFFICES ASSUME NEW q \in DOMAIN new.jobs PROVE JobDue(afRuns[r], q)'
    OBVIOUS
  <2>0. afRuns'[r] = new
    BY <1>5
  <2>1. CASE q = p
    BY <1>3, <1>4, <2>0, <2>1 DEF JobDue
  <2>2. CASE q # p
    <3>1. q \in Remotes \ {p} /\ JobDue(run, q) /\ new.jobs[q] = run.jobs[q]
      BY <1>1, <1>3, <1>4, <2>2 DEF RunFed
    <3> QED BY <1>4, <1>6, <2>0, <3>1 DEF JobDue, OnlyAbout
  <2> QED BY <2>1, <2>2
<1>10. FailuresCounted'
  BY DEF FailuresCounted, FetchInv, OnlyAbout, Counted
<1>11. \A s \in DOMAIN afRuns' : RunFed(afRuns[s])' /\ \A q \in DOMAIN afRuns'[s].jobs : JobDue(afRuns[s], q)'
  BY <1>4, <1>5, <1>9 DEF RunFed
<1> QED BY <1>5, <1>8, <1>10, <1>11 DEF FetchInv

\* What the invariant says of the repository a worker has.
LEMMA WorkerKnows ==
  ASSUME FetchInv, NEW r \in DOMAIN afRuns, NEW p \in Remotes, p \in InState(r, {"taken", "fetching"})
  PROVE  /\ afRuns[r].now \in Int /\ afGhost.streak[p] \in Nat /\ IntervalFor[p] \in Int
         /\ afRuns[r].jobs[p].attempt = afGhost.streak[p] + 1
         /\ p \in DOMAIN afGhost.run => FetchWait(p) \in Int /\ afGhost.run[p] \in Int
         /\ afRuns[r].jobs[p].state = "taken" =>
              (p \in DOMAIN afGhost.run => afRuns[r].now >= FetchWait(p))
         /\ afRuns[r].jobs[p].state = "fetching" =>
              p \in DOMAIN afGhost.run /\ afGhost.run[p] = afRuns[r].now
<1>1. RunFed(afRuns[r]) /\ JobDue(afRuns[r], p) /\ FetchTyped
  BY DEF FetchInv, InState
<1>2. afGhost.streak[p] \in Nat
  BY <1>1 DEF FetchTyped
<1> QED BY <1>1, <1>2, GapIsInt DEF RunFed, JobDue, FetchTyped, FetchWait, InState

LEMMA TakenKeeps ==
  ASSUME FetchInv, NEW r \in DOMAIN afRuns, NEW p \in Remotes, AfWorker(r, p)
  PROVE  FetchInv'
<1> DEFINE run == afRuns[r]
<1>1. p \in InState(r, {"taken", "fetching"}) /\ run.jobs[p].state = "taken"
      /\ UNCHANGED <<afFails, afNow, afRegistry, afRunning>>
      /\ FetchTyped /\ Counted(p)
  BY DEF AfWorker, InState, FetchInv, FailuresCounted, Counted
<1>2. /\ run.now \in Int /\ IntervalFor[p] \in Int /\ run.jobs[p].attempt = afGhost.streak[p] + 1
      /\ p \in DOMAIN afGhost.run => run.now >= FetchWait(p) /\ FetchWait(p) \in Int
  BY <1>1, WorkerKnows
<1>3. CASE /\ afRuns' = [afRuns EXCEPT ![r].jobs[p].state = "cancelled"]
           /\ UNCHANGED <<afNext, afGhost>>
  <2>1. p \in DOMAIN afGhost.run => p \in DOMAIN afNext /\ afNext[p] >= FetchWait(p)
    <3>1. ~Fetching(p)
      BY <1>1 DEF Fetching, InState, FetchInv
    <3> QED BY <3>1 DEF FetchInv, NextSpaced
  <2>2. OnlyAbout(p) /\ FetchTyped' /\ Counted(p)'
    BY <1>1, <1>3 DEF OnlyAbout, FetchTyped, Counted
  <2> QED BY <1>1, <1>3, <2>1, <2>2, WorkerKeeps DEF JobStates, FetchWait
<1>4. CASE /\ afRuns' = [afRuns EXCEPT ![r].jobs[p].state = "skipped-active"]
           /\ afNext' = Assign(afNext, p, run.now + IntervalFor[p])
           /\ UNCHANGED afGhost
  <2>1. p \in DOMAIN afNext' /\ afNext'[p] = run.now + IntervalFor[p]
    BY <1>4 DEF Assign
  <2>2. OnlyAbout(p) /\ FetchTyped' /\ Counted(p)'
    BY <1>1, <1>2, <1>4, <2>1 DEF OnlyAbout, FetchTyped, Counted, Assign
  <2>3. p \in DOMAIN afGhost'.run => afNext'[p] >= FetchWait(p)'
    <3>1. IntervalFor[p] >= 0
      BY AutoFetchAssumption
    <3> QED BY <1>2, <1>4, <2>1, <3>1 DEF FetchWait
  <2> QED BY <1>1, <1>4, <2>1, <2>2, <2>3, WorkerKeeps DEF JobStates
<1>5. CASE /\ afRuns' = [afRuns EXCEPT ![r].jobs[p].state = "fetching"]
           /\ afGhost' = [afGhost EXCEPT !.run = Assign(@, p, run.now)]
           /\ UNCHANGED afNext
  <2>1. /\ afGhost'.run = Assign(afGhost.run, p, run.now) /\ afGhost'.streak = afGhost.streak
        /\ DOMAIN afGhost' = {"streak", "run"}
    BY <1>1, <1>5 DEF FetchTyped
  <2>2. p \in DOMAIN afGhost'.run /\ afGhost'.run[p] = run.now
    BY <2>1 DEF Assign
  <2>3. OnlyAbout(p) /\ FetchTyped' /\ Counted(p)'
    BY <1>1, <1>2, <1>5, <2>1, <2>2 DEF OnlyAbout, FetchTyped, Counted, Assign
  <2> QED BY <1>1, <1>2, <1>5, <2>1, <2>2, <2>3, WorkerKeeps DEF JobStates
<1> QED BY <1>3, <1>4, <1>5 DEF AfWorker

\* The fetch that ends was the last one, and its run's time is when it began.
LEMMA ReturnKeeps ==
  ASSUME FetchInv, NEW r \in DOMAIN afRuns, NEW p \in Remotes, AfReturn(r, p)
  PROVE  FetchInv'
<1> DEFINE run == afRuns[r]
           attempt == run.jobs[p].attempt
<1>1. p \in InState(r, {"taken", "fetching"}) /\ run.jobs[p].state = "fetching"
      /\ UNCHANGED <<afNow, afRegistry, afRunning>>
      /\ FetchTyped
  BY DEF AfReturn, InState, FetchInv
<1>2. /\ run.now \in Int /\ IntervalFor[p] \in Int /\ attempt = afGhost.streak[p] + 1
      /\ afGhost.streak[p] \in Nat /\ p \in DOMAIN afGhost.run /\ afGhost.run[p] = run.now
  BY <1>1, WorkerKnows
<1> HIDE DEF attempt
<1>3. CASE /\ afRuns' = [afRuns EXCEPT ![r].jobs[p].state = "fetched"]
           /\ afFails' = Only(afFails, Remotes \ {p})
           /\ afNext' = Assign(afNext, p, run.now + IntervalFor[p])
           /\ afGhost' = [afGhost EXCEPT !.streak[p] = 0]
  <2>1. /\ afGhost'.run = afGhost.run /\ afGhost'.streak = [afGhost.streak EXCEPT ![p] = 0]
        /\ DOMAIN afGhost' = {"streak", "run"} /\ afGhost'.streak \in [Remotes -> Nat]
        /\ afGhost'.streak[p] = 0
    BY <1>1, <1>3 DEF FetchTyped
  <2>2. p \in DOMAIN afNext' /\ afNext'[p] = run.now + IntervalFor[p] /\ p \notin DOMAIN afFails'
    BY <1>3 DEF Assign, Only
  <2>3. OnlyAbout(p) /\ FetchTyped' /\ Counted(p)'
    BY <1>1, <1>2, <1>3, <2>1, <2>2 DEF OnlyAbout, FetchTyped, Counted, Assign, Only
  <2>4. afNext'[p] >= FetchWait(p)'
    BY <1>2, <2>1, <2>2, GapIsInt DEF FetchWait
  <2> QED BY <1>1, <1>3, <2>2, <2>3, <2>4, WorkerKeeps DEF JobStates
<1>4. CASE /\ afRuns' = [afRuns EXCEPT ![r].jobs[p].state = "failed"]
           /\ afFails' = Assign(afFails, p, attempt)
           /\ afNext' = Assign(afNext, p, run.now + Backoff(attempt))
           /\ afGhost' = [afGhost EXCEPT !.streak[p] = @ + 1]
  <2>1. /\ afGhost'.run = afGhost.run /\ afGhost'.streak = [afGhost.streak EXCEPT ![p] = @ + 1]
        /\ DOMAIN afGhost' = {"streak", "run"} /\ afGhost'.streak \in [Remotes -> Nat]
        /\ afGhost'.streak[p] = attempt
    BY <1>1, <1>2, <1>4 DEF FetchTyped
  <2>2. attempt \in Nat /\ attempt # 0 /\ Gap(p, attempt) = Backoff(attempt) /\ Gap(p, attempt) \in Int
    BY <1>2, GapIsInt
  <2>3. /\ p \in DOMAIN afNext' /\ afNext'[p] = run.now + Gap(p, attempt)
        /\ p \in DOMAIN afFails' /\ afFails'[p] = attempt
    BY <1>4, <2>2 DEF Assign
  <2>4. OnlyAbout(p)
    BY <1>4, <2>1 DEF OnlyAbout, FetchTyped, Assign
  <2>5. FetchTyped' /\ Counted(p)'
    BY <1>1, <1>2, <1>4, <2>1, <2>2, <2>3 DEF FetchTyped, Counted, Assign
  <2>6. afNext'[p] >= FetchWait(p)'
    BY <1>2, <2>1, <2>2, <2>3 DEF FetchWait
  <2> QED BY <1>1, <1>4, <2>3, <2>4, <2>5, <2>6, WorkerKeeps DEF JobStates
<1> QED BY <1>3, <1>4 DEF AfReturn, attempt

LEMMA TrackedPaths ==
  ASSUME NEW all, NEW kept \in Tracked(all)
  PROVE  kept \subseteq all /\ (Cardinality(all) <= MaxTracked => kept = all)
<1>1. CASE Cardinality(all) <= MaxTracked
  BY <1>1 DEF Tracked
<1>2. CASE ~(Cardinality(all) <= MaxTracked)
  BY <1>2 DEF Tracked
<1> QED BY <1>1, <1>2

\* A run that is over forgets what its list did not hold, or more if it was too long.
LEMMA PostKeeps ==
  ASSUME FetchInv, NEW r \in DOMAIN afRuns, AfPost(r)
  PROVE  FetchInv'
<1> DEFINE run == afRuns[r]
           new == [run EXCEPT !.phase = "posted"]
<1>1. /\ RunFed(run) /\ FetchTyped /\ (\A q \in DOMAIN run.jobs : JobDue(run, q))
      /\ \A q \in DOMAIN run.jobs : run.jobs[q].state \notin {"taken", "fetching"}
  BY DEF FetchInv, AfPost, InState
<1>2. RunFed(new) /\ new.jobs = run.jobs /\ new.now = run.now
  BY <1>1 DEF RunFed
<1>3. afRuns' = [afRuns EXCEPT ![r] = new] /\ UNCHANGED <<afNow, afRegistry, afRunning>>
  BY DEF AfPost
<1> HIDE DEF new
<1>4. DOMAIN afRuns' = DOMAIN afRuns /\ \A s \in DOMAIN afRuns' : s = r /\ afRuns'[s] = new
  BY <1>3, OneRunSteps
<1>5. \A p \in Remotes : ~Fetching(p)
  BY <1>1 DEF Fetching, InState, FetchInv
<1>0. PICK kept \in Tracked(run.all) :
         /\ afNext' = Only(afNext, kept) /\ afFails' = Only(afFails, kept)
         /\ afGhost' = [streak |-> [p \in Remotes |-> IF p \in kept THEN afGhost.streak[p] ELSE 0],
                        run |-> Only(afGhost.run, kept)]
  BY DEF AfPost
<1>6. /\ afNext' = Only(afNext, kept) /\ afFails' = Only(afFails, kept)
      /\ afGhost'.run = Only(afGhost.run, kept)
      /\ afGhost'.streak = [p \in Remotes |-> IF p \in kept THEN afGhost.streak[p] ELSE 0]
      /\ DOMAIN afGhost' = {"streak", "run"}
  BY <1>0
<1>7. FetchTyped' /\ FailuresCounted'
  BY <1>1, <1>3, <1>6 DEF FetchTyped, FailuresCounted, FetchInv, Only
<1>8. \A p \in Remotes : NextSpaced(p)'
  <2> SUFFICES ASSUME NEW p \in Remotes, p \in DOMAIN afGhost'.run
               PROVE  p \in DOMAIN afNext' /\ afNext'[p] >= FetchWait(p)'
    BY DEF NextSpaced
  <2>1. p \in kept /\ p \in DOMAIN afGhost.run /\ afGhost'.run[p] = afGhost.run[p]
        /\ afGhost'.streak[p] = afGhost.streak[p]
    BY <1>6 DEF Only
  <2>2. p \in DOMAIN afNext /\ afNext[p] >= FetchWait(p)
    BY <1>5, <2>1 DEF FetchInv, NextSpaced
  <2> QED BY <1>6, <2>1, <2>2 DEF FetchWait, Only
<1>9. \A s \in DOMAIN afRuns' : RunFed(afRuns[s])' /\ \A q \in DOMAIN afRuns'[s].jobs : JobDue(afRuns[s], q)'
  BY <1>1, <1>2, <1>4 DEF RunFed, JobDue
<1> QED BY <1>3, <1>4, <1>7, <1>8, <1>9 DEF FetchInv

LEMMA TickKeeps ==
  ASSUME FetchInv, AfTick
  PROVE  FetchInv'
<1> DEFINE run(known) == [phase |-> "asked", now |-> 0, all |-> afRegistry, left |-> afRegistry,
                          known |-> known, jobs |-> None, dead |-> FALSE]
<1>1. PICK known \in {{}} \cup {{p} : p \in afRegistry} : afRuns' = Assign(afRuns, afStarted + 1, run(known))
  BY DEF AfTick
<1>2. DOMAIN afRuns = {} /\ afRunning' /\ Records /\ UNCHANGED <<afNow, afRegistry>>
  BY DEF AfTick, Idle, FetchInv, Records
<1>3. DOMAIN afRuns' = {afStarted + 1} /\ afRuns'[afStarted + 1] = run(known)
  BY <1>1, <1>2 DEF Assign
<1>4. RunFed(run(known)) /\ DOMAIN run(known).jobs = {}
  BY DEF RunFed, None, FetchInv, FetchTyped
<1> HIDE DEF run
<1>5. \A p \in Remotes : ~Fetching(p) /\ ~Fetching(p)'
  BY <1>2, <1>3, <1>4 DEF Fetching, InState
<1>6. FetchTyped' /\ FailuresCounted' /\ \A p \in Remotes : NextSpaced(p)'
  BY <1>2, <1>5 DEF FetchInv, FetchTyped, FailuresCounted, NextSpaced, FetchWait, Records
<1>7. \A s \in DOMAIN afRuns' : RunFed(afRuns[s])' /\ \A q \in DOMAIN afRuns'[s].jobs : JobDue(afRuns[s], q)'
  BY <1>3, <1>4 DEF RunFed
<1> QED BY <1>2, <1>3, <1>6, <1>7 DEF FetchInv

\* A run that is handled has no worker left.
LEMMA HandleKeeps ==
  ASSUME FetchInv, NEW r \in DOMAIN afRuns, AfHandle(r)
  PROVE  FetchInv'
<1>1. DOMAIN afRuns' = {} /\ Records /\ afNow' = afNow
  BY DEF AfHandle, FetchInv, Records, Only
<1>2. \A p \in Remotes : ~Fetching(p) /\ ~Fetching(p)'
  BY <1>1 DEF Fetching, InState, FetchInv, AfHandle, RunFed
<1>3. FetchTyped'
  BY <1>1 DEF FetchInv, FetchTyped, RunFed, AfHandle, Records
<1>4. FailuresCounted' /\ \A p \in Remotes : NextSpaced(p)'
  BY <1>1, <1>2 DEF FetchInv, FailuresCounted, NextSpaced, FetchWait, Records
<1> QED BY <1>1, <1>3, <1>4 DEF FetchInv

LEMMA DeadKeeps ==
  ASSUME FetchInv, AfSwitch
  PROVE  FetchInv'
<1>1. /\ DOMAIN afRuns' = DOMAIN afRuns /\ Records /\ UNCHANGED <<afNow, afRegistry, afRunning>>
      /\ \A r \in DOMAIN afRuns : afRuns'[r] = [afRuns[r] EXCEPT !.dead = TRUE]
  BY DEF AfSwitch, Records
<1>2. \A r \in DOMAIN afRuns : RunFed(afRuns'[r]) /\ afRuns'[r].jobs = afRuns[r].jobs
                               /\ afRuns'[r].now = afRuns[r].now
  <2> SUFFICES ASSUME NEW r \in DOMAIN afRuns
               PROVE  RunFed(afRuns'[r]) /\ afRuns'[r].jobs = afRuns[r].jobs
                      /\ afRuns'[r].now = afRuns[r].now
    OBVIOUS
  <2> DEFINE new == [afRuns[r] EXCEPT !.dead = TRUE]
  <2>1. RunFed(afRuns[r]) /\ afRuns'[r] = new
    BY <1>1 DEF FetchInv
  <2>2. RunFed(new) /\ new.jobs = afRuns[r].jobs /\ new.now = afRuns[r].now
    BY <2>1 DEF RunFed
  <2> HIDE DEF new
  <2> QED BY <2>1, <2>2
<1>3. \A p \in Remotes : Fetching(p)' <=> Fetching(p)
  <2>1. \A r \in DOMAIN afRuns : InState(r, {"fetching"})' = InState(r, {"fetching"})
    BY <1>2 DEF InState
  <2> QED BY <1>1, <2>1 DEF Fetching
<1>4. FetchTyped' /\ FailuresCounted' /\ \A p \in Remotes : NextSpaced(p)'
  BY <1>1, <1>3 DEF FetchInv, FetchTyped, FailuresCounted, NextSpaced, FetchWait, Records
<1>5. \A r \in DOMAIN afRuns' : RunFed(afRuns[r])' /\ \A q \in DOMAIN afRuns'[r].jobs : JobDue(afRuns[r], q)'
  BY <1>1, <1>2 DEF FetchInv, RunFed, JobDue, FetchWait, Records
<1> QED BY <1>1, <1>4, <1>5 DEF FetchInv

\* The clock, the registry and the operations of other programs move no run.
LEMMA WorldKeeps ==
  ASSUME FetchInv, Records, UNCHANGED <<afRunning, afRuns>>, afNow' \in Int, afRegistry' \subseteq Remotes
  PROVE  FetchInv'
<1>1. FetchTyped' /\ FailuresCounted'
  BY DEF FetchInv, FetchTyped, FailuresCounted, Records
<1>2. \A p \in Remotes : NextSpaced(p)'
  BY DEF FetchInv, NextSpaced, Fetching, InState, FetchWait, Records
<1>3. \A r \in DOMAIN afRuns : RunFed(afRuns[r])' /\ \A p \in DOMAIN afRuns[r].jobs : JobDue(afRuns[r], p)'
  BY DEF FetchInv, RunFed, JobDue, FetchWait, Records
<1> QED BY <1>1, <1>2, <1>3 DEF FetchInv

LEMMA FetchInductive ==
  ASSUME FetchInv, [AfNext]_afVars
  PROVE  FetchInv'
<1>0. afNow \in Int /\ afRegistry \subseteq Remotes
  BY DEF FetchInv, FetchTyped
<1>1. CASE AfTime
  BY <1>0, <1>1, WorldKeeps DEF AfTime, Records
<1>2. CASE \E p \in Remotes : AfOperation(p)
  BY <1>0, <1>2, WorldKeeps DEF AfOperation, Records
<1>3. CASE \E paths \in Registries : AfRegister(paths)
  BY <1>0, <1>3, WorldKeeps, AutoFetchAssumption DEF AfRegister, Records
<1>4. CASE UNCHANGED afVars
  BY <1>0, <1>4, WorldKeeps DEF afVars, Records
<1>5. ASSUME NEW r \in DOMAIN afRuns,
             \/ AfBegin(r) \/ AfStopFeeding(r) \/ AfPost(r) \/ AfHandle(r)
             \/ \E p \in Remotes : AfFeed(r, p) \/ AfWorker(r, p) \/ AfReturn(r, p)
      PROVE  FetchInv'
  BY <1>5, BeginKeeps, StopKeeps, PostKeeps, HandleKeeps, FeedKeeps, TakenKeeps, ReturnKeeps
<1> QED BY <1>1, <1>2, <1>3, <1>4, <1>5, TickKeeps, DeadKeeps DEF AfNext

\* The failures that the backoff grows with are those since the last success, for any
\* number of repositories and workers, although the count is read by the feeder and
\* written by a worker (RunOnce, run, pruneState).
THEOREM FailuresAlwaysCounted == AfSpec => []FailuresCounted
<1>1. FetchInv => FailuresCounted
  BY DEF FetchInv
<1> QED BY <1>1, FetchInitially, FetchInductive, PTL DEF AfSpec

\* Two runs that fetch a remote begin as far apart as the backoff or the interval that the
\* first of them set, for every interval and backoff, whatever repository was opened,
\* whatever operation began or list replaced the registry meanwhile (Scheduler.next,
\* AutoFetchRunning); or it was forgotten, as it is only with a list without it or longer
\* than the limit (pruneState).
THEOREM FetchesAlwaysSpaced == AfSpec => FetchesSpaced
<1> DEFINE Spaced == \A p \in DOMAIN afGhost.run :
       \/ p \notin DOMAIN afGhost'.run /\ Forgotten(p)
       \/ /\ p \in DOMAIN afGhost'.run
          /\ \/ afGhost'.run[p] = afGhost.run[p]
             \/ afGhost'.run[p] >= afGhost.run[p] + Gap(p, afGhost.streak[p])
<1>1. ASSUME FetchInv, [AfNext]_afVars PROVE [Spaced]_afVars
  <2> SUFFICES ASSUME NEW p \in DOMAIN afGhost.run,
                      \/ p \notin DOMAIN afGhost'.run
                      \/ p \in DOMAIN afGhost'.run /\ afGhost'.run[p] # afGhost.run[p]
               PROVE  \/ p \notin DOMAIN afGhost'.run /\ Forgotten(p)
                      \/ p \in DOMAIN afGhost'.run /\ afGhost'.run[p] >= FetchWait(p)
    BY DEF FetchWait
  <2>1. p \in Remotes /\ DOMAIN afGhost = {"streak", "run"}
    BY <1>1 DEF FetchInv, FetchTyped
  <2>2. ASSUME NEW r \in DOMAIN afRuns, AfPost(r)
        PROVE  p \notin DOMAIN afGhost'.run /\ Forgotten(p)
    <3>1. PICK kept \in Tracked(afRuns[r].all) :
            afGhost' = [streak |-> [q \in Remotes |-> IF q \in kept THEN afGhost.streak[q] ELSE 0],
                        run |-> Only(afGhost.run, kept)]
      BY <2>2 DEF AfPost
    <3>2. afGhost'.run = Only(afGhost.run, kept)
      BY <3>1
    <3>3. p \notin kept /\ p \notin DOMAIN afGhost'.run
      BY <3>2 DEF Only
    <3>4. afRuns[r].phase = "feeding" /\ afRuns'[r].phase = "posted"
      BY <1>1, <2>2 DEF AfPost, FetchInv, RunFed
    <3>5. p \notin afRuns[r].all \/ Cardinality(afRuns[r].all) > MaxTracked
      <4>1. p \notin afRuns[r].all \/ ~(Cardinality(afRuns[r].all) <= MaxTracked)
        BY <3>3, TrackedPaths
      <4>2. MaxTracked \in Nat /\ IsFiniteSet(afRuns[r].all)
        BY <1>1, AutoFetchAssumption, FS_Subset DEF FetchInv, RunFed
      <4>3. Cardinality(afRuns[r].all) \in Nat
        BY <4>2, FS_CardinalityType
      <4> QED BY <4>1, <4>2, <4>3
    <3> QED BY <3>3, <3>4, <3>5 DEF Forgotten
  <2>3. ASSUME NEW r \in DOMAIN afRuns, NEW q \in Remotes, AfReturn(r, q) PROVE FALSE
    BY <2>1, <2>3 DEF AfReturn
  <2>4. CASE \E r \in DOMAIN afRuns : AfPost(r)
    BY <2>2, <2>4
  <2>5. CASE \E r \in DOMAIN afRuns, q \in Remotes : AfWorker(r, q)
    <3>1. PICK r \in DOMAIN afRuns, q \in Remotes : AfWorker(r, q)
      BY <2>5
    <3>2. afGhost' = [afGhost EXCEPT !.run = Assign(@, q, afRuns[r].now)] /\ q \in InState(r, {"taken"})
      BY <3>1 DEF AfWorker
    <3>3. afGhost'.run = Assign(afGhost.run, q, afRuns[r].now)
      BY <2>1, <3>2
    <3>4. p \in DOMAIN afGhost'.run /\ p = q /\ afGhost'.run[p] = afRuns[r].now
      BY <3>3 DEF Assign
    <3>5. afRuns[r].now >= FetchWait(p)
      BY <1>1, <3>2, <3>4, WorkerKnows DEF InState
    <3> QED BY <3>4, <3>5
  <2>6. (\E r \in DOMAIN afRuns : AfPost(r)) \/ (\E r \in DOMAIN afRuns, q \in Remotes : AfWorker(r, q))
    BY <1>1, <2>3 DEF AfNext, afVars, AfTime, AfSwitch, AfTick, AfOperation, AfRegister,
       AfBegin, AfStopFeeding, AfHandle, AfFeed
  <2> QED BY <2>4, <2>5, <2>6
<1> QED BY <1>1, FetchInitially, FetchInductive, PTL DEF AfSpec, FetchesSpaced

-----------------------------------------------------------------------------
(* The registry of repositories.                                           *)

Listed == {p \in Known : AlwaysListed(p)}

\* Every repository that no load leaves out is there with the favorite that no operation
\* takes back.
Kept(entries) ==
  \A p \in Listed : /\ p \in DOMAIN entries
                    /\ DOMAIN entries[p] = {"favorite", "grouped", "opened"}
                    /\ entries[p].favorite

LoadFields == {"phase", "captured", "root", "found", "entries", "rows", "session"}
OpenFields == {"path", "entries", "phase"}

\* A load has all of them from its reading on, and an opening writes what it was given
\* by a dashboard that shows them.
LoadKept(load) ==
  /\ DOMAIN load = LoadFields /\ load.root \in Known
  /\ load.phase = "read" => Listed \subseteq load.found
  /\ load.phase \in {"save", "refresh", "ready"} => Kept(load.entries)

OpenKept(open) == DOMAIN open = OpenFields /\ open.path \in Known /\ Kept(open.entries)

RegistryKept ==
  /\ Kept(regFile) /\ regRoot \in Known
  /\ DOMAIN regRows # {} => Kept(regEntries)
  /\ \A l \in DOMAIN regLoads : LoadKept(regLoads[l])
  /\ \A o \in DOMAIN regOpens : OpenKept(regOpens[o])

LEMMA ListedStays == UNCHANGED regFilter => Listed' = Listed
BY DEF Listed, AlwaysListed

LEMMA DiscoverListed ==
  ASSUME NEW root \in Known, NEW found \in Discovered(root)
  PROVE  Listed \subseteq found
BY DEF Listed, AlwaysListed

LEMMA MergeKeeps ==
  ASSUME NEW stored, Kept(stored), NEW found, Listed \subseteq found
  PROVE  Kept(InGroup(Merge(found, stored)))
<1> SUFFICES ASSUME NEW p \in Listed
             PROVE  LET entries == InGroup(Merge(found, stored))
                    IN /\ p \in DOMAIN entries
                       /\ DOMAIN entries[p] = {"favorite", "grouped", "opened"}
                       /\ entries[p].favorite
  BY DEF Kept
<1> DEFINE merged == Merge(found, stored)
<1>1. p \in found /\ p \in DOMAIN stored /\ stored[p].favorite
      /\ DOMAIN stored[p] = {"favorite", "grouped", "opened"}
  BY DEF Kept
<1>2. p \in DOMAIN merged
      /\ merged[p] = [stored[p] EXCEPT !.grouped = stored[p].grouped \/ p \in Grouped]
  BY <1>1 DEF Merge
<1>3. /\ DOMAIN merged[p] = {"favorite", "grouped", "opened"} /\ merged[p].favorite
      /\ p \in Grouped => merged[p].grouped
  BY <1>1, <1>2
<1>4. regFilter => p \in Grouped
  BY DEF Listed, AlwaysListed
<1> HIDE DEF merged
<1>5. p \in DOMAIN InGroup(merged) /\ InGroup(merged)[p] = merged[p]
  BY <1>2, <1>3, <1>4 DEF InGroup
<1> QED BY <1>3, <1>5 DEF merged

LEMMA StampKeeps ==
  ASSUME NEW entries, Kept(entries), NEW p, NEW n
  PROVE  Kept(Stamped(entries, p, n))
BY DEF Kept, Stamped

\* One load goes on.
LEMMA LoadKeeps ==
  ASSUME RegistryKept, NEW l \in DOMAIN regLoads, NEW load, LoadKept(load),
         regLoads' = [regLoads EXCEPT ![l] = load], UNCHANGED <<regOpens, regFilter, regRoot>>,
         Kept(regFile'), DOMAIN regRows' # {} => Kept(regEntries')
  PROVE  RegistryKept'
<1>1. DOMAIN regLoads' = DOMAIN regLoads
      /\ \A k \in DOMAIN regLoads : regLoads'[k] = load \/ regLoads'[k] = regLoads[k]
  OBVIOUS
<1> QED BY <1>1, ListedStays DEF RegistryKept, LoadKept, OpenKept, Kept

LEMMA LoadMoves ==
  ASSUME RegistryKept, NEW l \in DOMAIN regLoads, NEW from, NEW to, LoadStep(l, from, to),
         to \in {"failed", "done"} \/ (to \in {"refresh", "ready"} /\ from \in {"save", "refresh"})
  PROVE  LET load == [regLoads[l] EXCEPT !.phase = to]
         IN  LoadKept(load) /\ regLoads' = [regLoads EXCEPT ![l] = load]
BY DEF RegistryKept, LoadKept, LoadFields, LoadStep

LEMMA LoadRunKeeps ==
  ASSUME RegistryKept, NEW l \in DOMAIN regLoads,
         \/ LoadFail(l) \/ LoadDiscover(l) \/ LoadRead(l) \/ LoadSave(l)
         \/ (\E p \in Known : RefreshOne(l, p))
         \/ LoadReady(l) \/ LoadHandle(l) \/ LoadError(l)
  PROVE  RegistryKept'
<1>0. /\ Kept(regFile) /\ LoadKept(regLoads[l])
      /\ DOMAIN regRows # {} => Kept(regEntries)
  BY DEF RegistryKept
<1>1. CASE LoadFail(l)
  <2>1. PICK from : LoadStep(l, from, "failed")
    BY <1>1 DEF LoadFail
  <2> QED BY <1>0, <1>1, <2>1, LoadMoves, LoadKeeps DEF LoadFail, OnlyLoads
<1>2. CASE LoadDiscover(l)
  <2>1. PICK found \in Discovered(regLoads[l].root) :
          regLoads' = [regLoads EXCEPT ![l].phase = "read", ![l].found = found]
    BY <1>2 DEF LoadDiscover
  <2> DEFINE load == [regLoads[l] EXCEPT !.phase = "read", !.found = found]
  <2>2. LoadKept(load) /\ regLoads' = [regLoads EXCEPT ![l] = load]
    BY <1>0, <2>1, DiscoverListed DEF LoadKept, LoadFields
  <2> HIDE DEF load
  <2> QED BY <1>0, <1>2, <2>2, LoadKeeps DEF LoadDiscover, OnlyLoads
<1>3. CASE LoadRead(l)
  <2> DEFINE entries == InGroup(Merge(regLoads[l].found, regFile))
             load == [regLoads[l] EXCEPT !.phase = "save", !.entries = entries]
  <2>1. Kept(entries)
    BY <1>0, <1>3, MergeKeeps DEF LoadRead, LoadKept
  <2>2. regLoads' = [regLoads EXCEPT ![l] = load]
    BY <1>3 DEF LoadRead
  <2> HIDE DEF entries
  <2>3. LoadKept(load)
    BY <1>0, <2>1 DEF LoadKept, LoadFields
  <2> HIDE DEF load
  <2> QED BY <1>0, <1>3, <2>2, <2>3, LoadKeeps DEF LoadRead, OnlyLoads
<1>4. CASE LoadSave(l)
  <2>1. LoadStep(l, "save", "refresh") /\ Kept(regFile')
    BY <1>0, <1>4 DEF LoadSave, LoadStep, LoadKept
  <2> QED BY <1>0, <1>4, <2>1, LoadMoves, LoadKeeps DEF LoadSave
<1>5. ASSUME NEW p \in Known, RefreshOne(l, p) PROVE RegistryKept'
  <2>1. \E rows : regLoads' = [regLoads EXCEPT ![l] = [regLoads[l] EXCEPT !.rows = rows]]
    BY <1>5 DEF RefreshOne
  <2>2. PICK rows : regLoads' = [regLoads EXCEPT ![l] = [regLoads[l] EXCEPT !.rows = rows]]
    BY <2>1
  <2>3. LoadKept([regLoads[l] EXCEPT !.rows = rows])
    BY <1>0 DEF LoadKept, LoadFields
  <2> QED BY <1>0, <1>5, <2>2, <2>3, LoadKeeps DEF RefreshOne
<1>6. CASE LoadReady(l)
  BY <1>0, <1>6, LoadMoves, LoadKeeps DEF LoadReady, OnlyLoads
<1>7. CASE LoadHandle(l)
  <2>1. LoadStep(l, "ready", "done") /\ Kept(regEntries')
    BY <1>0, <1>7 DEF LoadHandle, LoadStep, LoadKept
  <2> QED BY <1>0, <1>7, <2>1, LoadMoves, LoadKeeps DEF LoadHandle
<1>8. CASE LoadError(l)
  BY <1>0, <1>8, LoadMoves, LoadKeeps DEF LoadError, OnlyLoads
<1> QED BY <1>1, <1>2, <1>3, <1>4, <1>5, <1>6, <1>7, <1>8

LEMMA OpenKeeps ==
  ASSUME RegistryKept, NEW o \in DOMAIN regOpens, OpenSave(o) \/ OpenHandle(o)
  PROVE  RegistryKept'
<1>1. PICK phase : regOpens' = [regOpens EXCEPT ![o] = [regOpens[o] EXCEPT !.phase = phase]]
  BY DEF OpenSave, OpenHandle
<1>2. \A k \in DOMAIN regOpens : OpenKept(regOpens'[k])
  BY <1>1 DEF RegistryKept, OpenKept, OpenFields
<1>5. regRoot' \in Known /\ UNCHANGED regFilter
  BY DEF OpenSave, OpenHandle, RegistryKept, OpenKept
<1>3. Kept(regFile') /\ (DOMAIN regRows # {} => Kept(regEntries'))
  BY StampKeeps DEF OpenSave, OpenHandle, RegistryKept, OpenKept
<1>4. UNCHANGED <<regLoads, regRows>> /\ DOMAIN regOpens' = DOMAIN regOpens
  BY <1>1 DEF OpenSave, OpenHandle
<1> QED BY <1>2, <1>3, <1>4, <1>5, ListedStays DEF RegistryKept, LoadKept, OpenKept, Kept

LEMMA StartsKeep ==
  ASSUME RegistryKept, LoadStart \/ \E p \in Known : OpenStart(p)
  PROVE  RegistryKept'
<1>1. CASE LoadStart
  <2>1. \A l \in DOMAIN regLoads' : LoadKept(regLoads'[l])
    BY <1>1 DEF LoadStart, Put, RegistryKept, LoadKept, LoadFields
  <2>2. UNCHANGED <<regFilter, regFile, regEntries, regRows, regRoot, regOpens>>
    BY <1>1 DEF LoadStart, OnlyLoads
  <2>3. Kept(regFile)' /\ (DOMAIN regRows # {} => Kept(regEntries))'
    BY <2>2, ListedStays DEF RegistryKept, Kept
  <2>4. \A o \in DOMAIN regOpens' : OpenKept(regOpens'[o])
    BY <2>2 DEF RegistryKept
  <2> QED BY <2>1, <2>2, <2>3, <2>4, ListedStays DEF RegistryKept, LoadKept, OpenKept, Kept
<1>2. ASSUME NEW p \in Known, OpenStart(p) PROVE RegistryKept'
  <2>1. \A o \in DOMAIN regOpens' : OpenKept(regOpens'[o])
    BY <1>2 DEF OpenStart, Put, RegistryKept, OpenKept, OpenFields
  <2> QED BY <1>2, <2>1, ListedStays DEF OpenStart, RegistryKept, LoadKept, OpenKept, Kept
<1> QED BY <1>1, <1>2

LEMMA RegistryInductive ==
  ASSUME RegistryKept, [RegNext]_regVars
  PROVE  RegistryKept'
<1>1. CASE UNCHANGED <<regFilter, regFile, regEntries, regRows, regRoot, regLoads, regOpens>>
  BY <1>1, ListedStays DEF RegistryKept, LoadKept, OpenKept, Kept
<1> QED BY <1>1, LoadRunKeeps, OpenKeeps, StartsKeep DEF RegNext, regVars, ChecksHandle

LEMMA RegistryInitially == RegInit => RegistryKept
BY RegistryAssumption DEF RegInit, RegistryKept, Kept, Listed, Empty

\* The state file keeps the favorites through loads and openings that overlap and write
\* what they read earlier, of every repository that no load leaves out: whatever roots are
\* configured, none among them, with --group and without, and for any number of
\* repositories (registry.Merge, registry.InGroup, registry.Save, openSelectedRepository).
THEOREM FavoritesAlwaysKept == RegSpec => FavoritesKept
<1> DEFINE Keeping == \A p \in Known \cap DOMAIN regFile : AlwaysListed(p) /\ regFile[p].favorite =>
                        p \in DOMAIN regFile' /\ regFile'[p].favorite
<1>1. ASSUME RegistryKept, [RegNext]_regVars PROVE Keeping
  <2>1. RegistryKept'
    BY <1>1, RegistryInductive
  <2>2. Listed' = Listed
    <3>1. UNCHANGED regFilter
      BY <1>1 DEF RegNext, regVars, LoadStart, LoadFail, LoadDiscover, LoadRead, LoadSave,
         RefreshOne, LoadReady, LoadHandle, LoadError, ChecksHandle, OpenStart, OpenSave,
         OpenHandle, OnlyLoads
    <3> QED BY <3>1, ListedStays
  <2> QED BY <1>1, <2>1, <2>2 DEF RegistryKept, Kept, Listed
<1>2. ASSUME RegistryKept, [RegNext]_regVars PROVE RegistryKept'
  BY <1>2, RegistryInductive
<1> QED BY <1>1, <1>2, RegistryInitially, PTL DEF RegSpec, FavoritesKept

CacheInv == IsFiniteSet(regCache) /\ CacheBounded

LEMMA CacheKeeps ==
  ASSUME CacheInv, NEW p, NEW cache,
         LET larger == regCache \cup {p}
         IN IF Cardinality(larger) > MaxCached /\ larger # {p}
            THEN \E oldest \in larger \ {p} : cache = larger \ {oldest}
            ELSE cache = larger
  PROVE  IsFiniteSet(cache) /\ (Cardinality(cache) <= MaxCached \/ Cardinality(cache) = 1)
<1> DEFINE larger == regCache \cup {p}
<1>1. /\ IsFiniteSet(larger) /\ Cardinality(regCache) \in Nat /\ Cardinality(larger) \in Nat
      /\ Cardinality(larger) <= Cardinality(regCache) + 1 /\ MaxCached \in Nat
  <2>1. IsFiniteSet(regCache) /\ Cardinality(regCache) \in Nat
    BY FS_CardinalityType DEF CacheInv
  <2>2. /\ IsFiniteSet(larger)
        /\ Cardinality(larger) = Cardinality(regCache) \/ Cardinality(larger) = Cardinality(regCache) + 1
    BY <2>1, FS_AddElement
  <2> QED BY <2>1, <2>2, RegistryAssumption
<1>2. CASE larger = {p} /\ cache = larger
  BY <1>2, FS_Singleton
<1>3. CASE ~(Cardinality(larger) > MaxCached) /\ cache = larger
  BY <1>1, <1>3
<1>4. ASSUME NEW oldest \in larger, cache = larger \ {oldest} PROVE IsFiniteSet(cache) /\ (Cardinality(cache) <= MaxCached \/ Cardinality(cache) = 1)
  <2>1. IsFiniteSet(cache) /\ Cardinality(cache) = Cardinality(larger) - 1
    BY <1>1, <1>4, FS_RemoveElement
  <2>2. larger # {}
    OBVIOUS
  <2>3. Cardinality(cache) \in Nat /\ Cardinality(cache) <= Cardinality(regCache)
    BY <1>1, <2>1, FS_CardinalityType
  <2>4. CASE Cardinality(regCache) <= MaxCached
    BY <1>1, <2>1, <2>3, <2>4
  <2>5. CASE Cardinality(regCache) = 1 /\ Cardinality(cache) = 1
    BY <2>1, <2>5
  <2>6. CASE Cardinality(regCache) = 1 /\ Cardinality(cache) = 0
    BY <1>1, <2>1, <2>6
  <2> QED BY <1>1, <2>3, <2>4, <2>5, <2>6 DEF CacheInv, CacheBounded
<1> QED BY <1>2, <1>3, <1>4

\* The engine's cache stays within its bound, or holds the one repository that was just
\* read, for any number of workers and loads that insert into it (refreshOne).
THEOREM CacheAlwaysBounded == RegSpec => []CacheBounded
<1>1. RegInit => CacheInv
  BY FS_EmptySet, RegistryAssumption DEF RegInit, CacheInv, CacheBounded
<1>2. ASSUME CacheInv, [RegNext]_regVars PROVE CacheInv'
  <2>1. CASE UNCHANGED regCache
    BY <1>2, <2>1 DEF CacheInv, CacheBounded
  <2>2. ASSUME NEW l \in DOMAIN regLoads, NEW p \in Known, RefreshOne(l, p) PROVE CacheInv'
    BY <1>2, <2>1, <2>2, CacheKeeps DEF RefreshOne, CacheInv, CacheBounded
  <2> QED BY <1>2, <2>1, <2>2 DEF RegNext, regVars, LoadStart, LoadFail, LoadDiscover, LoadRead,
       LoadSave, LoadReady, LoadHandle, LoadError, ChecksHandle, OpenStart, OpenSave, OpenHandle, OnlyLoads
<1>3. CacheInv => CacheBounded
  BY DEF CacheInv
<1> QED BY <1>1, <1>2, <1>3, PTL DEF RegSpec

ChecksInv ==
  /\ DOMAIN regCI = {"pending", "request", "shown"}
  /\ regCI.request \in Nat /\ regCI.shown \in Nat /\ regCI.shown <= regCI.request

\* The checks shown are never replaced by those of an older request, however many are in
\* flight and in whatever order they are answered (DashboardCIReadyMsg).
THEOREM ChecksAreNeverOlder == RegSpec => ChecksNeverOlder
<1>1. RegInit => ChecksInv
  BY DEF RegInit, ChecksInv
<1>2. ASSUME ChecksInv, [RegNext]_regVars
      PROVE  ChecksInv' /\ [regCI'.shown >= regCI.shown]_regVars
  <2>1. CASE UNCHANGED regCI
    BY <1>2, <2>1 DEF ChecksInv
  <2>2. ASSUME NEW request \in regCI.pending, ChecksHandle(request)
        PROVE  ChecksInv' /\ regCI'.shown >= regCI.shown
    BY <1>2, <2>2 DEF ChecksHandle, AcceptChecks, ChecksInv
  <2>3. ASSUME NEW l \in DOMAIN regLoads, LoadHandle(l)
        PROVE  ChecksInv' /\ regCI'.shown >= regCI.shown
    BY <1>2, <2>3 DEF LoadHandle, RequestChecks, ChecksInv
  <2>4. ASSUME NEW o \in DOMAIN regOpens, OpenHandle(o)
        PROVE  ChecksInv' /\ regCI'.shown >= regCI.shown
    BY <1>2, <2>4 DEF OpenHandle, ChecksInv
  <2> QED BY <1>2, <2>1, <2>2, <2>3, <2>4 DEF RegNext, regVars, LoadStart, LoadFail, LoadDiscover,
       LoadRead, LoadSave, RefreshOne, LoadReady, LoadError, OpenStart, OpenSave, OnlyLoads
<1> QED BY <1>1, <1>2, PTL DEF RegSpec, ChecksNeverOlder
=============================================================================
