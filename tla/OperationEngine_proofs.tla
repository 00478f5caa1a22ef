----------------------- MODULE OperationEngine_proofs -----------------------
(***************************************************************************)
(* Proofs about the operation engine, for any identifiers, repositories,   *)
(* retriers and limits, and any number of jobs.                            *)
(***************************************************************************)
EXTENDS OperationEngine, FiniteSetTheorems, SequenceTheorems, TLAPS

-----------------------------------------------------------------------------
(* The steps of Next, grouped by what they leave alone. *)

\* A context ends, or a retrier makes up its mind: no table and no goroutine moves.
Aside == UNCHANGED <<tables, admitted, pc, spec, lock, outcome, waiter, answer, unread>>

\* The steps of run between the admission of a job and finish that change no table.
Advance(j) == TakeSlot(j) \/ GiveUp(j) \/ Lock(j) \/ Unlock(j) \/ Release(j)

\* Every step is one of these.
LEMMA Steps ==
  ASSUME TypeOK, [Next]_vars
  PROVE  \/ Aside
         \/ \E s \in Specs : Admit(s)
         \/ \E j \in Jobs : Start(j) \/ Advance(j) \/ Finish(j) \/ Answer(j)
<1>1. CASE UNCHANGED vars
  BY <1>1 DEF vars, threads, Aside, tables
<1>2. ASSUME NEW s \in Submissions, Submit(s) PROVE \E t \in Specs : Admit(t)
  BY <1>2, SubmissionsAssumption DEF Submit
<1>3. ASSUME NEW id \in Ids, Cancel(id) PROVE Aside
  BY <1>3 DEF Cancel, Aside
<1>4. ASSUME NEW t \in Retriers, RetrySubmit(t)
      PROVE  Aside \/ \E s \in Specs : Admit(s)
  <2>1. retrying[t] \subseteq Specs
    BY DEF TypeOK
  <2>2. PICK s \in retrying[t] :
          \/ Admit(s)
          \/ UNCHANGED <<tables, admitted, pc, spec, lock, ctx, outcome, waiter, answer, unread>>
    BY <1>4 DEF RetrySubmit
  <2> QED BY <2>1, <2>2 DEF Aside
<1>5. ASSUME NEW t \in Retriers, NEW id \in Ids, RetryTake(t, id) PROVE Aside
  BY <1>5 DEF RetryTake, Aside
<1>6. ASSUME NEW j \in Jobs, Expire(j) PROVE Aside
  BY <1>6 DEF Expire, Aside
<1>7. ASSUME NEW j \in Jobs, Step(j)
      PROVE  \E k \in Jobs : Start(k) \/ Advance(k) \/ Finish(k) \/ Answer(k)
  BY <1>7 DEF Step, Advance
<1> QED BY <1>1, <1>2, <1>3, <1>4, <1>5, <1>6, <1>7 DEF Next

-----------------------------------------------------------------------------
(* The parts of the inductive invariant that no run names. *)

\* The jobs are admitted in the order of their numbers.
Numbered == \A j \in Jobs : pc[j] = "new" <=> j > admitted

\* The states that a job passes through agree with what its result is.
Outcomes ==
  /\ \A j \in Jobs : pc[j] = "releasing" => outcome[j] \in {"succeeded", "failed"}
  /\ \A j \in Jobs : pc[j] \in {"finishing", "answering", "over"} => outcome[j] \in Terminal

\* What is stored under an identifier belongs to the outstanding job of that identifier.
ActiveIsOutstanding ==
  \A id \in Ids : active[id] # None => active[id] \in Outstanding /\ spec[active[id]].id = id

\* A job answers its own waiter, and only then.
AnswersOwn ==
  /\ \A j \in Jobs : pc[j] \in {"answering", "over"} => waiter[j] = j
  /\ \A j \in Jobs : answer[j] = IF pc[j] = "over" THEN outcome[j] ELSE "none"

-----------------------------------------------------------------------------
(* Types *)

Entries == [id : Ids, state : Terminal]

\* What finish keeps of the history: entries, and no more than the limit.
LEMMA KeptHistory ==
  ASSUME NEW h \in Seq(Entries), NEW e \in Entries
  PROVE  LET all == Append(h, e)
             first == IF Len(all) > HistoryLimit THEN Len(all) - HistoryLimit + 1 ELSE 1
             kept == SubSeq(all, first, Len(all))
         IN kept \in Seq(Entries) /\ Len(kept) <= HistoryLimit
<1> DEFINE all == Append(h, e)
           first == IF Len(all) > HistoryLimit THEN Len(all) - HistoryLimit + 1 ELSE 1
<1>1. all \in Seq(Entries) /\ Len(all) \in Nat
  BY AppendProperties, LenProperties
<1>2. first \in 1 .. Len(all) + 1 /\ Len(all) \in 0 .. Len(all)
  BY <1>1, HistoryAssumption
<1> HIDE DEF all
<1>3. /\ SubSeq(all, first, Len(all)) \in Seq(Entries)
      /\ Len(SubSeq(all, first, Len(all))) = IF first <= Len(all) THEN Len(all) - first + 1 ELSE 0
  BY <1>1, <1>2, SubSeqProperties
<1>4. Len(SubSeq(all, first, Len(all))) <= HistoryLimit
  BY <1>1, <1>2, <1>3, HistoryAssumption
<1> QED BY <1>3, <1>4 DEF all

\* The engine starts with empty tables of the right types and no outcome.
LEMMA TypeInit == Init => TypeOK /\ Outcomes
<1> SUFFICES ASSUME Init PROVE TypeOK /\ Outcomes
  OBVIOUS
<1> USE DEF Init
<1>1. (CHOOSE s \in Submissions : TRUE) \in Specs
  BY SubmissionsAssumption
<1>2. /\ pc \in [Jobs -> Points] /\ spec \in [Jobs -> Specs]
      /\ lock \in [Jobs -> Jobs \cup {None}]
      /\ ctx \in [Jobs -> {"live", "cancelled", "expired"}]
  BY <1>1 DEF Points
<1>6. admitted \in 0 .. MaxJobs
  BY JobsAssumption
<1>3. /\ outcome \in [Jobs -> Terminal \cup {"none"}]
      /\ waiter \in [Jobs -> Jobs \cup {None}]
      /\ answer \in [Jobs -> Terminal \cup {"none"}]
  OBVIOUS
<1>4. /\ active \in [Ids -> Jobs \cup {None}]
      /\ repos \in [Repos -> Jobs \cup {None}] /\ refs \in [Repos -> Nat]
      /\ latest \in [Ids -> Terminal \cup {"none", "pending", "running"}]
      /\ retry \in [Ids -> SUBSET Specs] /\ retrying \in [Retriers -> SUBSET Specs]
  OBVIOUS
<1>5. history \in Seq([id : Ids, state : Terminal]) /\ unread \in 0 .. Limit
  BY LimitAssumption
<1> QED BY <1>2, <1>3, <1>4, <1>5, <1>6 DEF TypeOK, Outcomes
-----------------------------------------------------------------------------
(* Outstanding jobs *)

\* Only jobs are outstanding, and there are finitely many.
LEMMA OutstandingFinite ==
  /\ IsFiniteSet(Jobs) /\ IsFiniteSet(Outstanding)
  /\ \A r : IsFiniteSet(On(r)) /\ Cardinality(On(r)) \in Nat
<1>1. IsFiniteSet(Jobs)
  BY FS_Interval, JobsAssumption DEF Jobs
<1>2. Outstanding \subseteq Jobs /\ \A r : On(r) \subseteq Jobs
  BY DEF Outstanding, On
<1> QED BY <1>1, <1>2, FS_Subset, FS_CardinalityType

\* The repository of an outstanding job is counted.
LEMMA Counted ==
  ASSUME TypeOK, LocksShared, NEW j \in Outstanding
  PROVE  /\ spec[j].repo \in Repos /\ spec[j].id \in Ids
         /\ refs[spec[j].repo] = Cardinality(On(spec[j].repo))
         /\ refs[spec[j].repo] >= 1
<1>1. spec[j].repo \in Repos /\ spec[j].id \in Ids
  BY DEF TypeOK, Outstanding, Specs
<1>2. j \in On(spec[j].repo)
  BY DEF On
<1>3. Cardinality(On(spec[j].repo)) # 0
  BY <1>2, OutstandingFinite, FS_EmptySet
<1> QED BY <1>1, <1>3, OutstandingFinite DEF LocksShared

\* While run goes from one step to the next, the same jobs are outstanding.
LEMMA AdvanceKeeps ==
  ASSUME TypeOK, NEW j \in Jobs, Start(j) \/ Advance(j)
  PROVE  /\ pc[j] \in Between /\ pc'[j] \in Between
         /\ \A k \in Jobs \ {j} : pc'[k] = pc[k]
         /\ Outstanding' = Outstanding /\ \A r : On(r)' = On(r)
<1>1. /\ pc[j] \in Between /\ pc'[j] \in Between /\ spec' = spec
      /\ \A k \in Jobs \ {j} : pc'[k] = pc[k]
  BY DEF Start, Advance, TakeSlot, GiveUp, Lock, Unlock, Release, Go, Between, TypeOK
<1>2. Outstanding' = Outstanding
  BY <1>1 DEF Outstanding
<1> QED BY <1>1, <1>2 DEF On

\* submit makes one job outstanding, the next number, in its own repository.
LEMMA AdmitAdds ==
  ASSUME TypeOK, Numbered, NEW s \in Specs, Admit(s)
  PROVE  /\ admitted + 1 \in Jobs /\ admitted + 1 \notin Outstanding
         /\ spec'[admitted + 1] = s /\ pc'[admitted + 1] = "started"
         /\ \A k \in Jobs \ {admitted + 1} : pc'[k] = pc[k] /\ spec'[k] = spec[k]
         /\ Outstanding' = Outstanding \cup {admitted + 1}
         /\ On(s.repo)' = On(s.repo) \cup {admitted + 1}
         /\ \A r : r # s.repo => On(r)' = On(r)
<1> DEFINE n == admitted + 1
<1>1. n \in Jobs /\ pc[n] = "new"
  BY JobsAssumption DEF Admit, TypeOK, Jobs, Numbered
<1>2. n \notin Outstanding
  BY <1>1 DEF Outstanding, Between
<1>3. /\ spec'[n] = s /\ pc'[n] = "started"
      /\ \A k \in Jobs \ {n} : pc'[k] = pc[k] /\ spec'[k] = spec[k]
  BY <1>1 DEF Admit, TypeOK
<1> HIDE DEF n
<1>4. Outstanding' = Outstanding \cup {n}
  BY <1>1, <1>3 DEF Outstanding, Between
<1>5. On(s.repo)' = On(s.repo) \cup {n}
  BY <1>2, <1>3, <1>4 DEF On, Outstanding
<1>6. \A r : r # s.repo => On(r)' = On(r)
  BY <1>2, <1>3, <1>4 DEF On, Outstanding
<1> QED BY <1>1, <1>2, <1>3, <1>4, <1>5, <1>6 DEF n

\* finish makes its own job no longer outstanding and touches no other.
LEMMA FinishRemoves ==
  ASSUME TypeOK, NEW j \in Jobs, Finish(j)
  PROVE  /\ j \in Outstanding /\ pc'[j] = "answering"
         /\ \A k \in Jobs \ {j} : pc'[k] = pc[k]
         /\ Outstanding' = Outstanding \ {j}
         /\ \A r : On(r)' = On(r) \ {j}
<1>1. /\ pc[j] = "finishing" /\ pc'[j] = "answering" /\ spec' = spec
      /\ \A k \in Jobs \ {j} : pc'[k] = pc[k]
  BY DEF Finish, Go, TypeOK
<1>2. j \in Outstanding
  BY <1>1 DEF Outstanding, Between
<1>3. Outstanding' = Outstanding \ {j}
  BY <1>1 DEF Outstanding, Between
<1> QED BY <1>1, <1>2, <1>3 DEF On
-----------------------------------------------------------------------------
\* The two variables that the grouping of steps says nothing of keep their types.
LEMMA AroundNext ==
  ASSUME TypeOK, [Next]_vars
  PROVE  /\ ctx' \in [Jobs -> {"live", "cancelled", "expired"}]
         /\ retrying' \in [Retriers -> SUBSET Specs]
<1> DEFINE Around == /\ ctx' \in [Jobs -> {"live", "cancelled", "expired"}]
                     /\ retrying' \in [Retriers -> SUBSET Specs]
<1>1. CASE UNCHANGED vars
  BY <1>1 DEF vars, threads, TypeOK
<1>2. ASSUME NEW s \in Submissions, Submit(s) PROVE Around
  BY <1>2 DEF Submit, Admit, TypeOK
<1>3. ASSUME NEW id \in Ids, Cancel(id) PROVE Around
  BY <1>3 DEF Cancel, TypeOK
<1>4. ASSUME NEW t \in Retriers, RetrySubmit(t) PROVE Around
  BY <1>4 DEF RetrySubmit, Admit, TypeOK
<1>5. ASSUME NEW t \in Retriers, NEW id \in Ids, RetryTake(t, id) PROVE Around
  BY <1>5 DEF RetryTake, TypeOK
<1>6. ASSUME NEW j \in Jobs, Expire(j) PROVE Around
  BY <1>6 DEF Expire, TypeOK
<1>7. ASSUME NEW j \in Jobs, Step(j) PROVE Around
  <2>1. CASE Answer(j)
    BY <2>1 DEF Answer, TypeOK
  <2>2. CASE ~Answer(j)
    BY <1>7, <2>2 DEF Step, Start, TakeSlot, GiveUp, Lock, Unlock, Release, Finish, TypeOK
  <2> QED BY <2>1, <2>2
<1> QED BY <1>1, <1>2, <1>3, <1>4, <1>5, <1>6, <1>7 DEF Next

\* No step breaks a type: finish decrements a count that its job was counted in.
LEMMA TypeNext ==
  ASSUME TypeOK, Outcomes, LocksShared, [Next]_vars
  PROVE  TypeOK'
<1> DEFINE Around == /\ ctx' \in [Jobs -> {"live", "cancelled", "expired"}]
                     /\ retrying' \in [Retriers -> SUBSET Specs]
<1>0. Around
  BY AroundNext
<1> HIDE DEF Around
<1>1. CASE Aside
  BY <1>0, <1>1 DEF Around, Aside, tables, TypeOK
<1>2. ASSUME NEW s \in Specs, Admit(s) PROVE TypeOK'
  <2> DEFINE n == admitted + 1
  <2>1. n \in Jobs /\ n \in 0 .. MaxJobs
    BY <1>2, JobsAssumption DEF Admit, TypeOK, Jobs
  <2>2. s.id \in Ids /\ s.repo \in Repos
    BY DEF Specs
  <2>3. (IF repos[s.repo] = None THEN n ELSE repos[s.repo]) \in Jobs \cup {None}
    BY <2>1, <2>2 DEF TypeOK
  <2>4. /\ pc' \in [Jobs -> Points] /\ spec' \in [Jobs -> Specs]
        /\ lock' \in [Jobs -> Jobs \cup {None}]
    BY <1>2, <2>1, <2>3 DEF Admit, TypeOK, Points, Between
  <2>5. /\ active' \in [Ids -> Jobs \cup {None}] /\ retry' \in [Ids -> SUBSET Specs]
        /\ latest' \in [Ids -> Terminal \cup {"none", "pending", "running"}]
    BY <1>2, <2>1, <2>2 DEF Admit, TypeOK
  <2>6. repos' \in [Repos -> Jobs \cup {None}] /\ refs' \in [Repos -> Nat]
    BY <1>2, <2>2, <2>3 DEF Admit, TypeOK
  <2>7. admitted' \in 0 .. MaxJobs
    BY <1>2, <2>1 DEF Admit
  <2> QED BY <1>0, <1>2, <2>4, <2>5, <2>6, <2>7 DEF Around, Admit, TypeOK
<1>3. ASSUME NEW j \in Jobs, Start(j) PROVE TypeOK'
  BY <1>0, <1>3 DEF Around, Start, Go, Points, Between, TypeOK, Specs
<1>4. ASSUME NEW j \in Jobs, Advance(j) PROVE TypeOK'
  <2>1. pc' \in [Jobs -> Points]
    <3>1. \E to \in Between : pc' = [pc EXCEPT ![j] = to]
      BY <1>4 DEF Advance, TakeSlot, GiveUp, Lock, Unlock, Release, Go, Between
    <3> QED BY <3>1 DEF Points, TypeOK
  <2>2. outcome' \in [Jobs -> Terminal \cup {"none"}]
    BY <1>4 DEF Advance, TakeSlot, GiveUp, Lock, Unlock, Release, Terminal, Unsuccessful, TypeOK
  <2>3. UNCHANGED <<tables, admitted, spec, lock, waiter, answer, unread>>
    BY <1>4 DEF Advance, TakeSlot, GiveUp, Lock, Unlock, Release
  <2> QED BY <1>0, <2>1, <2>2, <2>3 DEF Around, tables, TypeOK
<1>5. ASSUME NEW j \in Jobs, Finish(j) PROVE TypeOK'
  <2>1. /\ pc[j] = "finishing" /\ j \in Outstanding
        /\ spec[j].id \in Ids /\ spec[j].repo \in Repos /\ outcome[j] \in Terminal
    BY <1>5, FinishRemoves, Counted DEF Finish, Go, Outcomes
  <2>2. pc' \in [Jobs -> Points] /\ waiter' \in [Jobs -> Jobs \cup {None}]
    BY <1>5, <2>1 DEF Finish, Go, Points, TypeOK
  <2>3. active' \in [Ids -> Jobs \cup {None}]
    BY <1>5, <2>1 DEF Finish, TypeOK
  <2>4. refs' \in [Repos -> Nat]
    BY <1>5, <2>1, Counted DEF Finish, DropReference, TypeOK
  <2>5. repos' \in [Repos -> Jobs \cup {None}]
    BY <1>5, <2>1 DEF Finish, DropReference, TypeOK
  <2>6. history' \in Seq([id : Ids, state : Terminal])
    <3>1. [id |-> spec[j].id, state |-> outcome[j]] \in Entries /\ history \in Seq(Entries)
      BY <2>1 DEF Entries, TypeOK
    <3> QED BY <1>5, <3>1, KeptHistory DEF Finish, Record, Entries
  <2>7. latest' \in [Ids -> Terminal \cup {"none", "pending", "running"}]
    BY <1>5, <2>1 DEF Finish, Record, TypeOK
  <2>8. retry' \in [Ids -> SUBSET Specs]
    BY <1>5, <2>1 DEF Finish, Record, TypeOK
  <2> QED BY <1>0, <1>5, <2>2, <2>3, <2>4, <2>5, <2>6, <2>7, <2>8 DEF Around, Finish, TypeOK
<1>6. ASSUME NEW j \in Jobs, Answer(j) PROVE TypeOK'
  <2>1. pc' \in [Jobs -> Points]
    BY <1>6 DEF Answer, Go, Points, TypeOK
  <2>2. answer' \in [Jobs -> Terminal \cup {"none"}]
    BY <1>6 DEF Answer, TypeOK
  <2>3. unread' \in 0 .. Limit
    BY <1>6, LimitAssumption DEF Answer, TypeOK
  <2> QED BY <1>0, <1>6, <2>1, <2>2, <2>3 DEF Around, Answer, tables, TypeOK
<1> QED BY <1>1, <1>2, <1>3, <1>4, <1>5, <1>6, Steps
-----------------------------------------------------------------------------
(* The tables *)

\* There is no lock at first, and nobody to share it.
LEMMA LocksInit == Init => LocksShared
<1> SUFFICES ASSUME Init PROVE LocksShared
  OBVIOUS
<1>1. \A r : On(r) = {}
  BY DEF Init, On, Outstanding, Between
<1> QED BY <1>1, FS_EmptySet DEF LocksShared, Init

\* submit and finish keep the counts and the locks; other steps do not touch them.
LEMMA LocksNext ==
  ASSUME TypeOK, Numbered, LocksShared, [Next]_vars
  PROVE  LocksShared'
<1>1. CASE Aside
  <2>1. \A r : On(r)' = On(r)
    BY <1>1 DEF Aside, On, Outstanding
  <2>2. UNCHANGED <<repos, refs, lock>>
    BY <1>1 DEF Aside, tables
  <2> QED BY <2>1, <2>2 DEF LocksShared
<1>2. ASSUME NEW s \in Specs, Admit(s) PROVE LocksShared'
  <2> DEFINE n == admitted + 1
             l == IF repos[s.repo] = None THEN n ELSE repos[s.repo]
  <2>1. /\ n \in Jobs /\ n # None /\ s.repo \in Repos
        /\ n \notin On(s.repo) /\ On(s.repo)' = On(s.repo) \cup {n}
        /\ \A r \in Repos \ {s.repo} : On(r)' = On(r) /\ n \notin On(r)
    BY <1>2, AdmitAdds DEF On, Specs, Jobs, None
  <2>2. /\ refs'[s.repo] = refs[s.repo] + 1 /\ repos'[s.repo] = l
        /\ lock'[n] = l /\ \A k \in Jobs \ {n} : lock'[k] = lock[k]
        /\ \A r \in Repos \ {s.repo} : refs'[r] = refs[r] /\ repos'[r] = repos[r]
    BY <1>2, <2>1 DEF Admit, TypeOK
  <2>3. \A r \in Repos : On(r) \subseteq Jobs
    BY DEF On, Outstanding
  <2> HIDE DEF n
  <2>4. /\ refs[s.repo] = Cardinality(On(s.repo)) /\ (repos[s.repo] = None <=> On(s.repo) = {})
        /\ \A k \in On(s.repo) : lock[k] = repos[s.repo]
    BY <2>1 DEF LocksShared
  <2>5. refs'[s.repo] = Cardinality(On(s.repo)')
    <3>1. IsFiniteSet(On(s.repo))
      BY OutstandingFinite
    <3>2. Cardinality(On(s.repo) \cup {n}) = Cardinality(On(s.repo)) + 1
      BY <2>1, <3>1, FS_AddElement
    <3> QED BY <2>1, <2>2, <2>4, <3>2
  <2>6. repos'[s.repo] # None /\ On(s.repo)' # {}
    BY <2>1, <2>2
  <2>7. ASSUME NEW k \in On(s.repo)' PROVE lock'[k] = repos'[s.repo]
    <3>1. CASE k = n
      BY <2>2, <3>1
    <3>2. CASE k # n
      BY <2>1, <2>2, <2>3, <2>4, <3>2
    <3> QED BY <3>1, <3>2
  <2>8. ASSUME NEW r \in Repos \ {s.repo}
        PROVE  /\ refs'[r] = Cardinality(On(r)')
               /\ repos'[r] = None <=> On(r)' = {}
               /\ \A k \in On(r)' : lock'[k] = repos'[r]
    <3>1. /\ refs[r] = Cardinality(On(r)) /\ (repos[r] = None <=> On(r) = {})
          /\ \A k \in On(r) : lock[k] = repos[r]
      BY DEF LocksShared
    <3>2. \A k \in On(r) : lock'[k] = lock[k]
      BY <2>1, <2>2, <2>3
    <3> QED BY <2>1, <2>2, <3>1, <3>2
  <2> QED BY <2>5, <2>6, <2>7, <2>8 DEF LocksShared
<1>3. ASSUME NEW j \in Jobs, Start(j) \/ Advance(j) PROVE LocksShared'
  <2>1. UNCHANGED <<refs, repos, lock>>
    BY <1>3 DEF Start, Advance, TakeSlot, GiveUp, Lock, Unlock, Release, tables
  <2>2. \A r : On(r)' = On(r)
    BY <1>3, AdvanceKeeps
  <2> QED BY <2>1, <2>2 DEF LocksShared
<1>4. ASSUME NEW j \in Jobs, Finish(j) PROVE LocksShared'
  <2>1. PICK repo \in Repos : repo = spec[j].repo
    BY <1>4, FinishRemoves, Counted
  <2>2. j \in On(repo) /\ \A r : On(r)' = On(r) \ {j}
    BY <1>4, <2>1, FinishRemoves DEF On
  <2>3. /\ refs'[repo] = refs[repo] - 1 /\ lock' = lock
        /\ repos'[repo] = IF refs[repo] <= 1 THEN None ELSE repos[repo]
        /\ \A r \in Repos \ {repo} : refs'[r] = refs[r] /\ repos'[r] = repos[r]
    BY <1>4, <2>1 DEF Finish, DropReference, TypeOK
  <2>4. /\ refs[repo] = Cardinality(On(repo)) /\ refs[repo] \in Nat
        /\ \A k \in On(repo) : lock[k] = repos[repo]
        /\ (repos[repo] = None <=> On(repo) = {})
    BY OutstandingFinite DEF LocksShared
  <2>5. /\ IsFiniteSet(On(repo) \ {j}) /\ Cardinality(On(repo) \ {j}) = refs[repo] - 1
        /\ Cardinality(On(repo) \ {j}) \in Nat
    BY <2>2, <2>4, OutstandingFinite, FS_RemoveElement, FS_CardinalityType
  <2>6. refs'[repo] = Cardinality(On(repo)')
    BY <2>2, <2>3, <2>5
  <2>7. refs[repo] <= 1 <=> On(repo)' = {}
    BY <2>2, <2>4, <2>5, FS_EmptySet
  <2>8. /\ repos'[repo] = None <=> On(repo)' = {}
        /\ \A k \in On(repo)' : lock'[k] = repos'[repo]
    BY <2>2, <2>3, <2>4, <2>7
  <2>9. ASSUME NEW r \in Repos \ {repo}
        PROVE  /\ refs'[r] = Cardinality(On(r)')
               /\ repos'[r] = None <=> On(r)' = {}
               /\ \A k \in On(r)' : lock'[k] = repos'[r]
    <3>1. On(r)' = On(r)
      BY <2>1, <2>2 DEF On
    <3> QED BY <2>3, <3>1 DEF LocksShared
  <2> QED BY <2>6, <2>8, <2>9 DEF LocksShared
<1>5. ASSUME NEW j \in Jobs, Answer(j) PROVE LocksShared'
  <2>1. Outstanding' = Outstanding /\ spec' = spec /\ lock' = lock /\ UNCHANGED tables
    BY <1>5 DEF Answer, Go, Outstanding, Between, TypeOK
  <2> QED BY <2>1 DEF LocksShared, On, tables
<1> QED BY <1>1, <1>2, <1>3, <1>4, <1>5, Steps

\* The invariants about the jobs themselves, and what an identifier names.
JobsInv == Numbered /\ Outcomes /\ AnswersOwn /\ ActiveIsOutstanding /\ SnapshotTruthful

\* At first no job has a number, an outcome, a waiter or an entry in a table.
LEMMA JobsInit == Init => JobsInv
<1> SUFFICES ASSUME Init PROVE JobsInv
  OBVIOUS
<1>1. Outstanding = {}
  BY DEF Init, Outstanding, Between
<1> QED BY <1>1 DEF Init, JobsInv, Numbered, Outcomes, AnswersOwn, ActiveIsOutstanding,
                    SnapshotTruthful, Jobs

\* Jobs are numbered without gaps.
LEMMA NumberedNext ==
  ASSUME TypeOK, Numbered, [Next]_vars
  PROVE  Numbered'
<1>1. CASE Aside
  BY <1>1 DEF Aside, Numbered
<1>2. ASSUME NEW s \in Specs, Admit(s) PROVE Numbered'
  BY <1>2, AdmitAdds DEF Admit, Numbered, Jobs, TypeOK
<1>3. ASSUME NEW j \in Jobs, Start(j) \/ Advance(j) \/ Finish(j) \/ Answer(j)
      PROVE  Numbered'
  BY <1>3 DEF Start, Advance, TakeSlot, GiveUp, Lock, Unlock, Release, Finish, Answer, Go,
              Numbered, TypeOK
<1> QED BY <1>1, <1>2, <1>3, Steps

\* A job that has left work or given up has an outcome.
LEMMA OutcomesNext ==
  ASSUME TypeOK, Numbered, Outcomes, [Next]_vars
  PROVE  Outcomes'
<1> USE DEF Terminal, Unsuccessful
<1>1. CASE Aside
  BY <1>1 DEF Aside, Outcomes
<1>2. ASSUME NEW s \in Specs, Admit(s) PROVE Outcomes'
  BY <1>2, AdmitAdds DEF Admit, Outcomes
<1>3. ASSUME NEW j \in Jobs, Start(j) \/ Finish(j) \/ Answer(j) PROVE Outcomes'
  BY <1>3 DEF Start, Finish, Answer, Go, Outcomes, TypeOK
<1>4. ASSUME NEW j \in Jobs, Advance(j) PROVE Outcomes'
  <2>1. CASE TakeSlot(j) \/ Lock(j)
    BY <2>1 DEF TakeSlot, Lock, Go, Outcomes, TypeOK
  <2>2. CASE GiveUp(j)
    BY <2>2 DEF GiveUp, Go, Outcomes, TypeOK
  <2>3. CASE Unlock(j)
    BY <2>3 DEF Unlock, Go, Outcomes, TypeOK
  <2>4. CASE Release(j)
    BY <2>4 DEF Release, Go, Outcomes, TypeOK
  <2> QED BY <1>4, <2>1, <2>2, <2>3, <2>4 DEF Advance
<1> QED BY <1>1, <1>2, <1>3, <1>4, Steps
\* finish finds the waiter of its own job, and nobody else answers it.
LEMMA AnswersNext ==
  ASSUME TypeOK, Numbered, Outcomes, AnswersOwn, SnapshotTruthful, [Next]_vars
  PROVE  AnswersOwn'
<1>1. CASE Aside
  BY <1>1 DEF Aside, AnswersOwn
<1>2. ASSUME NEW s \in Specs, Admit(s) PROVE AnswersOwn'
  <2>1. /\ admitted + 1 \in Jobs /\ pc'[admitted + 1] = "started"
        /\ \A k \in Jobs \ {admitted + 1} : pc'[k] = pc[k]
        /\ UNCHANGED <<waiter, answer, outcome>>
    BY <1>2, AdmitAdds DEF Admit
  <2>2. pc[admitted + 1] = "new"
    BY <2>1 DEF Numbered, TypeOK
  <2> QED BY <2>1, <2>2 DEF AnswersOwn
<1>3. ASSUME NEW j \in Jobs, Start(j) \/ Advance(j) PROVE AnswersOwn'
  <2>1. UNCHANGED <<waiter, answer>> /\ \A k \in Jobs \ {j} : outcome'[k] = outcome[k]
    BY <1>3 DEF Start, Advance, TakeSlot, GiveUp, Lock, Unlock, Release, TypeOK
  <2> QED BY <1>3, <2>1, AdvanceKeeps DEF AnswersOwn, Between
<1>4. ASSUME NEW j \in Jobs, Finish(j) PROVE AnswersOwn'
  <2>1. active[spec[j].id] = j
    BY <1>4, FinishRemoves DEF SnapshotTruthful
  <2> QED BY <1>4, <2>1, FinishRemoves DEF Finish, Go, AnswersOwn, TypeOK
<1>5. ASSUME NEW j \in Jobs, Answer(j) PROVE AnswersOwn'
  <2>1. waiter[j] = j /\ j # None
    BY <1>5 DEF Answer, Go, AnswersOwn, Jobs, None
  <2> QED BY <1>5, <2>1 DEF Answer, Go, AnswersOwn, TypeOK
<1> QED BY <1>1, <1>2, <1>3, <1>4, <1>5, Steps

\* The tables name the outstanding jobs, and Snapshot shows them as live.
LEMMA ActiveNext ==
  ASSUME TypeOK, Numbered, LocksShared, ActiveIsOutstanding, SnapshotTruthful, Outcomes,
         [Next]_vars
  PROVE  ActiveIsOutstanding' /\ SnapshotTruthful'
<1>1. CASE Aside
  BY <1>1 DEF Aside, tables, ActiveIsOutstanding, SnapshotTruthful, Outstanding
<1>2. ASSUME NEW s \in Specs, Admit(s) PROVE ActiveIsOutstanding' /\ SnapshotTruthful'
  <2> DEFINE n == admitted + 1
  <2>1. /\ n \in Jobs /\ n # None /\ s.id \in Ids /\ n \notin Outstanding
        /\ Outstanding' = Outstanding \cup {n} /\ spec'[n] = s
        /\ \A k \in Jobs \ {n} : spec'[k] = spec[k]
    BY <1>2, AdmitAdds DEF Specs, Jobs, None
  <2>2. /\ active[s.id] = None /\ active'[s.id] = n /\ latest'[s.id] = "pending"
        /\ \A id \in Ids \ {s.id} : active'[id] = active[id] /\ latest'[id] = latest[id]
    BY <1>2, <2>1 DEF Admit, Admissible, TypeOK
  <2>3. Outstanding \subseteq Jobs /\ \A k \in Outstanding : spec[k].id \in Ids
    BY DEF Outstanding, TypeOK, Specs
  <2> HIDE DEF n
  <2>4. ActiveIsOutstanding'
    BY <2>1, <2>2, <2>3 DEF ActiveIsOutstanding
  <2>5. ASSUME NEW k \in Outstanding' PROVE active'[spec'[k].id] = k
    <3>1. CASE k = n
      BY <2>1, <2>2, <3>1
    <3>2. CASE k # n
      <4>1. k \in Outstanding /\ active[spec[k].id] = k /\ k # None
        BY <2>1, <3>2 DEF SnapshotTruthful, Outstanding, Jobs, None
      <4> QED BY <2>1, <2>2, <2>3, <3>2, <4>1
    <3> QED BY <3>1, <3>2
  <2>6. \A id \in Ids : active'[id] # None <=> latest'[id] \in {"pending", "running"}
    BY <2>1, <2>2 DEF SnapshotTruthful
  <2> QED BY <2>4, <2>5, <2>6 DEF SnapshotTruthful
<1>3. ASSUME NEW j \in Jobs, Start(j) PROVE ActiveIsOutstanding' /\ SnapshotTruthful'
  <2>1. Outstanding' = Outstanding /\ UNCHANGED <<active, spec>> /\ j \in Outstanding
    BY <1>3, AdvanceKeeps DEF Start, Outstanding
  <2>2. active[spec[j].id] = j /\ j # None
    BY <2>1 DEF SnapshotTruthful, Jobs, None
  <2>3. \A id \in Ids : latest'[id] = IF id = spec[j].id THEN "running" ELSE latest[id]
    BY <1>3 DEF Start, TypeOK
  <2> QED BY <2>1, <2>2, <2>3 DEF ActiveIsOutstanding, SnapshotTruthful
<1>4. ASSUME NEW j \in Jobs, Advance(j) PROVE ActiveIsOutstanding' /\ SnapshotTruthful'
  <2>1. Outstanding' = Outstanding
    BY <1>4, AdvanceKeeps
  <2>2. UNCHANGED <<active, latest, spec>>
    BY <1>4 DEF Advance, TakeSlot, GiveUp, Lock, Unlock, Release, tables
  <2> QED BY <2>1, <2>2 DEF ActiveIsOutstanding, SnapshotTruthful
<1>5. ASSUME NEW j \in Jobs, Finish(j) PROVE ActiveIsOutstanding' /\ SnapshotTruthful'
  <2>1. /\ j \in Outstanding /\ Outstanding' = Outstanding \ {j} /\ spec' = spec
        /\ spec[j].id \in Ids /\ active[spec[j].id] = j
    BY <1>5, FinishRemoves, Counted DEF Finish, SnapshotTruthful
  <2>2. \A id \in Ids : active'[id] = IF id = spec[j].id THEN None ELSE active[id]
    BY <1>5 DEF Finish, TypeOK
  <2>3. outcome[j] \in Terminal
    BY <1>5 DEF Finish, Go, Outcomes
  <2>4. ASSUME NEW id \in Ids
        PROVE  active'[id] # None <=> latest'[id] \in {"pending", "running"}
    <3>1. CASE id = spec[j].id
      <4>1. latest'[id] = "none" \/ latest'[id] = outcome[j]
        BY <1>5, <3>1 DEF Finish, Record
      <4> QED BY <2>2, <2>3, <3>1, <4>1 DEF Terminal, Unsuccessful
    <3>2. CASE id # spec[j].id /\ active[id] # None
      <4>1. latest'[id] = latest[id]
        BY <1>5, <3>2 DEF Finish, Record, ActiveIds
      <4> QED BY <2>2, <3>2, <4>1 DEF SnapshotTruthful
    <3>3. CASE id # spec[j].id /\ active[id] = None
      <4>1. latest'[id] = "none" \/ latest'[id] = latest[id]
        BY <1>5, <3>3 DEF Finish, Record
      <4> QED BY <2>2, <3>3, <4>1 DEF SnapshotTruthful
    <3> QED BY <3>1, <3>2, <3>3
  <2>5. \A k \in Outstanding' : active'[spec'[k].id] = k
    <3>1. ASSUME NEW k \in Outstanding, k # j PROVE active'[spec[k].id] = k
      <4>1. active[spec[k].id] = k /\ spec[k].id \in Ids
        BY DEF SnapshotTruthful, Outstanding, TypeOK, Specs
      <4> QED BY <2>1, <2>2, <3>1, <4>1
    <3> QED BY <2>1, <3>1
  <2>6. ActiveIsOutstanding'
    BY <2>1, <2>2 DEF ActiveIsOutstanding
  <2> QED BY <2>4, <2>5, <2>6 DEF SnapshotTruthful
<1>6. ASSUME NEW j \in Jobs, Answer(j) PROVE ActiveIsOutstanding' /\ SnapshotTruthful'
  <2>1. Outstanding' = Outstanding /\ UNCHANGED <<active, latest, spec>>
    BY <1>6 DEF Answer, Go, Outstanding, Between, TypeOK, tables
  <2> QED BY <2>1 DEF ActiveIsOutstanding, SnapshotTruthful
<1> QED BY <1>1, <1>2, <1>3, <1>4, <1>5, <1>6, Steps

\* Two jobs at work in one repository would have been given the same lock.
LEMMA OneJobNext ==
  ASSUME TypeOK, Numbered, LocksShared, OneJobPerRepository, [Next]_vars
  PROVE  OneJobPerRepository'
<1>1. CASE Aside
  BY <1>1 DEF Aside, OneJobPerRepository
<1>2. ASSUME NEW s \in Specs, Admit(s) PROVE OneJobPerRepository'
  BY <1>2, AdmitAdds DEF OneJobPerRepository
<1>3. ASSUME NEW j \in Jobs,
             Start(j) \/ TakeSlot(j) \/ GiveUp(j) \/ Unlock(j) \/ Release(j) \/ Finish(j)
               \/ Answer(j)
      PROVE  OneJobPerRepository'
  <2>1. spec' = spec /\ \A k \in Jobs : pc'[k] = "working" => pc[k] = "working"
    BY <1>3 DEF Start, TakeSlot, GiveUp, Unlock, Release, Finish, Answer, Go, TypeOK
  <2> QED BY <2>1 DEF OneJobPerRepository
<1>4. ASSUME NEW j \in Jobs, Lock(j) PROVE OneJobPerRepository'
  <2>1. /\ pc[j] = "locking" /\ spec' = spec
        /\ \A k \in Jobs : pc'[k] = "working" => k = j \/ pc[k] = "working"
    BY <1>4 DEF Lock, Go, TypeOK
  <2>2. ASSUME NEW k \in Jobs, pc[k] = "working" PROVE spec[k].repo # spec[j].repo
    <3>1. j \in Outstanding /\ k \in Outstanding
      BY <2>1, <2>2 DEF Outstanding, Between
    <3>2. CASE spec[k].repo = spec[j].repo
      <4>1. lock[k] = repos[spec[j].repo] /\ lock[j] = repos[spec[j].repo]
        BY <3>1, <3>2, Counted DEF LocksShared, On
      <4> QED BY <1>4, <2>2, <4>1 DEF Lock
    <3> QED BY <3>2
  <2> QED BY <2>1, <2>2 DEF OneJobPerRepository
<1> QED BY <1>1, <1>2, <1>3, <1>4, Steps DEF Advance
-----------------------------------------------------------------------------
(* Retention *)

\* The image of a finite set is no larger than the set.
LEMMA Image ==
  ASSUME NEW S, IsFiniteSet(S), NEW f, DOMAIN f = S, f = [x \in S |-> f[x]]
  PROVE  /\ IsFiniteSet({f[x] : x \in S})
         /\ Cardinality({f[x] : x \in S}) <= Cardinality(S)
<1>1. f \in Surjection(S, {f[x] : x \in S})
  BY DEF Surjection
<1> QED BY <1>1, FS_Surjection

\* What is kept under an identifier is named by the history or belongs to an active job.
RetainedNamed ==
  \A id \in Ids :
    latest[id] # "none" \/ retry[id] # {} =>
      active[id] # None \/ \E n \in 1 .. Len(history) : history[n].id = id

Retention ==
  /\ RetainedNamed
  /\ Len(history) <= HistoryLimit
  /\ Cardinality(ActiveIds) <= MaxOutstanding

\* The identifiers of outstanding jobs are finitely many, even if Ids is not.
LEMMA ActiveFinite ==
  ASSUME ActiveIsOutstanding
  PROVE  IsFiniteSet(ActiveIds) /\ Cardinality(ActiveIds) \in Nat
<1> DEFINE f == [j \in Jobs |-> spec[j].id]
<1>1. IsFiniteSet({f[j] : j \in Jobs})
  BY OutstandingFinite, Image
<1>2. ActiveIds \subseteq {f[j] : j \in Jobs}
  BY DEF ActiveIds, ActiveIsOutstanding, Outstanding
<1> HIDE DEF f
<1> QED BY <1>1, <1>2, FS_Subset, FS_CardinalityType

\* Nothing is retained at first.
LEMMA RetentionInit == Init => Retention
<1> SUFFICES ASSUME Init PROVE Retention
  OBVIOUS
<1>1. ActiveIds = {}
  BY DEF Init, ActiveIds
<1>2. Cardinality(ActiveIds) <= MaxOutstanding
  BY <1>1, FS_EmptySet, OutstandingAssumption
<1>3. Len(history) <= HistoryLimit
  BY HistoryAssumption DEF Init
<1>4. RetainedNamed
  BY DEF Init, RetainedNamed
<1> QED BY <1>2, <1>3, <1>4 DEF Retention

\* Pruning and the admission limit keep what is retained bounded.
LEMMA RetentionNext ==
  ASSUME TypeOK, Numbered, LocksShared, Outcomes, ActiveIsOutstanding, SnapshotTruthful,
         Retention, [Next]_vars
  PROVE  Retention'
<1>1. CASE Aside
  BY <1>1 DEF Aside, tables, Retention, RetainedNamed, ActiveIds
<1>2. ASSUME NEW s \in Specs, Admit(s) PROVE Retention'
  <2>1. /\ s.id \in Ids /\ active[s.id] = None /\ admitted + 1 # None
        /\ Cardinality(ActiveIds) < MaxOutstanding /\ history' = history
        /\ active'[s.id] = admitted + 1
        /\ \A id \in Ids \ {s.id} : /\ active'[id] = active[id] /\ latest'[id] = latest[id]
                                    /\ retry'[id] = retry[id]
    BY <1>2, AdmitAdds DEF Admit, Admissible, TypeOK, Specs, None, Jobs
  <2>2. ActiveIds' = ActiveIds \cup {s.id} /\ s.id \notin ActiveIds
    BY <2>1 DEF ActiveIds
  <2>3. Cardinality(ActiveIds') = Cardinality(ActiveIds) + 1
    BY <2>2, ActiveFinite, FS_AddElement
  <2>4. Cardinality(ActiveIds') <= MaxOutstanding
    BY <2>1, <2>3, ActiveFinite, OutstandingAssumption
  <2>5. RetainedNamed'
    BY <2>1 DEF Retention, RetainedNamed
  <2> QED BY <2>1, <2>4, <2>5 DEF Retention
<1>3. ASSUME NEW j \in Jobs, Start(j) PROVE Retention'
  <2>1. UNCHANGED <<active, retry, history>> /\ ActiveIds' = ActiveIds
    BY <1>3 DEF Start, ActiveIds
  <2>2. /\ active[spec[j].id] = j /\ j # None
        /\ \A id \in Ids \ {spec[j].id} : latest'[id] = latest[id]
    <3>1. j \in Outstanding /\ j # None
      BY <1>3, AdvanceKeeps DEF Outstanding, Jobs, None
    <3>2. \A id \in Ids \ {spec[j].id} : latest'[id] = latest[id]
      BY <1>3 DEF Start, TypeOK
    <3> QED BY <3>1, <3>2 DEF SnapshotTruthful
  <2> QED BY <2>1, <2>2 DEF Retention, RetainedNamed
<1>4. ASSUME NEW j \in Jobs, Advance(j) \/ Answer(j) PROVE Retention'
  <2>1. UNCHANGED tables
    BY <1>4 DEF Advance, TakeSlot, GiveUp, Lock, Unlock, Release, Answer
  <2> QED BY <2>1 DEF tables, Retention, RetainedNamed, ActiveIds
<1>5. ASSUME NEW j \in Jobs, Finish(j) PROVE Retention'
  <2>1. spec[j].id \in Ids /\ outcome[j] \in Terminal
    BY <1>5, FinishRemoves, Counted DEF Finish, Go, Outcomes
  <2>2. Len(history') <= HistoryLimit
    <3>1. [id |-> spec[j].id, state |-> outcome[j]] \in Entries /\ history \in Seq(Entries)
      BY <2>1 DEF Entries, TypeOK
    <3> QED BY <1>5, <3>1, KeptHistory DEF Finish, Record
  <2>3. ActiveIds' = ActiveIds \ {spec[j].id}
    BY <1>5, <2>1 DEF Finish, ActiveIds, TypeOK
  <2>4. Cardinality(ActiveIds') <= MaxOutstanding
    <3>1. Cardinality(ActiveIds') <= Cardinality(ActiveIds) /\ Cardinality(ActiveIds') \in Nat
      BY <2>3, ActiveFinite, FS_Subset, FS_CardinalityType
    <3> QED BY <3>1, ActiveFinite, OutstandingAssumption DEF Retention
  <2>5. ASSUME NEW id \in Ids, latest'[id] # "none" \/ retry'[id] # {}
        PROVE  active'[id] # None \/ \E n \in 1 .. Len(history') : history'[n].id = id
    <3>1. \/ id \in {history'[n].id : n \in 1 .. Len(history')}
          \/ id \in ActiveIds \ {spec[j].id}
      BY <1>5, <2>5 DEF Finish, Record
    <3> QED BY <2>3, <3>1 DEF ActiveIds
  <2>6. RetainedNamed'
    BY <2>5 DEF RetainedNamed
  <2> QED BY <2>2, <2>4, <2>6 DEF Retention
<1> QED BY <1>1, <1>2, <1>3, <1>4, <1>5, Steps

\* What is retained is counted by the history and the active jobs.
LEMMA RetentionCounts ==
  ASSUME TypeOK, ActiveIsOutstanding, Retention
  PROVE  RetentionBounded
<1> DEFINE kept == {id \in Ids : latest[id] # "none"} \cup {id \in Ids : retry[id] # {}}
           f == [n \in 1 .. Len(history) |-> history[n].id]
           named == {f[n] : n \in 1 .. Len(history)}
<1>1. Len(history) \in Nat /\ IsFiniteSet(1 .. Len(history))
      /\ Cardinality(1 .. Len(history)) = Len(history)
  <2>1. Len(history) \in Nat
    BY LenProperties DEF TypeOK
  <2>2. PICK k \in Nat : k = Len(history)
    BY <2>1
  <2>3. IsFiniteSet(1 .. k) /\ Cardinality(1 .. k) = k
    BY FS_Interval
  <2> QED BY <2>1, <2>2, <2>3
<1>2. IsFiniteSet(named) /\ Cardinality(named) <= Len(history) /\ Cardinality(named) \in Nat
  <2>1. DOMAIN f = 1 .. Len(history)
    BY Zenon
  <2>2. f = [n \in 1 .. Len(history) |-> f[n]]
    BY Zenon
  <2> HIDE DEF f
  <2>3. IsFiniteSet(named) /\ Cardinality(named) <= Len(history)
    BY <1>1, <2>1, <2>2, Image
  <2> QED BY <2>3, FS_CardinalityType
<1>3. kept \subseteq named \cup ActiveIds
  BY DEF Retention, RetainedNamed, ActiveIds
<1> HIDE DEF kept, named
<1>4. /\ IsFiniteSet(named \cup ActiveIds) /\ Cardinality(named \cap ActiveIds) \in Nat
      /\ Cardinality(named \cup ActiveIds)
           = Cardinality(named) + Cardinality(ActiveIds) - Cardinality(named \cap ActiveIds)
  BY <1>2, ActiveFinite, FS_Union, FS_Intersection, FS_CardinalityType
<1>5. Cardinality(kept) <= Cardinality(named \cup ActiveIds) /\ Cardinality(kept) \in Nat
  BY <1>3, <1>4, FS_Subset, FS_CardinalityType
<1>6. Cardinality(kept) <= HistoryLimit + Cardinality(ActiveIds)
  BY <1>1, <1>2, <1>4, <1>5, ActiveFinite, HistoryAssumption DEF Retention
<1> QED BY <1>6 DEF kept, RetentionBounded, Retention
-----------------------------------------------------------------------------
(* Workers *)

\* No more jobs hold a worker than there are.
SlotsBounded == Cardinality(SlotHolders) <= Limit

\* The jobs that hold a worker can be counted.
LEMMA SlotsFinite == IsFiniteSet(SlotHolders) /\ Cardinality(SlotHolders) \in Nat
<1>1. SlotHolders \subseteq Jobs
  BY DEF SlotHolders
<1> QED BY <1>1, OutstandingFinite, FS_Subset, FS_CardinalityType

\* No job holds a worker at first.
LEMMA SlotsInit == Init => SlotsBounded
<1> SUFFICES ASSUME Init PROVE SlotsBounded
  OBVIOUS
<1>1. SlotHolders = {}
  BY DEF Init, SlotHolders
<1> QED BY <1>1, FS_EmptySet, LimitAssumption DEF SlotsBounded

\* A job takes a worker only if one is free.
LEMMA SlotsNext ==
  ASSUME TypeOK, Numbered, SlotsBounded, [Next]_vars
  PROVE  SlotsBounded'
<1>1. ASSUME SlotHolders' \subseteq SlotHolders PROVE SlotsBounded'
  <2>1. Cardinality(SlotHolders') <= Cardinality(SlotHolders) /\ Cardinality(SlotHolders') \in Nat
    BY <1>1, SlotsFinite, FS_Subset, FS_CardinalityType
  <2> QED BY <2>1, SlotsFinite, LimitAssumption DEF SlotsBounded
<1>2. CASE Aside
  BY <1>1, <1>2 DEF Aside, SlotHolders
<1>3. ASSUME NEW s \in Specs, Admit(s) PROVE SlotsBounded'
  <2>1. SlotHolders' \subseteq SlotHolders
    BY <1>3, AdmitAdds DEF SlotHolders
  <2> QED BY <1>1, <2>1
<1>4. ASSUME NEW j \in Jobs,
             Start(j) \/ GiveUp(j) \/ Lock(j) \/ Unlock(j) \/ Release(j) \/ Finish(j) \/ Answer(j)
      PROVE  SlotsBounded'
  <2>1. SlotHolders' \subseteq SlotHolders
    BY <1>4 DEF Start, GiveUp, Lock, Unlock, Release, Finish, Answer, Go, SlotHolders, TypeOK
  <2> QED BY <1>1, <2>1
<1>5. ASSUME NEW j \in Jobs, TakeSlot(j) PROVE SlotsBounded'
  <2>1. SlotHolders' = SlotHolders \cup {j} /\ Cardinality(SlotHolders) < Limit
    BY <1>5 DEF TakeSlot, Go, SlotHolders, TypeOK
  <2>2. \/ Cardinality(SlotHolders \cup {j}) = Cardinality(SlotHolders) + 1
        \/ Cardinality(SlotHolders \cup {j}) = Cardinality(SlotHolders)
    BY SlotsFinite, FS_AddElement
  <2> QED BY <2>1, <2>2, SlotsFinite, LimitAssumption DEF SlotsBounded
<1> QED BY <1>2, <1>3, <1>4, <1>5, Steps DEF Advance

-----------------------------------------------------------------------------
(* The inductive invariant and the theorems *)

Inv == /\ TypeOK /\ LocksShared /\ JobsInv /\ OneJobPerRepository /\ Retention /\ SlotsBounded

\* The inductive invariant holds at first.
LEMMA InvInit == Init => Inv
<1>1. Init => OneJobPerRepository
  BY DEF Init, OneJobPerRepository
<1> QED BY <1>1, TypeInit, LocksInit, JobsInit, RetentionInit, SlotsInit DEF Inv

\* The inductive invariant survives every step.
LEMMA InvNext == Inv /\ [Next]_vars => Inv'
<1> SUFFICES ASSUME Inv, [Next]_vars PROVE Inv'
  OBVIOUS
<1>1. TypeOK' /\ LocksShared' /\ OneJobPerRepository' /\ Retention' /\ SlotsBounded'
  BY TypeNext, LocksNext, OneJobNext, RetentionNext, SlotsNext DEF Inv, JobsInv
<1>2. JobsInv'
  BY NumberedNext, OutcomesNext, AnswersNext, ActiveNext DEF Inv, JobsInv
<1> QED BY <1>1, <1>2 DEF Inv

\* The inductive invariant: types, shared locks, jobs and tables that agree, one job in
\* a repository, bounded retention and bounded workers.
THEOREM Invariance == Spec => []Inv
BY InvInit, InvNext, PTL DEF Spec

\* Every table and every goroutine of the engine keeps its type; that a reference count
\* never drops below zero is part of it.
THEOREM TypeCorrect == Spec => []TypeOK
<1>1. Inv => TypeOK
  BY DEF Inv
<1> QED BY <1>1, Invariance, PTL

\* engine.go: repoLock.  Two jobs never work in one repository at the same time, for any
\* number of workers, although finish deletes the lock and submit makes another.
THEOREM OneJobAlways == Spec => []OneJobPerRepository
<1>1. Inv => OneJobPerRepository
  BY DEF Inv
<1> QED BY <1>1, Invariance, PTL

\* engine.go: repoRefs.  The count of a repository is the number of its outstanding jobs,
\* and they share one lock.
THEOREM LocksAlwaysShared == Spec => []LocksShared
<1>1. Inv => LocksShared
  BY DEF Inv
<1> QED BY <1>1, Invariance, PTL

\* engine.go: active, latest.  What Snapshot and Cancel find under an identifier is the
\* outstanding job of that identifier.
THEOREM SnapshotAlwaysTruthful == Spec => []SnapshotTruthful
<1>1. Inv => SnapshotTruthful
  BY DEF Inv, JobsInv
<1> QED BY <1>1, Invariance, PTL

\* engine.go: pruneRetainedLocked and the admission limit.  What the engine keeps is
\* bounded by its history and its outstanding jobs.
THEOREM RetentionAlwaysBounded == Spec => []RetentionBounded
<1>1. Inv => RetentionBounded
  BY RetentionCounts DEF Inv, JobsInv
<1> QED BY <1>1, Invariance, PTL

\* engine.go: finish.  The result of a job goes to the caller that submitted it, once,
\* even if its identifier was submitted again in between.
THEOREM AnsweredAtMostOnce == Spec => AnsweredOnce
<1> DEFINE Once == \A j \in Jobs : answer'[j] # answer[j] =>
                     answer[j] = "none" /\ pc[j] = "answering" /\ answer'[j] = outcome[j]
<1>1. ASSUME Inv, [Next]_vars PROVE [Once]_vars
  <2>1. AnswersOwn /\ TypeOK
    BY <1>1 DEF Inv, JobsInv
  <2>2. CASE Aside
    BY <2>2 DEF Aside
  <2>3. ASSUME NEW s \in Specs, Admit(s) PROVE Once
    BY <2>3 DEF Admit
  <2>4. ASSUME NEW j \in Jobs, Start(j) \/ Advance(j) \/ Finish(j) PROVE Once
    BY <2>4 DEF Start, Advance, TakeSlot, GiveUp, Lock, Unlock, Release, Finish
  <2>5. ASSUME NEW j \in Jobs, Answer(j) PROVE Once
    <3>1. waiter[j] = j /\ j # None /\ answer[j] = "none" /\ pc[j] = "answering"
      BY <2>1, <2>5 DEF AnswersOwn, Answer, Go, Jobs, None
    <3> QED BY <2>1, <2>5, <3>1 DEF Answer, TypeOK
  <2> QED BY <1>1, <2>1, <2>2, <2>3, <2>4, <2>5, Steps
<1> QED BY <1>1, Invariance, PTL DEF Spec, AnsweredOnce
-----------------------------------------------------------------------------
(* The engine serves its jobs as the abstract executor does. *)

StageOf(j) ==
  CASE pc[j] \in {"started", "queued", "locking"} -> "waiting"
    [] pc[j] \in {"releasing", "finishing", "answering"} -> "done"
    [] pc[j] = "over" -> IF answer[j] = "none" THEN "done" ELSE "answered"
    [] OTHER -> pc[j]
Stage == [j \in Jobs |-> StageOf(j)]
Place == [j \in Jobs |-> spec[j].repo]

\* The executor's state, written with the stage and the place of each job.
LEMMA ExecutorUnfolded ==
  /\ Executor!Init <=> Stage = [j \in Jobs |-> "new"]
  /\ Executor!vars = <<Stage, Place>>
  /\ Executor!Working = {j \in Jobs : Stage[j] = "working"}
BY DEF Executor!Init, Executor!vars, Executor!Working, Stage, StageOf, Place

\* A step that moves one job of the executor.
Moves(j, from, to) ==
  StageOf(j) = from /\ StageOf(j)' = to /\ \A k \in Jobs \ {j} : StageOf(k)' = StageOf(k)

\* Moving one job in the engine is a Move of the executor.
LEMMA MovesStage ==
  ASSUME NEW j \in Jobs, NEW from, NEW to, Moves(j, from, to)
  PROVE  Executor!Move(j, from, to)
<1>1. Stage[j] = from /\ Stage' = [Stage EXCEPT ![j] = to]
  BY DEF Moves, Stage
<1> QED BY <1>1 DEF Executor!Move, Stage, StageOf

\* A step that moves no job and no repository is a stutter of the executor.
LEMMA ExecutorStutters ==
  ASSUME spec' = spec, \A k \in Jobs : StageOf(k)' = StageOf(k)
  PROVE  UNCHANGED Executor!vars
<1>1. Stage' = Stage
  BY DEF Stage
<1>2. Place' = Place
  BY DEF Place
<1>3. Executor!vars = <<Stage, Place>>
  BY ExecutorUnfolded
<1>4. (Executor!vars)' = <<Stage', Place'>>
  BY DEF Executor!vars, Stage, StageOf, Place
<1> HIDE DEF Stage, Place
<1> QED BY <1>1, <1>2, <1>3, <1>4

\* An admission is the executor's Submit of the job it numbers.
LEMMA ExecutorSubmits ==
  ASSUME NEW n \in Jobs, pc[n] = "new", pc'[n] = "started", answer' = answer,
         \A k \in Jobs \ {n} : pc'[k] = pc[k] /\ spec'[k] = spec[k]
  PROVE  Executor!Submit(n)
<1>1. StageOf(n) = "new" /\ StageOf(n)' = "waiting"
  BY DEF StageOf
<1>2. \A k \in Jobs \ {n} : StageOf(k)' = StageOf(k)
  BY DEF StageOf
<1>3. Executor!Move(n, "new", "waiting")
  BY <1>1, <1>2, MovesStage DEF Moves
<1>4. \A k \in Jobs \ {n} : [j \in Jobs |-> spec[j].repo]'[k] = [j \in Jobs |-> spec[j].repo][k]
  OBVIOUS
<1> QED BY <1>3, <1>4 DEF Executor!Submit

\* The executor lets a job work when it waits, a worker is free and no job of its
\* repository works.
LEMMA ExecutorWorks ==
  ASSUME NEW j \in Jobs, Executor!Move(j, "waiting", "working"), spec' = spec,
         Executor!Working = {k \in Jobs : pc[k] = "working"},
         Cardinality(Executor!Working) < Limit,
         \A k \in Jobs : pc[k] = "working" => spec[k].repo # spec[j].repo
  PROVE  Executor!Work(j)
<1>1. [i \in Jobs |-> spec[i].repo]' = [i \in Jobs |-> spec[i].repo]
  OBVIOUS
<1>2. \A k \in Executor!Working :
        [i \in Jobs |-> spec[i].repo][k] # [i \in Jobs |-> spec[i].repo][j]
  OBVIOUS
<1>3. Executor!Cardinality(Executor!Working) = Cardinality(Executor!Working)
  BY DEF Executor!Cardinality, Cardinality
<1>4. Executor!Cardinality(Executor!Working) < Limit
  BY <1>3
<1> QED BY <1>1, <1>2, <1>4 DEF Executor!Work

\* Every step of the engine is a step of the executor or a stutter.
LEMMA ExecutorStep ==
  ASSUME Inv, [Next]_vars
  PROVE  [Executor!Next]_(Executor!vars)
<1> USE DEF Executor!Next
<1>0. TypeOK
  BY DEF Inv
<1>1. ASSUME UNCHANGED spec, \A k \in Jobs : StageOf(k)' = StageOf(k)
      PROVE  UNCHANGED Executor!vars
  BY <1>1, ExecutorStutters
<1>2. CASE Aside
  <2>1. \A k \in Jobs : StageOf(k)' = StageOf(k)
    BY <1>2 DEF Aside, StageOf
  <2> QED BY <1>1, <1>2, <2>1 DEF Aside
<1>3. ASSUME NEW s \in Specs, Admit(s) PROVE Executor!Next
  <2>1. /\ admitted + 1 \in Jobs /\ pc'[admitted + 1] = "started"
        /\ \A k \in Jobs \ {admitted + 1} : pc'[k] = pc[k] /\ spec'[k] = spec[k]
    BY <1>3, AdmitAdds DEF Inv, JobsInv
  <2>2. pc[admitted + 1] = "new"
    BY <1>0, <1>3, <2>1 DEF Inv, JobsInv, Numbered, TypeOK
  <2>3. answer' = answer
    BY <1>3 DEF Admit
  <2>4. PICK n \in Jobs : n = admitted + 1
    BY <2>1
  <2>5. Executor!Submit(n)
    BY <2>1, <2>2, <2>3, <2>4, ExecutorSubmits
  <2> QED BY <2>5
<1>4. ASSUME NEW j \in Jobs, Start(j) \/ TakeSlot(j) \/ Release(j) \/ Finish(j)
      PROVE  UNCHANGED Executor!vars
  <2>1. /\ spec' = spec /\ answer' = answer
        /\ \A k \in Jobs \ {j} : pc'[k] = pc[k]
        /\ \/ pc[j] \in {"started", "queued"} /\ pc'[j] \in {"queued", "locking"}
           \/ pc[j] \in {"releasing", "finishing"} /\ pc'[j] \in {"finishing", "answering"}
    BY <1>0, <1>4 DEF Start, TakeSlot, Release, Finish, Go, TypeOK
  <2>2. \A k \in Jobs : StageOf(k)' = StageOf(k)
    BY <2>1 DEF StageOf
  <2> QED BY <1>1, <2>1, <2>2
<1>5. ASSUME NEW j \in Jobs, GiveUp(j) PROVE Executor!Next
  <2>1. Moves(j, "waiting", "done") /\ Place' = Place
    BY <1>0, <1>5 DEF GiveUp, Go, Moves, StageOf, Place, TypeOK
  <2>2. Executor!GiveUp(j)
    BY <2>1, MovesStage DEF Executor!GiveUp, Place
  <2> QED BY <2>2
<1>6. ASSUME NEW j \in Jobs, Unlock(j) PROVE Executor!Next
  <2>1. Moves(j, "working", "done") /\ Place' = Place
    BY <1>0, <1>6 DEF Unlock, Go, Moves, StageOf, Place, TypeOK
  <2>2. Executor!Return(j)
    BY <2>1, MovesStage DEF Executor!Return, Place
  <2> QED BY <2>2
<1>7. ASSUME NEW j \in Jobs, Lock(j) PROVE Executor!Next
  <2>1. Moves(j, "waiting", "working") /\ Place' = Place
    BY <1>0, <1>7 DEF Lock, Go, Moves, StageOf, Place, TypeOK
  <2>2. Executor!Working = {k \in Jobs : pc[k] = "working"}
    BY <1>0, ExecutorUnfolded DEF Stage, StageOf, TypeOK, Points, Between
  <2>3. Cardinality(Executor!Working) < Limit
    <3>1. j \in SlotHolders /\ Executor!Working \subseteq SlotHolders \ {j}
      BY <1>7, <2>2 DEF Lock, Go, SlotHolders
    <3>2. /\ IsFiniteSet(SlotHolders \ {j})
          /\ Cardinality(SlotHolders \ {j}) = Cardinality(SlotHolders) - 1
      BY <3>1, SlotsFinite, FS_RemoveElement
    <3>3. Cardinality(Executor!Working) <= Cardinality(SlotHolders \ {j})
      BY <3>1, <3>2, FS_Subset
    <3>4. Cardinality(Executor!Working) \in Nat
      BY <3>1, <3>2, FS_Subset, FS_CardinalityType
    <3> QED BY <3>2, <3>3, <3>4, SlotsFinite, LimitAssumption DEF Inv, SlotsBounded
  <2>4. ASSUME NEW k \in Jobs, pc[k] = "working" PROVE spec[k].repo # spec[j].repo
    <3>1. j \in Outstanding /\ k \in Outstanding
      BY <1>7, <2>4 DEF Lock, Go, Outstanding, Between
    <3>2. CASE spec[k].repo = spec[j].repo
      <4>1. lock[k] = repos[spec[j].repo] /\ lock[j] = repos[spec[j].repo]
        BY <3>1, <3>2, Counted DEF LocksShared, On, Inv
      <4> QED BY <1>7, <2>4, <4>1 DEF Lock
    <3> QED BY <3>2
  <2>5. spec' = spec /\ Executor!Move(j, "waiting", "working")
    BY <1>7, <2>1, MovesStage DEF Lock
  <2>6. Executor!Work(j)
    BY <2>2, <2>3, <2>4, <2>5, ExecutorWorks
  <2> QED BY <2>6
<1>8. ASSUME NEW j \in Jobs, Answer(j) PROVE Executor!Next
  <2>1. /\ pc[j] = "answering" /\ pc'[j] = "over" /\ waiter[j] = j /\ j # None
        /\ outcome[j] \in Terminal
        /\ \A k \in Jobs \ {j} : pc'[k] = pc[k]
    BY <1>0, <1>8 DEF Answer, Go, Inv, JobsInv, AnswersOwn, Outcomes, Jobs, None, TypeOK
  <2>2. answer'[j] # "none" /\ \A k \in Jobs \ {j} : answer'[k] = answer[k]
    BY <1>0, <1>8, <2>1 DEF Answer, Terminal, Unsuccessful, TypeOK
  <2>3. Moves(j, "done", "answered")
    BY <2>1, <2>2 DEF Moves, StageOf
  <2>4. Place' = Place
    BY <1>8 DEF Answer, Place
  <2>5. Executor!Answer(j)
    BY <2>3, <2>4, MovesStage DEF Executor!Answer, Place
  <2> QED BY <2>5
<1> QED BY <1>0, <1>2, <1>3, <1>4, <1>5, <1>6, <1>7, <1>8, Steps DEF Advance

\* The engine implements SerialExecutor: whatever tables and channels it is made of, its
\* jobs wait, work one at a time in a repository and at most Limit at once, and are
\* answered.
THEOREM ServesAsExecutor == Spec => ServesSerially
<1>1. Init => Executor!Init
  BY ExecutorUnfolded DEF Init, Stage, StageOf
<1>2. ASSUME Inv, [Next]_vars PROVE [Executor!Next]_(Executor!vars)
  BY <1>2, ExecutorStep
<1> QED BY <1>1, <1>2, Invariance, PTL DEF Spec, ServesSerially, Executor!Spec
=============================================================================
