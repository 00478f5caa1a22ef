------------------------ MODULE WatchManager_proofs ------------------------
(***************************************************************************)
(* Proofs about the watch manager, for any directories, any capacities of  *)
(* its channels and of the kernel's queue, and any number of changes.      *)
(***************************************************************************)
EXTENDS WatchManager, SequenceTheorems, TLAPS

-----------------------------------------------------------------------------
(* The types.                                                              *)

QueueType == queue \in Seq(NativeEvents) /\ Len(queue) <= QueueCap /\ overflow \in BOOLEAN

LEMMA Truncated ==
  ASSUME QueueType, NEW seq \in Seq(NativeEvents), Len(queue \o seq) > QueueCap
  PROVE  /\ SubSeq(queue \o seq, 1, QueueCap) \in Seq(NativeEvents)
         /\ Len(SubSeq(queue \o seq, 1, QueueCap)) <= QueueCap
<1>1. queue \o seq \in Seq(NativeEvents)
  BY ConcatProperties DEF QueueType
<1>2. QueueCap \in 1 .. Len(queue \o seq) + 1
  BY <1>1, CapsAssumption, LenProperties
<1> QED BY <1>1, <1>2, CapsAssumption, SubSeqProperties

LEMMA ReportKeepsTypes ==
  ASSUME TypeOK, NEW watched \in BOOLEAN, NEW seq \in Seq(NativeEvents), Report(watched, seq),
         present' \subseteq Dirs, native' \subseteq Dirs
  PROVE  TypeOK'
<1>1. QueueType
  BY DEF TypeOK, QueueType
<1>2. QueueType'
  <2>1. CASE Deaf
    BY <1>1, <2>1 DEF Deaf, QueueType
  <2>2. CASE Reports(seq)
    <3>1. CASE Len(queue \o seq) <= QueueCap
      BY <1>1, <2>2, <3>1, ConcatProperties DEF Reports, QueueType
    <3>2. CASE ~(Len(queue \o seq) <= QueueCap)
      <4>1. Len(queue \o seq) > QueueCap
        <5>1. Len(queue \o seq) \in Nat
          BY <1>1, ConcatProperties, LenProperties DEF QueueType
        <5> QED BY <3>2, <5>1, CapsAssumption
      <4> QED BY <1>1, <2>2, <3>2, <4>1, Truncated DEF Reports, QueueType
    <3> QED BY <3>1, <3>2
  <2> QED BY <2>1, <2>2 DEF Report
<1>3. noticed' \in BOOLEAN /\ changes' \in 0 .. MaxChanges /\ changed' \in BOOLEAN
  <2>1. changes' \in 0 .. MaxChanges
    <3>1. changes \in 0 .. MaxChanges /\ changes < MaxChanges /\ changes' = changes + 1
      BY DEF Report, TypeOK
    <3> QED BY <3>1, CapsAssumption
  <2>2. noticed' = noticed \/ noticed' = TRUE
    BY DEF Report, Reports, Deaf
  <2> QED BY <2>1, <2>2 DEF Report, TypeOK
<1>4. UNCHANGED <<known, fsClosed, source, adding, failure, pending, armed, out, phase, held,
                  events, cancelled, closer>>
  BY DEF Report, sourceVars, debounce, manager
<1> QED BY <1>2, <1>3, <1>4, CapsAssumption DEF TypeOK, QueueType, Sending, Interruptible, Emitting

LEMMA OneNotice ==
  ASSUME NEW kind \in {"write", "create", "remove", "chmod"}, NEW d \in Dirs
  PROVE  Notice(kind, d) \in NativeEvents
BY DEF Notice, NativeEvents

LEMMA ChangeKeepsTypes ==
  ASSUME TypeOK, Change
  PROVE  TypeOK'
<1>1. PICK d \in Dirs : \/ WriteIn(d) \/ MakeDirectory(d) \/ RemoveDirectory(d)
                        \/ ReplaceMetadata(d) \/ ReadMetadata(d)
  BY DEF Change
<1>2. Root \in Dirs /\ present \subseteq Dirs /\ native \subseteq Dirs
  BY DEF Dirs, TypeOK
<1>3. CASE WriteIn(d)
  <2>1. <<Notice("write", Root)>> \in Seq(NativeEvents)
    BY <1>2, OneNotice
  <2>2. TypeOK /\ Report(d \in native, <<Notice("write", Root)>>) /\ UNCHANGED <<present, native>>
    BY <1>3 DEF WriteIn
  <2>3. (d \in native) \in BOOLEAN /\ present' \subseteq Dirs /\ native' \subseteq Dirs
    BY <1>2, <2>2
  <2> QED BY <2>1, <2>2, <2>3, ReportKeepsTypes
<1>4. CASE MakeDirectory(d)
  <2>1. <<Notice("create", d)>> \in Seq(NativeEvents)
    BY OneNotice
  <2>2. Report(Root \in native, <<Notice("create", d)>>)
    BY <1>4 DEF MakeDirectory
  <2>3. (Root \in native) \in BOOLEAN /\ present' \subseteq Dirs /\ native' \subseteq Dirs
    BY <1>2, <1>4 DEF MakeDirectory
  <2> QED BY <2>1, <2>2, <2>3, ReportKeepsTypes
<1>5. CASE RemoveDirectory(d)
  <2>1. <<Notice("remove", d)>> \in Seq(NativeEvents)
    BY OneNotice
  <2>2. Report(Root \in native, <<Notice("remove", d)>>)
    BY <1>5 DEF RemoveDirectory
  <2>3. (Root \in native) \in BOOLEAN /\ present' \subseteq Dirs /\ native' \subseteq Dirs
    BY <1>2, <1>5 DEF RemoveDirectory
  <2> QED BY <2>1, <2>2, <2>3, ReportKeepsTypes
<1>6. CASE ReplaceMetadata(d)
  <2>1. <<Notice("remove", d), Notice("create", d)>> \in Seq(NativeEvents)
    BY OneNotice
  <2>2. Report(Root \in native, <<Notice("remove", d), Notice("create", d)>>)
    BY <1>6 DEF ReplaceMetadata
  <2>3. (Root \in native) \in BOOLEAN /\ present' \subseteq Dirs /\ native' \subseteq Dirs
    BY <1>2, <1>6 DEF ReplaceMetadata
  <2> QED BY <2>1, <2>2, <2>3, ReportKeepsTypes
<1>7. CASE ReadMetadata(d)
  <2>1. Notice("chmod", Root) \in NativeEvents
    BY <1>2, OneNotice
  <2>2. queue' \in Seq(NativeEvents) /\ Len(queue') <= QueueCap
    BY <1>7, <2>1, CapsAssumption, AppendProperties DEF ReadMetadata, TypeOK
  <2>3. changes' \in 0 .. MaxChanges
    BY <1>7, CapsAssumption DEF ReadMetadata, TypeOK
  <2> QED BY <1>7, <2>2, <2>3 DEF ReadMetadata, TypeOK, directories, sourceVars, debounce, manager
<1> QED BY <1>1, <1>3, <1>4, <1>5, <1>6, <1>7

LEMMA TakeKeepsTypes ==
  ASSUME TypeOK, Take
  PROVE  queue' \in Seq(NativeEvents) /\ Len(queue') <= QueueCap /\ Head(queue) \in NativeEvents
BY CapsAssumption, HeadTailProperties DEF Take, TypeOK

LEMMA SourceKeepsTypes ==
  ASSUME TypeOK, Source
  PROVE  TypeOK'
<1> USE DEF TypeOK, sourceVars, sourceElse, debounce, manager, world, kernel
<1>1. CASE IgnoreChmod
  BY <1>1, TakeKeepsTypes DEF IgnoreChmod
<1>2. CASE Observe
  <2>1. Head(queue).dir \in Dirs
    BY <1>2, TakeKeepsTypes DEF Observe, NativeEvents
  <2>2. known' \subseteq Dirs /\ armed' \in BOOLEAN /\ pending' \in BOOLEAN
        /\ source' \in {"add", "select"} /\ adding' \in Dirs
    BY <1>2, <2>1 DEF Observe, Arm
  <2> QED BY <1>2, <2>2, TakeKeepsTypes DEF Observe
<1>3. CASE AddCreated
  <2>1. Root \in Dirs
    BY DEF Dirs
  <2> QED BY <1>3, <2>1, ZenonT(60) DEF AddCreated, AddTree, Arm, Sending
<1>4. CASE FireTimer
  BY <1>4 DEF FireTimer
<1>5. CASE DetachMetadata
  BY <1>5 DEF DetachMetadata
<1>6. CASE AttachMetadata
  <2>1. native' \subseteq Dirs /\ known' \subseteq Dirs /\ failure' \in BOOLEAN
    BY <1>6 DEF AttachMetadata, AddTree, Dirs
  <2> QED BY <1>6, <2>1 DEF AttachMetadata
<1>7. CASE DrainEvent
  BY <1>7, TakeKeepsTypes DEF DrainEvent
<1>8. CASE DrainError
  BY <1>8, ZenonT(60) DEF DrainError
<1>9. CASE Repaired
  BY <1>9, ZenonT(60) DEF Repaired, Sending
<1>10. CASE TakeError
  BY <1>10 DEF TakeError, Sending
<1>11. CASE Send
  <2>1. out' \in Seq({"fs", "error"}) /\ Len(out') <= OutCap
    BY <1>11, CapsAssumption, AppendProperties DEF Send, SendOut
  <2>2. source' \in {"flush", "select"} /\ armed' \in BOOLEAN /\ pending' \in BOOLEAN
    BY <1>11 DEF Send, AfterSend, Sending
  <2> QED BY <1>11, <2>1, <2>2 DEF Send, Sending
<1>12. CASE AbandonSend
  BY <1>12 DEF AbandonSend, GiveUp, Sending
<1>13. CASE StopSource
  BY <1>13 DEF StopSource
<1> QED BY <1>1, <1>2, <1>3, <1>4, <1>5, <1>6, <1>7, <1>8, <1>9, <1>10, <1>11, <1>12, <1>13
        DEF Source

\* What the manager goroutine is about to send is a hint.
HoldsHint == phase \in Emitting => held # "none"

LEMMA ManagerKeepsTypes ==
  ASSUME TypeOK, HoldsHint, Manager
  PROVE  TypeOK'
<1> USE DEF TypeOK, managerElse, debounce, world, Interruptible, Emitting
<1>1. out # <<>> => Tail(out) \in Seq({"fs", "error"}) /\ Len(Tail(out)) <= OutCap
  BY CapsAssumption, HeadTailProperties
<1>2. CASE Reconcile
  BY <1>2 DEF Reconcile
<1>3. CASE Forward
  BY <1>1, <1>3 DEF Forward
<1>4. CASE Degrade
  BY <1>1, <1>4 DEF Degrade, StartPolling
<1>5. CASE Poll
  BY <1>5 DEF Poll
<1>6. CASE Emit
  <2>1. events' \in Seq({"fs", "poll", "fallback"}) /\ Len(events') <= EventsCap
    BY <1>6, CapsAssumption, AppendProperties DEF Emit, HoldsHint
  <2> QED BY <1>6, <2>1 DEF Emit
<1>7. CASE End
  BY <1>7 DEF End
<1> QED BY <1>2, <1>3, <1>4, <1>5, <1>6, <1>7 DEF Manager

LEMMA RestKeepsTypes ==
  ASSUME TypeOK,
         \/ Receive \/ CancelParent \/ (\E c \in Closers : BeginClose(c) \/ Closing(c))
         \/ UNCHANGED vars
  PROVE  TypeOK'
<1> USE DEF TypeOK, applicationElse, directories, kernel, sourceVars, debounce, manager, world
<1>1. CASE Receive
  <2>1. events' \in Seq({"fs", "poll", "fallback"}) /\ Len(events') <= EventsCap
    BY <1>1, CapsAssumption, HeadTailProperties DEF Receive
  <2> QED BY <1>1, <2>1, ZenonT(60) DEF Receive
<1>2. CASE CancelParent
  BY <1>2 DEF CancelParent
<1>3. ASSUME NEW c \in Closers, BeginClose(c) PROVE TypeOK'
  <2>1. closer' \in [Closers -> {"idle", "closing", "waiting", "returned"}]
        /\ cancelled' \in BOOLEAN
    BY <1>3 DEF BeginClose
  <2> QED BY <1>3, <2>1 DEF BeginClose
<1>4. ASSUME NEW c \in Closers, Closing(c) PROVE TypeOK'
  BY <1>4, ZenonT(60) DEF Closing, CloseFilesystem, FinishClose
<1>5. CASE UNCHANGED vars
  BY <1>5 DEF vars
<1> QED BY <1>1, <1>2, <1>3, <1>4, <1>5

-----------------------------------------------------------------------------
(* No change is dropped.                                                   *)

Repairing == {"detach", "attach", "repaired", "repairError"}

\* The debounce: a pending hint has its timer or is being worked on, and the timer runs
\* for nothing else.
Debounced ==
  /\ armed => pending
  /\ source \in {"select", "error"} /\ pending => armed
  /\ source \in {"add", "addError"} \cup Repairing => pending
  /\ source \in Repairing \cup {"flush"} => ~armed
  /\ source = "flush" => ~pending

\* Who closes the native watcher: the manager goroutine, when it stops watching, or a
\* Close, which has cancelled the context.
ClosedForAReason ==
  /\ phase \in {"filesystem", "forward"} /\ ~cancelled => ~fsClosed
  /\ \A c \in Closers : closer[c] = "closing" => cancelled
  /\ source = "stopped" => cancelled \/ fsClosed

\* NoChangeDropped, whatever the manager goroutine is forwarding.
Accounted == noticed /\ phase \in {"filesystem", "forward"} /\ ~cancelled => UnderWay

WatchInv == TypeOK /\ HoldsHint /\ Debounced /\ ClosedForAReason /\ Accounted

LEMMA TailKeeps ==
  ASSUME TypeOK, Take, NEW i \in DOMAIN queue, queue[i].kind # "chmod",
         Head(queue).kind = "chmod"
  PROVE  \E j \in DOMAIN queue' : queue'[j].kind # "chmod"
<1>1. queue \in Seq(NativeEvents) /\ queue # <<>> /\ queue' = Tail(queue)
  BY DEF Take, TypeOK
<1>2. i # 1 /\ i \in 1 .. Len(queue)
  BY <1>1
<1>3. /\ Len(queue) \in Nat /\ Len(queue') = Len(queue) - 1
      /\ queue'[i - 1] = queue[i] /\ i - 1 \in DOMAIN queue'
  BY <1>1, <1>2
<1> QED BY <1>3

\* A change that is reported leaves an event or an overflow.
LEMMA ReportAccounted ==
  ASSUME TypeOK, Accounted, NEW watched, NEW seq \in Seq(NativeEvents), Report(watched, seq),
         seq # <<>>, seq[Len(seq)].kind # "chmod"
  PROVE  Accounted'
<1>1. CASE Deaf
  <2>1. UNCHANGED <<noticed, queue, overflow>>
    BY <1>1 DEF Deaf
  <2> QED BY <2>1 DEF Report, Accounted, UnderWay, sourceVars, debounce, manager
<1>2. CASE Reports(seq) /\ Len(queue \o seq) <= QueueCap
  <2>1. queue' = queue \o seq /\ queue \in Seq(NativeEvents)
    BY <1>2 DEF Reports, TypeOK
  <2>2. Len(queue) \in Nat /\ Len(seq) \in Nat \ {0}
    BY <2>1, LenProperties
  <2>3. DOMAIN queue' = 1 .. Len(queue) + Len(seq)
    BY <2>1, <2>2, ConcatProperties, LenProperties
  <2>4. queue'[Len(queue) + Len(seq)] = seq[Len(seq)]
    BY <2>1, <2>2, ConcatProperties
  <2>5. Len(queue) + Len(seq) \in DOMAIN queue'
    BY <2>2, <2>3
  <2> QED BY <2>4, <2>5 DEF UnderWay, Accounted
<1>3. CASE Reports(seq) /\ ~(Len(queue \o seq) <= QueueCap)
  BY <1>3 DEF Reports, UnderWay, Accounted
<1> QED BY <1>1, <1>2, <1>3 DEF Report

LEMMA ChangeAccounted ==
  ASSUME WatchInv, Change
  PROVE  Accounted'
<1>1. PICK d \in Dirs : \/ WriteIn(d) \/ MakeDirectory(d) \/ RemoveDirectory(d)
                        \/ ReplaceMetadata(d) \/ ReadMetadata(d)
  BY DEF Change
<1>2. TypeOK /\ Accounted /\ Root \in Dirs
  BY DEF WatchInv, Dirs
<1>3. ASSUME NEW watched, NEW kind \in {"write", "create", "remove"}, NEW e \in Dirs,
             Report(watched, <<Notice(kind, e)>>)
      PROVE  Accounted'
  <2>1. <<Notice(kind, e)>> \in Seq(NativeEvents) /\ Notice(kind, e).kind # "chmod"
    BY OneNotice DEF Notice
  <2> QED BY <1>2, <1>3, <2>1, ReportAccounted
<1>4. CASE WriteIn(d)
  BY <1>2, <1>3, <1>4 DEF WriteIn
<1>5. CASE MakeDirectory(d)
  BY <1>3, <1>5 DEF MakeDirectory
<1>6. CASE RemoveDirectory(d)
  BY <1>3, <1>6 DEF RemoveDirectory
<1>7. CASE ReplaceMetadata(d)
  <2>1. <<Notice("remove", d), Notice("create", d)>> \in Seq(NativeEvents)
        /\ Notice("create", d).kind # "chmod"
    BY OneNotice DEF Notice
  <2>2. Report(Root \in native, <<Notice("remove", d), Notice("create", d)>>)
    BY <1>7 DEF ReplaceMetadata
  <2> QED BY <1>2, <2>1, <2>2, ReportAccounted
<1>8. CASE ReadMetadata(d)
  <2>1. ASSUME NEW i \in DOMAIN queue, queue[i].kind # "chmod"
        PROVE  i \in DOMAIN queue' /\ queue'[i].kind # "chmod"
    <3>1. queue \in Seq(NativeEvents) /\ queue' = Append(queue, Notice("chmod", Root))
          /\ Notice("chmod", Root) \in NativeEvents
      BY <1>2, <1>8, OneNotice DEF ReadMetadata, TypeOK
    <3> QED BY <2>1, <3>1
  <2> QED BY <1>2, <1>8, <2>1
          DEF ReadMetadata, Accounted, UnderWay, sourceVars, debounce, manager
<1> QED BY <1>1, <1>4, <1>5, <1>6, <1>7, <1>8

LEMMA ChangeKeepsRest ==
  ASSUME WatchInv, Change
  PROVE  HoldsHint' /\ Debounced' /\ ClosedForAReason'
<1>1. UNCHANGED <<fsClosed, source, pending, armed, phase, held, cancelled, closer>>
  BY DEF Change, WriteIn, MakeDirectory, RemoveDirectory, ReplaceMetadata, ReadMetadata, Report,
         directories, sourceVars, debounce, manager
<1> QED BY <1>1 DEF WatchInv, HoldsHint, Debounced, ClosedForAReason, Emitting, Repairing

LEMMA SourceKeepsRest ==
  ASSUME WatchInv, Source
  PROVE  HoldsHint' /\ ClosedForAReason'
<1>1. UNCHANGED <<fsClosed, phase, held, cancelled, closer>>
  BY DEF Source, IgnoreChmod, Observe, AddCreated, FireTimer, DetachMetadata, AttachMetadata,
         DrainEvent, DrainError, Repaired, TakeError, Send, AbandonSend, StopSource, sourceElse,
         sourceVars, debounce, manager, world, kernel
<1>2. source' = "stopped" => source = "stopped" \/ cancelled \/ fsClosed
  BY DEF Source, IgnoreChmod, Observe, AddCreated, FireTimer, DetachMetadata, AttachMetadata,
         DrainEvent, DrainError, Repaired, TakeError, Send, AfterSend, Sending, AbandonSend, GiveUp,
         StopSource, sourceVars
<1> QED BY <1>1, <1>2 DEF WatchInv, HoldsHint, ClosedForAReason, Emitting


LEMMA SourceKeepsDebounce ==
  ASSUME WatchInv, Source
  PROVE  Debounced'
<1>1. /\ TypeOK /\ Debounced
      /\ {pending, armed, failure} \subseteq BOOLEAN
      /\ source \in {"select", "add", "detach", "attach", "repaired", "stopped"} \cup Sending
  BY DEF WatchInv, TypeOK
<1> USE DEF Debounced, Repairing, sourceVars, debounce
<1>2. CASE IgnoreChmod \/ DrainEvent
  BY <1>1, <1>2 DEF IgnoreChmod, DrainEvent
<1>3. CASE Observe
  BY <1>1, <1>3 DEF Observe, Arm
<1>4. CASE AddCreated
  BY <1>1, <1>4 DEF AddCreated, Arm
<1>5. CASE FireTimer
  BY <1>1, <1>5 DEF FireTimer
<1>6. CASE DetachMetadata
  BY <1>1, <1>6 DEF DetachMetadata
<1>7. CASE AttachMetadata
  BY <1>1, <1>7 DEF AttachMetadata
<1>8. CASE DrainError
  BY <1>1, <1>8 DEF DrainError
<1>9. CASE Repaired
  BY <1>1, <1>9 DEF Repaired
<1>10. CASE TakeError
  BY <1>1, <1>10 DEF TakeError
<1>11. CASE Send
  BY <1>1, <1>11 DEF Send, AfterSend, Sending
<1>12. CASE AbandonSend
  BY <1>1, <1>12 DEF AbandonSend, GiveUp, Sending
<1>13. CASE StopSource
  BY <1>1, <1>13 DEF StopSource
<1> QED BY <1>2, <1>3, <1>4, <1>5, <1>6, <1>7, <1>8, <1>9, <1>10, <1>11, <1>12, <1>13 DEF Source

\* What the source goroutine takes away of what is under way, it replaces.
LEMMA SourceAccounted ==
  ASSUME WatchInv, Source
  PROVE  Accounted'
<1>1. TypeOK /\ Debounced /\ ClosedForAReason /\ Accounted
  BY DEF WatchInv
<1>2. UNCHANGED <<noticed, phase, held, events, cancelled, fsClosed>>
  BY DEF Source, IgnoreChmod, Observe, AddCreated, FireTimer, DetachMetadata, AttachMetadata,
         DrainEvent, DrainError, Repaired, TakeError, Send, AbandonSend, StopSource, sourceElse,
         sourceVars, debounce, manager, world, kernel
<1> SUFFICES ASSUME noticed, phase \in {"filesystem", "forward"}, ~cancelled PROVE UnderWay'
  BY <1>2 DEF Accounted
<1>3. UnderWay /\ ~fsClosed
  BY <1>1 DEF Accounted, ClosedForAReason
<1> USE DEF sourceVars, debounce, UnderWay
<1>4. CASE IgnoreChmod
  <2>1. (\E i \in DOMAIN queue : queue[i].kind # "chmod")
          => \E j \in DOMAIN queue' : queue'[j].kind # "chmod"
    BY <1>1, <1>4, TailKeeps DEF IgnoreChmod
  <2> QED BY <1>2, <1>3, <1>4, <2>1 DEF IgnoreChmod
<1>5. CASE Observe
  BY <1>5 DEF Observe, Arm
<1>6. CASE AddCreated
  BY <1>1, <1>6 DEF AddCreated, Arm, Debounced, Sending
<1>7. CASE FireTimer
  BY <1>1, <1>7 DEF FireTimer, Debounced
<1>8. CASE DetachMetadata \/ AttachMetadata \/ DrainEvent \/ DrainError
  <2>1. source' \in {"detach", "attach", "repaired"} /\ source \in Repairing /\ pending' = pending
    BY <1>8 DEF DetachMetadata, AttachMetadata, DrainEvent, DrainError, Repairing
  <2> QED BY <1>1, <2>1 DEF Debounced
<1>9. CASE Repaired
  BY <1>1, <1>9 DEF Repaired, Debounced, Repairing, Sending
<1>10. CASE TakeError
  BY <1>10 DEF TakeError, Sending
<1>11. CASE Send
  <2>1. out' # <<>>
    BY <1>1, <1>11, AppendProperties DEF Send, SendOut, TypeOK
  <2> QED BY <2>1
<1>12. CASE AbandonSend
  BY <1>12 DEF AbandonSend, GiveUp
<1>13. CASE StopSource
  BY <1>3, <1>13 DEF StopSource
<1> QED BY <1>4, <1>5, <1>6, <1>7, <1>8, <1>9, <1>10, <1>11, <1>12, <1>13 DEF Source

LEMMA ManagerKeepsRest ==
  ASSUME WatchInv, Manager
  PROVE  HoldsHint' /\ Debounced' /\ ClosedForAReason' /\ Accounted'
<1>1. TypeOK /\ HoldsHint /\ Debounced /\ ClosedForAReason /\ Accounted
  BY DEF WatchInv
<1>2. UNCHANGED <<queue, overflow, failure, source, pending, armed, cancelled, closer, noticed>>
  BY DEF Manager, Reconcile, Forward, Degrade, Poll, Emit, End, managerElse, debounce, world
<1>3. Debounced'
  BY <1>1, <1>2 DEF Debounced
<1>4. HoldsHint'
  BY <1>1 DEF Manager, Reconcile, Forward, Degrade, StartPolling, Poll, Emit, End, HoldsHint,
              Emitting
<1>5. phase' \in {"filesystem", "forward"} /\ ~cancelled
        => phase \in {"filesystem", "forward"} /\ fsClosed' = fsClosed
  BY DEF Manager, Reconcile, Forward, Degrade, StartPolling, Poll, Emit, End
<1>6. fsClosed => fsClosed'
  BY DEF Manager, Reconcile, Forward, Degrade, Poll, Emit, End
<1>7. ClosedForAReason'
  BY <1>1, <1>2, <1>5, <1>6 DEF ClosedForAReason
<1>8. Accounted'
  <2> SUFFICES ASSUME noticed, phase' \in {"filesystem", "forward"}, ~cancelled
               PROVE  UnderWay'
    BY <1>2 DEF Accounted
  <2>1. UnderWay /\ phase \in {"filesystem", "forward"}
    BY <1>1, <1>5 DEF Accounted
  <2>2. CASE Reconcile \/ Forward
    BY <2>2 DEF Reconcile, Forward, UnderWay
  <2>3. CASE Degrade \/ Poll \/ End
    BY <2>1, <2>3 DEF Degrade, StartPolling, Poll, End
  <2>4. CASE Emit
    <3>1. events' # <<>>
      BY <1>1, <2>4, AppendProperties DEF Emit, HoldsHint, TypeOK
    <3> QED BY <3>1 DEF UnderWay
  <2> QED BY <2>2, <2>3, <2>4 DEF Manager
<1> QED BY <1>3, <1>4, <1>7, <1>8

LEMMA ApplicationKeepsRest ==
  ASSUME WatchInv,
         \/ Receive \/ CancelParent \/ (\E c \in Closers : BeginClose(c) \/ Closing(c))
         \/ UNCHANGED vars
  PROVE  HoldsHint' /\ Debounced' /\ ClosedForAReason' /\ Accounted'
<1>1. TypeOK /\ HoldsHint /\ Debounced /\ ClosedForAReason /\ Accounted
  BY DEF WatchInv
<1> USE DEF HoldsHint, Debounced, ClosedForAReason, Accounted, UnderWay, applicationElse,
            directories, kernel, sourceVars, debounce, manager, world
<1>2. CASE Receive
  BY <1>1, <1>2 DEF Receive
<1>3. CASE CancelParent
  BY <1>1, <1>3 DEF CancelParent
<1>4. ASSUME NEW c \in Closers, BeginClose(c)
      PROVE  HoldsHint' /\ Debounced' /\ ClosedForAReason' /\ Accounted'
  <2>1. cancelled => cancelled'
    BY <1>4 DEF BeginClose
  <2>2. \A d \in Closers : closer'[d] = "closing" => cancelled'
    BY <1>1, <1>4 DEF BeginClose, TypeOK
  <2>3. UNCHANGED <<directories, kernel, sourceVars, manager, world>>
    BY <1>4 DEF BeginClose
  <2> QED BY <1>1, <2>1, <2>2, <2>3
<1>5. ASSUME NEW c \in Closers, Closing(c)
      PROVE  HoldsHint' /\ Debounced' /\ ClosedForAReason' /\ Accounted'
  <2>1. closer[c] = "closing" \/ fsClosed' = fsClosed
    BY <1>5 DEF Closing, CloseFilesystem, FinishClose
  <2>2. \A d \in Closers : closer'[d] = "closing" => closer[d] = "closing"
    BY <1>1, <1>5 DEF Closing, CloseFilesystem, FinishClose, TypeOK
  <2>3. UNCHANGED <<directories, queue, overflow, sourceVars, manager, world, cancelled>>
        /\ (fsClosed => fsClosed')
    BY <1>5 DEF Closing, CloseFilesystem, FinishClose
  <2> QED BY <1>1, <2>1, <2>2, <2>3
<1>6. CASE UNCHANGED vars
  BY <1>1, <1>6 DEF vars
<1> QED BY <1>2, <1>3, <1>4, <1>5, <1>6

LEMMA WatchInductive ==
  ASSUME WatchInv, [Next]_vars
  PROVE  WatchInv'
<1>1. TypeOK /\ HoldsHint
  BY DEF WatchInv
<1>2. CASE Change
  BY <1>1, <1>2, ChangeKeepsTypes, ChangeKeepsRest, ChangeAccounted DEF WatchInv
<1>3. CASE Source
  BY <1>1, <1>3, SourceKeepsTypes, SourceKeepsRest, SourceKeepsDebounce, SourceAccounted
     DEF WatchInv
<1>4. CASE Manager
  BY <1>1, <1>4, ManagerKeepsTypes, ManagerKeepsRest DEF WatchInv
<1>5. CASE \/ Receive \/ CancelParent \/ (\E c \in Closers : BeginClose(c) \/ Closing(c))
           \/ UNCHANGED vars
  BY <1>1, <1>5, RestKeepsTypes, ApplicationKeepsRest DEF WatchInv
<1> QED BY <1>2, <1>3, <1>4, <1>5 DEF Next

LEMMA WatchInitially == Init => WatchInv
<1> SUFFICES ASSUME Init PROVE WatchInv
  OBVIOUS
<1>1. TypeOK
  <2>1. <<>> \in Seq(NativeEvents) /\ <<>> \in Seq({"fs", "error"})
        /\ <<>> \in Seq({"fs", "poll", "fallback"})
    OBVIOUS
  <2>2. Len(<<>>) <= QueueCap /\ Len(<<>>) <= OutCap /\ Len(<<>>) <= EventsCap
    BY CapsAssumption
  <2>3. present \subseteq Dirs /\ Root \in Dirs /\ 0 \in 0 .. MaxChanges
    BY CapsAssumption DEF Init, Dirs
  <2>4. closer \in [Closers -> {"idle", "closing", "waiting", "returned"}]
    BY DEF Init
  <2> QED BY <2>1, <2>2, <2>3, <2>4 DEF Init, TypeOK, Interruptible
<1> QED BY <1>1 DEF Init, WatchInv, HoldsHint, Debounced, ClosedForAReason, Accounted, Emitting,
                    Repairing

\* The types, for every execution, whatever the capacities.
THEOREM TypeCorrect == Spec => []TypeOK
<1>1. WatchInv => TypeOK
  BY DEF WatchInv
<1> QED BY <1>1, WatchInitially, WatchInductive, PTL DEF Spec

\* As long as the filesystem is watched, a change the kernel reported is on its way as a
\* hint: whatever the debounce, the repair of the registrations, an overflow of the kernel's
\* queue and full channels do (internal/watch/fs.go and manager.go).
THEOREM NoChangeEverDropped == Spec => []NoChangeDropped
<1>1. WatchInv => NoChangeDropped
  BY DEF WatchInv, Accounted, NoChangeDropped
<1> QED BY <1>1, WatchInitially, WatchInductive, PTL DEF Spec

=============================================================================
