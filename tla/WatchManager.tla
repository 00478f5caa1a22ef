---------------------------- MODULE WatchManager ----------------------------
(***************************************************************************)
(* internal/watch: one Manager and its goroutines.  The source goroutine   *)
(* of the filesystem watcher turns native events into debounced hints,     *)
(* and keeps the set of watched directories; the manager goroutine         *)
(* forwards hints, adds a reconciliation tick, and degrades to polling     *)
(* after an error; the application receives the hints (waitForWatcher) and *)
(* closes the manager.  A hint only says "refresh": what matters is that   *)
(* one is received after every change.                                     *)
(***************************************************************************)
EXTENDS Naturals, Sequences, FiniteSets

CONSTANTS
  Root,        \* the worktree, always watched and never removed
  Metadata,    \* Git metadata directories, which Git may replace
  DotGit,      \* those of them that are called .git
  Subdirs,     \* directories of the worktree that come and go
  Closers,     \* goroutines that call Close
  OutCap,      \* capacity of the source's channel (8 in the code)
  EventsCap,   \* capacity of the manager's channel (8 in the code)
  QueueCap,    \* length at which the native queue overflows
  MaxChanges   \* bound: changes of the filesystem

Dirs == {Root} \cup Metadata \cup Subdirs

ASSUME DirsAssumption == Root \notin Metadata \cup Subdirs /\ Metadata \cap Subdirs = {}
                         /\ DotGit \subseteq Metadata
ASSUME CapsAssumption == /\ OutCap \in Nat \ {0} /\ EventsCap \in Nat \ {0}
                         /\ QueueCap \in Nat \ {0} /\ MaxChanges \in Nat

VARIABLES
  present,   \* directories that exist
  native,    \* directories registered with the kernel
  known,     \* w.watched
  queue,     \* native events not read yet (w.fs.Events)
  overflow,  \* an error waits in w.fs.Errors
  fsClosed,  \* the native watcher is closed
  source,    \* where the source goroutine is
  adding,    \* the created directory it is about to add
  failure,   \* the repair met an error
  pending, armed,  \* its pending flag; the debounce timer runs
  out,       \* its channel: hints ("fs") and errors ("error")
  phase,     \* where the manager goroutine is
  held,      \* the event it is sending
  events,    \* the manager's channel
  cancelled, \* the context is done
  closer,    \* where each caller of Close is
  changes,   \* changes so far
  changed,   \* ghost: something changed since the last hint was received
  noticed    \* ghost: the kernel reported a change since then

directories == <<present, native, known>>
kernel == <<queue, overflow, fsClosed>>
debounce == <<pending, armed>>
sourceVars == <<source, adding, failure, debounce, out>>
manager == <<phase, held, events>>
world == <<changes, changed, noticed>>
vars == <<directories, kernel, sourceVars, manager, cancelled, closer, world>>

\* The directory matters when it is created or removed; elsewhere it is Root.
Notice(kind, d) == [kind |-> kind, dir |-> d]
NativeEvents == [kind : {"write", "create", "remove", "chmod"}, dir : Dirs]

Init ==
  /\ present = {Root} \cup Metadata /\ native = present /\ known = present
  /\ queue = <<>> /\ overflow = FALSE /\ fsClosed = FALSE
  /\ source = "select" /\ adding = Root /\ failure = FALSE
  /\ pending = FALSE /\ armed = FALSE /\ out = <<>>
  /\ phase = "filesystem" /\ held = "none" /\ events = <<>>
  /\ cancelled = FALSE /\ closer = [c \in Closers |-> "idle"]
  /\ changes = 0 /\ changed = FALSE /\ noticed = FALSE

(***************************************************************************)
(* The filesystem and the kernel (external)                                *)
(***************************************************************************)
\* The kernel reports what happens in a registered directory; what does not fit its
\* queue is lost, and an error says so.
Reports(seq) ==
  /\ IF Len(queue \o seq) <= QueueCap THEN queue' = queue \o seq /\ UNCHANGED overflow
     ELSE queue' = SubSeq(queue \o seq, 1, QueueCap) /\ overflow' = TRUE
  /\ noticed' = TRUE

Deaf == UNCHANGED <<queue, overflow, noticed>>

Report(watched, seq) ==
  /\ changes < MaxChanges /\ changes' = changes + 1
  /\ changed' = TRUE
  /\ IF watched /\ ~fsClosed THEN Reports(seq) ELSE Deaf
  /\ UNCHANGED <<known, fsClosed, sourceVars, manager, cancelled, closer>>

WriteIn(d) ==
  /\ d \in present
  /\ Report(d \in native, <<Notice("write", Root)>>)
  /\ UNCHANGED <<present, native>>

MakeDirectory(d) ==
  /\ d \in Subdirs \ present
  /\ present' = present \cup {d}
  /\ Report(Root \in native, <<Notice("create", d)>>)
  /\ UNCHANGED native

RemoveDirectory(d) ==
  /\ d \in Subdirs \cap present
  /\ present' = present \ {d} /\ native' = native \ {d}
  /\ Report(Root \in native, <<Notice("remove", d)>>)

\* Git replaces a metadata directory: the registration goes with the old one.
ReplaceMetadata(d) ==
  /\ d \in Metadata
  /\ native' = native \ {d}
  /\ Report(Root \in native, <<Notice("remove", d), Notice("create", d)>>)
  /\ UNCHANGED present

\* Reading metadata may surface as a change of its mode: nothing has changed.
ReadMetadata(d) ==
  /\ d \in Metadata \cap native /\ ~fsClosed
  /\ changes < MaxChanges /\ changes' = changes + 1
  /\ Len(queue) < QueueCap /\ queue' = Append(queue, Notice("chmod", Root))
  /\ UNCHANGED <<directories, overflow, fsClosed, sourceVars, manager, cancelled, closer,
                 changed, noticed>>

(***************************************************************************)
(* The source goroutine (Watcher.Events)                                   *)
(***************************************************************************)
sourceElse == <<present, fsClosed, manager, cancelled, closer, world>>

Take == queue # <<>> /\ queue' = Tail(queue)

IgnoreChmod ==
  /\ source = "select" /\ Take /\ Head(queue).kind = "chmod"
  /\ UNCHANGED <<native, known, overflow, sourceVars, sourceElse>>

\* Faulty: the timer is only armed for the first event.
ArmOnce == armed' = (armed \/ ~pending)
Arm == armed' = TRUE

\* A native event makes a hint pending.  A directory that was created and is still there
\* is added next, before the timer is set.
Observe ==
  /\ source = "select" /\ Take /\ Head(queue).kind # "chmod"
  /\ pending' = TRUE
  /\ known' = IF Head(queue).kind = "remove" THEN known \ {Head(queue).dir} ELSE known
  /\ IF Head(queue).kind = "create" /\ Head(queue).dir \in present
     THEN source' = "add" /\ adding' = Head(queue).dir /\ UNCHANGED armed
     ELSE Arm /\ UNCHANGED <<source, adding>>
  /\ UNCHANGED <<native, overflow, failure, out, sourceElse>>

\* addTree: what is already in w.watched is not registered again, and what is called .git
\* is skipped.  A directory that has gone since, or a closed watcher, is an error.
AddTree(ds) ==
  /\ native' = native \cup (ds \ (known \cup DotGit))
  /\ known' = known \cup (ds \ DotGit)
AddCreated ==
  /\ source = "add" /\ adding' = Root
  /\ IF adding \in present /\ (~fsClosed \/ adding \in known \cup DotGit)
     THEN AddTree({adding}) /\ source' = "select" /\ Arm
     ELSE source' = "addError" /\ UNCHANGED <<native, known, armed>>
  /\ UNCHANGED <<kernel, failure, pending, out, present, manager, cancelled, closer, world>>

\* The timer fires: the registrations of the metadata directories are repaired, one
\* Remove and one Add at a time, while what the kernel sends is thrown away.
FireTimer ==
  /\ source = "select" /\ armed
  /\ armed' = FALSE /\ source' = "detach"
  /\ UNCHANGED <<native, known, queue, overflow, adding, failure, pending, out, sourceElse>>

DetachMetadata ==
  /\ source = "detach"
  /\ native' = native \ Metadata /\ known' = known \ Metadata
  /\ source' = "attach"
  /\ UNCHANGED <<kernel, adding, failure, debounce, out, present, manager, cancelled, closer,
                 world>>

AttachMetadata ==
  /\ source = "attach"
  /\ IF fsClosed /\ Metadata # DotGit THEN failure' = TRUE /\ UNCHANGED <<native, known>>
     ELSE AddTree(Metadata) /\ UNCHANGED failure
  /\ source' = "repaired"
  /\ UNCHANGED <<kernel, adding, debounce, out, present, manager, cancelled, closer, world>>

DrainEvent ==
  /\ source \in {"detach", "attach", "repaired"} /\ Take
  /\ UNCHANGED <<native, known, overflow, sourceVars, sourceElse>>

DrainError ==
  /\ source \in {"detach", "attach", "repaired"} /\ overflow
  /\ overflow' = FALSE /\ failure' = TRUE
  /\ UNCHANGED <<native, known, queue, source, adding, debounce, out, sourceElse>>

Repaired ==
  /\ source = "repaired"
  /\ source' = IF failure THEN "repairError" ELSE IF pending THEN "flush" ELSE "select"
  /\ failure' = FALSE
  /\ pending' = (pending /\ failure)
  /\ UNCHANGED <<native, known, queue, overflow, adding, armed, out, sourceElse>>

TakeError ==
  /\ source = "select" /\ overflow
  /\ overflow' = FALSE /\ source' = "error"
  /\ UNCHANGED <<native, known, queue, adding, failure, debounce, out, sourceElse>>

\* What is sent in each state, and what follows.  A send gives up when the context is
\* done: an error then ends the goroutine, a hint is dropped.
Sending == {"flush", "error", "addError", "repairError"}
AfterSend == [s \in Sending |-> IF s = "repairError" THEN "flush" ELSE "select"]

SendOut == Len(out) < OutCap /\ out' = Append(out, IF source = "flush" THEN "fs" ELSE "error")

Send ==
  /\ source \in Sending /\ SendOut
  /\ source' = AfterSend[source]
  /\ armed' = (armed \/ source = "addError")
  /\ pending' = (pending /\ source # "repairError")
  /\ UNCHANGED <<native, known, queue, overflow, adding, failure, sourceElse>>

\* Faulty: only an error gives up.
GiveUpErrors == cancelled /\ source \in Sending \ {"flush"} /\ source' = "stopped"
GiveUp ==
  /\ cancelled /\ source \in Sending
  /\ source' = IF source = "flush" THEN "select" ELSE "stopped"
AbandonSend ==
  /\ GiveUp
  /\ UNCHANGED <<native, known, queue, overflow, adding, failure, debounce, out, sourceElse>>

StopSource ==
  /\ source = "select" /\ (cancelled \/ fsClosed)
  /\ source' = "stopped"
  /\ UNCHANGED <<native, known, queue, overflow, adding, failure, debounce, out, sourceElse>>

Source == \/ IgnoreChmod \/ Observe \/ AddCreated \/ FireTimer \/ DetachMetadata \/ AttachMetadata
          \/ DrainEvent \/ DrainError \/ Repaired \/ TakeError \/ Send \/ AbandonSend \/ StopSource

(***************************************************************************)
(* The manager goroutine (Manager.run)                                     *)
(***************************************************************************)
managerElse == <<present, native, known, queue, overflow, source, adding, failure, debounce,
                 cancelled, closer, world>>

\* The reconciliation ticker.
Reconcile ==
  /\ phase = "filesystem" /\ phase' = "forward" /\ held' = "fs"
  /\ UNCHANGED <<events, out, fsClosed, managerElse>>

Forward ==
  /\ phase = "filesystem" /\ out # <<>> /\ Head(out) = "fs"
  /\ phase' = "forward" /\ held' = "fs" /\ out' = Tail(out)
  /\ UNCHANGED <<events, fsClosed, managerElse>>

\* Faulty: a manager that lost its filesystem watcher does not go on polling.
GiveUpWatching == phase' = "ended" /\ held' = "none"
StartPolling == phase' = "fallback" /\ held' = "fallback"

\* An error, or the end of the source's stream, degrades to polling.
Degrade ==
  /\ phase = "filesystem"
  /\ \/ out # <<>> /\ Head(out) = "error" /\ out' = Tail(out)
     \/ out = <<>> /\ source = "stopped" /\ UNCHANGED out
  /\ fsClosed' = TRUE
  /\ StartPolling
  /\ UNCHANGED <<events, managerElse>>

\* The poller (poll.go) sends a hint at every tick, whatever its signature says.
Poll ==
  /\ phase = "polling" /\ phase' = "sendPoll" /\ held' = "poll"
  /\ UNCHANGED <<events, out, fsClosed, managerElse>>

Emitting == {"forward", "fallback", "sendPoll"}
Emit ==
  /\ phase \in Emitting /\ Len(events) < EventsCap
  /\ events' = Append(events, held) /\ held' = "none"
  /\ phase' = IF phase = "forward" THEN "filesystem" ELSE "polling"
  /\ UNCHANGED <<out, fsClosed, managerElse>>

\* Every wait of the goroutine also waits for the context; its deferred calls close the
\* native watcher and both channels.
Interruptible == {"filesystem", "polling"} \cup Emitting
StopsIn == Interruptible
End ==
  /\ cancelled /\ phase \in StopsIn
  /\ phase' = "ended" /\ held' = "none" /\ fsClosed' = TRUE
  /\ UNCHANGED <<events, out, managerElse>>

Manager == Reconcile \/ Forward \/ Degrade \/ Poll \/ Emit \/ End

(***************************************************************************)
(* The application                                                         *)
(***************************************************************************)
\* waitForWatcher: the refresh that follows reads the repository after the hint.
Receive ==
  /\ events # <<>> /\ events' = Tail(events)
  /\ changed' = FALSE /\ noticed' = FALSE
  /\ UNCHANGED <<directories, kernel, sourceVars, phase, held, cancelled, closer, changes>>

applicationElse == <<directories, queue, overflow, sourceVars, manager, world>>

\* The session's context is cancelled before or without Close.
CancelParent ==
  /\ ~cancelled /\ cancelled' = TRUE
  /\ UNCHANGED <<applicationElse, fsClosed, closer>>

Closed == \E c \in Closers : closer[c] # "idle"

BeginClose(c) ==
  /\ closer[c] = "idle"
  /\ IF Closed
     THEN closer' = [closer EXCEPT ![c] = "waiting"] /\ UNCHANGED cancelled
     ELSE closer' = [closer EXCEPT ![c] = "closing"] /\ cancelled' = TRUE
  /\ UNCHANGED <<applicationElse, fsClosed>>

CloseFilesystem(c) ==
  /\ closer[c] = "closing" /\ closer' = [closer EXCEPT ![c] = "waiting"]
  /\ fsClosed' = TRUE
  /\ UNCHANGED <<applicationElse, cancelled>>

FinishClose(c) ==
  /\ closer[c] = "waiting" /\ phase = "ended"
  /\ closer' = [closer EXCEPT ![c] = "returned"]
  /\ UNCHANGED <<applicationElse, fsClosed, cancelled>>

Closing(c) == CloseFilesystem(c) \/ FinishClose(c)

Change == \E d \in Dirs : \/ WriteIn(d) \/ MakeDirectory(d) \/ RemoveDirectory(d)
                          \/ ReplaceMetadata(d) \/ ReadMetadata(d)

Next == \/ Change \/ Source \/ Manager \/ Receive \/ CancelParent
        \/ \E c \in Closers : BeginClose(c) \/ Closing(c)

\* Goroutines run, timers and tickers fire, and the application goes on receiving until
\* it closes the manager: Update may then be blocked in Close.  A select with several
\* ready cases picks at random, so none is passed over for ever.
Fairness ==
  /\ WF_vars(Source) /\ SF_vars(StopSource) /\ SF_vars(AbandonSend)
  /\ SF_vars(Reconcile) /\ WF_vars(Manager) /\ SF_vars(Degrade) /\ SF_vars(End)
  /\ WF_vars(Receive /\ ~Closed)
  /\ \A c \in Closers : WF_vars(Closing(c))

Spec == Init /\ [][Next]_vars /\ Fairness

(***************************************************************************)
(* Properties                                                              *)
(***************************************************************************)
TypeOK ==
  /\ present \subseteq Dirs /\ native \subseteq Dirs /\ known \subseteq Dirs
  /\ queue \in Seq(NativeEvents) /\ Len(queue) <= QueueCap
  /\ overflow \in BOOLEAN /\ fsClosed \in BOOLEAN
  /\ source \in {"select", "add", "detach", "attach", "repaired", "stopped"} \cup Sending
  /\ adding \in Dirs /\ failure \in BOOLEAN /\ pending \in BOOLEAN /\ armed \in BOOLEAN
  /\ out \in Seq({"fs", "error"}) /\ Len(out) <= OutCap
  /\ phase \in Interruptible \cup {"ended"}
  /\ held \in {"none", "fs", "poll", "fallback"}
  /\ events \in Seq({"fs", "poll", "fallback"}) /\ Len(events) <= EventsCap
  /\ cancelled \in BOOLEAN
  /\ closer \in [Closers -> {"idle", "closing", "waiting", "returned"}]
  /\ changes \in 0 .. MaxChanges /\ changed \in BOOLEAN /\ noticed \in BOOLEAN

\* As long as the filesystem is watched, a change the kernel reported is on its way as a
\* hint: the debounce, the repair that throws events away, an overflow and full channels
\* lose none.  (The next reconciliation tick, half a minute away, is not counted.)
UnderWay ==
  \/ overflow \/ failure
  \/ \E i \in DOMAIN queue : queue[i].kind # "chmod"
  \/ pending /\ (armed \/ source # "select")
  \/ source \in Sending
  \/ out # <<>> \/ held # "none" \/ events # <<>>
NoChangeDropped == noticed /\ phase = "filesystem" /\ ~cancelled => UnderWay

\* Every change is followed by a hint, whether its directory was watched or not, and
\* whatever becomes of the native watcher, unless the manager is closed.
HintArrives == changed ~> (~changed \/ cancelled)

\* Close returns, though the application may be the one that no longer receives.
CloseEnds == \A c \in Closers : closer[c] # "idle" ~> closer[c] = "returned"

\* ARCHITECTURE.md: "Watcher goroutines terminate through context cancellation".
GoroutinesEnd == cancelled ~> (source = "stopped" /\ phase = "ended")

\* Stated by tasks/completed/07-fs-watcher.md ("Dynamically add watches for created
\* directories", "Handle rename/remove/recreate of watched paths"): when the source has
\* nothing left to do, every directory that exists is registered.
Idle == source = "select" /\ queue = <<>> /\ ~overflow /\ ~pending /\ ~fsClosed
DirectoriesWatched == Idle => present \subseteq native

=============================================================================
