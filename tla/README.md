# A TLA+ verification of gitwatch

gitwatch is a terminal program that watches Git repositories and runs Git for its user. Git's
output is authoritative: a file watcher, a timer or a finished operation only asks for a
refresh, and a refresh replaces what is shown. The program is a Bubble Tea model, `Update`
handling one message at a time, surrounded by goroutines: commands, the refresh coordinator, the
operation engine, the watcher. What can go wrong is mostly between those: a hint that is lost,
an answer that arrives after the repository was switched, a goroutine that waits for ever, two
Git commands in one repository, a question answered after what it named has changed.

This directory holds the models of that core, the configurations that check them with TLC, and
the proofs that TLAPS checks. `PROJECT.json` lists the components, the runs, the lines of code
behind every definition, the hazards and the findings.

## 1. Inventory

| Component (under `src/internal`) | State | Operations | Interacts with | Hard behaviour |
|---|---|---|---|---|
| `git/refresh.go` RefreshCoordinator | active, dirty, generation, results channel (2), closed, cancel, wait group | Request, run, Close | Update asks and receives; `git.Snapshot` runs inside | coalescing, leaving against arriving, Close against a full channel |
| `operations/engine.go` Engine | active, waiters, repos, repoRefs, latest, retry, history, worker semaphore, results | Submit, Command, Cancel, Retry, Snapshot, run, finish | every mutating command of the application | locks made on demand, reuse of identifiers, timeouts, retention |
| `app/app.go` Model (repository session) | repositoryGeneration, Discovery, contexts, Snapshot, Files, CommitTree*, Submodules*, Branches, WatchManager | Update, setRepository, applySnapshot, the commands | all of the others | results of an older session, results out of order, flags left set |
| `watch/` Watcher, Manager, Poller | registered directories, native queue, debounce timer, channels | Events, repair of metadata registrations, degrade, poll, Close | kernel; Update receives hints | directories replaced, overflow, full channels, Close |
| `gitignore/` manager | document, managed blocks, catalog, ownership index, plan | create, add, remove, update, adopt, Apply, Undo | Update previews and confirms; atomicreplace | broken markers, shared rules, several edits, an edit by someone else |
| `multirepo/` batch | requests, results, one cancel handle, dialog | ask, retry, confirm, cancel, Run, Apply | dashboard rows, Git | two batches at once, cancellation in the middle |
| `submodules/` | dialog string, bulk handle, items | menu, single and bulk operations | status view, Git | end after a switch, a dialog that swallows keys |
| `registry/` | state file, entries, engine cache, checks | load, merge, save, refresh, open | batch, automatic fetch, provider | loads and openings that write over each other |
| `remoteintel/` | next time and failures per repository | timer, RunOnce, workers, prune | dashboard | backoff, late runs, a list that changes |
| `sequencer/`, `git/opstate.go` | projection of Git's own markers | detect, continue, skip, abort, recover | Git, another terminal | markers read one by one |
| `rebase/`, `git/rebase.go` | plan, marks, composer, rebase in progress | edit, move, start, amend, continue, abort | Git's sequence editor | plans made for a branch that moved |
| `bisect/` | session, loads, output channel | start, mark, reset, run | engine, another terminal | readers of the output, stale candidates |
| `undo/`, `redo/` | journal records | record, plan, reset | engine, Git | check and then act |
| `hunks/`, `patch/`, `git/partial.go` | parsed patch, selection | select, build, check, apply | Git apply | line counts and places of a partial patch |
| `conflicts/`, `git/conflicts.go` | content, hash, regions, selection | load, choose, mark resolved | snapshot, editors | loads and choices of two files that cross |
| `branches/`, `stash/` | rows, dialogs, jobs | one dialog per operation | Git | rows replaced while a question is open |
| `remotes/` | remotes, dialogs, jobs, one handle | fetch, pull, push, change | engine | overlapping jobs, switches |
| `provider/`, GitHub workspace | caches with generations, pull request, confirmations | load, preflight, merge, review, create | GitHub | old answers that fill a cache or replace the selection |
| `plugins/` | entries, switches file, one flag | discover, probe, toggle, save | processes | single flight, overlapping saves |
| `customcmd/` | form, values, processes | choose, answer, confirm, run | lists of the workspaces | values left from another command |
| tags, worktrees, history, blame, compare, notifications, config, parsers, views, release tools | lists and cursors, or none that lasts | read, parse, show | Update, files | input and output |

What makes each correct: the coordinator answers every request with a refresh that began after
it, one at a time; the engine runs one job per repository and answers each once; the application
shows the open repository only, and as it is after the last mutation; the watcher turns every
change into a hint and ends when told; a gitignore mutation changes what it was asked to change
and nothing else; a batch accounts for every repository; a dialog does what it named; a
selection, a plan or a choice changes the lines and commits it says and no others; what is
cached is forgotten when it is overtaken.

## 2. The modules

| Module | What it is | Code |
|---|---|---|
| `RefreshPromise` | what a coordinator promises, without goroutines | – |
| `RefreshCoordinator` | the coordinator, each critical section and each select a step | `git/refresh.go` |
| `SerialExecutor` | what the engine promises: jobs, and one per repository | – |
| `OperationEngine` | the engine, each critical section and each blocking statement a step | `operations/engine.go` |
| `RepositorySession` | `Update` across a repository switch; composes the model with the coordinator through `RefreshPromise` | `app/app.go` |
| `WatchManager` | the watcher's and the manager's goroutines, the kernel's queue, Close | `watch/` |
| `GitignoreDocument` | the plans on a document, as operators, and any sequence of mutations | `gitignore/{managed,match,ownership,manage}` |
| `GitignoreManager` | the workspace that previews and confirms, its commands, the check of the hash, the replacement of the file | `app/app.go`, `gitignore/manage/write.go`, `atomicreplace` |
| `RepositoryBatch` | batches of fetches and pulls: dialog, handle, producer, workers, results | `multirepo/batch.go`, `app/app.go` |
| `SubmoduleActions` | the submodule dialog, single operations and the bulk pool | `submodules/`, `app/app.go` |
| `RepositoryRegistry` | loads, the state file, the engine with its cache, openings, checks | `registry/`, `app/app.go` |
| `AutoFetch` | the timer, the due list, the workers, the backoff | `remoteintel/`, `app/app.go` |
| `OperationRecovery` | the markers of durable operations, their reading, the recovery workspace | `git/opstate.go`, `sequencer/recovery.go`, `app/app.go` |
| `RebaseWorkspace` | plan, todo, historical edits, the rebase Git has in progress | `rebase/`, `git/rebase.go`, `ui/rebaseview` |
| `UndoRedo` | journal records, their comparison and the reset | `undo/`, `redo/` |
| `BisectSession` | marks, loads, the automated run and its output channel | `bisect/` |
| `HunkSelection` | diff, selection, partial patch, what Git makes of it | `patch/`, `hunks/`, `git/partial.go` |
| `ConflictResolver` | regions, choices, hash check, splice | `conflicts/`, `git/conflicts.go` |
| `GitHubWorkspace` | caches, loads, selection, preflight, merge, review, creation | `provider/`, `app/github_merge_preflight.go`, `app/app.go` |
| `RemoteJobs` | lists, questions, jobs, the shared handle, the board | `remotes/`, `app/app.go` |
| `PluginRuntime` | discovery, state file, negotiation, single flight, toggles | `plugins/`, `pkg/plugin` |
| `CustomCommands` | prompts, confirmation, expansion, processes | `customcmd/`, `app/app.go` |
| `BranchDialogs`, `StashWorkspace` | rows, questions and jobs that run meanwhile | `branches/`, `stash/`, `app/app.go` |
| `*_proofs` | theorems about eighteen of them, in eight modules (section 4) | |
| `MC*` | the small instances; `MCDashboard`, `MCGitOperations`, `MCWorkspaces` and `MCGitignore` hold several components | |

**RefreshCoordinator.** `active`, `dirty`, `closed`, `cancel`, `results`, `generation` are the
fields of the struct; `pc` says where each goroutine is (`start` before the critical section at
74, `refreshing` in the callback, `publish` in the select at 79, `settle` before the one at 84,
`exit` before the deferred `wg.Done`). `Request`, `Begin`, `Return`, `Publish`, `Discard`,
`Settle`, `Exit` and the three parts of Close (under the lock, the cancel after it, the wait)
are the actions. The repository is a version that grows: `wanted`, `begun` and `published` are
ghosts that say which version a request must see, the last refresh began at, and the last
published result shows. A refresh returns some version that the repository had while it ran. The
refinement mapping hides the goroutines: a request is owed if the dirty bit is set or a run is
about to begin.

**OperationEngine.** A job is an admitted call of `submit` and the goroutine it starts. The
tables are functions on identifiers and repositories; a mutex is named by the job whose submit
made it, so that two mutexes of one repository would be told apart. Retry's two critical
sections are two actions. What the work does is left out; whether it fails is a choice, and the
state of the result follows the code: a context that has ended decides, even over work that
succeeded. A refused call changes nothing.

**RepositorySession.** A command is a record that captures what its closure captures; completing
it puts a message in `inbox`, and messages are handled in any order. Each handler is one action
with the check the code makes on generation, request, root or coordinator, and the one it does
not make. The coordinator is its promise: closing it is synchronous, so the new session starts
with a fresh one. `due` is a ghost: the version that a finished mutation, hint or switch obliges
the screen to show.

**WatchManager.** The kernel's queue and its registrations (`native`) are separate from the
watcher's own set (`known`), because the code's repair exists for the case in which they differ.
Source goroutine, repair with its concurrent drain, manager goroutine, degradation and both
parts of Close are actions. A hint carries nothing, so what is tracked is whether something has
`changed` since the last hint was received.

**GitignoreDocument.** A document is a sequence of lines: rules, blanks, begin and end markers.
A begin marker carries whether its hash is the catalog's, since the code trusts the marker and
does not hash the body again. Each plan is the set of documents it can propose; what walks over
a document or over the catalog is a recursive function, which TLAPS can expand. Line endings,
comments and markers of unknown templates are left out (every scanner treats them as lines that
are neither rules nor blocks).

**GitignoreManager.** A command is a goroutine with its generation and its plan; it reads or
writes `file` and then waits as a message, which `Update` handles in any order. Apply is several
steps: the check (which writes the temporary file too), and the rename, or on Windows the move of
the target to `backups`, the installation, and the removal or the return of the old file, or the
rename alone when there is nothing to move (`FindNone`); each may fail. `Install` and `Restore`
replace what they find, as Go's `os.Rename` does on Windows too. A crash needs no action: what it
would find is what is on disk after any step. `raced` is a ghost that marks an Apply whose file
somebody wrote after its check; `made` is a ghost for the files that nobody deleted. What a plan
does to a document is `GitignoreDocument`'s subject: here it is any text.

**The dashboard.** A batch is a record with what its producer still has (`left`), a status per
repository and a phase; `batchHandle` names the batch whose cancel function the model holds,
which need not be the one that runs or ends. The submodule dialog is the code's one string. A
load of the registry is a goroutine that reads, merges, saves and refreshes in separate steps
between those of other loads and openings; what it saves is what it discovered, merged with the
stored metadata and the configured groups (`Merge`), and with `--group` only what is in that one
(`InGroup`, `regFilter`). Automatic fetches live on a clock in units of the
base of the backoff; jitter is a delay of any length; `run` and `streak` are ghosts for the
time at which the run of the last fetch began, from which the code counts, and for the failures
since the last success. `Tracked` is the pruning at the end of a run: of a list longer than
`MaxTracked` (256 in the code) it forgets any that it has a time for.

**Git's own operations.** `OperationRecovery` has the markers on disk, a reader that takes them
one command at a time, and the snapshot that comes of it; another terminal may begin and end
operations at any step. `was` is a ghost for the kinds that were in progress during a reading. In
`UndoRedo`, `RebaseWorkspace` and `BisectSession` Git's part (commit, reset, rebase, bisect) is
external and any other program may do the same; the ghosts say what an operation was allowed to
take off a branch. The rows a rebase plan is made of are the pages of the history that were loaded
(`Page`, `LoadHistory`, `HistoryReady`): pages are asked for and arrive while the branch moves.
`Reaches` says whether such a plan lists every commit above its base. A bisect's output is a
bounded channel, a writer that drops when it is full and one reader at a time.

**Hunks and conflicts.** A diff is a script of kept, removed and added lines; hunks are cut out of
it with context, as `git diff` does, and `GitApply` finds the place of each as `git apply` does:
at its line, or at the nearest that fits. What recurs over lines (`Only`, `Scripts`, `GitApply`)
is a recursive function. The view holds what the program read of the diff: without the ends of
lines (`Parsed`; CRLF becomes LF, and the marker of a missing final newline is no row that a patch
takes), and of a long diff its first `MaxRows` rows (`LastKept`, `lastRow`). A conflict file is
the merge result as texts and regions, and the lines the program reads of it. `ought` is a ghost
for what was put there, with the choices made since, each in the region the user saw (`Intended`),
and is kept apart from what a choice writes; `raced` marks a file over which a choice was renamed
that had not read what was there. A whole side is the blob of its stage (`BlobOf`), which is more
than the merge result with its regions replaced, and of a path that is not unmerged what the index
holds (`staged`). `Scan` is the loop of `ParseRegions`, a line a step (`ScanLine`), as a recursive
function.

**Dialogs and jobs.** In `BranchDialogs`, `StashWorkspace`, `RemoteJobs`, `GitHubWorkspace` and
`CustomCommands` a question is opened about the selection of that moment, a job takes what the
code has in its fields when it starts, and `named` is a ghost for what the question said. Lists,
keys, other jobs and messages go on in between. A load of the GitHub workspace may fail, which
empties the repository it shows (`hub.known`), and what is selected then names none (`placed`).
The caches of the provider carry the generation
the code gives them; `overtaken` is a ghost that marks an answer older than an invalidation.

## 3. The runs

| Run | Bounds | What it shows |
|---|---|---|
| `refresh` | 2 goroutines, 1 context, 1 caller of Close, 3 requests, 2 changes | requests not lost, idle means published, nothing after Close, results in order, requests answered, `RefreshPromise` implemented |
| `engine` | 3 jobs, 2 identifiers, 2 repositories, 2 workers, 2 outstanding, history of 1, 1 retrier | tables that agree with the jobs, retention, one answer, `SerialExecutor` implemented |
| `engine_liveness` | 3 jobs that compete for 1 worker | every job is answered |
| `session` | 2 repositories, 1 switch, 1 change each, 2 stimuli, 3 refreshes, all panes | the snapshot stays at home, quiet means fresh, no watcher leaks |
| `watch` | 2 metadata directories (one called .git), 1 that comes and goes, queue of 2, channels of 1, 2 changes | no change dropped, a hint arrives, goroutines end |
| `gitignore` | every file of at most 3 lines, 2 templates that share a rule, 2 mutations; and 2 repositories, 1 switch, 2 commands at once, 1 edit by others, 2 previews, Unix and Windows | others undisturbed, add reversible, handwritten templates stay; stale plans refused, the file survives a crash, the preview is the plan |
| `dashboard` | 2 repositories (1 detached), 1 worker, 2 batches, retry, switch; 3 modules (1 invalid), 2 operations; 2 loads, with and without `--group` (1 of 2 configured), 1 opening, cache of 1; 3 runs in 2 units of time, intervals of 1 and 2, 1 repository remembered of 2 | every batch accounts for its repositories and ends; the submodule dialog is truthful; favorites that every load lists are kept; fetches keep their distance |
| `git_operations` | 1 operation by each side and kind; 3 commits, 2 undos, 2 outside changes; 3 candidates, channel of 1; 2 local and 1 remote branch, 2 questions; 2 stash operations | a kind that is shown was real, the screen converges; what was named is done; readers of the output end |
| `workspaces` | 3 commits in pages of 2, an upstream and another branch, 3 keys, 2 pages asked for; files of 3 and 5 lines, one without its final newline, 4 rows of a diff kept; 2 conflict files with 2 regions, 2 choices; 2 pull requests, loads that fail; 2 remotes, 2 questions, a switch; 2 plugins, 2 loads; 4 commands, 2 starts | rebases that reach their base drop what they say; the whole selection of a diff kept whole is exact; files hold their choices; caches forget; the pull request shown is the selected one; jobs stay within reach; plugins are probed one by one; edits keep the plan |
| `session_rows`, `custom_confirm`, `hunk_selection` | as their components; `hunk_selection` takes files whose lines repeat | the findings of section 5 |

`MCDashboard`, `MCGitOperations`, `MCWorkspaces` and `MCGitignore` hold components that do not
share variables. They interact through what each already takes from its surroundings at any time
(a switch of the repository, a change by another program, a list that is loaded again), so a
behaviour moves one of them, `part`, and the others stand still.

Why the bounds are enough to be interesting. Two runners let one goroutine leave while its
successor runs; three requests give a run, a dirty bit and another. The engine's limits are
below the number of jobs, so the workers, the admission limit and the history all fill, and
identifier `a` is used in both repositories. One repository switch is the situation the
generation checks are for. Channels of one and a queue of two overflow with two changes. Three
lines hold a block and a handwritten line, or two begin markers that share an end; two mutations
let the second work on what the first left. Two commands let a preview or a reload arrive while
another plan is confirmed, and two Applies of one file overlap. Two batches share the handle,
and one worker leaves a repository with the producer when a batch is cancelled. Two loads of the
registry overlap, with a cache below the number of repositories, and the scheduler remembers fewer
repositories than the list has. Three commits in pages of two leave one that a plan may not
list; a diff of the larger file has more rows than are kept. Two questions let a job of the
first end under the second. Where one instance would be too large the work is a set of
alternatives (`MCRebaseWork`, `MCHubWork` and the like): much of one kind, or a little of each.
`CHECK_DEADLOCK FALSE` is set where the system may stop: a closed coordinator or manager, an
engine without submissions, a user who does nothing more.

**Fairness.** Goroutines are scheduled; a Git process ends because the runner kills it when its
context ends, and every job has a deadline. In the engine fairness is strong: goroutines that
wait for a channel or a `sync.Mutex` are woken in order of arrival. In the watcher it is strong
for the cases of a select that are ready again and again, since Go picks at random among the
ready ones. The application receives hints until it calls Close. The steps of a batch
(`BatchFairness`), of a refresh and of a recovery command (`RecFairness`), of a bisect job and
of the reader of its output (`BisFairness`) are weakly fair: they are goroutines and messages
that Bubble Tea delivers. Nothing makes a user or another program do anything.

Every property of a passing run has a mutant in `PROJECT.json`: a faulty variant of one
definition (kept next to it, marked `Faulty`) with which TLC finds the property violated.

Four configurations are kept beside the runs. `MCDashboardMore.cfg` and `MCWorkspacesMore.cfg`
check, without error, further invariants: the types (`TypesOK`), `FailuresCounted`,
`BulkAccountsForEach`, `CacheBounded`, `ChecksNeverOlder`, `PassedPromptsHold`.
`MCGitOperations` holds with `TypesOK`, `MCRepositorySession` with `TreeStaysHome`,
`MCGitignore` with `UpdateIsLocal`. The others (`MCRepositorySessionBranches`,
`MCRepositorySessionLoading`, `MCWatchManagerDirectories`, `MCGitignoreUpdate`) show violations
that section 5 describes.

## 4. What is proved

Every theorem is about the component by itself and for every value of its constants; the
assumptions are the named `ASSUME`s of the component's module (bounds are natural numbers,
capacities positive, marker values are not members of the sets they stand beside).

`RefreshCoordinator_proofs`, for every number of goroutines, contexts, callers of Close,
requests and changes: `TypeCorrect`, `OneRefreshAlways`, `NoLostRequestEver`,
`QuietMeansPublishedAlways`, `QuietAfterCloseAlways`, `ResultsAlwaysInOrder`, and
`ImplementsPromise` (initial states and steps map to `RefreshPromise`). `OneRefresh` is
inductive with the type invariant alone. The rest are not: the inductive invariant `Inv` adds
that the goroutine in the loop is the one whose request is recorded (`LoopIsCurrent`), that
nothing is wanted that does not exist, that a caller of Close past its first step means
`closed`, that while the coordinator is open its own context is not cancelled by Close
(`AliveWhileOpen`), that the current run is the latest (`CurrentIsLatest`), and that a run about
to settle has published unless its context is dead (`SettledMeansPublished`). The order of
results needs `OrderInv`: the queue is in order, what was delivered comes before it, and the
current run after it.

`OperationEngine_proofs`, for any number of jobs, identifiers, repositories and retriers and any
limits: `TypeCorrect`, `LocksAlwaysShared`, `OneJobAlways`, `SnapshotAlwaysTruthful`,
`RetentionAlwaysBounded`, `AnsweredAtMostOnce`, and `ServesAsExecutor` (it implements
`SerialExecutor`, fairness aside). None of them is inductive alone, and `Inv` collects what they
need of each other. That `refs` never drops below zero (`TypeOK`) needs `LocksShared`: finish
decrements a count in which its own job is counted. That one job works in a repository follows
from `LocksShared` too, because two outstanding jobs of one repository were given the same lock.
That finish finds the waiter of its own job (`AnswersOwn`) needs the first half of
`SnapshotTruthful`, which in turn needs that an identifier in `active` always belongs to an
outstanding job (`ActiveIsOutstanding`) and that jobs are numbered without gaps (`Numbered`).
The bound on what is retained counts the names found by `Retention`: every key of `latest` or
`retry` is an entry of the history or active. `SlotsBounded` gives the executor's limit.

`RepositorySession_proofs`, for any repositories and any number of sessions, commands and
messages: `SnapshotsAlwaysStayHome`, `WatchersNeverLeak`, `QuietAlwaysFresh`. `SessionInv` says
that what is on its way was made in this session or an earlier one, that what this session made
is about the repository it has open, and that an answer of this session shows it (`InSession`,
`Answers`). The first theorem is then that each handler's check lets through messages of this
session only. For the third, `FreshInv` distinguishes two cases: a refresh is still to come
(`Coming`), or the youngest thing that is on its way or shown is new enough (`Youngest`), and at
most one result of this session is in the inbox, so that none can be overtaken by an older one.

`WatchManager_proofs`, for any directories and capacities: `TypeCorrect` and
`NoChangeEverDropped`. `WatchInv` says where the account of a change can be: in the queue or its
overflow, in the debounce timer, which is armed whenever a repair has thrown events away
(`Debounced`), in a hint that an emitting goroutine holds (`HoldsHint`), in an error on its way
to the manager, or with the poller; and that the source's channel closes for a reason only
(`ClosedForAReason`).

`GitignoreManager_proofs`, for any repositories, texts and number of commands: `TypeCorrect`,
`PreviewAlwaysThePlan`, `FileAlwaysSurvives`, `StalePlansAlwaysRefused`. `DialogInv` adds to the
types that each command at work has a plan that does not propose to delete the file
(`SoundCommands`). `DiskInv` adds that a backup belongs to the one Apply that is between its
renames (`BackupsOwned`) and that every file that was made and not deleted is under its name, or
in a backup (`Survives`). The last theorem is an action property: `Fresh` says that an Apply past
its check finds what it read, or nothing once it moved that aside, or is marked `raced`; `Kept`
and `Bystander` say that the step of one command leaves that true of the others. Since every
rename replaces what is there, the theorem rests on this alone and not on a rename that fails.

The same module proves the plans themselves, for any catalog, any document over it and any number
of mutations: `DocumentTypeCorrect`, `OthersAlwaysUndisturbed`, `HandwrittenAlwaysStay`,
`AddAlwaysReversible` and `UpdatesAlwaysLocal`. These are facts about functions that recur over a
document. The library's induction theorems cannot be instantiated here, so `Induction` (a least
counterexample, over sets) and `Recursion` (a function that computes step by step exists) are
proved first. What `Without` leaves is then described by a position map (`Picks`: the k-th line
left is line `at[k]` of the document, in order), what `Joined` appends by the blocks in it. A
block none of whose lines is gone stays in one piece, two blocks of different templates share no
line, and blocks and markers of the result come from those of the document or of what was
appended. An update makes its edits from the last block to the first, at offsets of the file as it
was read: `Rewriting` says that after `k` lines the image is a front of the document, untouched
and with its markers in order, followed by a rewritten rest that has the same lines outside the
blocks and no stale one; the next stale block parts that front in three (`BlockParted`), which is
where disjoint blocks are needed, and `OutsideBoth` takes what is outside the blocks of two
documents in turn.

`Dashboard_proofs` has the dashboard's components. For any repositories, workers and batches:
`BatchAlwaysAccounts`, `DetachedAreNeverPulled`, `RetriesAlwaysFailures`. The invariant of one
batch (`Sound`) is that the producer still has what nobody has reported on, and nothing once the
results are posted; `Reported` ties the results that can be retried to a batch that was handled.
For any submodules: `DialogAlwaysTruthful` and `BulkAlwaysAccounts`; `SubmoduleInv` says which
operations are of this session and that the dialog says "running" only for one of these. For any
interval of each repository, backoff, limit of what is remembered and clock: `FetchesAlwaysSpaced`
and `FailuresAlwaysCounted`, where a repository that the pruning forgot begins anew; `FetchInv`
says that there is one run at most, that what a worker has taken was due when the run began
(`JobDue`), that a repository whose fetch has ended is due no sooner than it must be
(`NextSpaced`), and that the counter is the streak. For any registry: `CacheAlwaysBounded`,
`ChecksAreNeverOlder`, and `FavoritesAlwaysKept`, of the repositories that every load lists
(`AlwaysListed`: whichever repository is open, discovery finds it under the roots, within the
limit; and with `--group` the configuration has it in that group; what one load does not list is
not in the file it saves): the file, the entries shown and what a load or an opening is about to
save hold every favorite of them (`RegistryKept`).

`GitOperations_proofs`: `NamedAlwaysDone`, for branches. `QuestionsHold` says that the field a
question keeps (`mergeTarget`, `renameOld`, `asksAbout`) is what it named, as long as its mode is
set: a job that ends clears both. `NamedWasAlwaysReal`, for durable operations: the kind whose
markers are there, and every kind whose ref a reader has seen, is one in `was` (`MarkersWereReal`,
part of `ReadingInv`). `FilesAlwaysTheChoices`, for the conflict workspace, under the hypothesis
`Unambiguous`: no line of a text or of a side of the merge results can be taken for a marker (a
text that itself holds a line of `<<<<<<<` is read as a region that Git did not write, and a
choice in it replaces other lines; a side may hold `=======` only where the real separator ends it
again). Two facts carry it. The scan, line by line, finds exactly the regions of the merge result,
at their places and with their sides (`ResultScanned`, by induction over the pieces and, within
one, over its lines); so the splice at the offsets of a region gives the lines of the merge result
with that piece replaced (`ChoiceRight`). The invariant `ConflictInv` then says that every file,
every load on its way, the detail and the file a choice was made in hold the lines of some merge
result (`Held`), a file that is not `raced` those of what it ought to hold (`Good`), and that what
a choice met is what was shown (`ChoiceHolds`). Of two choices that overlap between the comparison
and the rename the first is lost: the file is then `raced`, and the theorem says nothing more of
it until its whole content is put there again.

`Workspaces_proofs`: `ProbesAlwaysSerial` (while a load exists the flag is set, so no other
begins) and `OnlyNegotiatedEver`, by the invariant that the tables of every load and the one shown
are of entries whose offers were negotiated (`Negotiations`). `JobsAlwaysWithinReach`, for
remotes: `RemoteInv` adds that every job derives its context from the one of the repository it was
started in (`JobTied`), so that a switch ends it even when the handle names another job.
`CachesAlwaysForget` and `ShownAlwaysSelected`, for the GitHub workspace: `HubInv` says that an
answer a load carries is about what it asked, and if it is overtaken of an earlier generation, so
that it is not stored (`ReadingFits`); that the load asked for last is about the selection
(`AboutSelection`), unless that names no repository, and the selection is what is shown
(`SelectionShown`); and that a preflight's answer is about its pull request (`PreflightsFit`).
`DropsAlwaysTold` and `EditsAlwaysKeepPlan`, for rebases of any length over a history of any
pages: at every stop of a rebase begun on the screen by a plan that reaches its base (`whole`),
each change of the branch it rewrites is in the result so far, in what the todo still has, or
excused (`Accounted`, part of `RbInv`): dropped by the plan, skipped, or committed after the
history was loaded. `HunksAlwaysTyped` and `WholeSelectionsAlwaysExact`, for partial patches: for
every set of files (sequences of lines, the only assumption), any width of context and any
shortest script whose rows were all kept, the patch of a whole selection takes each side to the
other, if the side is what the rows say, which of a line that does not end in LF they do not. The
argument has four steps. The hunks of a script are runs of its rows, in order and without a row in
common; every change is in one, and a hunk begins or ends with a change only where the script does
(`Apart`). Before a hunk is applied the image is the new side of the script up to the end of the
hunk before, followed by the old side of the rest, of lines that no hunk has touched
(`PatchedUpTo`, kept by `HunkApplied`). The line the header gives is then a place where the hunk
fits, so none is nearer, however often its rows occur elsewhere (`NearestExact`). And a patch
reversed is the patch of the script with its additions and removals exchanged (`PatchReversed`),
so that unstaging and discarding follow from staging. The invariant `HunkInv` adds to the types
that a finished patch of all rows left the other side of the diff where it met the one it was read
from, and that one between the two sides of a historical edit has left it in the worktree
(`RunSound`). `PassedPromptsAlwaysHold`, for custom commands of any valid configuration: `FormInv`
says that the prompts of an open form have identifiers of their own (so many as there are prompts,
hence no two alike: `IDsDistinct`), that the cursor is on an option, and that what each earlier
prompt was answered would pass it (`Passes`).

Only model-checked: everything that depends on fairness (`RequestAnswered`, `EveryJobAnswered`,
`HintArrives`, `GoroutinesEnd`, `BatchEnds`, `ShownConverges`, `OutputReadersEnd`, and the
fairness half of `KeepsPromise`), which TLAPS cannot prove, and the components that section 2
names and this section does not. `UpdateIsLocal` is proved for files whose markers are in order
only; for every file, as `UpdatePreservesOthers` has it, it is false (section 5).

## 5. Findings

Three runs end in a violation; `PROJECT.json` quotes the documents.

1. `session_rows`: after a switch the rows of the old repository can be acted on in the new one.
2. `custom_confirm`: a yes given to one custom command, which was then refused, confirms the
   next one.
3. `hunk_selection`: a partial patch leaves unselected removals out instead of keeping them as
   context, and where lines repeat Git applies it to others.

Met while modelling, with a property stated in the module (and TLC finds it violated when it is
checked), but without a run:

- `BranchesStayHome` (`MCRepositorySessionBranches.cfg`): `BranchesReadyMsg` (app.go:9629-9638)
  is accepted unconditionally, and a late branch list of the old repository is shown in the new
  one.
- `LoadsArrive` (`MCRepositorySessionLoading.cfg`): `setRepository` leaves `CommitTreeLoading`
  set, the late result is dropped (9580-9582) without clearing it, and the tree is never loaded;
  and `loadSubmodules` is keyed by the refresh generation while its message is compared with the
  repository generation (2520-2535, 9018-9026), so that the summary may stay "loading".
- `UpdatePreservesOthers` (`MCGitignoreUpdate.cfg`): two begin markers that share an end marker
  give overlapping edits, and the second one cuts at an offset the first one has moved
  (update.go:66-70). Nested markers have a milder effect elsewhere: taking out the inner block of a
  begin marker that opens no block can make that marker open one, which is why `KeepsOthers` and
  `HandwrittenTemplatesStay` say of the state of a template only where begin markers open blocks.
- `DirectoriesWatched` (`MCWatchManagerDirectories.cfg`): the repair of the registrations adds
  the metadata tree with `addTree`, whose `skip` rejects a directory called .git, so the
  repository's own .git is registered no more (fs.go:133-136, 289-312).
- `DeletionIsAsked` (`BranchDialogs`): Esc leaves `BranchDeleteTarget` (app.go:3504-3508), and
  the next text typed into another dialog is taken for the confirmation (3538-3541); the
  documents say deletion requires exact confirmation (docs/advanced-workflows.md:127-128).
- `StashIsTheNamed` (`StashWorkspace`): a stash is named by its place from the question to the
  command (app.go:7846, 3782).
- `UndoSparesOthers` (`UndoRedo`, with three outside changes): a commit made between the
  comparison and the reset is undone too.
- `NewerFileKept` (`ConflictResolver`): an edit, or another choice, between the comparison of the
  hash and the rename is overwritten (git/conflicts.go:49-64;
  tasks/completed/141-implement-safe-hunk-level-conflict-resolution.md:41).
- `MergesPreflighted` (`GitHubWorkspace`): a load that arrives between the preflight and the y
  replaces the pull request to be merged (app.go:9807; docs/advanced-workflows.md:165-166). It
  needs more work of each kind than the run has.
- `ActsOnTheNamed` and `BoardTruthful` (`RemoteJobs`): the dialog names a remote and the job
  takes the selection of the moment (app.go:5532-5555); the end of a job marks the newest one
  (10414-10431).
- `RenderFollowsPlan` (`RebaseWorkspace`): an action given twice to a commit clears its changed
  flag, and the todo has the old line (plan.go:190, 215; the comment at 133-134).
- `SessionShown` (`BisectSession`): a refresh reads no bisect session, so changes from outside
  are not shown until the workspace is opened again (docs/advanced-workflows.md:75-76).
- `RecoveryLeft` (`OperationRecovery`): a late result leaves the recovery workspace open after
  its operation ended.
- `SwitchesKept` (`PluginRuntime`): a load that began before a toggle brings the old setting
  back (app.go:9994), and saves may end in the other order.
- `BatchesSerialized` (`RepositoryBatch`): batches and automatic fetches run beside the
  operation engine, which the documents say serializes conflicting work
  (docs/advanced-workflows.md:213-217).

Without a property:

- `Engine.run` records `Running` before it has a worker (engine.go:198), where the documents
  describe `queued` until then (docs/advanced-workflows.md:213-218); a timeout in the queue is
  recorded as cancelled (202), and work that succeeded in the instant its context ended as
  cancelled or timed out (215-222).
- Removing a managed template also deletes a unique handwritten line of the same rule
  (remove.go:55-61); the documents promise both a conservative removal and that user text is
  never deleted (docs/gitignore-manager.md:14-16).
- The body of a managed block is not hashed again, so an edited body under an intact marker
  counts as exact; adopting inside another block breaks that block.
- A catalog that is reloaded while a preview is on the screen replaces the view and hides the
  preview, and the confirmation stays (app.go:9103): y then applies a plan that is no longer
  shown. `PreviewIsThePlan` states the direction that holds.
- `setRepository` keeps the confirmation and its plan: y in the repository that was switched to
  writes the file of the one that was left, if its hash still matches.
- Between the check of the hash and the rename, what another program or a second Apply writes is
  overwritten; `StalePlansRefused` exempts exactly those steps. A removal that fails after the
  installation reports an error although the file was replaced.
- After the manager has degraded to polling, the source goroutine may wait on its full channel
  until Close.
- A batch dialog that is opened while a batch runs sets `RepositoryBatchCancel` to nil without
  cancelling (app.go:5218), and the end of a batch cancels whichever batch holds the handle
  (10332). A cancelled automatic fetch counts as a failure.
- A cancelled gitignore batch reports zero values for the plans no worker took (batch.go:245);
  nothing calls it yet.
- `{remote}` and `{tag}` of a custom command are never filled (app.go:1232-1265).
- Creating a pull request or an issue does not forget what the caches hold (app.go:9985).
- A load of the dashboard saves only what it discovered and, with `--group`, only that group
  (app.go:5038-5045): with the default roots, which are the repository that is open, or with a
  group, the other favorites and groups of the registry file are gone, which
  docs/advanced-workflows.md:190 calls stored registry metadata.
- replace.go:13-14 describes a rename on Windows that does not replace an existing file; Go's
  `os.Rename` replaces it, so what is written after the target was moved aside (34) is lost (40).
- With more than 256 repositories the scheduler of automatic fetches forgets times and failures
  of repositories that are still in the list (auto_fetch.go:172-181): they are due again at once.
- A rebase plan lists the rows of the history that are loaded, 100 a page. With an older base
  (an upstream more than a page behind) Git's todo is replaced by a list without the commits in
  between (git/rebase.go:196-232), and they are dropped untold.
- The patch of a selection has no marker of a missing final newline (patch.go:29-33): Git refuses
  it where the context has such a line, or gives the line one. CRLF is read as LF
  (parser.go:54-55), and a diff that was cut (app.go:3006-3024) is offered like a whole one.
- A pull request that is selected after a failed load, which empties the repository of the view
  (ui/githubview/view.go:210), is ignored by the next load (app.go:4466), which shows the
  branch's own; and a merge or review that ends then forgets nothing of the branch's cache, since
  the repository it looks up is empty.

## 6. Not modelled, and why

Parsers of Git's output, the views, configuration, the provider's HTTP client and the release
tools keep no state that other parts race for, or are input and output. Tags and worktrees have
the shape of branches and stashes: one Git command behind a question. History, blame, compare,
notifications and health are bounded lists of one goroutine. `manage/transaction.go`,
`registry/groups.go`'s mutations, the transition table of `sequencer.go`, and the undo stack of
`conflicts/regions.go` are called by tests only. The Git processes themselves are external: they
appear as versions of a repository, or as the operators that say what Git makes of a patch, a
todo or a ref.

## 7. Plan

Done, in the order in which the behaviour matters: the coordinator, the engine, the session, the
watcher, the gitignore plans and their workspace; the dashboard; Git's own operations; the
workspaces; the proofs of eight modules.

Left:

1. Tags and worktrees, and the parts of `app.go` that route keys and messages between workspaces
   (`currentView`, modal states).
2. Proofs about `StashWorkspace`, `BisectSession` and `UndoRedo`.
3. Undo of a gitignore mutation, once something calls it.
4. A composition of `RepositorySession` with `OperationEngine` and `RemoteJobs`, where a job
   outlives the session that began it.
