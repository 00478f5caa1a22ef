---------------------------- MODULE GitHubWorkspace ----------------------------
(***************************************************************************)
(* The GitHub workspace: loads that read the provider through caches       *)
(* (loadGitHub, provider/cache.go), the pull request they show, and what   *)
(* is asked of the provider about it: merges after a preflight, reviews,   *)
(* the branch's deletion, new pull requests.  Of the nine cached answers   *)
(* the two that say what is shown are kept: the pull request of a branch   *)
(* and the details of one; the list of the open ones comes with the first. *)
(* A branch has at most one pull request, which goes by the branch's name. *)
(***************************************************************************)
EXTENDS Integers, FiniteSets

CONSTANTS HubBranches, \* branches that may have a pull request
          HubWork      \* how much a behaviour may do: dialogs opened, requests to
                       \* the provider, loads, events outside

ASSUME HubBounds ==
    HubBranches # {} /\ HubWork \subseteq [asks : Nat, posts : Nat, loads : Nat, events : Nat]

VARIABLES server,    \* each branch's pull request: open, head, fit to be merged
          onBranch,  \* m.Snapshot.Branch.Name
          items, gens, \* the caches: an item per key, a generation per cache
          hubLoads, hubRequest, \* loads under way; m.githubLoadRequest
          selection, placed, \* m.githubPRSelection: {} or the pull request; its
                     \* Repository is the repository, not the empty one
          hub,       \* m.GitHub: the pull request shown, the open ones, Ready; known
                     \* unless its Repository is empty, as a load that failed leaves it
          inHub,     \* the workspace is on the screen
          dialogs, named, \* the dialogs open, what each one's question names
          preflights, mergeRefresh, \* GitHubMergePreflightMsg to come; m.GitHubMergeRefresh
          posts,     \* requests that change something, until they are answered
          hubWork    \* what is left of one element of HubWork

hubVars == <<server, onBranch, items, gens, hubLoads, hubRequest, selection, placed, hub,
             inHub, dialogs, named, preflights, mergeRefresh, posts, hubWork>>

PullOf(b) == [number |-> b, open |-> server[b].open, head |-> server[b].head]
OpenPulls == {PullOf(b) : b \in {c \in HubBranches : server[c].open}}
Numbers(pulls) == {p.number : p \in pulls}

Keys == [cache : {"branch", "detail"}, of : HubBranches]
NoItem == [held |-> FALSE, value |-> {}, overtaken |-> FALSE]
Questions == <<"create", "issue", "method", "merge", "delete", "review", "check">>

HubTypeOK ==
    /\ server \in [HubBranches -> [open : BOOLEAN, head : Nat, fit : BOOLEAN]]
    /\ onBranch \in HubBranches /\ DOMAIN items = Keys
    /\ gens \in [{"branch", "detail"} -> Nat]
    /\ \A l \in hubLoads : l.request <= hubRequest
    /\ Cardinality(selection) <= 1 /\ Cardinality(hub.pull) <= 1
    /\ {inHub, mergeRefresh, placed, hub.ready, hub.known} \subseteq BOOLEAN
    /\ dialogs \subseteq {Questions[i] : i \in DOMAIN Questions}
    /\ hubWork \in [asks : Nat, posts : Nat, loads : Nat, events : Nat]

(* The workspace is opened for the first time, or shows what a load found.  *)
HubInit ==
    /\ server \in [HubBranches -> [open : BOOLEAN, head : {0}, fit : {TRUE}]]
    /\ onBranch = CHOOSE b \in HubBranches : TRUE
    /\ gens = [c \in {"branch", "detail"} |-> 0]
    /\ hubLoads = {} /\ hubRequest = 0 /\ selection = {} /\ placed = FALSE
    /\ inHub \in BOOLEAN
    /\ LET own == {p \in OpenPulls : p.number = onBranch} IN
       /\ hub = [pull |-> IF inHub THEN own ELSE {}, pulls |-> IF inHub THEN OpenPulls ELSE {},
                 branch |-> IF inHub THEN onBranch ELSE "", ready |-> inHub, known |-> inHub]
       /\ items = [k \in Keys |-> IF inHub /\ k.of = onBranch /\ (k.cache = "detail" => own # {})
                                    THEN [held |-> TRUE, value |-> own, overtaken |-> FALSE]
                                    ELSE NoItem]
    /\ dialogs = {} /\ named = [q \in {Questions[i] : i \in DOMAIN Questions} |-> {}]
    /\ preflights = {} /\ mergeRefresh = FALSE /\ posts = {}
    /\ hubWork \in HubWork

Can(what) == hubWork[what] > 0 /\ hubWork' = [hubWork EXCEPT ![what] = @ - 1]

(* Somebody pushes to a pull request, whose checks have then to pass again, *)
(* or they do; another branch is checked out here.                          *)
HubOutside ==
    /\ Can("events")
    /\ \/ \E b \in HubBranches :
            /\ server[b].open /\ UNCHANGED onBranch
            /\ server' = [server EXCEPT ![b] = [open |-> TRUE, head |-> @.head + 1, fit |-> FALSE]]
       \/ \E b \in HubBranches : /\ ~server[b].fit /\ UNCHANGED onBranch
                                 /\ server' = [server EXCEPT ![b].fit = TRUE]
       \/ onBranch' \in HubBranches \ {onBranch} /\ UNCHANGED server
    /\ UNCHANGED <<items, gens, hubLoads, hubRequest, selection, placed, hub, inHub,
                   dialogs, named, preflights, mergeRefresh, posts>>

-----------------------------------------------------------------------------
(* loadGitHub: the pull request of the branch, the details of the one to    *)
(* show, which is the one selected in this repository, as the list has it   *)
(* now, or as it was.                                                       *)

NewLoad(request, picked) ==
    [request |-> request, branch |-> onBranch, picked |-> picked, stage |-> "branch",
     step |-> "lookup", gen |-> 0, before |-> NoItem, got |-> {}, late |-> FALSE, failed |-> FALSE,
     pull |-> {}, pulls |-> {}]
Picked == IF placed THEN selection ELSE {}
StartLoad(picked) ==
    /\ hubRequest' = hubRequest + 1
    /\ hubLoads' = hubLoads \cup {NewLoad(hubRequest + 1, picked)}

KeyOf(l) == [cache |-> l.stage,
             of |-> IF l.stage = "branch" THEN l.branch ELSE CHOOSE n \in Numbers(l.pull) : TRUE]
Ask(key) == IF key.cache = "branch" THEN {p \in OpenPulls : p.number = key.of}
            ELSE {PullOf(key.of)}

PullFor(l, own) ==
    LET listed == {p \in OpenPulls : p.number \in Numbers(l.picked)}
    IN  CASE l.picked = {} -> own [] listed # {} -> listed [] OTHER -> l.picked
Advance(l, value) ==
    LET next == [l EXCEPT !.step = "lookup", !.gen = 0, !.before = NoItem, !.got = {}, !.late = FALSE]
        pull == PullFor(l, value) IN
    CASE l.stage = "branch" -> [next EXCEPT !.pull = pull, !.pulls = OpenPulls,
                                           !.stage = IF pull = {} THEN "done" ELSE "detail"]
      [] l.stage = "detail" -> [next EXCEPT !.pull = IF value = {} THEN @ ELSE value,
                                           !.stage = "done"]
Becomes(l, next) == hubLoads' = (hubLoads \ {l}) \cup {next}
Reading == UNCHANGED <<server, onBranch, gens, hubRequest, selection, placed, hub, inHub,
                       dialogs, named, preflights, mergeRefresh, posts, hubWork>>

(* Cache.get: an item that has not expired is the answer, an expired one is *)
(* kept for a request that fails; the repository's remotes come first.      *)
LookUp ==
    \E l \in hubLoads :
      /\ l.step = "lookup" /\ l.stage # "done"
      /\ LET item == items[KeyOf(l)] IN
         \/ item.held /\ Becomes(l, Advance(l, item.value))
         \/ Becomes(l, [l EXCEPT !.step = "fetch", !.gen = gens[KeyOf(l).cache], !.before = item])
         \/ l.stage = "branch" /\ Becomes(l, [l EXCEPT !.stage = "done", !.failed = TRUE])
      /\ UNCHANGED items /\ Reading
Fetch ==
    \E l \in hubLoads :
      /\ l.step = "fetch"
      /\ \/ Becomes(l, [l EXCEPT !.step = "store", !.got = Ask(KeyOf(l))])
         \/ Becomes(l, Advance(l, IF l.before.held /\ gens[KeyOf(l).cache] = l.gen
                                    THEN l.before.value ELSE {}))
      /\ UNCHANGED items /\ Reading
FaultyMayStore(l) == TRUE
MayStore(l) == gens[KeyOf(l).cache] = l.gen
Store ==
    \E l \in hubLoads :
      /\ l.step = "store"
      /\ items' = IF MayStore(l)
                    THEN [items EXCEPT ![KeyOf(l)] = [held |-> TRUE, value |-> l.got,
                                                      overtaken |-> l.late]]
                    ELSE items
      /\ Becomes(l, Advance(l, l.got)) /\ Reading

(* GitHubReadyMsg, unless another load was asked for since; one that failed *)
(* names no repository, and leaves the pull requests where they are.        *)
FaultyCurrent(l) == TRUE
Current(l) == l.request = hubRequest
HubReady ==
    \E l \in hubLoads :
      /\ l.stage = "done" /\ hubLoads' = hubLoads \ {l}
      /\ hub' = CASE ~Current(l) -> hub
                  [] Current(l) /\ l.failed ->
                       [hub EXCEPT !.ready = FALSE, !.known = FALSE, !.branch = l.branch]
                  [] OTHER -> [pull |-> l.pull, pulls |-> l.pulls, branch |-> l.branch,
                               ready |-> TRUE, known |-> TRUE]
      /\ mergeRefresh' = (mergeRefresh /\ ~(Current(l) /\ l.failed))
      /\ UNCHANGED <<server, onBranch, items, gens, hubRequest, selection, placed, inHub, dialogs,
                     named, preflights, posts, hubWork>>

-----------------------------------------------------------------------------
(* Coming and going drop the selection; the palette makes one; any remote   *)
(* operation that ends loads again.                                         *)
Idle == UNCHANGED <<server, onBranch, items, gens, dialogs, named, preflights, mergeRefresh, posts>>

Navigate ==
    /\ (inHub => dialogs = {}) /\ inHub' = ~inHub /\ UNCHANGED hub
    /\ selection' = {} /\ placed' = FALSE
    /\ \/ inHub /\ hubRequest' = hubRequest + 1 /\ Can("loads") /\ UNCHANGED hubLoads
       \/ ~inHub /\ Can("loads") /\ StartLoad({})
    /\ Idle
SelectPull ==
    /\ (inHub => dialogs = {}) /\ inHub' = TRUE
    /\ \E p \in hub.pulls :
         /\ selection' = {p} /\ placed' = hub.known
         /\ hub' = [hub EXCEPT !.pull = {p}, !.ready = FALSE]
         /\ Can("loads") /\ StartLoad(Picked')
    /\ Idle
RemoteFinished ==
    /\ Can("loads") /\ StartLoad(Picked) /\ UNCHANGED <<selection, placed, hub, inHub>> /\ Idle

-----------------------------------------------------------------------------
(* The dialogs, answered in the order of Questions.                         *)
Asking(q, about) == dialogs' = dialogs \cup {q} /\ named' = [named EXCEPT ![q] = about]
Closing(q) == dialogs' = dialogs \ {q} /\ named' = [named EXCEPT ![q] = {}]
Top == CHOOSE q \in dialogs :
         \E i \in DOMAIN Questions : Questions[i] = q /\ \A k \in 1..(i - 1) : Questions[k] \notin dialogs
AtHand == UNCHANGED <<server, onBranch, items, gens, hubLoads, hubRequest, selection, placed,
                      hub, inHub>>

StartCreate == hub.known /\ Asking("create", {PullOf(onBranch)})
StartIssue == hub.known /\ Asking("issue", {})
StartMerge == hub.pull # {} /\ Asking("method", {})
StartReview == hub.pull # {} /\ Asking("review", hub.pull)
StartCheckAction == hub.pull # {} /\ Asking("check", hub.pull)
StartAsking ==
    /\ inHub /\ dialogs = {} /\ Can("asks")
    /\ StartCreate \/ StartIssue \/ StartMerge \/ StartReview \/ StartCheckAction
    /\ UNCHANGED <<preflights, mergeRefresh, posts>> /\ AtHand
ChooseMethod ==
    /\ inHub /\ dialogs # {} /\ Top = "method" /\ Closing("method")
    /\ \/ UNCHANGED <<preflights, mergeRefresh>>
       \/ /\ mergeRefresh' = TRUE
          /\ preflights' = preflights \cup {[of |-> n, read |-> ~hub.known, pull |-> {}] :
                                           n \in Numbers(hub.pull)}
    /\ UNCHANGED <<posts, hubWork>> /\ AtHand

(* githubMergePreflight reads the provider, not the caches; with no         *)
(* repository it has failed as it begins.                                   *)
Preflight ==
    \E f \in preflights :
      /\ ~f.read
      /\ preflights' = (preflights \ {f}) \cup
           {[f EXCEPT !.read = TRUE,
                      !.pull = IF server[f.of].open /\ server[f.of].fit THEN {PullOf(f.of)} ELSE {}]}
      /\ UNCHANGED <<dialogs, named, mergeRefresh, posts, hubWork>> /\ AtHand
PreflightReady ==
    \E f \in preflights :
      /\ f.read /\ preflights' = preflights \ {f}
      /\ LET accepted == mergeRefresh /\ inHub /\ f.of \in Numbers(hub.pull) IN
         /\ mergeRefresh' = (mergeRefresh /\ ~accepted)
         /\ IF accepted /\ f.pull # {}
              THEN Asking("merge", f.pull) /\ hub' = [hub EXCEPT !.pull = f.pull, !.ready = TRUE]
              ELSE /\ IF accepted THEN Closing("merge") ELSE UNCHANGED <<dialogs, named>>
                   /\ UNCHANGED hub
      /\ UNCHANGED <<server, onBranch, items, gens, hubLoads, hubRequest, selection, placed,
                     inHub, posts, hubWork>>

(* y looks at what is shown now, the deletion at what was noted.            *)
About(q) == CASE q \in {"merge", "review"} -> hub.pull
              [] q \in {"delete", "check", "issue"} -> named[q]
              [] q = "create" -> {PullOf(onBranch)}
Yes ==
    /\ inHub /\ dialogs # {} /\ Top # "method" /\ Closing(Top) /\ Can("posts")
    /\ posts' = posts \cup {[kind |-> Top, about |-> About(Top), named |-> named[Top],
                             known |-> hub.known, at |-> "asked", ok |-> FALSE]}
    /\ UNCHANGED <<preflights, mergeRefresh>> /\ AtHand
No ==
    /\ inHub /\ dialogs # {} /\ Top # "method" /\ Closing(Top)
    /\ UNCHANGED <<server, onBranch, items, gens, selection, placed, hub, inHub, preflights,
                   mergeRefresh, posts>>
    /\ IF Top = "delete" THEN Can("loads") /\ StartLoad(Picked)
       ELSE UNCHANGED <<hubLoads, hubRequest, hubWork>>

(* GitHub merges the head it is told of and refuses another; a request that *)
(* names no repository comes to nothing.                                    *)
Answered(q, ok) == posts' = (posts \ {q}) \cup {[q EXCEPT !.at = "answered", !.ok = ok]}
ProviderTakes ==
    \E q \in posts :
      /\ q.at = "asked"
      /\ \/ Answered(q, FALSE) /\ UNCHANGED server
         \/ /\ q.known /\ q.kind = "merge"
            /\ \E p \in q.about : p = PullOf(p.number) /\ p.open
                               /\ server' = [server EXCEPT ![p.number].open = FALSE]
            /\ Answered(q, TRUE)
         \/ /\ q.known /\ q.kind \in {"review", "check", "issue"}
            /\ Answered(q, TRUE) /\ UNCHANGED server
         \/ /\ q.known /\ q.kind = "delete" /\ Answered(q, TRUE)
            /\ server' = [b \in HubBranches |-> IF b \in Numbers(q.about)
                                                  THEN [server[b] EXCEPT !.open = FALSE]
                                                  ELSE server[b]]
         \/ /\ q.known /\ q.kind = "create" /\ \E b \in Numbers(q.about) :
                 ~server[b].open /\ server' = [server EXCEPT ![b].open = TRUE]
            /\ Answered(q, TRUE)
      /\ UNCHANGED <<onBranch, items, gens, hubLoads, hubRequest, selection, placed, hub, inHub,
                     dialogs, named, preflights, mergeRefresh, hubWork>>

(* invalidateGitHubMutationCaches forgets every list and every detail, and  *)
(* of the branches the one checked out, in the repository shown, and none   *)
(* when that is empty; Invalidate that one.  A load that has its answer     *)
(* already is overtaken: `late' notes it.                                   *)
Forget(caches, b) ==
    /\ gens' = [c \in DOMAIN gens |-> IF c \in caches THEN gens[c] + 1 ELSE gens[c]]
    /\ items' = [k \in Keys |-> IF /\ k.cache \in caches
                                     /\ k.cache = "branch" => k.of = b /\ hub.known
                                  THEN NoItem ELSE items[k]]
Overtake(loads, caches, b) ==
    {[l EXCEPT !.late = @ \/ (/\ l.step = "store" /\ KeyOf(l).cache \in caches
                              /\ (KeyOf(l).cache = "branch" => KeyOf(l).of = b))] : l \in loads}
Reload(picked, caches, b) ==
    /\ hubRequest' = hubRequest + 1
    /\ hubLoads' = Overtake(hubLoads, caches, b) \cup {NewLoad(hubRequest + 1, picked)}
Everything == {"branch", "detail"}

(* The answer about a new pull request counts in the repository and on the  *)
(* branch it was asked for.                                                 *)
Awaited(q) == q.known => hub.known /\ hub.branch \in Numbers(q.about)
Selecting == <<selection, placed>>
PostFinished ==
    \E q \in posts :
      /\ q.at = "answered" /\ posts' = posts \ {q}
      /\ CASE q.kind \in {"merge", "review", "check", "issue"} /\ ~q.ok ->
                Closing(q.kind) /\ UNCHANGED <<items, gens, hubLoads, hubRequest, Selecting>>
           [] q.kind = "merge" /\ q.ok ->
                /\ Forget(Everything, onBranch) /\ Reload(Picked, Everything, onBranch)
                /\ IF hub.pull = {} THEN Closing("merge")
                   ELSE /\ dialogs' = (dialogs \ {"merge"}) \cup {"delete"}
                        /\ named' = [named EXCEPT !.merge = {}, !.delete = hub.pull]
                /\ UNCHANGED Selecting
           [] q.kind = "review" /\ q.ok ->
                /\ Forget(Everything, onBranch) /\ Reload(Picked, Everything, onBranch)
                /\ Closing("review") /\ UNCHANGED Selecting
           [] q.kind \in {"check", "issue"} /\ q.ok ->
                /\ Reload(Picked, {}, onBranch) /\ Closing(q.kind)
                /\ UNCHANGED <<items, gens, Selecting>>
           [] q.kind = "delete" ->
                /\ IF q.ok THEN Forget(Everything, onBranch) ELSE UNCHANGED <<items, gens>>
                /\ Reload(Picked, IF q.ok THEN Everything ELSE {}, onBranch)
                /\ Closing("delete") /\ UNCHANGED Selecting
           [] q.kind = "create" /\ ~Awaited(q) ->
                UNCHANGED <<dialogs, named, items, gens, hubLoads, hubRequest, Selecting>>
           [] q.kind = "create" /\ Awaited(q) ->
                /\ Closing("create")
                /\ IF q.ok THEN /\ Forget({"branch"}, hub.branch) /\ Reload({}, {"branch"}, hub.branch)
                                /\ selection' = {} /\ placed' = FALSE
                   ELSE UNCHANGED <<items, gens, hubLoads, hubRequest, Selecting>>
      /\ UNCHANGED <<server, onBranch, hub, inHub, preflights, mergeRefresh, hubWork>>

HubNext ==
    \/ HubOutside \/ LookUp \/ Fetch \/ Store \/ HubReady
    \/ Navigate \/ SelectPull \/ RemoteFinished
    \/ StartAsking \/ ChooseMethod \/ Preflight \/ PreflightReady
    \/ Yes \/ No \/ ProviderTakes \/ PostFinished

HubSpec == HubInit /\ [][HubNext]_hubVars

-----------------------------------------------------------------------------
(* "A request that began before invalidation cannot repopulate the cache    *)
(* after a mutation" (cache.go:36): no cache holds an answer that GitHub    *)
(* gave before the workspace forgot what it holds.                          *)
CachesForget == \A k \in Keys : ~items[k].overtaken

(* The pull request shown, which the next merge or review is about, is the  *)
(* one selected, however loads, selections and their answers cross.  This   *)
(* supposes that it was selected while the repository was known: one that   *)
(* was selected after a load had failed is not asked for by the next, which *)
(* shows the branch's own in its place.                                     *)
ShownIsSelected ==
    hub.ready /\ selection # {} /\ placed => Numbers(hub.pull) = Numbers(selection)

(* "Enter performs a fresh merge preflight and only then offers the         *)
(* separate y confirmation": a merge asked for is the one the preflight     *)
(* approved, of that pull request at that head.  The code does not keep     *)
(* this when a load replaces the pull request before the y.                 *)
MergesPreflighted == \A q \in posts : q.kind = "merge" => q.about = q.named
================================================================================
