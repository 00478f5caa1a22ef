-------------------------- MODULE RepositoryRegistry --------------------------
(***************************************************************************)
(* The registry of repositories and the dashboard that shows it.           *)
(*                                                                         *)
(* A load (loadRepositories) runs in a goroutine: it discovers             *)
(* repositories, reads the state file, merges, writes the state file,      *)
(* refreshes every repository through registry.Engine, and posts rows and  *)
(* entries to Update, which puts them in the place of the old ones and     *)
(* asks GitHub for checks.  Opening a row writes the state file too, from  *)
(* the entries that Update had.  Loads may overlap: a batch, an automatic  *)
(* fetch and the user each start them.                                     *)
(*                                                                         *)
(* Of the metadata of a repository the model keeps the favorite flag,      *)
(* which stands for the name as well (both come from the file or from      *)
(* nowhere), whether it is in the group that --group shows, and            *)
(* LastOpened, as the number of the opening.                               *)
(***************************************************************************)
EXTENDS Naturals, FiniteSets

CONSTANTS
  Known,             \* paths of repositories
  Home,              \* the repository that is open at first
  Roots,             \* repositories under RepositoryRoots; {} if none is configured
  Grouped,           \* repositories that RepositoryGroups puts into the group of --group
  MaxRepositories,   \* Options.MaxRepositories
  MaxCached,         \* maxCachedRepositories
  MaxLoads, MaxOpens \* bounds

ASSUME RegistryAssumption ==
  /\ Home \in Known /\ Roots \subseteq Known /\ Grouped \subseteq Known
  /\ {MaxRepositories, MaxCached, MaxLoads, MaxOpens} \subseteq Nat

VARIABLES
  regFilter,    \* RepositoryGroup is not empty: gitwatch was started with --group
  regFile,      \* the state file: path -> metadata
  regEntries,   \* RepositoryRegistry: path -> metadata
  regRows,      \* Repositories.AllRows: path -> state of the row
  regRoot,      \* Discovery.Root
  regCache,     \* Engine.cache: paths
  regLoads,     \* loads: number -> where it is and what it knows
  regOpens,     \* openings: number -> where it is and what it knows
  regCI         \* checks: requests in flight, RepositoryCIRequest, request shown

regVars == <<regFilter, regFile, regEntries, regRows, regRoot, regCache, regLoads, regOpens, regCI>>

Metadata == [favorite : BOOLEAN, grouped : BOOLEAN, opened : 0..MaxOpens]
PartialOn(S, T) == UNION {[D -> T] : D \in SUBSET S}
Entries == PartialOn(Known, Metadata)
RowStates == {"ready", "error", "inactive"}

Load == [phase : {"discover", "read", "save", "refresh", "ready", "failed", "done"},
         captured : Entries, root : Known, found : SUBSET Known, entries : Entries,
         rows : PartialOn(Known, RowStates), session : 0..MaxOpens]
Open == [path : Known, entries : Entries, phase : {"save", "opened", "failed", "done", "switched"}]

RegTypeOK ==
  /\ regFilter \in BOOLEAN
  /\ regFile \in Entries /\ regEntries \in Entries
  /\ regRows \in PartialOn(Known, RowStates)
  /\ regRoot \in Known
  /\ regCache \subseteq Known
  /\ DOMAIN regLoads \subseteq 1..MaxLoads /\ \A l \in DOMAIN regLoads : regLoads[l] \in Load
  /\ DOMAIN regOpens \subseteq 1..MaxOpens /\ \A o \in DOMAIN regOpens : regOpens[o] \in Open
  /\ regCI \in [pending : SUBSET (1..MaxLoads), request : 0..MaxLoads, shown : 0..MaxLoads]

Empty == [p \in {} |-> 0]
Fresh == [favorite |-> FALSE, grouped |-> FALSE, opened |-> 0]

\* An earlier session left a file in which every repository is a favorite, and which may
\* hold groups that are configured no more.
RegInit ==
  /\ regFilter \in BOOLEAN
  /\ regFile \in [Known -> [favorite : {TRUE}, grouped : BOOLEAN, opened : {0}]]
  /\ regEntries = Empty /\ regRows = Empty
  /\ regRoot = Home
  /\ regCache = {}
  /\ regLoads = Empty /\ regOpens = Empty
  /\ regCI = [pending |-> {}, request |-> 0, shown |-> 0]

\* Sessions that ended, and with them their contexts (setRepository).
Switches == Cardinality({o \in DOMAIN regOpens : regOpens[o].phase = "switched"})

Put(f, k, v) == [x \in DOMAIN f \union {k} |-> IF x = k THEN v ELSE f[x]]
OnlyLoads == UNCHANGED <<regFilter, regFile, regEntries, regRows, regRoot, regCache, regOpens, regCI>>

-----------------------------------------------------------------------------
\* loadRepositories

LoadStart ==
  /\ Cardinality(DOMAIN regLoads) < MaxLoads
  /\ regLoads' = Put(regLoads, Cardinality(DOMAIN regLoads) + 1,
       [phase |-> "discover", captured |-> regEntries, root |-> regRoot, found |-> {},
        entries |-> Empty, rows |-> Empty, session |-> Switches])
  /\ OnlyLoads

LoadStep(l, from, to) == regLoads[l].phase = from /\ regLoads' = [regLoads EXCEPT ![l].phase = to]

\* An unreadable root, a newer schema, a full disk, a context that ended.
LoadFail(l) ==
  /\ \E from \in {"discover", "read", "save"} : LoadStep(l, from, "failed")
  /\ OnlyLoads

\* registry.Discover stops at the limit.
Discovered(root) ==
  LET under == IF Roots = {} THEN {root} ELSE Roots
  IN {S \in SUBSET under : Cardinality(S) = IF Cardinality(under) < MaxRepositories
                                             THEN Cardinality(under) ELSE MaxRepositories}

LoadDiscover(l) ==
  /\ regLoads[l].phase = "discover"
  /\ \E found \in Discovered(regLoads[l].root) :
       regLoads' = [regLoads EXCEPT ![l].phase = "read", ![l].found = found]
  /\ OnlyLoads

FaultyMerge(found, stored) == [p \in found |-> Fresh]

\* registry.Merge: what was discovered, with the metadata that was stored and the groups
\* that are configured.
Merge(found, stored) ==
  [p \in found |-> LET prior == IF p \in DOMAIN stored THEN stored[p] ELSE Fresh
                   IN [prior EXCEPT !.grouped = @ \/ p \in Grouped]]

\* registry.InGroup, for gitwatch --group: the others are neither saved nor shown.
InGroup(entries) ==
  IF regFilter THEN [p \in {q \in DOMAIN entries : entries[q].grouped} |-> entries[p]]
               ELSE entries

LoadRead(l) ==
  /\ regLoads[l].phase = "read"
  /\ regLoads' = [regLoads EXCEPT ![l].phase = "save",
                                  ![l].entries = InGroup(Merge(regLoads[l].found, regFile))]
  /\ OnlyLoads

\* registry.Save: a temporary file takes the place of the old one.
LoadSave(l) ==
  /\ LoadStep(l, "save", "refresh")
  /\ regFile' = regLoads[l].entries
  /\ UNCHANGED <<regFilter, regEntries, regRows, regRoot, regCache, regOpens, regCI>>

\* Engine.refreshOne: a repository that was opened long ago, is not the active
\* one and is in the cache is shown from it; any other is read, and put in the
\* cache, from which another is removed when it is too large.
RefreshOne(l, p) ==
  /\ regLoads[l].phase = "refresh"
  /\ p \in DOMAIN regLoads[l].entries \ DOMAIN regLoads[l].rows
  /\ \/ /\ p \in regCache /\ p # regLoads[l].root /\ regLoads[l].entries[p].opened > 0
        /\ regLoads' = [regLoads EXCEPT ![l].rows = Put(@, p, "inactive")]
        /\ UNCHANGED regCache
     \/ /\ \E state \in {"ready", "error"} :
             regLoads' = [regLoads EXCEPT ![l].rows = Put(@, p, state)]
        /\ LET larger == regCache \union {p}
           IN IF Cardinality(larger) > MaxCached /\ larger # {p}
              THEN \E oldest \in larger \ {p} : regCache' = larger \ {oldest}
              ELSE regCache' = larger
  /\ UNCHANGED <<regFilter, regFile, regEntries, regRows, regRoot, regOpens, regCI>>

\* Engine.Refresh returns when every repository has its row, or without the
\* rows of those that were not handed to a worker before its context ended: the
\* context is the one of the session that started the load.
LoadReady(l) ==
  /\ DOMAIN regLoads[l].rows = DOMAIN regLoads[l].entries \/ Switches # regLoads[l].session
  /\ LoadStep(l, "refresh", "ready")
  /\ OnlyLoads

\* loadRepositoryCI: the checks of the repositories shown, if any is shown.
RequestChecks(shown) ==
  regCI' = [regCI EXCEPT !.request = @ + 1,
                         !.pending = IF shown = {} THEN @ ELSE @ \union {regCI.request + 1}]

\* RepositoriesReadyMsg, whichever load it is from and whatever repository was
\* opened meanwhile; it starts a request for checks (loadRepositoryCI).
LoadHandle(l) ==
  /\ LoadStep(l, "ready", "done")
  /\ regEntries' = regLoads[l].entries
  /\ regRows' = regLoads[l].rows
  /\ RequestChecks(DOMAIN regLoads[l].rows)
  /\ UNCHANGED <<regFilter, regFile, regRoot, regCache, regOpens>>

LoadError(l) == LoadStep(l, "failed", "done") /\ OnlyLoads

\* DashboardCIReadyMsg: only the latest request of the open repository counts.
AcceptChecks(request) == request = regCI.request

ChecksHandle(request) ==
  /\ request \in regCI.pending
  /\ regCI' = [regCI EXCEPT !.pending = @ \ {request},
                            !.shown = IF AcceptChecks(request) THEN request ELSE @]
  /\ UNCHANGED <<regFilter, regFile, regEntries, regRows, regRoot, regCache, regLoads, regOpens>>

-----------------------------------------------------------------------------
\* openSelectedRepository and RepositoryOpenedMsg

OpenStart(p) ==
  /\ Cardinality(DOMAIN regOpens) < MaxOpens
  /\ p \in DOMAIN regRows
  /\ regOpens' = Put(regOpens, Cardinality(DOMAIN regOpens) + 1,
       [path |-> p, entries |-> regEntries, phase |-> "save"])
  /\ UNCHANGED <<regFilter, regFile, regEntries, regRows, regRoot, regCache, regLoads, regCI>>

Stamped(entries, p, n) == [q \in DOMAIN entries |-> IF q = p THEN [entries[q] EXCEPT !.opened = n] ELSE entries[q]]

\* The Git directory is found and the file written, or it is not written but
\* the repository is opened all the same, or it is not found.
OpenSave(o) ==
  /\ regOpens[o].phase = "save"
  /\ \/ /\ regFile' = Stamped(regOpens[o].entries, regOpens[o].path, o)
        /\ regOpens' = [regOpens EXCEPT ![o].phase = "opened"]
     \/ \E phase \in {"opened", "failed"} :
          regOpens' = [regOpens EXCEPT ![o].phase = phase] /\ UNCHANGED regFile
  /\ UNCHANGED <<regFilter, regEntries, regRows, regRoot, regCache, regLoads, regCI>>

OpenHandle(o) ==
  /\ regOpens[o].phase \in {"opened", "failed"}
  /\ regOpens' = [regOpens EXCEPT ![o].phase = IF @ = "opened" THEN "switched" ELSE "done"]
  /\ IF regOpens[o].phase = "opened"
     THEN /\ regRoot' = regOpens[o].path
          /\ regEntries' = Stamped(regEntries, regOpens[o].path, o)
          /\ regCI' = [regCI EXCEPT !.pending = {}]  \* of an older generation
     ELSE UNCHANGED <<regRoot, regEntries, regCI>>
  /\ UNCHANGED <<regFilter, regFile, regRows, regCache, regLoads>>

RegNext ==
  \/ LoadStart
  \/ \E l \in DOMAIN regLoads :
       \/ LoadFail(l) \/ LoadDiscover(l) \/ LoadRead(l) \/ LoadSave(l)
       \/ \E p \in Known : RefreshOne(l, p)
       \/ LoadReady(l) \/ LoadHandle(l) \/ LoadError(l)
  \/ \E request \in regCI.pending : ChecksHandle(request)
  \/ \E p \in Known : OpenStart(p)
  \/ \E o \in DOMAIN regOpens : OpenSave(o) \/ OpenHandle(o)

RegSpec == RegInit /\ [][RegNext]_regVars

-----------------------------------------------------------------------------
\* Every load discovers p, whichever repository is open when it starts, and shows it.
AlwaysListed(p) ==
  /\ \A root \in Known : \A found \in Discovered(root) : p \in found
  /\ regFilter => p \in Grouped

\* docs/advanced-workflows.md:190: "favorites and groups are stored as registry
\* metadata".  No operation of the application takes a favorite back, so the
\* file must keep it, through loads and openings that overlap and write what
\* they read earlier (registry.Merge, registry.Save, openSelectedRepository):
\* of every repository that no load leaves out.  A load writes the file with what
\* it discovered and --group shows, so the metadata of any other is gone with it.
FavoritesKept ==
  [][\A p \in Known \cap DOMAIN regFile : AlwaysListed(p) /\ regFile[p].favorite =>
       p \in DOMAIN regFile' /\ regFile'[p].favorite]_regVars

\* The engine's cache stays within its bound, although workers of several loads
\* insert into it (refreshOne).
CacheBounded == Cardinality(regCache) <= MaxCached \/ Cardinality(regCache) = 1

\* The checks shown are never replaced by those of an older request, in
\* whatever order the answers arrive (DashboardCIReadyMsg).
ChecksNeverOlder == [][regCI'.shown >= regCI.shown]_regVars
==============================================================================
