-------------------------- MODULE Workspaces_proofs --------------------------
(***************************************************************************)
(* Proofs about workspaces that share no state, for any amount of work:    *)
(* plugins, for any manifests, answers and capabilities; remotes, for any  *)
(* jobs and repositories; pull requests, for any branches; rebases, for    *)
(* any branch, plan and outcome of Git; hunks, for any files and any       *)
(* number of lines of context; custom commands, for any configuration.     *)
(***************************************************************************)
EXTENDS PluginRuntime, GitHubWorkspace, RemoteJobs, RebaseWorkspace, HunkSelection, CustomCommands,
        FiniteSetTheorems, SequenceTheorems, WellFoundedInduction, TLAPS

-----------------------------------------------------------------------------
(* One load at a time, and so one plugin process at a time.                *)

\* loadPlugins sets inFlight and the message of the load clears it.
OneLoad == /\ pluginLoads # {} => inFlight
           /\ \A l, k \in pluginLoads : l = k

LEMMA LoadingKeepsOne ==
  ASSUME OneLoad, NEW l \in pluginLoads, NEW next, Loading(l, next)
  PROVE  OneLoad'
<1>1. pluginLoads' = {next} /\ inFlight' = inFlight
  BY DEF OneLoad, Loading
<1> QED BY <1>1 DEF OneLoad

LEMMA OneLoadInductive ==
  ASSUME OneLoad, [PluginNext]_pluginVars
  PROVE  OneLoad'
<1>1. CASE UNCHANGED pluginVars
  BY <1>1 DEF pluginVars, OneLoad
<1>2. CASE LoadPlugins
  <2>1. CASE inFlight
    BY <1>2, <2>1 DEF LoadPlugins, MayLoad, OneLoad
  <2>2. CASE ~inFlight
    BY <1>2, <2>2 DEF LoadPlugins, MayLoad, OneLoad
  <2> QED BY <2>1, <2>2
<1>3. CASE Discover
  BY <1>3, LoadingKeepsOne DEF Discover
<1>4. CASE ApplyState
  BY <1>4, LoadingKeepsOne DEF ApplyState
<1>5. CASE StartProbe
  BY <1>5, LoadingKeepsOne DEF StartProbe
<1>6. CASE EndProbe
  BY <1>6, LoadingKeepsOne DEF EndProbe
<1>7. CASE PluginsReady
  <2>1. pluginLoads' = {}
    BY <1>7 DEF PluginsReady, OneLoad
  <2> QED BY <2>1 DEF OneLoad
<1>8. CASE Toggle \/ SaveState \/ PluginOutside
  BY <1>8 DEF Toggle, SaveState, PluginOutside, OneLoad
<1> QED BY <1>1, <1>2, <1>3, <1>4, <1>5, <1>6, <1>7, <1>8 DEF PluginNext

LEMMA OneLoadMeansOneProcess == OneLoad => PluginsProbedSerially
<1> SUFFICES ASSUME OneLoad PROVE PluginsProbedSerially
  OBVIOUS
<1> DEFINE asking == {l \in pluginLoads : l.asking}
<1>1. CASE asking = {}
  BY <1>1, FS_EmptySet DEF PluginsProbedSerially
<1>2. CASE asking # {}
  <2>1. PICK l : l \in asking
    BY <1>2
  <2>2. asking = {l}
    BY <2>1 DEF OneLoad
  <2> QED BY <2>2, FS_Singleton DEF PluginsProbedSerially
<1> QED BY <1>1, <1>2

\* "The Plugins workspace probes enabled entries serially and coalesces overlapping reload
\* requests" (docs/plugins.md): however many loads are asked for, while one is under way
\* and whatever repositories are opened, at most one plugin process runs.
THEOREM ProbesAlwaysSerial == PluginSpec => []PluginsProbedSerially
<1>1. PluginInit => OneLoad
  BY DEF PluginInit, OneLoad
<1>2. OneLoad /\ [PluginNext]_pluginVars => OneLoad'
  BY OneLoadInductive
<1> QED BY <1>1, <1>2, OneLoadMeansOneProcess, PTL DEF PluginSpec

-----------------------------------------------------------------------------
(* What is shown of a plugin was negotiated with it.                       *)

Entry == [manifest : Manifests, enabled : BOOLEAN, healthy : BOOLEAN,
          granted : SUBSET STRING, offers : SUBSET STRING]

\* An entry as Discover, Probe and Space leave it.
Negotiated(entry) ==
  /\ entry.granted \subseteq Offered(entry)
  /\ \A k \in entry.offers : Valid(k) /\ Needs(k) \subseteq entry.granted
  /\ ~entry.healthy => entry.offers = {}

Negotiations(entries) ==
  \/ entries = NoEntries
  \/ /\ entries \in [Plugins -> Entry]
     /\ \A p \in Plugins : Negotiated(entries[p])

Tables == {e \in {NoEntries} \cup [Plugins -> Entry] : Negotiations(e)}
Load == [id : Nat, session : Nat, next : Nat, asking : BOOLEAN, entries : Tables]

NegotiatedInv ==
  /\ manifests \in [Plugins -> Manifests]
  /\ DOMAIN switches \subseteq Plugins /\ \A p \in DOMAIN switches : switches[p] \in BOOLEAN
  /\ \A s \in saves : DOMAIN s \subseteq Plugins /\ \A p \in DOMAIN s : s[p] \in BOOLEAN
  /\ opened \in Nat /\ pluginWork \in [loads : Nat, toggles : Nat, outside : Nat]
  /\ pluginLoads \subseteq Load
  /\ \A l \in pluginLoads :
       /\ l.next > 0 => l.entries \in [Plugins -> Entry]
       /\ l.asking => l.next \in DOMAIN PluginOrder /\ Asks(l.entries[Probing(l)])
  /\ Negotiations(shown)

\* Handshake refuses a grant that was not offered, and filterContributions drops what
\* needs more than was granted.
LEMMA ProbeNegotiates ==
  ASSUME NEW entry \in Entry, Asks(entry), NEW r \in Replies
  PROVE  Probed(entry, r) \in Entry /\ Negotiated(Probed(entry, r))
<1> USE PluginBounds
<1>1. r.grants \subseteq STRING /\ r.sends \subseteq STRING
  OBVIOUS
<1>2. CASE Agrees(entry, r)
  <2> DEFINE left == Filtered(DecodeContributions(r.sends), r.grants)
  <2>1. Probed(entry, r) = [entry EXCEPT !.granted = r.grants, !.offers = left]
    BY <1>2 DEF Probed
  <2>2. left \subseteq STRING /\ \A k \in left : Valid(k) /\ Needs(k) \subseteq r.grants
    BY <1>1 DEF Filtered, DecodeContributions
  <2> HIDE DEF left
  <2>3. r.grants \subseteq Offered(entry) /\ entry.healthy
    BY <1>2 DEF Agrees, Asks
  <2> QED BY <1>1, <2>1, <2>2, <2>3 DEF Negotiated, Entry, Offered
<1>3. CASE ~Agrees(entry, r)
  BY <1>3 DEF Probed, Negotiated, Entry, Offered
<1> QED BY <1>2, <1>3

\* ApplyState and Space only switch.
LEMMA SwitchingNegotiates ==
  ASSUME NEW entry \in Entry, Negotiated(entry), NEW on \in BOOLEAN
  PROVE  [entry EXCEPT !.enabled = on] \in Entry /\ Negotiated([entry EXCEPT !.enabled = on])
BY DEF Entry, Negotiated, Offered

\* A step of a load keeps the invariant if the load it leaves satisfies it.
LEMMA LoadingNegotiates ==
  ASSUME NegotiatedInv, NEW l \in pluginLoads, NEW next \in Load, Loading(l, next),
         next.next > 0 => next.entries \in [Plugins -> Entry],
         next.asking => next.next \in DOMAIN PluginOrder /\ Asks(next.entries[Probing(next)])
  PROVE  NegotiatedInv'
BY DEF NegotiatedInv, Loading, Negotiations, Negotiated, Offered, Asks, Probing

LEMMA NegotiatedInitially == PluginInit => NegotiatedInv
BY PluginBounds DEF PluginInit, NegotiatedInv, Negotiations, NoEntries

LEMMA NegotiatedInductive ==
  ASSUME NegotiatedInv, [PluginNext]_pluginVars
  PROVE  NegotiatedInv'
<1> USE DEF NegotiatedInv
<1>1. CASE UNCHANGED pluginVars
  BY <1>1 DEF pluginVars, Negotiations, Negotiated, Offered, Asks, Probing
<1>2. CASE LoadPlugins
  <2>1. CASE inFlight
    BY <1>2, <2>1 DEF LoadPlugins, PluginSpends, MayLoad
  <2>2. CASE ~inFlight
    <3> DEFINE new == [id |-> pluginWork.loads, session |-> opened, next |-> 0,
                       entries |-> NoEntries, asking |-> FALSE]
    <3>1. new \in Load /\ new.next = 0 /\ ~new.asking
      BY DEF Load, Tables, Negotiations
    <3>2. pluginLoads' = pluginLoads \cup {new}
      BY <1>2, <2>2 DEF LoadPlugins, MayLoad
    <3> HIDE DEF new
    <3>3. \A l \in pluginLoads' :
            /\ l \in Load
            /\ l.next > 0 => l.entries \in [Plugins -> Entry]
            /\ l.asking => l.next \in DOMAIN PluginOrder /\ Asks(l.entries[Probing(l)])
      BY <3>1, <3>2
    <3>4. pluginWork' \in [loads : Nat, toggles : Nat, outside : Nat]
      BY <1>2 DEF LoadPlugins, PluginSpends
    <3> QED BY <1>2, <3>3, <3>4 DEF LoadPlugins, Asks, Probing, Negotiations, Negotiated, Offered
  <2> QED BY <2>1, <2>2
<1>3. CASE Discover
  <2>1. PICK l \in pluginLoads :
          /\ l.next = 0
          /\ Loading(l, [l EXCEPT !.entries = [p \in Plugins |-> Discovered(p)]])
    BY <1>3 DEF Discover
  <2> DEFINE found == [p \in Plugins |-> Discovered(p)]
  <2>2. found \in [Plugins -> Entry] /\ \A p \in Plugins : Negotiated(found[p])
    BY PluginBounds DEF Discovered, Entry, Negotiated, Offered
  <2> HIDE DEF found
  <2>3. [l EXCEPT !.entries = found] \in Load
    BY <2>2 DEF Load, Tables, Negotiations
  <2>4. ~l.asking
    BY <2>1, PluginBounds DEF Load
  <2> QED BY <2>1, <2>2, <2>3, <2>4, LoadingNegotiates DEF Load, found
<1>4. CASE ApplyState
  <2>1. PICK l \in pluginLoads :
          /\ l.next = 0 /\ DOMAIN l.entries = Plugins
          /\ Loading(l, [l EXCEPT !.next = 1,
                       !.entries = [p \in Plugins |-> [l.entries[p] EXCEPT
                          !.enabled = IF p \in DOMAIN switches THEN switches[p] ELSE @]]])
    BY <1>4 DEF ApplyState
  <2> DEFINE shaken == [p \in Plugins |-> [l.entries[p] EXCEPT
                        !.enabled = IF p \in DOMAIN switches THEN switches[p] ELSE @]]
  <2>2. l.entries \in [Plugins -> Entry] /\ \A p \in Plugins : Negotiated(l.entries[p])
    BY <2>1 DEF Load, Tables, Negotiations, NoEntries
  <2>3. shaken \in [Plugins -> Entry] /\ \A p \in Plugins : Negotiated(shaken[p])
    <3> SUFFICES ASSUME NEW p \in Plugins
                 PROVE  shaken[p] \in Entry /\ Negotiated(shaken[p])
      OBVIOUS
    <3>1. l.entries[p] \in Entry /\ Negotiated(l.entries[p])
      BY <2>2
    <3>2. (IF p \in DOMAIN switches THEN switches[p] ELSE l.entries[p].enabled) \in BOOLEAN
      BY <3>1 DEF Entry
    <3> QED BY <3>1, <3>2, SwitchingNegotiates
  <2> HIDE DEF shaken
  <2>4. [l EXCEPT !.next = 1, !.entries = shaken] \in Load
    BY <2>3, ZenonT(60) DEF Load, Tables, Negotiations
  <2>5. ~l.asking
    BY <2>1, PluginBounds DEF Load
  <2> QED BY <2>1, <2>3, <2>4, <2>5, LoadingNegotiates DEF Load, shaken
<1>5. CASE StartProbe
  <2>1. PICK l \in pluginLoads :
          /\ l.next \in DOMAIN PluginOrder /\ ~l.asking
          /\ Loading(l, IF Asks(l.entries[Probing(l)]) THEN [l EXCEPT !.asking = TRUE]
                                                       ELSE [l EXCEPT !.next = @ + 1])
    BY <1>5 DEF StartProbe
  <2>2. l \in Load /\ l.next \in Nat
    BY DEF Load
  <2>3. CASE Asks(l.entries[Probing(l)])
    <3> DEFINE next == [l EXCEPT !.asking = TRUE]
    <3>1. next \in Load /\ next.asking /\ next.next = l.next /\ next.entries = l.entries
      BY <2>2 DEF Load
    <3>2. Loading(l, next)
      BY <2>1, <2>3
    <3> QED BY <2>1, <2>3, <3>1, <3>2, LoadingNegotiates DEF Probing
  <2>4. CASE ~Asks(l.entries[Probing(l)])
    <3> DEFINE next == [l EXCEPT !.next = @ + 1]
    <3>1. next \in Load /\ ~next.asking /\ next.entries = l.entries
      BY <2>1, <2>2 DEF Load
    <3>2. Loading(l, next)
      BY <2>1, <2>4
    <3>3. l.next > 0
      BY <2>1, PluginBounds
    <3> QED BY <2>1, <3>1, <3>2, <3>3, LoadingNegotiates
  <2> QED BY <2>3, <2>4
<1>6. CASE EndProbe
  <2>1. PICK l \in pluginLoads, r \in Replies :
          /\ l.asking
          /\ Loading(l, [l EXCEPT !.asking = FALSE, !.next = l.next + 1,
                                  !.entries = AfterProbe(l, r)])
    BY <1>6 DEF EndProbe
  <2> DEFINE p == Probing(l)
             after == AfterProbe(l, r)
             next == [l EXCEPT !.asking = FALSE, !.next = l.next + 1, !.entries = after]
  <2>2. l \in Load /\ l.next \in DOMAIN PluginOrder /\ l.next > 0 /\ Asks(l.entries[p])
    BY <2>1, PluginBounds
  <2>3. l.entries \in [Plugins -> Entry] /\ p \in Plugins
    BY <2>2 DEF Plugins, Probing
  <2>4. \A q \in Plugins : Negotiated(l.entries[q])
    <3>1. Negotiations(l.entries)
      BY <2>2 DEF Load, Tables
    <3>2. l.entries # NoEntries
      BY <2>3 DEF NoEntries
    <3> QED BY <3>1, <3>2 DEF Negotiations
  <2>5. Probed(l.entries[p], r) \in Entry /\ Negotiated(Probed(l.entries[p], r))
    BY <2>2, <2>3, ProbeNegotiates
  <2>6. after \in [Plugins -> Entry] /\ \A q \in Plugins : Negotiated(after[q])
    BY <2>3, <2>4, <2>5 DEF AfterProbe
  <2>7. Loading(l, next)
    BY <2>1
  <2>8. after \in Tables
    BY <2>6 DEF Negotiations, Tables
  <2>9. next \in Load /\ ~next.asking /\ next.entries = after
    <3>1. PICK n \in Nat : n = l.next + 1
      BY <2>2 DEF Load
    <3> DEFINE moved == [l EXCEPT !.asking = FALSE, !.next = n, !.entries = after]
    <3>2. moved \in Load /\ ~moved.asking /\ moved.entries = after
      <4> HIDE DEF after
      <4> QED BY <2>2, <2>8 DEF Load
    <3>3. next = moved
      BY <3>1
    <3> HIDE DEF next, moved
    <3> QED BY <3>2, <3>3
  <2> QED BY <2>6, <2>7, <2>9, LoadingNegotiates
<1>7. CASE PluginsReady
  BY <1>7 DEF PluginsReady, Load, Tables, Negotiations, Negotiated, Offered, Asks, Probing
<1>8. CASE Toggle
  <2>1. PICK p \in DOMAIN shown :
          /\ shown' = [shown EXCEPT ![p].enabled = ~@]
          /\ saves' = saves \cup {[q \in DOMAIN shown |-> shown'[q].enabled]}
    BY <1>8 DEF Toggle
  <2>2. shown \in [Plugins -> Entry] /\ \A q \in Plugins : Negotiated(shown[q])
    BY <2>1 DEF Negotiations, NoEntries
  <2>3. shown' \in [Plugins -> Entry] /\ \A q \in Plugins : Negotiated(shown'[q])
    <3>1. shown[p] \in Entry /\ Negotiated(shown[p])
      BY <2>1, <2>2
    <3> shown[p].enabled \in BOOLEAN
      BY <3>1 DEF Entry
    <3> (~shown[p].enabled) \in BOOLEAN
      OBVIOUS
    <3>2. /\ [shown[p] EXCEPT !.enabled = ~shown[p].enabled] \in Entry
          /\ Negotiated([shown[p] EXCEPT !.enabled = ~shown[p].enabled])
      BY <3>1, SwitchingNegotiates
    <3>3. shown' = [shown EXCEPT ![p] = [shown[p] EXCEPT !.enabled = ~shown[p].enabled]]
      BY <2>1
    <3> QED BY <2>1, <2>2, <3>2, <3>3
  <2>4. \A q \in DOMAIN shown : shown'[q].enabled \in BOOLEAN
    BY <2>2, <2>3 DEF Entry
  <2>5. Negotiations(shown)'
    BY <2>3 DEF Negotiations, Negotiated, Offered
  <2>6. \A s \in saves' : DOMAIN s \subseteq Plugins /\ \A q \in DOMAIN s : s[q] \in BOOLEAN
    BY <2>1, <2>2, <2>4
  <2> QED BY <1>8, <2>5, <2>6 DEF Toggle, PluginSpends
<1>9. CASE SaveState
  BY <1>9 DEF SaveState, Negotiations, Negotiated, Offered, Asks, Probing
<1>10. CASE PluginOutside
  BY <1>10 DEF PluginOutside, PluginSpends, Negotiations, Negotiated, Offered, Asks, Probing
<1> QED BY <1>1, <1>2, <1>3, <1>4, <1>5, <1>6, <1>7, <1>8, <1>9, <1>10 DEF PluginNext

\* "Contributions are filtered by the capabilities actually negotiated" (docs/plugins.md):
\* whatever a manifest claims and a plugin answers, nothing is shown of it that needs more
\* than the manifest asked for and the host supports, and its action can run only while it
\* is enabled and was granted.
THEOREM OnlyNegotiatedEver == PluginSpec => []OnlyNegotiatedShown
<1>1. NegotiatedInv => OnlyNegotiatedShown
  <2> SUFFICES ASSUME NegotiatedInv, NEW p \in DOMAIN shown
               PROVE  /\ \A k \in shown[p].offers : Valid(k) /\ Needs(k) \subseteq Offered(shown[p])
                      /\ ~shown[p].healthy => shown[p].offers = {}
                      /\ CanRunMetadataAction(shown[p]) =>
                           shown[p].enabled /\ Needs("action") \subseteq shown[p].granted
    BY DEF OnlyNegotiatedShown
  <2>1. Negotiated(shown[p])
    BY DEF NegotiatedInv, Negotiations, NoEntries
  <2> QED BY <2>1 DEF Negotiated, CanRunMetadataAction, Asks
<1> QED BY <1>1, NegotiatedInitially, NegotiatedInductive, PTL DEF PluginSpec

-----------------------------------------------------------------------------
(* Jobs of the Remotes workspace.                                          *)

RemoteJobFields == {"op", "on", "asked", "at", "cancelled", "outcome", "tied"}

\* A job, started when this or an earlier repository was open, derives its context from
\* that repository's.
JobTied(job) ==
  /\ DOMAIN job = RemoteJobFields
  /\ job.tied /\ job.on.session \in Nat /\ job.on.session <= rsession

RemoteInv ==
  /\ \E S : rjobs \in Seq(S)
  /\ rsession \in Nat /\ remoteCancel \in 0..Len(rjobs)
  /\ \A j \in DOMAIN rjobs : JobTied(rjobs[j])
  /\ JobsWithinReach

\* A sequence of anything, with one element more, or with one replaced.
LEMMA Appended ==
  ASSUME NEW s, \E S : s \in Seq(S), NEW x, NEW t, t = Append(s, x)
  PROVE  /\ \E S : t \in Seq(S)
         /\ Len(s) \in Nat /\ DOMAIN s = 1..Len(s)
         /\ Len(t) = Len(s) + 1 /\ DOMAIN t = 1..(Len(s) + 1)
         /\ t[Len(s) + 1] = x /\ \A i \in 1..Len(s) : t[i] = s[i]
<1>1. PICK S : s \in Seq(S)
  OBVIOUS
<1>2. s \in Seq(S \cup {x})
  <2>1. s \in [1..Len(s) -> S \cup {x}] /\ Len(s) \in Nat
    BY <1>1
  <2> QED BY <2>1
<1> QED BY <1>2, AppendProperties, LenProperties

LEMMA Replaced ==
  ASSUME NEW s, \E S : s \in Seq(S), NEW j \in DOMAIN s, NEW x
  PROVE  LET t == [s EXCEPT ![j] = x]
         IN  /\ \E S : t \in Seq(S)
             /\ Len(s) \in Nat /\ DOMAIN s = 1..Len(s)
             /\ Len(t) = Len(s) /\ DOMAIN t = DOMAIN s
             /\ t[j] = x /\ \A i \in DOMAIN s : i # j => t[i] = s[i]
<1>1. PICK S : s \in Seq(S)
  OBVIOUS
<1>2. s \in Seq(S \cup {x}) /\ Len(s) \in Nat /\ DOMAIN s = 1..Len(s)
  <2>1. s \in [1..Len(s) -> S \cup {x}] /\ Len(s) \in Nat
    BY <1>1
  <2> QED BY <1>1, <2>1, LenProperties
<1> QED BY <1>2, ExceptSeq

\* A key starts a job of the repository shown, and can cancel it.
LEMMA StartedKeeps ==
  ASSUME RemoteInv, NEW op, NEW name, NEW asked, Started(op, name, asked), UNCHANGED rsession
  PROVE  RemoteInv'
<1>1. \E outcome : rjobs' = Append(rjobs, [op |-> op, on |-> Here(name), asked |-> asked, at |-> "queued",
                               cancelled |-> FALSE, outcome |-> outcome, tied |-> TRUE])
  BY Zenon DEF Started
<1>2. PICK outcome : rjobs' = Append(rjobs, [op |-> op, on |-> Here(name), asked |-> asked, at |-> "queued",
                               cancelled |-> FALSE, outcome |-> outcome, tied |-> TRUE])
  BY <1>1
<1> DEFINE job == [op |-> op, on |-> Here(name), asked |-> asked, at |-> "queued",
                   cancelled |-> FALSE, outcome |-> outcome, tied |-> TRUE]
<1>3. remoteCancel' = Len(rjobs) + 1
  BY Zenon DEF Started
<1>4. /\ DOMAIN job = RemoteJobFields /\ job.tied /\ job.on.session = rsession
      /\ job.at = "queued" /\ ~job.cancelled
  BY DEF Here, RemoteJobFields
<1>5. rjobs' = Append(rjobs, job) /\ rsession' = rsession
  BY <1>2
<1> HIDE DEF job
<1>6. /\ \E S : rjobs' \in Seq(S)
      /\ Len(rjobs) \in Nat /\ DOMAIN rjobs = 1..Len(rjobs)
      /\ Len(rjobs') = Len(rjobs) + 1 /\ DOMAIN rjobs' = 1..(Len(rjobs) + 1)
      /\ rjobs'[Len(rjobs) + 1] = job /\ \A i \in 1..Len(rjobs) : rjobs'[i] = rjobs[i]
  <2>1. \E S : rjobs \in Seq(S)
    BY DEF RemoteInv
  <2> QED BY <1>5, <2>1, Appended
<1>7. remoteCancel' \in 0..Len(rjobs') /\ rsession' \in Nat /\ rsession \in Nat
  BY <1>3, <1>5, <1>6 DEF RemoteInv
<1>8. \A j \in DOMAIN rjobs' : JobTied(rjobs[j])'
  BY <1>4, <1>5, <1>6, <1>7 DEF RemoteInv, JobTied
<1>9. JobsWithinReach'
  BY <1>3, <1>4, <1>5, <1>6 DEF RemoteInv, JobsWithinReach
<1> QED BY <1>6, <1>7, <1>8, <1>9 DEF RemoteInv

\* One job goes on; the handle stays on another, or is dropped.
LEMMA JobStepKeeps ==
  ASSUME RemoteInv, NEW j \in DOMAIN rjobs, NEW job, rjobs' = [rjobs EXCEPT ![j] = job],
         DOMAIN job = RemoteJobFields, job.tied, job.on = rjobs[j].on,
         job.at \in {"ended", "handled"} \/ job.cancelled \/ job.on.session = rsession,
         rjobs[j].cancelled => job.cancelled \/ job.at \in {"ended", "handled"},
         remoteCancel' = 0 \/ remoteCancel' = remoteCancel,
         remoteCancel' = j => /\ job.on.session = rsession
                              /\ job.at # "handled" /\ ~job.cancelled,
         UNCHANGED rsession
  PROVE  RemoteInv'
<1>1. /\ \E S : rjobs' \in Seq(S)
      /\ Len(rjobs) \in Nat /\ DOMAIN rjobs = 1..Len(rjobs)
      /\ Len(rjobs') = Len(rjobs) /\ DOMAIN rjobs' = DOMAIN rjobs
      /\ rjobs'[j] = job /\ \A i \in DOMAIN rjobs : i # j => rjobs'[i] = rjobs[i]
  BY Replaced, SMTT(60) DEF RemoteInv
<1>2. remoteCancel' \in 0..Len(rjobs') /\ rsession' \in Nat /\ rsession \in Nat
  BY <1>1 DEF RemoteInv
<1>3. \A i \in DOMAIN rjobs' : JobTied(rjobs[i])'
  BY <1>1, <1>2 DEF RemoteInv, JobTied
<1>4. JobsWithinReach'
  BY <1>1, <1>2 DEF RemoteInv, JobsWithinReach
<1> QED BY <1>1, <1>2, <1>3, <1>4 DEF RemoteInv

LEMMA EngineKeeps ==
  ASSUME RemoteInv, RemoteJobBegins \/ RemoteJobEnds \/ RemoteFinishedMsg \/ EscCancels
  PROVE  RemoteInv'
<1>0. \A j \in DOMAIN rjobs : JobTied(rjobs[j]) /\ (\/ rjobs[j].on.session = rsession \/ rjobs[j].cancelled
                                                    \/ rjobs[j].at \in {"ended", "handled"})
  BY DEF RemoteInv, JobsWithinReach
<1>1. CASE RemoteJobBegins
  <2>1. PICK j \in DOMAIN rjobs :
          /\ rjobs[j].at = "queued"
          /\ \/ rjobs[j].cancelled /\ rjobs' = [rjobs EXCEPT ![j].at = "ended", ![j].outcome = "cancelled"]
             \/ ~rjobs[j].cancelled /\ rjobs' = [rjobs EXCEPT ![j].at = "running"]
          /\ UNCHANGED <<remoteCancel, rsession>>
    BY <1>1, Zenon DEF RemoteJobBegins, WorldStays
  <2>2. CASE rjobs[j].cancelled /\ rjobs' = [rjobs EXCEPT ![j].at = "ended", ![j].outcome = "cancelled"]
    <3> DEFINE job == [rjobs[j] EXCEPT !.at = "ended", !.outcome = "cancelled"]
    <3>1. DOMAIN job = RemoteJobFields /\ job.tied /\ job.on = rjobs[j].on /\ job.at = "ended"
      BY <1>0 DEF JobTied, RemoteJobFields
    <3>2. rjobs' = [rjobs EXCEPT ![j] = job]
      BY <2>2
    <3>3. remoteCancel # j
      <4>1. j # 0
        BY LenProperties DEF RemoteInv
      <4> QED BY <2>2, <4>1 DEF RemoteInv, JobsWithinReach
    <3> HIDE DEF job
    <3> QED BY <2>1, <3>1, <3>2, <3>3, JobStepKeeps DEF RemoteInv
  <2>3. CASE ~rjobs[j].cancelled /\ rjobs' = [rjobs EXCEPT ![j].at = "running"]
    <3> DEFINE job == [rjobs[j] EXCEPT !.at = "running"]
    <3>1. /\ DOMAIN job = RemoteJobFields /\ job.tied /\ job.on = rjobs[j].on /\ job.at = "running"
          /\ job.cancelled = rjobs[j].cancelled
      BY <1>0 DEF JobTied, RemoteJobFields
    <3>2. rjobs' = [rjobs EXCEPT ![j] = job] /\ rjobs[j].on.session = rsession
      BY <1>0, <2>1, <2>3
    <3> HIDE DEF job
    <3> QED BY <2>1, <2>3, <3>1, <3>2, JobStepKeeps
  <2> QED BY <2>1, <2>2, <2>3
<1>2. CASE RemoteJobEnds
  <2>1. PICK j \in DOMAIN rjobs :
          /\ rjobs[j].at = "running"
          /\ \E outcome : rjobs' = [rjobs EXCEPT ![j].at = "ended", ![j].outcome = outcome]
          /\ UNCHANGED <<remoteCancel, rsession>>
    BY <1>2, Zenon DEF RemoteJobEnds
  <2>2. PICK outcome : rjobs' = [rjobs EXCEPT ![j].at = "ended", ![j].outcome = outcome]
    BY <2>1
  <2> DEFINE job == [rjobs[j] EXCEPT !.at = "ended", !.outcome = outcome]
  <2>3. /\ DOMAIN job = RemoteJobFields /\ job.tied /\ job.on = rjobs[j].on /\ job.at = "ended"
        /\ job.cancelled = rjobs[j].cancelled
    BY <1>0 DEF JobTied, RemoteJobFields
  <2>4. rjobs' = [rjobs EXCEPT ![j] = job]
    BY <2>2
  <2>5. remoteCancel = j => rjobs[j].on.session = rsession /\ ~rjobs[j].cancelled
    BY <1>0 DEF RemoteInv, JobsWithinReach
  <2>6. j # 0
    BY LenProperties DEF RemoteInv
  <2> HIDE DEF job
  <2> QED BY <2>1, <2>3, <2>4, <2>5, <2>6, JobStepKeeps DEF RemoteInv, JobsWithinReach
<1>3. CASE RemoteFinishedMsg
  <2>1. PICK j \in DOMAIN rjobs :
          /\ rjobs[j].at = "ended" /\ rjobs' = [rjobs EXCEPT ![j].at = "handled"]
          /\ \/ rjobs[j].on.session # rsession /\ remoteCancel' = remoteCancel
             \/ remoteCancel' = 0
          /\ UNCHANGED rsession
    BY <1>3, Zenon DEF RemoteFinishedMsg, WorldStays, Cleared
  <2> DEFINE job == [rjobs[j] EXCEPT !.at = "handled"]
  <2>2. DOMAIN job = RemoteJobFields /\ job.tied /\ job.on = rjobs[j].on /\ job.at = "handled"
    BY <1>0 DEF JobTied, RemoteJobFields
  <2>3. rjobs' = [rjobs EXCEPT ![j] = job]
    BY <2>1
  <2>4. j # 0
    BY LenProperties DEF RemoteInv
  <2>5. remoteCancel' # j
    BY <2>1, <2>4 DEF RemoteInv, JobsWithinReach
  <2> HIDE DEF job
  <2> QED BY <2>1, <2>2, <2>3, <2>5, JobStepKeeps
<1>4. CASE EscCancels
  <2>1. /\ remoteCancel # 0 /\ rjobs' = [rjobs EXCEPT ![remoteCancel].cancelled = TRUE]
        /\ remoteCancel' = 0 /\ UNCHANGED rsession
    BY <1>4, Zenon DEF EscCancels, WorldStays
  <2>2. remoteCancel \in DOMAIN rjobs
    BY <2>1, LenProperties DEF RemoteInv
  <2> DEFINE job == [rjobs[remoteCancel] EXCEPT !.cancelled = TRUE]
  <2>3. DOMAIN job = RemoteJobFields /\ job.tied /\ job.on = rjobs[remoteCancel].on /\ job.cancelled
    BY <1>0, <2>2 DEF JobTied, RemoteJobFields
  <2>4. rjobs' = [rjobs EXCEPT ![remoteCancel] = job] /\ remoteCancel' # remoteCancel
    BY <2>1
  <2> HIDE DEF job
  <2> QED BY <2>1, <2>2, <2>3, <2>4, JobStepKeeps
<1> QED BY <1>1, <1>2, <1>3, <1>4

\* The repository that is left takes the contexts of its jobs with it.
LEMMA LeavingKeeps ==
  ASSUME RemoteInv, OpenRepository
  PROVE  RemoteInv'
<1> DEFINE cancelled(j) == rjobs[j].cancelled \/ (rjobs[j].tied /\ rjobs[j].on.session = rsession)
                                              \/ j = remoteCancel
           job(j) == [rjobs[j] EXCEPT !.cancelled = cancelled(j)]
<1>1. /\ rsession' = rsession + 1 /\ remoteCancel' = 0
      /\ rjobs' = [j \in DOMAIN rjobs |-> job(j)]
  BY DEF OpenRepository
<1>2. \A j \in DOMAIN rjobs : /\ DOMAIN job(j) = RemoteJobFields /\ job(j).tied = rjobs[j].tied
                              /\ job(j).on = rjobs[j].on /\ job(j).at = rjobs[j].at
                              /\ job(j).cancelled = cancelled(j)
  BY DEF RemoteInv, JobTied, RemoteJobFields
<1> HIDE DEF job
<1>3. DOMAIN rjobs = 1..Len(rjobs) /\ Len(rjobs) \in Nat /\ rsession \in Nat
  BY LenProperties DEF RemoteInv
<1>4. rjobs' \in Seq({job(j) : j \in DOMAIN rjobs})
  BY <1>1, <1>3
<1>5. DOMAIN rjobs' = DOMAIN rjobs /\ \A j \in DOMAIN rjobs : rjobs'[j] = job(j)
  BY <1>1
<1>6. \A j \in DOMAIN rjobs' : JobTied(rjobs[j])'
  BY <1>1, <1>2, <1>3, <1>5 DEF RemoteInv, JobTied
<1>7. JobsWithinReach'
  BY <1>1, <1>2, <1>3, <1>5 DEF RemoteInv, JobTied, JobsWithinReach
<1>8. \E S : rjobs' \in Seq(S)
  BY <1>4
<1>9. remoteCancel' \in 0..Len(rjobs') /\ rsession' \in Nat
  <2>1. Len(rjobs') \in Nat
    BY <1>4, LenProperties
  <2> QED BY <1>1, <1>3, <2>1
<1> QED BY <1>6, <1>7, <1>8, <1>9 DEF RemoteInv

LEMMA RemoteInductive ==
  ASSUME RemoteInv, [RemoteNext]_remoteVars
  PROVE  RemoteInv'
<1>1. CASE UNCHANGED <<rjobs, remoteCancel, rsession>>
  BY <1>1 DEF RemoteInv, JobTied, JobsWithinReach
<1>2. ASSUME NEW op, NEW name, NEW asked, Started(op, name, asked), UNCHANGED rsession
      PROVE  RemoteInv'
  BY <1>2, StartedKeeps
<1>3. FetchOrPull \/ EnterInput \/ ConfirmMutation \/ AnswerPush =>
        \/ UNCHANGED <<rjobs, remoteCancel, rsession>>
        \/ \E op, name, asked : Started(op, name, asked) /\ UNCHANGED rsession
  BY Zenon DEF FetchOrPull, EnterInput, ConfirmMutation, AnswerPush, WorldStays
<1>4. ReadDashboard \/ RemotesReady \/ MoveRemote \/ StartMutation \/ LookupReady \/ CancelMutation
      \/ AskToPush \/ PushPreviewReady \/ UNCHANGED remoteVars => UNCHANGED <<rjobs, remoteCancel, rsession>>
  BY Zenon DEF ReadDashboard, RemotesReady, MoveRemote, StartMutation, LookupReady, CancelMutation,
     AskToPush, PushPreviewReady, remoteVars, WorldStays
<1> QED BY <1>1, <1>2, <1>3, <1>4, EngineKeeps, LeavingKeeps, Zenon DEF RemoteNext

\* The handle that Esc uses is that of a job of the repository shown, and no job of a
\* repository that was left goes on uncancelled, for any remotes, any number of jobs and
\* of repositories opened (startRemoteJob, RemoteOperationFinishedMsg, setRepository).
THEOREM JobsAlwaysWithinReach == RemoteSpec => []JobsWithinReach
<1>1. RemoteInit => RemoteInv
  <2> SUFFICES ASSUME RemoteInit PROVE RemoteInv
    OBVIOUS
  <2>1. rjobs = <<>> /\ remoteCancel = 0 /\ rsession = 1
    BY Zenon DEF RemoteInit
  <2>2. rjobs \in Seq({}) /\ Len(rjobs) = 0 /\ DOMAIN rjobs = {}
    BY <2>1
  <2> QED BY <2>1, <2>2 DEF RemoteInv, JobsWithinReach
<1>2. RemoteInv => JobsWithinReach
  BY DEF RemoteInv
<1> QED BY <1>1, <1>2, RemoteInductive, PTL DEF RemoteSpec

-----------------------------------------------------------------------------
(* Pull requests: what the caches hold, what loads carry, what is shown.    *)

HubFields == {"pull", "pulls", "branch", "ready", "known"}
LoadFields == {"request", "branch", "picked", "stage", "step", "gen", "before", "got", "late",
               "failed", "pull", "pulls"}
AllQuestions == {"create", "issue", "method", "merge", "delete", "review", "check"}

\* A cached answer is about the pull request of its key, and was given after the
\* workspace last forgot it.
CachesFit ==
  /\ gens \in [Everything -> Nat] /\ DOMAIN items = Keys
  /\ \A k \in Keys : ~items[k].overtaken /\ Numbers(items[k].value) \subseteq {k.of}

\* A load carries answers to what it asked, and what it reads last is about a pull
\* request that exists.
CarriesAnswers(l) ==
  /\ DOMAIN l = LoadFields /\ l.request \in Nat /\ l.request <= hubRequest
  /\ l.stage \in {"branch", "detail", "done"} /\ l.step \in {"lookup", "fetch", "store"}
  /\ l.stage = "done" => l.step = "lookup"
  /\ l.stage = "detail" => l.pull # {}
  /\ l.branch \in HubBranches /\ Numbers(l.picked) \subseteq HubBranches
  /\ Numbers(l.pull) \subseteq HubBranches /\ Numbers(l.pulls) \subseteq HubBranches
  /\ l.stage # "done" => /\ Numbers(l.before.value) \subseteq {KeyOf(l).of}
                         /\ Numbers(l.got) \subseteq {KeyOf(l).of}

\* An answer that is overtaken belongs to an earlier generation, and is not stored.
KnowsItsAge(l) ==
  /\ l.gen \in Nat
  /\ l.stage # "done" => l.gen <= gens[l.stage]
  /\ l.late => l.stage # "done" /\ l.step = "store" /\ l.gen < gens[l.stage]

\* The load asked for last is about the selection.
AboutSelection(l) ==
  l.request = hubRequest /\ Picked # {} =>
    /\ Numbers(l.picked) = Numbers(Picked)
    /\ l.stage # "branch" /\ ~l.failed => Numbers(l.pull) = Numbers(Picked)

SelectionShown ==
  Picked # {} => \E n \in HubBranches : Numbers(Picked) = {n} /\ Numbers(hub.pull) = {n}

PreflightsFit ==
  \A f \in preflights : /\ DOMAIN f = {"of", "read", "pull"}
                        /\ f.read => Numbers(f.pull) \subseteq {f.of}

LoadFits(l) == CarriesAnswers(l) /\ KnowsItsAge(l) /\ AboutSelection(l)

\* What the caches and the loads keep of the invariant; the rest is on the screen.
ReadingFits == CachesFit /\ hubRequest \in Nat /\ \A l \in hubLoads : LoadFits(l)

HubInv ==
  /\ ReadingFits /\ onBranch \in HubBranches
  /\ DOMAIN hub = HubFields /\ Numbers(hub.pulls) \subseteq HubBranches
  /\ SelectionShown /\ PreflightsFit
  /\ dialogs \subseteq AllQuestions
  /\ \A q \in posts : /\ DOMAIN q = {"kind", "about", "named", "known", "at", "ok"}
                      /\ q.kind \in AllQuestions \ {"method"}

\* What is asked for is a key, and is answered about it.
LEMMA KeyFits ==
  ASSUME NEW l, CarriesAnswers(l), l.stage # "done"
  PROVE  /\ KeyOf(l) \in Keys /\ KeyOf(l).cache = l.stage /\ KeyOf(l).of \in HubBranches
         /\ l.stage = "detail" => KeyOf(l).of \in Numbers(l.pull)
<1>1. CASE l.stage = "branch"
  BY <1>1 DEF KeyOf, Keys, CarriesAnswers
<1>2. CASE l.stage = "detail"
  <2>1. PICK p : p \in l.pull
    BY <1>2 DEF CarriesAnswers
  <2>2. p.number \in Numbers(l.pull)
    BY <2>1 DEF Numbers
  <2>3. (CHOOSE n \in Numbers(l.pull) : TRUE) \in Numbers(l.pull)
    BY <2>2
  <2> QED BY <1>2, <2>3 DEF KeyOf, Keys, CarriesAnswers
<1> QED BY <1>1, <1>2 DEF CarriesAnswers

LEMMA AskFits ==
  ASSUME NEW key
  PROVE  Numbers(Ask(key)) \subseteq {key.of}
BY DEF Numbers, Ask, PullOf

LEMMA OpenFit == Numbers(OpenPulls) \subseteq HubBranches
BY DEF Numbers, OpenPulls, PullOf

LEMMA NumbersOf ==
  /\ Numbers({}) = {} /\ Numbers(NoItem.value) = {} /\ ~NoItem.overtaken
  /\ \A s : Numbers(s) = {} => s = {}
BY DEF Numbers, NoItem

\* An answer about what was asked takes a load to the next one, or to its end.
LEMMA AdvanceKeeps ==
  ASSUME HubInv, NEW l \in hubLoads, l.stage # "done",
         NEW value, Numbers(value) \subseteq {KeyOf(l).of}, NEW next, next = Advance(l, value)
  PROVE  LoadFits(next)
<1>1. LoadFits(l) /\ CachesFit /\ SelectionShown
  BY DEF HubInv, ReadingFits
<1>2. /\ DOMAIN next = LoadFields /\ next.request = l.request /\ next.branch = l.branch
      /\ next.picked = l.picked /\ next.step = "lookup" /\ next.gen = 0 /\ ~next.late
      /\ next.before = NoItem /\ next.got = {} /\ next.failed = l.failed
  BY <1>1 DEF Advance, LoadFits, CarriesAnswers, LoadFields
<1>3. KeyOf(l).of \in HubBranches /\ (l.stage = "detail" => KeyOf(l).of \in Numbers(l.pull))
  BY <1>1, KeyFits DEF LoadFits
<1>4. CASE l.stage = "branch"
  <2> DEFINE pull == PullFor(l, value)
  <2>1. /\ next.pull = pull /\ next.pulls = OpenPulls
        /\ next.stage = IF pull = {} THEN "done" ELSE "detail"
    BY <1>1, <1>4 DEF Advance, LoadFits, CarriesAnswers, LoadFields
  <2>2. Numbers(pull) \subseteq HubBranches
    BY <1>1, <1>3, OpenFit DEF PullFor, Numbers, LoadFits, CarriesAnswers
  <2>3. ASSUME l.request = hubRequest, Picked # {}
        PROVE  Numbers(pull) = Numbers(Picked)
    <3>1. PICK n : Numbers(l.picked) = {n} /\ Numbers(Picked) = {n}
      BY <1>1, <2>3 DEF LoadFits, AboutSelection, SelectionShown
    <3>2. l.picked # {}
      BY <3>1, NumbersOf
    <3>3. \A p \in {q \in OpenPulls : q.number \in Numbers(l.picked)} : p.number = n
      BY <3>1
    <3> QED BY <3>1, <3>2, <3>3 DEF PullFor, Numbers
  <2> HIDE DEF pull
  <2>4. CarriesAnswers(next)
    BY <1>1, <1>2, <2>1, <2>2, OpenFit, NumbersOf DEF CarriesAnswers, LoadFits, NoItem
  <2>5. KnowsItsAge(next)
    BY <1>1, <1>2, <2>1 DEF KnowsItsAge, CachesFit, Everything
  <2>6. AboutSelection(next)
    BY <1>1, <1>2, <2>1, <2>3 DEF AboutSelection, LoadFits
  <2> QED BY <2>4, <2>5, <2>6 DEF LoadFits
<1>5. CASE l.stage = "detail"
  <2>1. /\ next.pull = (IF value = {} THEN l.pull ELSE value) /\ next.pulls = l.pulls
        /\ next.stage = "done"
    BY <1>1, <1>5 DEF Advance, LoadFits, CarriesAnswers, LoadFields
  <2>2. Numbers(next.pull) \subseteq HubBranches
    BY <1>1, <1>3, <2>1 DEF LoadFits, CarriesAnswers
  <2>3. CarriesAnswers(next)
    BY <1>1, <1>2, <2>1, <2>2 DEF CarriesAnswers, LoadFits
  <2>4. KnowsItsAge(next)
    BY <1>2, <2>1 DEF KnowsItsAge
  <2>5. ASSUME next.request = hubRequest, Picked # {}, ~next.failed
        PROVE  Numbers(next.pull) = Numbers(Picked)
    <3>1. PICK n : Numbers(Picked) = {n}
      BY <1>1, <2>5 DEF SelectionShown
    <3>2. Numbers(l.pull) = {n}
      BY <1>1, <1>2, <1>5, <2>5, <3>1 DEF LoadFits, AboutSelection
    <3>3. value # {} => Numbers(value) = {n}
      BY <1>3, <1>5, <3>2, NumbersOf
    <3> QED BY <2>1, <3>1, <3>2, <3>3
  <2>6. AboutSelection(next)
    BY <1>1, <1>2, <2>5 DEF AboutSelection, LoadFits
  <2> QED BY <2>3, <2>4, <2>6 DEF LoadFits
<1> QED BY <1>1, <1>4, <1>5 DEF LoadFits, CarriesAnswers

\* A load that was asked for before another is about the selection no longer.
LEMMA OlderFits ==
  ASSUME HubInv, NEW k \in hubLoads, hubRequest' = hubRequest + 1, UNCHANGED gens
  PROVE  LoadFits(k)'
<1>1. LoadFits(k) /\ hubRequest \in Nat
  BY DEF HubInv, ReadingFits
<1>2. CarriesAnswers(k)' /\ AboutSelection(k)'
  BY <1>1 DEF LoadFits, CarriesAnswers, AboutSelection
<1>3. KnowsItsAge(k)'
  BY <1>1 DEF LoadFits, KnowsItsAge
<1> QED BY <1>2, <1>3 DEF LoadFits

\* The load asked for now.
LEMMA BegunFits ==
  ASSUME HubInv, NEW chosen, NEW l, l = NewLoad(hubRequest + 1, chosen),
         hubRequest' = hubRequest + 1, gens' \in [Everything -> Nat],
         Numbers(chosen) \subseteq HubBranches,
         Picked' # {} => Numbers(chosen) = Numbers(Picked')
  PROVE  LoadFits(l)'
<1>1. hubRequest \in Nat /\ onBranch \in HubBranches
  BY DEF HubInv, ReadingFits
<1>2. /\ DOMAIN l = LoadFields /\ l.request = hubRequest + 1 /\ l.branch = onBranch
      /\ l.picked = chosen /\ l.stage = "branch" /\ l.step = "lookup" /\ l.gen = 0
      /\ l.before = NoItem /\ l.got = {} /\ ~l.late /\ l.pull = {} /\ l.pulls = {}
  BY DEF NewLoad, LoadFields
<1>3. CarriesAnswers(l)'
  <2>1. Numbers(l.before.value) = {} /\ Numbers(l.got) = {} /\ Numbers(l.pull) = {} /\ Numbers(l.pulls) = {}
    BY <1>2, NumbersOf
  <2> QED BY <1>1, <1>2, <2>1 DEF CarriesAnswers
<1>4. KnowsItsAge(l)'
  BY <1>2 DEF KnowsItsAge, Everything
<1>5. AboutSelection(l)'
  BY <1>2 DEF AboutSelection
<1> QED BY <1>3, <1>4, <1>5 DEF LoadFits

LEMMA StartKeeps ==
  ASSUME HubInv, NEW chosen, StartLoad(chosen), UNCHANGED <<items, gens>>,
         Numbers(chosen) \subseteq HubBranches,
         Picked' # {} => Numbers(chosen) = Numbers(Picked')
  PROVE  ReadingFits'
<1>1. hubRequest' = hubRequest + 1 /\ hubRequest \in Nat /\ gens' \in [Everything -> Nat] /\ CachesFit'
  BY DEF HubInv, ReadingFits, CachesFit, StartLoad
<1>2. ASSUME NEW l \in hubLoads' PROVE LoadFits(l)'
  <2>1. CASE l \in hubLoads
    BY <1>1, <2>1, OlderFits
  <2>2. CASE l = NewLoad(hubRequest + 1, chosen)
    BY <1>1, <2>2, BegunFits
  <2> QED BY <2>1, <2>2 DEF StartLoad
<1> QED BY <1>1, <1>2 DEF ReadingFits

\* What is forgotten is asked for again, and what was read of it before is not stored.
LEMMA ReloadKeeps ==
  ASSUME HubInv, NEW caches \in SUBSET Everything, NEW b,
         Forget(caches, b) \/ (caches = {} /\ UNCHANGED <<items, gens>>),
         NEW chosen, Reload(chosen, caches, b), Numbers(chosen) \subseteq HubBranches,
         Picked' # {} => Numbers(chosen) = Numbers(Picked')
  PROVE  ReadingFits'
<1>1. /\ hubRequest' = hubRequest + 1 /\ hubRequest \in Nat /\ gens \in [Everything -> Nat]
      /\ hubLoads' = Overtake(hubLoads, caches, b) \cup {NewLoad(hubRequest + 1, chosen)}
  BY DEF HubInv, ReadingFits, CachesFit, Reload
<1>2. /\ gens' \in [Everything -> Nat]
      /\ \A c \in Everything : gens'[c] = IF c \in caches THEN gens[c] + 1 ELSE gens[c]
  BY <1>1 DEF Forget
<1>3. CachesFit'
  <2>1. CASE Forget(caches, b)
    <3>1. DOMAIN items' = Keys /\ \A k \in Keys : items'[k] = NoItem \/ items'[k] = items[k]
      BY <2>1 DEF Forget
    <3>2. ASSUME NEW k \in Keys
          PROVE  ~items'[k].overtaken /\ Numbers(items'[k].value) \subseteq {k.of}
      <4>1. CASE items'[k] = NoItem
        BY <4>1, NumbersOf
      <4>2. CASE items'[k] = items[k]
        BY <4>2 DEF HubInv, ReadingFits, CachesFit
      <4> QED BY <3>1, <4>1, <4>2
    <3> QED BY <1>2, <3>1, <3>2 DEF CachesFit
  <2>2. CASE UNCHANGED <<items, gens>>
    BY <2>2 DEF HubInv, ReadingFits, CachesFit
  <2> QED BY <2>1, <2>2
<1>4. ASSUME NEW l \in hubLoads' PROVE LoadFits(l)'
  <2>1. CASE l = NewLoad(hubRequest + 1, chosen)
    BY <1>1, <1>2, <2>1, BegunFits
  <2>2. CASE l \in Overtake(hubLoads, caches, b)
    <3> DEFINE overtaken(k) == k.step = "store" /\ KeyOf(k).cache \in caches
                               /\ (KeyOf(k).cache = "branch" => KeyOf(k).of = b)
    <3>1. PICK k \in hubLoads : l = [k EXCEPT !.late = k.late \/ overtaken(k)]
      BY <2>2 DEF Overtake
    <3>2. LoadFits(k)
      BY DEF HubInv, ReadingFits
    <3>3. /\ DOMAIN l = DOMAIN k /\ l.request = k.request /\ l.branch = k.branch /\ l.picked = k.picked
          /\ l.stage = k.stage /\ l.step = k.step /\ l.gen = k.gen /\ l.before = k.before
          /\ l.got = k.got /\ l.pull = k.pull /\ l.pulls = k.pulls
      BY <3>1, <3>2 DEF LoadFits, CarriesAnswers, LoadFields
    <3>4. l.late => k.late \/ overtaken(k)
      BY <3>1, <3>2 DEF LoadFits, CarriesAnswers, LoadFields
    <3>5. KeyOf(l) = KeyOf(k)
      BY <3>3 DEF KeyOf
    <3>6. CarriesAnswers(l)' /\ AboutSelection(l)'
      BY <1>1, <3>2, <3>3, <3>5 DEF LoadFits, CarriesAnswers, AboutSelection
    <3>7. overtaken(k) => k.stage # "done" /\ k.stage \in caches /\ k.step = "store"
      BY <3>2, KeyFits DEF LoadFits, CarriesAnswers
    <3> HIDE DEF overtaken
    <3>8. k.stage # "done" => k.stage \in Everything
      BY <3>2 DEF LoadFits, CarriesAnswers, Everything
    <3>9. KnowsItsAge(l)'
      BY <1>1, <1>2, <3>2, <3>3, <3>4, <3>7, <3>8 DEF LoadFits, KnowsItsAge
    <3> QED BY <3>6, <3>9 DEF LoadFits
  <2> QED BY <1>1, <2>1, <2>2
<1> QED BY <1>1, <1>3, <1>4 DEF ReadingFits

\* A load takes a step of its own, the caches keep their generations.
LEMMA BecomingKeeps ==
  ASSUME HubInv, NEW l \in hubLoads, NEW next, Becomes(l, next), LoadFits(next), Reading, CachesFit'
  PROVE  HubInv'
<1>1. UNCHANGED <<gens, hubRequest, Picked, onBranch, hub, dialogs, preflights, posts>>
  BY DEF Reading, Picked
<1>2. ASSUME NEW k \in hubLoads' PROVE LoadFits(k)'
  <2>1. LoadFits(k)
    BY DEF Becomes, HubInv, ReadingFits
  <2> QED BY <1>1, <2>1 DEF LoadFits, CarriesAnswers, KnowsItsAge, AboutSelection
<1>3. ReadingFits'
  BY <1>1, <1>2 DEF HubInv, ReadingFits
<1> QED BY <1>1, <1>3 DEF HubInv, SelectionShown, PreflightsFit

LEMMA ReadingKeeps ==
  ASSUME HubInv, LookUp \/ Fetch \/ Store
  PROVE  HubInv'
<1>1. CachesFit /\ \A l \in hubLoads : LoadFits(l)
  BY DEF HubInv, ReadingFits
<1>2. CASE LookUp
  <2>1. PICK l \in hubLoads :
          /\ l.step = "lookup" /\ l.stage # "done" /\ UNCHANGED items /\ Reading
          /\ LET item == items[KeyOf(l)] IN
             \/ item.held /\ Becomes(l, Advance(l, item.value))
             \/ Becomes(l, [l EXCEPT !.step = "fetch", !.gen = gens[KeyOf(l).cache], !.before = item])
             \/ l.stage = "branch" /\ Becomes(l, [l EXCEPT !.stage = "done", !.failed = TRUE])
    BY <1>2 DEF LookUp
  <2>2. CachesFit' /\ LoadFits(l)
    BY <1>1, <2>1 DEF CachesFit, Reading
  <2>3. KeyOf(l) \in Keys /\ KeyOf(l).cache = l.stage /\ KeyOf(l).cache \in Everything
    BY <2>1, <2>2, KeyFits DEF LoadFits, CarriesAnswers, Everything
  <2> DEFINE item == items[KeyOf(l)]
  <2>4. Numbers(item.value) \subseteq {KeyOf(l).of}
    BY <1>1, <2>3 DEF CachesFit
  <2>5. CASE Becomes(l, Advance(l, item.value))
    BY <2>1, <2>2, <2>4, <2>5, AdvanceKeeps, BecomingKeeps
  <2>6. CASE Becomes(l, [l EXCEPT !.step = "fetch", !.gen = gens[KeyOf(l).cache], !.before = item])
    <3> DEFINE next == [l EXCEPT !.step = "fetch", !.gen = gens[KeyOf(l).cache], !.before = item]
    <3>1. /\ DOMAIN next = DOMAIN l /\ next.request = l.request /\ next.branch = l.branch
          /\ next.picked = l.picked /\ next.stage = l.stage /\ next.step = "fetch"
          /\ next.gen = gens[l.stage] /\ next.before = item /\ next.got = l.got
          /\ next.late = l.late /\ next.pull = l.pull /\ next.pulls = l.pulls /\ next.failed = l.failed
      BY <2>2, <2>3 DEF LoadFits, CarriesAnswers, LoadFields
    <3> HIDE DEF next, item
    <3>2. KeyOf(next) = KeyOf(l)
      BY <3>1 DEF KeyOf
    <3>3. CarriesAnswers(next) /\ AboutSelection(next)
      BY <2>1, <2>2, <2>4, <3>1, <3>2 DEF LoadFits, CarriesAnswers, AboutSelection, item
    <3>4. KnowsItsAge(next)
      BY <1>1, <2>1, <2>2, <2>3, <3>1 DEF LoadFits, KnowsItsAge, CachesFit
    <3>5. Becomes(l, next)
      BY <2>6 DEF next
    <3> QED BY <2>1, <2>2, <3>3, <3>4, <3>5, BecomingKeeps DEF LoadFits
  <2>7. CASE l.stage = "branch" /\ Becomes(l, [l EXCEPT !.stage = "done", !.failed = TRUE])
    <3> DEFINE next == [l EXCEPT !.stage = "done", !.failed = TRUE]
    <3>1. /\ DOMAIN next = DOMAIN l /\ next.request = l.request /\ next.branch = l.branch
          /\ next.picked = l.picked /\ next.stage = "done" /\ next.step = l.step /\ next.failed
          /\ next.gen = l.gen /\ next.late = l.late /\ next.pull = l.pull /\ next.pulls = l.pulls
      BY <2>2 DEF LoadFits, CarriesAnswers, LoadFields
    <3> HIDE DEF next
    <3>2. CarriesAnswers(next) /\ KnowsItsAge(next) /\ AboutSelection(next)
      BY <2>1, <2>2, <3>1 DEF LoadFits, CarriesAnswers, AboutSelection, KnowsItsAge
    <3>3. Becomes(l, next)
      BY <2>7 DEF next
    <3> QED BY <2>1, <2>2, <3>2, <3>3, BecomingKeeps DEF LoadFits
  <2> QED BY <2>1, <2>5, <2>6, <2>7, SMTT(60)
<1>3. CASE Fetch
  <2>1. PICK l \in hubLoads :
          /\ l.step = "fetch" /\ UNCHANGED items /\ Reading
          /\ \/ Becomes(l, [l EXCEPT !.step = "store", !.got = Ask(KeyOf(l))])
             \/ \E value \in {l.before.value, {}} : Becomes(l, Advance(l, value))
    BY <1>3 DEF Fetch
  <2>2. CachesFit' /\ LoadFits(l)
    BY <1>1, <2>1 DEF CachesFit, Reading
  <2>3. l.stage # "done"
    BY <2>1, <2>2 DEF LoadFits, CarriesAnswers
  <2>4. CASE Becomes(l, [l EXCEPT !.step = "store", !.got = Ask(KeyOf(l))])
    <3> DEFINE next == [l EXCEPT !.step = "store", !.got = Ask(KeyOf(l))]
    <3>1. /\ DOMAIN next = DOMAIN l /\ next.request = l.request /\ next.branch = l.branch
          /\ next.picked = l.picked /\ next.stage = l.stage /\ next.step = "store"
          /\ next.gen = l.gen /\ next.before = l.before /\ next.got = Ask(KeyOf(l))
          /\ next.late = l.late /\ next.pull = l.pull /\ next.pulls = l.pulls /\ next.failed = l.failed
      BY <2>2 DEF LoadFits, CarriesAnswers, LoadFields
    <3> HIDE DEF next
    <3>2. KeyOf(next) = KeyOf(l)
      BY <3>1 DEF KeyOf
    <3>3. CarriesAnswers(next) /\ AboutSelection(next)
      BY <2>1, <2>2, <2>3, <3>1, <3>2, AskFits DEF LoadFits, CarriesAnswers, AboutSelection
    <3>4. KnowsItsAge(next)
      BY <2>2, <3>1 DEF LoadFits, KnowsItsAge
    <3>5. Becomes(l, next)
      BY <2>4 DEF next
    <3> QED BY <2>1, <2>2, <3>3, <3>4, <3>5, BecomingKeeps DEF LoadFits
  <2>5. ASSUME NEW value \in {l.before.value, {}}, Becomes(l, Advance(l, value))
        PROVE  HubInv'
    <3>1. Numbers(value) \subseteq {KeyOf(l).of}
      BY <2>2, <2>3, NumbersOf DEF LoadFits, CarriesAnswers
    <3> QED BY <2>1, <2>2, <2>3, <2>5, <3>1, AdvanceKeeps, BecomingKeeps
  <2> QED BY <2>1, <2>4, <2>5
<1>4. CASE Store
  <2>1. PICK l \in hubLoads :
          /\ l.step = "store" /\ Becomes(l, Advance(l, l.got)) /\ Reading
          /\ items' = IF MayStore(l)
                        THEN [items EXCEPT ![KeyOf(l)] = [held |-> TRUE, value |-> l.got,
                                                          overtaken |-> l.late]]
                        ELSE items
    BY <1>4 DEF Store
  <2>2. LoadFits(l) /\ l.stage # "done"
    BY <1>1, <2>1 DEF LoadFits, CarriesAnswers
  <2>3. /\ KeyOf(l) \in Keys /\ KeyOf(l).cache = l.stage /\ l.stage \in Everything
        /\ Numbers(l.got) \subseteq {KeyOf(l).of}
    BY <2>2, KeyFits DEF LoadFits, CarriesAnswers, Everything
  <2>4. MayStore(l) => ~l.late
    BY <1>1, <2>2, <2>3 DEF MayStore, LoadFits, KnowsItsAge, CachesFit
  <2>5. CachesFit'
    <3>1. gens' = gens
      BY <2>1 DEF Reading
    <3>2. CASE ~MayStore(l)
      BY <1>1, <2>1, <3>1, <3>2 DEF CachesFit
    <3>3. CASE MayStore(l)
      <4> DEFINE item == [held |-> TRUE, value |-> l.got, overtaken |-> l.late]
      <4>1. ~item.overtaken /\ item.value = l.got
        BY <2>4, <3>3
      <4> HIDE DEF item
      <4>2. items' = [items EXCEPT ![KeyOf(l)] = item]
        BY <2>1, <3>3 DEF item
      <4> QED BY <1>1, <2>3, <3>1, <4>1, <4>2 DEF CachesFit
    <3> QED BY <3>2, <3>3
  <2> QED BY <2>1, <2>2, <2>3, <2>5, AdvanceKeeps, BecomingKeeps
<1> QED BY <1>2, <1>3, <1>4

\* GitHubReadyMsg, and the keys that load.
LEMMA LoadingKeeps ==
  ASSUME HubInv, HubReady \/ Navigate \/ SelectPull \/ RemoteFinished
  PROVE  HubInv'
<1>1. ReadingFits /\ SelectionShown /\ \A l \in hubLoads : LoadFits(l)
  BY DEF HubInv, ReadingFits
<1>2. CASE HubReady
  <2>1. PICK l \in hubLoads :
          /\ l.stage = "done" /\ hubLoads' = hubLoads \ {l}
          /\ hub' = CASE ~Current(l) -> hub
                      [] Current(l) /\ l.failed ->
                           [hub EXCEPT !.ready = FALSE, !.known = FALSE, !.branch = l.branch]
                      [] OTHER -> [pull |-> l.pull, pulls |-> l.pulls, branch |-> l.branch,
                                   ready |-> TRUE, known |-> TRUE]
          /\ UNCHANGED <<onBranch, items, gens, hubRequest, Picked, dialogs, preflights, posts>>
    <3>1. UNCHANGED <<selection, placed>>
      BY <1>2 DEF HubReady
    <3>2. UNCHANGED Picked
      BY <3>1 DEF Picked
    <3> QED BY <1>2, <3>2 DEF HubReady
  <2>2. ReadingFits'
    <3>1. ASSUME NEW k \in hubLoads' PROVE LoadFits(k)'
      BY <1>1, <2>1 DEF LoadFits, CarriesAnswers, KnowsItsAge, AboutSelection
    <3> QED BY <1>1, <2>1, <3>1 DEF ReadingFits, CachesFit
  <2>3. /\ DOMAIN hub' = HubFields /\ Numbers(hub'.pulls) \subseteq HubBranches
        /\ SelectionShown'
    <3>1. CASE ~Current(l)
      BY <2>1, <3>1 DEF HubInv, SelectionShown
    <3>2. CASE Current(l) /\ l.failed
      <4>1. hub' = [hub EXCEPT !.ready = FALSE, !.known = FALSE, !.branch = l.branch]
        BY <2>1, <3>2
      <4>2. DOMAIN hub' = HubFields /\ hub'.pull = hub.pull /\ hub'.pulls = hub.pulls
        BY <4>1 DEF HubInv, HubFields
      <4> QED BY <2>1, <4>2 DEF HubInv, SelectionShown
    <3>3. CASE Current(l) /\ ~l.failed
      <4>1. DOMAIN hub' = HubFields /\ hub'.pull = l.pull /\ hub'.pulls = l.pulls
        BY <2>1, <3>3 DEF HubFields
      <4>2. Numbers(l.pulls) \subseteq HubBranches
        BY <1>1 DEF LoadFits, CarriesAnswers
      <4>3. Picked # {} => Numbers(l.pull) = Numbers(Picked)
        BY <1>1, <2>1, <3>3 DEF LoadFits, AboutSelection, Current
      <4> QED BY <1>1, <2>1, <4>1, <4>2, <4>3 DEF SelectionShown
    <3> QED BY <3>1, <3>2, <3>3
  <2> QED BY <2>1, <2>2, <2>3 DEF HubInv, PreflightsFit
<1>3. CASE Navigate
  <2>1. Picked' = {} /\ UNCHANGED <<hub, onBranch, items, gens, dialogs, preflights, posts>>
    BY <1>3 DEF Navigate, Idle, Picked
  <2>2. ReadingFits'
    <3>1. CASE StartLoad({})
      BY <2>1, <3>1, StartKeeps, NumbersOf
    <3>2. CASE hubRequest' = hubRequest + 1 /\ UNCHANGED hubLoads
      BY <1>1, <2>1, <3>2, OlderFits DEF ReadingFits, CachesFit
    <3> QED BY <1>3, <3>1, <3>2 DEF Navigate
  <2> QED BY <2>1, <2>2 DEF HubInv, SelectionShown, PreflightsFit
<1>4. CASE SelectPull
  <2>1. PICK p \in hub.pulls :
          /\ selection' = {p} /\ hub' = [hub EXCEPT !.pull = {p}, !.ready = FALSE]
          /\ StartLoad(Picked')
          /\ UNCHANGED <<onBranch, items, gens, dialogs, preflights, posts>>
    BY <1>4 DEF SelectPull, Idle
  <2>2. Numbers({p}) = {p.number} /\ p.number \in HubBranches
    BY DEF Numbers, HubInv
  <2>3. DOMAIN hub' = HubFields /\ hub'.pull = {p} /\ hub'.pulls = hub.pulls
    BY <2>1 DEF HubInv, HubFields
  <2>4. Picked' \in {{p}, {}}
    BY <2>1 DEF Picked
  <2>5. PICK chosen : chosen = Picked'
    OBVIOUS
  <2>6. ReadingFits'
    <3>1. StartLoad(chosen) /\ Numbers(chosen) \subseteq HubBranches
      BY <2>1, <2>2, <2>4, <2>5, NumbersOf
    <3> QED BY <2>1, <2>5, <3>1, StartKeeps
  <2>7. SelectionShown'
    BY <2>1, <2>2, <2>3, <2>4 DEF SelectionShown
  <2> QED BY <2>1, <2>3, <2>6, <2>7 DEF HubInv, PreflightsFit
<1>5. CASE RemoteFinished
  <2>1. StartLoad(Picked) /\ UNCHANGED <<Picked, hub, onBranch, items, gens, dialogs, preflights, posts>>
    BY <1>5 DEF RemoteFinished, Idle, Picked
  <2>2. Numbers(Picked) \subseteq HubBranches
    BY <1>1, NumbersOf DEF SelectionShown
  <2>3. ReadingFits'
    BY <2>1, <2>2, StartKeeps
  <2> QED BY <2>1, <2>3 DEF HubInv, SelectionShown, PreflightsFit
<1> QED BY <1>2, <1>3, <1>4, <1>5

\* Some dialog that is open is the one a key answers.
LEMMA TopIsOpen ==
  ASSUME dialogs \subseteq AllQuestions, dialogs # {}
  PROVE  Top \in dialogs
<1> DEFINE first(q) == \E i \in DOMAIN Questions :
                         Questions[i] = q /\ \A k \in 1..(i - 1) : Questions[k] \notin dialogs
<1>0. /\ DOMAIN Questions = 1..7
      /\ Questions[1] = "create" /\ Questions[2] = "issue" /\ Questions[3] = "method"
      /\ Questions[4] = "merge" /\ Questions[5] = "delete" /\ Questions[6] = "review"
      /\ Questions[7] = "check"
  BY DEF Questions
<1>1. \E i \in 1..7 : Questions[i] \in dialogs
  <2>1. PICK q : q \in dialogs /\ q \in AllQuestions
    OBVIOUS
  <2>2. \E i \in 1..7 : Questions[i] = q
    BY <1>0, <2>1 DEF AllQuestions
  <2> QED BY <2>1, <2>2
<1>2. \E i \in 1..7 : Questions[i] \in dialogs /\ \A k \in 1..(i - 1) : Questions[k] \notin dialogs
  <2> DEFINE open(i) == Questions[i] \in dialogs
  <2>1. \E i \in 1..7 : open(i)
    BY <1>1
  <2> HIDE DEF open
  <2>2. \E i \in 1..7 : open(i) /\ \A k \in 1..(i - 1) : ~open(k)
    BY <2>1
  <2> QED BY <2>2 DEF open
<1>3. \E q \in dialogs : first(q)
  BY <1>0, <1>2
<1> HIDE DEF first
<1>4. (CHOOSE q \in dialogs : first(q)) \in dialogs
  BY <1>3
<1> QED BY <1>4 DEF Top, first

\* Nothing that a key asks or a provider answers changes what was loaded.
LEMMA AskingKeeps ==
  ASSUME HubInv, UNCHANGED <<onBranch, items, gens, hubLoads, hubRequest, Picked, hub>>,
         PreflightsFit', dialogs' \subseteq AllQuestions,
         \A q \in posts' : /\ DOMAIN q = {"kind", "about", "named", "known", "at", "ok"}
                           /\ q.kind \in AllQuestions \ {"method"}
  PROVE  HubInv'
<1>1. ReadingFits'
  BY DEF HubInv, ReadingFits, CachesFit, LoadFits, CarriesAnswers, KnowsItsAge, AboutSelection
<1> QED BY <1>1 DEF HubInv, SelectionShown

LEMMA DialogsKeep ==
  ASSUME HubInv, StartAsking \/ ChooseMethod \/ Preflight \/ Yes \/ ProviderTakes \/ HubOutside
  PROVE  HubInv'
<1> USE DEF AllQuestions
<1>1. CASE StartAsking
  <2>1. dialogs' \subseteq AllQuestions /\ UNCHANGED <<preflights, posts>> /\ AtHand
    BY <1>1 DEF StartAsking, StartCreate, StartIssue, StartMerge, StartReview, StartCheckAction,
       Asking
  <2> QED BY <2>1, AskingKeeps DEF HubInv, AtHand, Picked, PreflightsFit
<1>2. CASE ChooseMethod
  <2>1. dialogs' \subseteq dialogs /\ UNCHANGED posts /\ AtHand
    BY <1>2 DEF ChooseMethod, Closing
  <2>2. preflights' \subseteq preflights \cup
          {[of |-> n, read |-> ~hub.known, pull |-> {}] : n \in Numbers(hub.pull)}
    BY <1>2 DEF ChooseMethod
  <2>3. PreflightsFit'
    BY <2>2, NumbersOf DEF PreflightsFit, HubInv
  <2> QED BY <2>1, <2>3, AskingKeeps DEF HubInv, AtHand, Picked
<1>3. CASE Preflight
  <2>1. PICK f \in preflights : \E pull \in {{PullOf(f.of)}, {}} :
          /\ preflights' = (preflights \ {f}) \cup {[f EXCEPT !.read = TRUE, !.pull = pull]}
          /\ UNCHANGED <<dialogs, posts>> /\ AtHand
    BY <1>3 DEF Preflight
  <2>2. PICK pull \in {{PullOf(f.of)}, {}} :
          /\ preflights' = (preflights \ {f}) \cup {[f EXCEPT !.read = TRUE, !.pull = pull]}
          /\ UNCHANGED <<dialogs, posts>> /\ AtHand
    BY <2>1
  <2> DEFINE done == [f EXCEPT !.read = TRUE, !.pull = pull]
  <2>3. DOMAIN done = {"of", "read", "pull"} /\ done.of = f.of /\ done.pull = pull
    BY DEF HubInv, PreflightsFit
  <2>4. Numbers(pull) \subseteq {f.of}
    BY DEF Numbers, PullOf
  <2> HIDE DEF done
  <2>5. PreflightsFit'
    BY <2>2, <2>3, <2>4 DEF PreflightsFit, HubInv, done
  <2> QED BY <2>2, <2>5, AskingKeeps DEF HubInv, AtHand, Picked
<1>4. CASE Yes
  <2>1. /\ dialogs # {} /\ Top # "method" /\ dialogs' = dialogs \ {Top} /\ UNCHANGED preflights /\ AtHand
        /\ posts' = posts \cup {[kind |-> Top, about |-> About(Top), named |-> named[Top],
                                 known |-> hub.known, at |-> "asked", ok |-> FALSE]}
    BY <1>4 DEF Yes, Closing
  <2>2. Top \in AllQuestions \ {"method"}
    BY <2>1, TopIsOpen DEF HubInv
  <2> QED BY <2>1, <2>2, AskingKeeps DEF HubInv, AtHand, Picked, PreflightsFit
<1>5. CASE ProviderTakes
  <2>1. PICK q \in posts, ok \in BOOLEAN :
          /\ Answered(q, ok)
          /\ UNCHANGED <<onBranch, items, gens, hubLoads, hubRequest, Picked, hub, dialogs, preflights>>
    <3>1. UNCHANGED Picked
      BY <1>5 DEF ProviderTakes, Picked
    <3> QED BY <1>5, <3>1 DEF ProviderTakes
  <2> DEFINE done == [q EXCEPT !.at = "answered", !.ok = ok]
  <2>2. DOMAIN done = {"kind", "about", "named", "known", "at", "ok"} /\ done.kind = q.kind
    BY DEF HubInv
  <2>3. posts' = (posts \ {q}) \cup {done}
    BY <2>1 DEF Answered
  <2> HIDE DEF done
  <2> QED BY <2>1, <2>2, <2>3, AskingKeeps DEF HubInv, PreflightsFit
<1>6. CASE HubOutside
  <2>1. /\ UNCHANGED <<items, gens, hubLoads, hubRequest, Picked, hub, dialogs, preflights, posts>>
        /\ onBranch' = onBranch \/ onBranch' \in HubBranches
    BY <1>6 DEF HubOutside, Picked
  <2>2. ReadingFits'
    BY <2>1 DEF HubInv, ReadingFits, CachesFit, LoadFits, CarriesAnswers, KnowsItsAge, AboutSelection
  <2> QED BY <2>1, <2>2 DEF HubInv, SelectionShown, PreflightsFit
<1> QED BY <1>1, <1>2, <1>3, <1>4, <1>5, <1>6

\* A preflight shows the pull request as it is now, if it is still the one shown.
LEMMA PreflightReadyKeeps ==
  ASSUME HubInv, PreflightReady
  PROVE  HubInv'
<1>1. PICK f \in preflights :
        /\ f.read /\ preflights' = preflights \ {f}
        /\ UNCHANGED <<onBranch, items, gens, hubLoads, hubRequest, Picked, posts>>
        /\ \/ /\ f.of \in Numbers(hub.pull) /\ f.pull # {} /\ dialogs' = dialogs \cup {"merge"}
              /\ hub' = [hub EXCEPT !.pull = f.pull, !.ready = TRUE]
           \/ dialogs' \subseteq dialogs /\ UNCHANGED hub
  <2>1. UNCHANGED Picked
    BY DEF PreflightReady, Picked
  <2> QED BY <2>1 DEF PreflightReady, Asking, Closing
<1>2. dialogs' \subseteq AllQuestions /\ PreflightsFit'
  BY <1>1 DEF HubInv, PreflightsFit, AllQuestions
<1>3. ReadingFits'
  BY <1>1 DEF HubInv, ReadingFits, CachesFit, LoadFits, CarriesAnswers, KnowsItsAge, AboutSelection
<1>4. /\ DOMAIN hub' = HubFields /\ hub'.pulls = hub.pulls
      /\ hub'.pull = hub.pull \/ (f.of \in Numbers(hub.pull) /\ f.pull # {} /\ hub'.pull = f.pull)
  BY <1>1 DEF HubInv, HubFields
<1>5. f.pull # {} => Numbers(f.pull) = {f.of}
  BY <1>1, NumbersOf DEF HubInv, PreflightsFit
<1>6. SelectionShown'
  BY <1>1, <1>4, <1>5 DEF HubInv, SelectionShown
<1> QED BY <1>1, <1>2, <1>3, <1>4, <1>6 DEF HubInv

LEMMA NoKeeps ==
  ASSUME HubInv, No
  PROVE  HubInv'
<1>1. /\ dialogs' \subseteq dialogs
      /\ UNCHANGED <<onBranch, items, gens, Picked, hub, preflights, posts>>
      /\ StartLoad(Picked) \/ UNCHANGED <<hubLoads, hubRequest>>
  BY DEF No, Closing, Picked
<1>2. Numbers(Picked) \subseteq HubBranches
  BY NumbersOf DEF HubInv, SelectionShown
<1>3. ReadingFits'
  <2>1. CASE StartLoad(Picked)
    BY <1>1, <1>2, <2>1, StartKeeps
  <2>2. CASE UNCHANGED <<hubLoads, hubRequest>>
    BY <1>1, <2>2 DEF HubInv, ReadingFits, CachesFit, LoadFits, CarriesAnswers, KnowsItsAge, AboutSelection
  <2> QED BY <1>1, <2>1, <2>2
<1> QED BY <1>1, <1>3 DEF HubInv, SelectionShown, PreflightsFit

\* What was asked of the provider ends: it changes nothing that is read, or forgets what
\* it may have changed and loads again.
LEMMA PostFinishedKeeps ==
  ASSUME HubInv, PostFinished
  PROVE  HubInv'
<1> DEFINE stays == UNCHANGED <<items, gens, hubLoads, hubRequest, Picked>>
           reloads(caches, b) == /\ Forget(caches, b) \/ (caches = {} /\ UNCHANGED <<items, gens>>)
                                 /\ \/ Reload(Picked, caches, b) /\ UNCHANGED Picked
                                    \/ Reload({}, caches, b) /\ Picked' = {}
<1>1. /\ UNCHANGED <<onBranch, hub, preflights>> /\ posts' \subseteq posts
      /\ dialogs' \subseteq dialogs \cup {"delete"}
      /\ stays \/ \E caches \in SUBSET Everything : \E b : reloads(caches, b)
  <2>1. PICK q \in posts :
          /\ q.at = "answered" /\ posts' = posts \ {q}
          /\ CASE q.kind \in {"merge", "review", "check", "issue"} /\ ~q.ok ->
                    Closing(q.kind) /\ UNCHANGED <<items, gens, hubLoads, hubRequest, Selecting>>
               [] q.kind = "merge" /\ q.ok ->
                    /\ Forget(Everything, onBranch) /\ Reload(Picked, Everything, onBranch)
                    /\ IF hub.pull = {} THEN Closing("merge")
                       ELSE /\ dialogs' = (dialogs \ {"merge"}) \cup {"delete"}
                            /\ named' = [named EXCEPT !.merge = {}, !.delete = hub.pull]
                    /\ UNCHANGED Selecting
               [] q.kind = "review" /\ q.ok ->
                    /\ Forget(Everything, onBranch) /\ Reload(Picked, Everything, onBranch)
                    /\ Closing("review") /\ UNCHANGED Selecting
               [] q.kind \in {"check", "issue"} /\ q.ok ->
                    /\ Reload(Picked, {}, onBranch) /\ Closing(q.kind)
                    /\ UNCHANGED <<items, gens, Selecting>>
               [] q.kind = "delete" ->
                    /\ IF q.ok THEN Forget(Everything, onBranch) ELSE UNCHANGED <<items, gens>>
                    /\ Reload(Picked, IF q.ok THEN Everything ELSE {}, onBranch)
                    /\ Closing("delete") /\ UNCHANGED Selecting
               [] q.kind = "create" /\ ~Awaited(q) ->
                    UNCHANGED <<dialogs, named, items, gens, hubLoads, hubRequest, Selecting>>
               [] q.kind = "create" /\ Awaited(q) ->
                    /\ Closing("create")
                    /\ IF q.ok THEN /\ Forget({"branch"}, hub.branch)
                                    /\ Reload({}, {"branch"}, hub.branch)
                                    /\ selection' = {} /\ placed' = FALSE
                       ELSE UNCHANGED <<items, gens, hubLoads, hubRequest, Selecting>>
          /\ UNCHANGED <<onBranch, hub, preflights>>
    BY DEF PostFinished
  <2>0. /\ UNCHANGED Selecting => UNCHANGED Picked
        /\ UNCHANGED <<items, gens, hubLoads, hubRequest, Selecting>> => stays
        /\ UNCHANGED <<items, gens, Selecting>> => UNCHANGED <<items, gens, Picked>>
        /\ placed' = FALSE => Picked' = {}
    BY DEF Selecting, Picked
  <2>2. q.kind \in {"create", "issue", "merge", "delete", "review", "check"}
    BY DEF HubInv, AllQuestions
  <2>3. CASE q.kind \in {"merge", "review", "check", "issue"} /\ ~q.ok
    BY <2>0, <2>1, <2>3 DEF Closing
  <2>4. CASE q.kind \in {"merge", "review"} /\ q.ok
    <3>1. reloads(Everything, onBranch) /\ dialogs' \subseteq dialogs \cup {"delete"}
      BY <2>0, <2>1, <2>4 DEF Closing
    <3> HIDE DEF reloads
    <3> QED BY <2>1, <3>1
  <2>5. CASE q.kind \in {"check", "issue"} /\ q.ok
    <3>1. reloads({}, onBranch) /\ dialogs' \subseteq dialogs
      BY <2>0, <2>1, <2>5 DEF Closing
    <3> HIDE DEF reloads
    <3> QED BY <2>1, <3>1
  <2>6. CASE q.kind = "delete"
    <3>1. reloads(IF q.ok THEN Everything ELSE {}, onBranch) /\ dialogs' \subseteq dialogs
      BY <2>0, <2>1, <2>6 DEF Closing
    <3> HIDE DEF reloads
    <3> QED BY <2>1, <3>1
  <2>7. CASE q.kind = "create"
    <3>1. CASE Awaited(q) /\ q.ok
      <4>1. reloads({"branch"}, hub.branch) /\ dialogs' \subseteq dialogs
        BY <2>0, <2>1, <2>7, <3>1 DEF Closing
      <4> HIDE DEF reloads
      <4> QED BY <2>1, <4>1 DEF Everything
    <3>2. CASE ~(Awaited(q) /\ q.ok)
      BY <2>0, <2>1, <2>7, <3>2 DEF Closing
    <3> QED BY <3>1, <3>2
  <2> QED BY <2>2, <2>3, <2>4, <2>5, <2>6, <2>7
<1>2. Numbers(Picked) \subseteq HubBranches
  BY NumbersOf DEF HubInv, SelectionShown
<1>3. ReadingFits' /\ SelectionShown'
  <2>1. CASE stays
    BY <1>1, <2>1 DEF HubInv, ReadingFits, CachesFit, LoadFits, CarriesAnswers, KnowsItsAge,
       AboutSelection, SelectionShown
  <2>2. ASSUME NEW caches \in SUBSET Everything, NEW b, reloads(caches, b)
        PROVE  ReadingFits' /\ SelectionShown'
    <3>1. CASE Reload(Picked, caches, b) /\ UNCHANGED Picked
      BY <1>1, <1>2, <2>2, <3>1, ReloadKeeps DEF HubInv, SelectionShown
    <3>2. CASE Reload({}, caches, b) /\ Picked' = {}
      BY <1>1, <2>2, <3>2, ReloadKeeps, NumbersOf DEF SelectionShown
    <3> QED BY <2>2, <3>1, <3>2
  <2> HIDE DEF reloads
  <2> QED BY <1>1, <2>1, <2>2
<1> QED BY <1>1, <1>3 DEF HubInv, PreflightsFit, AllQuestions

LEMMA HubInductive ==
  ASSUME HubInv, [HubNext]_hubVars
  PROVE  HubInv'
<1>1. CASE UNCHANGED hubVars
  <2>1. UNCHANGED <<onBranch, items, gens, hubLoads, hubRequest, Picked, hub, dialogs, preflights, posts>>
    BY <1>1 DEF hubVars, Picked
  <2> QED BY <2>1, AskingKeeps DEF HubInv, PreflightsFit
<1> QED BY <1>1, ReadingKeeps, LoadingKeeps, DialogsKeep, PreflightReadyKeeps, NoKeeps,
        PostFinishedKeeps DEF HubNext

LEMMA HubInitially == HubInit => HubInv
<1> SUFFICES ASSUME HubInit PROVE HubInv
  OBVIOUS
<1> DEFINE own == {p \in OpenPulls : p.number = onBranch}
<1>1. /\ gens = [c \in {"branch", "detail"} |-> 0] /\ hubLoads = {} /\ hubRequest = 0
      /\ Picked = {} /\ dialogs = {} /\ preflights = {} /\ posts = {}
      /\ onBranch = CHOOSE b \in HubBranches : TRUE
  BY DEF HubInit, Picked
<1>2. onBranch \in HubBranches
  BY <1>1, HubBounds
<1>3. /\ DOMAIN hub = HubFields /\ hub.pulls \in {OpenPulls, {}}
  <2>1. \E other : hub = [pull |-> IF inHub THEN own ELSE {}, pulls |-> IF inHub THEN OpenPulls ELSE {},
                      branch |-> other, ready |-> inHub, known |-> inHub]
    BY Zenon DEF HubInit
  <2> QED BY <2>1 DEF HubFields
<1>4. DOMAIN items = Keys /\ \A k \in Keys : \/ items[k] = NoItem
                                             \/ /\ k.of = onBranch
                                                /\ items[k].value = own /\ ~items[k].overtaken
  <2>1. items = [k \in Keys |-> IF inHub /\ k.of = onBranch /\ (k.cache = "detail" => own # {})
                                  THEN [held |-> TRUE, value |-> own, overtaken |-> FALSE]
                                  ELSE NoItem]
    BY Zenon DEF HubInit
  <2> QED BY <2>1
<1>5. Numbers(own) \subseteq {onBranch}
  BY DEF Numbers
<1>6. CachesFit
  <2>1. \A k \in Keys : ~items[k].overtaken /\ Numbers(items[k].value) \subseteq {k.of}
    BY <1>4, <1>5, NumbersOf
  <2> QED BY <1>1, <1>4, <2>1 DEF CachesFit, Everything
<1>7. Numbers(hub.pulls) \subseteq HubBranches
  BY <1>3, OpenFit, NumbersOf
<1> QED BY <1>1, <1>2, <1>3, <1>6, <1>7 DEF HubInv, ReadingFits, SelectionShown, PreflightsFit

\* "A request that began before invalidation cannot repopulate the cache after a mutation"
\* (cache.go:36): for any branches, any number of loads under way and of mutations, an
\* answer from before the workspace forgot it is never stored.
THEOREM CachesAlwaysForget == HubSpec => []CachesForget
<1>1. HubInv => CachesForget
  BY DEF HubInv, ReadingFits, CachesFit, CachesForget
<1> QED BY <1>1, HubInitially, HubInductive, PTL DEF HubSpec

\* The pull request on the screen, about which the next merge or review is, is the one
\* selected, in whatever order loads, selections and preflights answer, when it was
\* selected while the repository was known: the code drops, after a load that failed, a
\* selection in no repository.
THEOREM ShownAlwaysSelected == HubSpec => []ShownIsSelected
<1>1. HubInv => ShownIsSelected
  BY DEF HubInv, SelectionShown, ShownIsSelected, Picked
<1> QED BY <1>1, HubInitially, HubInductive, PTL DEF HubSpec

-----------------------------------------------------------------------------
(* Rebases begun on the screen: what becomes of the changes of the branch. *)

SheetFields == {"plan", "base", "bases", "selected", "marked", "published", "error", "known"}
RebaseFields == {"at", "todo", "head", "whole", "excused"}
RunFields == {"n", "kind", "at", "failed", "plan", "base", "known"}
RowFields == {"commit", "action", "changed"}

Sequence(s) == \E S : s \in Seq(S)

\* A plan as its edits keep it.
PlanFits(plan) ==
  /\ Sequence(plan) /\ Validate(plan)
  /\ \A i \in DOMAIN plan : DOMAIN plan[i] = RowFields

SheetFits(s) ==
  /\ DOMAIN s = SheetFields /\ PlanFits(s.plan)
  /\ Sequence(s.base) /\ \A b \in s.bases : Sequence(b)

RunsFit == \A r \in runs : DOMAIN r = RunFields /\ Sequence(r.plan) /\ Sequence(r.base)

\* The rows of the history: a row is a chain of commits.
RowsFit(chains) == Sequence(chains) /\ \A i \in DOMAIN chains : Sequence(chains[i])
HistoryFits == /\ RowsFit(loaded) /\ paging.skip \in Nat
               /\ \A page \in pages : RowsFit(page.rows) /\ page.skip \in Nat

\* A change of the branch is in the head of a rebase begun here by a plan that reaches its
\* base, still to be taken, or was dropped, skipped or committed after the rows were read,
\* and what is dropped was told to be.
Accounted(r, b) ==
  /\ Changes(b) \subseteq Changes(r.head) \cup Planned(r.todo) \cup r.excused
  /\ Dropped(r.todo) \subseteq r.excused

RebaseFits(r, b) ==
  /\ DOMAIN r = RebaseFields /\ Sequence(r.head) /\ Sequence(r.todo)
  /\ r.at = "conflict" => r.todo # <<>>
  /\ r.whole => r.at # "none" /\ Accounted(r, b)

RbInv ==
  /\ Sequence(branch) /\ HistoryFits
  /\ SheetFits(sheet) /\ RunsFit /\ RebaseFits(rebase, branch)
  /\ OnlyDropsLost

\* Sequences of anything: their length, a rest, a part, two of them, a table.
LEMMA SeqLength ==
  ASSUME NEW s, Sequence(s)
  PROVE  /\ Len(s) \in Nat /\ DOMAIN s = 1..Len(s)
         /\ s # <<>> <=> Len(s) > 0
<1>1. PICK S : s \in Seq(S)
  BY DEF Sequence
<1> QED BY <1>1, LenProperties, EmptySeq

LEMMA SeqTable ==
  ASSUME NEW n \in Nat, NEW s, NEW e, s = [i \in 1..n |-> e[i]]
  PROVE  Sequence(s) /\ Len(s) = n
<1> DEFINE S == {s[i] : i \in 1..n}
<1>1. s \in [1..n -> S]
  OBVIOUS
<1>2. s \in Seq(S)
  BY <1>1, SeqDef, ZenonT(60)
<1>3. Len(s) = n
  BY <1>1, <1>2, LenProperties
<1> QED BY <1>2, <1>3 DEF Sequence

LEMMA SeqAppend ==
  ASSUME NEW s, Sequence(s), NEW x, NEW t, t = Append(s, x)
  PROVE  /\ Sequence(t) /\ Len(s) \in Nat /\ DOMAIN s = 1..Len(s)
         /\ DOMAIN t = 1..(Len(s) + 1)
         /\ t[Len(s) + 1] = x /\ \A i \in 1..Len(s) : t[i] = s[i]
BY Appended DEF Sequence

LEMMA SeqPart ==
  ASSUME NEW s, Sequence(s), NEW m \in Int, NEW n \in Int, NEW t, t = SubSeq(s, m, n)
  PROVE  /\ Sequence(t) /\ Len(t) = (IF m <= n THEN n - m + 1 ELSE 0)
         /\ \A i \in 1..(n - m + 1) : t[i] = s[m + i - 1]
<1> DEFINE S == {s[i] : i \in m..n}
<1>1. \A i \in m..n : s[i] \in S
  OBVIOUS
<1> HIDE DEF S
<1>2. /\ SubSeq(s, m, n) \in Seq(S) /\ Len(SubSeq(s, m, n)) = (IF m <= n THEN n - m + 1 ELSE 0)
      /\ \A i \in 1..(n - m + 1) : SubSeq(s, m, n)[i] = s[m + i - 1]
  BY <1>1, SubSeqProperties
<1> QED BY <1>2, Zenon DEF Sequence

LEMMA SeqStart ==
  ASSUME NEW s, Sequence(s), NEW n \in 0..Len(s), NEW t, t = SubSeq(s, 1, n)
  PROVE  Sequence(t) /\ Len(t) = n /\ \A i \in 1..n : t[i] = s[i]
<1>1. Len(s) \in Nat
  BY SeqLength
<1>2. PICK S : s \in Seq(S)
  BY DEF Sequence
<1>3. \A i \in 1..n : s[i] \in S
  BY <1>1, <1>2, LenProperties
<1>4. SubSeq(s, 1, n) \in Seq(S)
  BY <1>1, <1>3, SubSeqProperties
<1>5. Len(SubSeq(s, 1, n)) = n
  BY <1>1, <1>3, SubSeqProperties
<1>6. ASSUME NEW i \in 1..n PROVE SubSeq(s, 1, n)[i] = s[i]
  BY <1>1, <1>3, SubSeqProperties
<1> QED BY <1>4, <1>5, <1>6 DEF Sequence

LEMMA SeqJoin ==
  ASSUME NEW s, Sequence(s), NEW u, Sequence(u), NEW t, t = s \o u
  PROVE  /\ Sequence(t) /\ Len(t) = Len(s) + Len(u)
         /\ \A i \in 1..(Len(s) + Len(u)) : t[i] = IF i <= Len(s) THEN s[i] ELSE u[i - Len(s)]
<1>1. PICK S : s \in Seq(S)
  BY DEF Sequence
<1>2. PICK U : u \in Seq(U)
  BY DEF Sequence
<1>3. s \in Seq(S \cup U) /\ u \in Seq(S \cup U)
  BY <1>1, <1>2, SeqMonotonic
<1> QED BY <1>3, ConcatProperties DEF Sequence

LEMMA SeqRest ==
  ASSUME NEW s, Sequence(s), s # <<>>, NEW t, t = Tail(s)
  PROVE  /\ Sequence(t) /\ Len(t) = Len(s) - 1 /\ Head(s) = s[1]
         /\ \A i \in 1..(Len(s) - 1) : t[i] = s[i + 1]
<1>1. PICK S : s \in Seq(S)
  BY DEF Sequence
<1>2. Tail(s) \in Seq(S) /\ Len(Tail(s)) = Len(s) - 1
      /\ \A i \in 1..Len(Tail(s)) : Tail(s)[i] = s[i + 1]
  BY <1>1, HeadTailProperties
<1>3. Head(s) = s[1]
  BY <1>1
<1> QED BY <1>2, <1>3 DEF Sequence

\* A commit taken on top of a branch, or melded into its last commit, adds its changes.
LEMMA ChangesAdded ==
  ASSUME NEW s, Sequence(s), NEW x, NEW t, t = Append(s, x)
  PROVE  Sequence(t) /\ Changes(t) = Changes(s) \cup x
<1>1. /\ Sequence(t) /\ Len(s) \in Nat /\ DOMAIN s = 1..Len(s) /\ DOMAIN t = 1..(Len(s) + 1)
      /\ t[Len(s) + 1] = x /\ \A i \in 1..Len(s) : t[i] = s[i]
  BY SeqAppend DEF Sequence
<1>2. \A i : i \in 1..(Len(s) + 1) <=> i \in 1..Len(s) \/ i = Len(s) + 1
  BY <1>1
<1> QED BY <1>1, <1>2 DEF Changes

LEMMA ChangesMelded ==
  ASSUME NEW s, Sequence(s), s # <<>>, NEW x, NEW t, t = Append(Front(s), Last(s) \cup x)
  PROVE  Sequence(t) /\ Changes(t) = Changes(s) \cup x
<1>1. Len(s) \in Nat /\ Len(s) > 0 /\ DOMAIN s = 1..Len(s)
  BY SeqLength
<1>2. PICK n : n = Len(s)
  OBVIOUS
<1>3. PICK front : front = SubSeq(s, 1, n - 1)
  OBVIOUS
<1>4. Sequence(front) /\ Len(front) = n - 1 /\ \A i \in 1..(n - 1) : front[i] = s[i]
  <2>1. n - 1 \in 0..Len(s)
    BY <1>1, <1>2
  <2> QED BY <1>3, <2>1, SeqStart, ZenonT(60) DEF Sequence
<1>5. Sequence(t) /\ Changes(t) = Changes(front) \cup (s[n] \cup x)
  <2>1. t = Append(front, s[n] \cup x)
    BY <1>2, <1>3 DEF Front, Last
  <2> QED BY <1>4, <2>1, ChangesAdded DEF Sequence
<1>6. DOMAIN front = 1..(n - 1)
  BY <1>4, SeqLength
<1>7. \A i : i \in 1..n <=> i \in 1..(n - 1) \/ i = n
  BY <1>1, <1>2
<1>8. Changes(s) = Changes(front) \cup s[n]
  BY <1>1, <1>2, <1>4, <1>6, <1>7 DEF Changes
<1> QED BY <1>5, <1>8

\* The first line of a todo and the others, and the todo of a plan.
LEMMA TodoTaken ==
  ASSUME NEW todo, Sequence(todo), todo # <<>>, NEW rest, rest = Tail(todo)
  PROVE  /\ Sequence(rest)
         /\ Planned(todo) = Head(todo).commit \cup Planned(rest)
         /\ Dropped(rest) \subseteq Dropped(todo)
         /\ Head(todo).action = "drop" => Head(todo).commit \subseteq Dropped(todo)
<1> DEFINE n == Len(todo)
<1>1. n \in Nat /\ n > 0 /\ DOMAIN todo = 1..n
  BY SeqLength
<1>2. /\ Sequence(rest) /\ Len(rest) = n - 1 /\ Head(todo) = todo[1]
      /\ \A i \in 1..(n - 1) : rest[i] = todo[i + 1]
  BY SeqRest
<1>3. DOMAIN rest = 1..(n - 1)
  BY <1>2, SeqLength
<1>4. \A i \in 1..n : i = 1 \/ (i - 1 \in 1..(n - 1) /\ todo[i] = rest[i - 1])
  BY <1>1, <1>2
<1>5. \A i \in 1..(n - 1) : i + 1 \in 1..n /\ rest[i] = todo[i + 1]
  BY <1>1, <1>2
<1>6. 1 \in 1..n
  BY <1>1
<1> HIDE DEF n
<1>7. Planned(todo) = Head(todo).commit \cup Planned(rest)
  <2>1. Planned(todo) \subseteq todo[1].commit \cup Planned(rest)
    BY <1>1, <1>3, <1>4, ZenonT(60) DEF Planned
  <2>2. todo[1].commit \cup Planned(rest) \subseteq Planned(todo)
    BY <1>1, <1>3, <1>5, <1>6 DEF Planned
  <2> QED BY <1>2, <2>1, <2>2
<1>8. Dropped(rest) \subseteq Dropped(todo)
  BY <1>1, <1>3, <1>5 DEF Dropped
<1>9. Head(todo).action = "drop" => Head(todo).commit \subseteq Dropped(todo)
  BY <1>1, <1>2, <1>6 DEF Dropped
<1> QED BY <1>2, <1>7, <1>8, <1>9

LEMMA PlanRendered ==
  ASSUME NEW plan, Sequence(plan), NEW todo, todo = Render(plan)
  PROVE  /\ Sequence(todo) /\ Planned(todo) = Planned(plan) /\ Dropped(todo) \subseteq Dropped(plan)
<1> DEFINE line(i) == [commit |-> plan[i].commit,
                       action |-> IF plan[i].changed THEN plan[i].action ELSE "pick"]
           lines == [i \in DOMAIN plan |-> line(i)]
<1>1. Len(plan) \in Nat /\ DOMAIN plan = 1..Len(plan)
  BY SeqLength
<1>2. todo = lines
  BY DEF Render
<1>3. \A i \in DOMAIN plan : /\ line(i).commit = plan[i].commit
                             /\ line(i).action = "drop" => plan[i].action = "drop"
  OBVIOUS
<1> HIDE DEF line
<1>4. DOMAIN todo = DOMAIN plan /\ \A i \in DOMAIN plan : todo[i] = line(i)
  BY <1>2
<1>5. todo = [i \in 1..Len(plan) |-> todo[i]]
  BY <1>1, <1>2
<1>6. Sequence(todo)
  BY <1>1, <1>5, SeqTable
<1>7. Planned(todo) = Planned(plan)
  BY <1>3, <1>4 DEF Planned
<1>8. Dropped(todo) \subseteq Dropped(plan)
  BY <1>3, <1>4 DEF Dropped
<1> QED BY <1>6, <1>7, <1>8

\* Git takes a line of the todo off: its changes are in the head, or excused.
LEMMA LineTaken ==
  ASSUME NEW r, NEW b, RebaseFits(r, b), r.at # "none", r.todo # <<>>,
         NEW next, DOMAIN next = RebaseFields, next.todo = Tail(r.todo), next.whole = r.whole,
         next.at \in {"running", "edit"}, Sequence(next.head),
         Changes(r.head) \subseteq Changes(next.head), r.excused \subseteq next.excused,
         r.whole => Head(r.todo).commit \subseteq Changes(next.head) \cup next.excused
  PROVE  RebaseFits(next, b)
<1>1. PICK rest : rest = Tail(r.todo)
  OBVIOUS
<1>2. Sequence(r.todo)
  BY DEF RebaseFits
<1>3. /\ Sequence(rest) /\ Planned(r.todo) = Head(r.todo).commit \cup Planned(rest)
      /\ Dropped(rest) \subseteq Dropped(r.todo)
  BY <1>1, <1>2, TodoTaken
<1>4. next.todo = rest
  BY <1>1
<1>5. ASSUME r.whole PROVE Accounted(next, b)
  BY <1>3, <1>4, <1>5 DEF RebaseFits, Accounted
<1> QED BY <1>3, <1>4, <1>5 DEF RebaseFits

\* Git stops, goes on, or adds a commit of somebody else's to the head.
LEMMA HeadGrows ==
  ASSUME NEW r, NEW b, RebaseFits(r, b),
         NEW next, DOMAIN next = RebaseFields, next.todo = r.todo, next.whole = r.whole,
         next.at # "none", next.at = "conflict" => r.todo # <<>>, Sequence(next.head),
         Changes(r.head) \subseteq Changes(next.head), next.excused = r.excused
  PROVE  RebaseFits(next, b)
<1>1. r.whole => Accounted(next, b)
  BY DEF RebaseFits, Accounted
<1> QED BY <1>1 DEF RebaseFits

LEMMA ContinuedFits ==
  ASSUME NEW r, NEW b, RebaseFits(r, b), r.at \in Stopped, NEW next, next = Continued(r)
  PROVE  RebaseFits(next, b)
<1>1. /\ DOMAIN next = RebaseFields /\ next.whole = r.whole /\ next.excused = r.excused
      /\ next.at = "running"
  BY DEF RebaseFits, Continued, RebaseFields
<1>2. CASE r.at = "conflict"
  <2> DEFINE line == Head(r.todo)
  <2>1. r.todo # <<>> /\ Sequence(r.head) /\ next.todo = Tail(r.todo)
    BY <1>2 DEF RebaseFits, Continued, RebaseFields
  <2>2. Sequence(next.head) /\ Changes(next.head) = Changes(r.head) \cup line.commit
    <3>1. CASE line.commit \subseteq Changes(r.head)
      <4>1. next.head = r.head
        BY <1>2, <3>1 DEF RebaseFits, Continued, RebaseFields
      <4> QED BY <2>1, <3>1, <4>1
    <3>2. CASE ~(line.commit \subseteq Changes(r.head))
      <4>1. next.head = Append(r.head, line.commit)
        BY <1>2, <3>2 DEF RebaseFits, Continued, RebaseFields
      <4> HIDE DEF line
      <4> QED BY <2>1, <4>1, ChangesAdded
    <3> QED BY <3>1, <3>2
  <2> QED BY <1>1, <1>2, <2>1, <2>2, LineTaken
<1>3. CASE r.at = "edit"
  <2>1. next.head = r.head /\ next.todo = r.todo /\ Sequence(r.head)
    BY <1>3 DEF RebaseFits, Continued, RebaseFields
  <2> QED BY <1>1, <2>1, HeadGrows
<1> QED BY <1>2, <1>3 DEF Stopped

LEMMA SkippedFits ==
  ASSUME NEW r, NEW b, RebaseFits(r, b), r.at \in Stopped, NEW next, next = Skipped(r)
  PROVE  RebaseFits(next, b)
<1>1. /\ DOMAIN next = RebaseFields /\ next.whole = r.whole /\ next.head = r.head
      /\ next.at = "running" /\ Sequence(r.head)
  BY DEF RebaseFits, Skipped, RebaseFields
<1>2. CASE r.at = "conflict"
  <2>1. /\ r.todo # <<>> /\ next.todo = Tail(r.todo)
        /\ next.excused = r.excused \cup Head(r.todo).commit
    BY <1>2 DEF RebaseFits, Skipped, RebaseFields
  <2> QED BY <1>1, <1>2, <2>1, LineTaken
<1>3. CASE r.at = "edit"
  <2>1. next.todo = r.todo /\ next.excused = r.excused
    BY <1>3 DEF RebaseFits, Skipped, RebaseFields
  <2> QED BY <1>1, <2>1, HeadGrows
<1> QED BY <1>2, <1>3 DEF Stopped

LEMMA NoRebaseFits == \A b : RebaseFits(NoRebase, b)
<1>1. /\ DOMAIN NoRebase = RebaseFields /\ NoRebase.head = <<>> /\ NoRebase.todo = <<>>
      /\ NoRebase.at = "none" /\ ~NoRebase.whole
  BY DEF NoRebase, RebaseFields
<1>2. Sequence(<<>>)
  BY EmptySeq DEF Sequence
<1> QED BY <1>1, <1>2 DEF RebaseFits

\* A rebase that begins here accounts for the branch when its plan reaches its base.
LEMMA BegunRebaseFits ==
  ASSUME NEW head, Sequence(head), NEW plan, Sequence(plan), NEW b, NEW whole \in BOOLEAN,
         NEW known, whole => known \subseteq Changes(head) \cup Planned(plan),
         NEW excused, excused = Dropped(plan) \cup (Changes(b) \ known),
         NEW r, r = Begin(head, Render(plan), whole, excused)
  PROVE  RebaseFits(r, b)
<1>1. PICK todo : todo = Render(plan)
  OBVIOUS
<1>2. Sequence(todo) /\ Planned(todo) = Planned(plan) /\ Dropped(todo) \subseteq Dropped(plan)
  BY <1>1, PlanRendered
<1>3. /\ DOMAIN r = RebaseFields /\ r.at = "running" /\ r.todo = todo /\ r.head = head
      /\ r.whole = whole /\ r.excused = excused
  BY <1>1 DEF Begin, RebaseFields
<1>4. whole => Accounted(r, b)
  BY <1>2, <1>3 DEF Accounted
<1> QED BY <1>2, <1>3, <1>4 DEF RebaseFits

\* One that begins elsewhere accounts for nothing.
LEMMA OtherRebaseFits ==
  ASSUME NEW head, Sequence(head), NEW above, Sequence(above), NEW b,
         NEW r, r = Begin(head, Picks(above), FALSE, {})
  PROVE  RebaseFits(r, b)
<1> DEFINE line(i) == [commit |-> above[i], action |-> "pick"]
<1>1. Len(above) \in Nat /\ DOMAIN above = 1..Len(above)
  BY SeqLength
<1>2. PICK todo : todo = Picks(above)
  OBVIOUS
<1>3. todo = [i \in 1..Len(above) |-> line(i)]
  BY <1>1, <1>2 DEF Picks
<1> HIDE DEF line
<1>4. todo = [i \in 1..Len(above) |-> todo[i]]
  BY <1>3
<1>5. Sequence(todo)
  BY <1>1, <1>4, SeqTable
<1>6. /\ DOMAIN r = RebaseFields /\ r.at = "running" /\ r.todo = todo /\ r.head = head
      /\ ~r.whole
  BY <1>2 DEF Begin, RebaseFields
<1> QED BY <1>5, <1>6 DEF RebaseFits

LEMMA ParseFits ==
  ASSUME NEW commits, Sequence(commits), NEW plan, plan = Parse(commits)
  PROVE  /\ PlanFits(plan) /\ DOMAIN plan = DOMAIN commits
         /\ \A i \in DOMAIN plan : plan[i].action = "pick"
<1> DEFINE row(i) == [commit |-> Last(commits[i]), action |-> "pick", changed |-> FALSE]
<1>1. Len(commits) \in Nat /\ DOMAIN commits = 1..Len(commits)
  BY SeqLength
<1>2. \A i : DOMAIN row(i) = RowFields /\ row(i).action = "pick"
  BY DEF RowFields
<1>3. plan = [i \in 1..Len(commits) |-> row(i)]
  BY <1>1 DEF Parse
<1> HIDE DEF row
<1>4. DOMAIN plan = DOMAIN commits /\ \A i \in DOMAIN plan : plan[i] = row(i)
  BY <1>1, <1>3
<1>5. plan = [i \in 1..Len(commits) |-> plan[i]]
  BY <1>3
<1>6. Sequence(plan) /\ Len(plan) = Len(commits)
  BY <1>1, <1>5, SeqTable
<1>7. Validate(plan)
  <2>1. plan # <<>> => 1 \in DOMAIN plan
    BY <1>6, SeqLength
  <2> QED BY <1>2, <1>4, <2>1 DEF Validate, Melds
<1> QED BY <1>2, <1>4, <1>6, <1>7 DEF PlanFits

\* A change of actions keeps the rows and their commits.
LEMMA ActionsChanged ==
  ASSUME NEW plan, PlanFits(plan), NEW lines, NEW action,
         NEW new, new = ChangeActions(plan, lines, action)
  PROVE  /\ Sequence(new) /\ Len(new) = Len(plan) /\ DOMAIN new = DOMAIN plan
         /\ \A i \in DOMAIN plan : /\ DOMAIN new[i] = RowFields /\ new[i].commit = plan[i].commit
                                   /\ i \notin lines => new[i] = plan[i]
                                   /\ i \in lines => new[i].action = action
<1> DEFINE row(i) == IF i \in lines THEN [plan[i] EXCEPT !.action = action, !.changed = action # plan[i].action]
                     ELSE plan[i]
<1>1. Len(plan) \in Nat /\ DOMAIN plan = 1..Len(plan)
  BY SeqLength DEF PlanFits
<1>2. \A i \in DOMAIN plan : /\ DOMAIN row(i) = RowFields /\ row(i).commit = plan[i].commit
                             /\ i \notin lines => row(i) = plan[i]
                             /\ i \in lines => row(i).action = action
  BY DEF PlanFits, RowFields
<1>3. new = [i \in 1..Len(plan) |-> row(i)]
  BY <1>1 DEF ChangeActions
<1> HIDE DEF row
<1>4. DOMAIN new = DOMAIN plan /\ \A i \in DOMAIN plan : new[i] = row(i)
  BY <1>1, <1>3
<1>5. new = [i \in 1..Len(plan) |-> new[i]]
  BY <1>3
<1>6. Sequence(new) /\ Len(new) = Len(plan)
  BY <1>1, <1>5, SeqTable
<1> QED BY <1>2, <1>4, <1>6

\* Rows of a plan have a first and a last one.
LEMMA FirstAndLast ==
  ASSUME NEW lines, lines # {}, NEW n \in Nat, lines \subseteq 1..n
  PROVE  /\ Min(lines) \in lines /\ Max(lines) \in lines
         /\ \A i \in lines : Min(lines) <= i /\ i <= Max(lines)
<1>1. \A T \in SUBSET Nat : T # {} => \E x \in T : \A y \in T : x <= y
  <2> SUFFICES ASSUME NEW T \in SUBSET Nat, T # {} PROVE \E x \in T : \A y \in T : x <= y
    OBVIOUS
  <2>1. PICK x \in T : \A y \in T : ~(<<y, x>> \in OpToRel(<, Nat))
    BY NatLessThanWellFounded, WFMin
  <2>2. \A y \in T : ~(y < x)
    BY <2>1 DEF OpToRel
  <2> QED BY <2>2
<1>2. PICK x \in lines : \A y \in lines : x <= y
  BY <1>1
<1>3. PICK z \in lines : \A y \in lines : z >= y
  <2> DEFINE T == {n - y : y \in lines}
  <2>1. T \in SUBSET Nat /\ T # {}
    <3>1. \A y \in lines : n - y \in Nat
      OBVIOUS
    <3>2. n - x \in T
      OBVIOUS
    <3> QED BY <3>1, <3>2
  <2>2. PICK t \in T : \A u \in T : t <= u
    BY <1>1, <2>1
  <2>3. PICK z \in lines : t = n - z
    OBVIOUS
  <2>4. ASSUME NEW y \in lines PROVE z >= y
    <3>1. n - y \in T
      OBVIOUS
    <3>2. n - z <= n - y
      BY <2>2, <2>3, <3>1
    <3> QED BY <3>2
  <2> QED BY <2>4
<1>4. Min(lines) \in lines /\ \A y \in lines : Min(lines) <= y
  BY <1>2 DEF Min
<1>5. Max(lines) \in lines /\ \A y \in lines : Max(lines) >= y
  BY <1>3 DEF Max
<1> QED BY <1>4, <1>5

\* A part of a sequence.
LEMMA SeqPiece ==
  ASSUME NEW S, NEW s \in Seq(S), NEW m \in 1..(Len(s) + 1), NEW n \in (m - 1)..Len(s)
  PROVE  /\ SubSeq(s, m, n) \in Seq(S) /\ Len(SubSeq(s, m, n)) = n - m + 1
         /\ \A i \in 1..(n - m + 1) : SubSeq(s, m, n)[i] = s[m + i - 1]
<1>1. \A i \in m..n : s[i] \in S
  BY LenProperties
<1> QED BY <1>1, LenProperties, SubSeqProperties

\* The i-th of the rows that are not moved, and rows first..last among them, so that
\* `before' of the others stay before them.
Other(plan, first, last, i) == IF i < first THEN plan[i] ELSE plan[i + (last - first + 1)]
Between(plan, first, last, before, new) ==
  \A i \in 1..Len(plan) :
    new[i] = IF i <= before THEN Other(plan, first, last, i)
             ELSE IF i <= before + (last - first + 1) THEN plan[first + i - before - 1]
             ELSE Other(plan, first, last, i - (last - first + 1))
Moves(plan, first, last, before, to, new) ==
  /\ Sequence(plan) /\ {first, last} \subseteq 1..Len(plan) /\ first <= last
  /\ to \in Int /\ before \in 0..(Len(plan) - (last - first + 1))
  /\ before = IF to > last THEN to - 1 - (last - first + 1) ELSE to - 1
  /\ new = MoveRange(plan, first, last, to)

LEMMA RangeMoved ==
  ASSUME NEW plan, NEW first, NEW last, NEW before, NEW to, NEW t,
         Moves(plan, first, last, before, to, t)
  PROVE  Sequence(t) /\ Len(t) = Len(plan) /\ Between(plan, first, last, before, t)
<1> DEFINE n == Len(plan)
           k == last - first + 1
           other(i) == IF i < first THEN plan[i] ELSE plan[i + k]
           left == SubSeq(plan, 1, first - 1)
           right == SubSeq(plan, last + 1, n)
           chosen == SubSeq(plan, first, last)
           rest == left \o right
           above == SubSeq(rest, 1, before)
           below == SubSeq(rest, before + 1, Len(rest))
           upper == above \o chosen
<1>0. /\ first \in Nat /\ last \in Nat /\ 1 <= first /\ first <= last /\ last <= n /\ to \in Int
      /\ before \in 0..(n - k) /\ before = IF to > last THEN to - 1 - k ELSE to - 1
  BY SeqLength DEF Moves
<1>1. n \in Nat /\ k \in Nat
  BY <1>0, SeqLength DEF Moves
<1>2. PICK S : plan \in Seq(S)
  BY DEF Moves, Sequence
<1>3. t = upper \o below
  BY <1>0 DEF Moves, MoveRange
<1>4. left \in Seq(S) /\ Len(left) = first - 1 /\ \A i \in 1..(first - 1) : left[i] = plan[i]
  <2>1. 1 \in 1..(n + 1) /\ first - 1 \in (1 - 1)..n
    BY <1>0, <1>1
  <2>2. /\ left \in Seq(S) /\ Len(left) = first - 1 - 1 + 1
        /\ \A i \in 1..(first - 1 - 1 + 1) : left[i] = plan[1 + i - 1]
    BY <1>2, <2>1, SeqPiece
  <2> QED BY <1>0, <1>1, <2>2
<1>5. right \in Seq(S) /\ Len(right) = n - last /\ \A i \in 1..(n - last) : right[i] = plan[last + i]
  <2>1. last + 1 \in 1..(n + 1) /\ n \in ((last + 1) - 1)..n
    BY <1>0, <1>1
  <2>2. /\ right \in Seq(S) /\ Len(right) = n - (last + 1) + 1
        /\ \A i \in 1..(n - (last + 1) + 1) : right[i] = plan[(last + 1) + i - 1]
    BY <1>2, <2>1, SeqPiece
  <2> HIDE DEF right
  <2>3. n - (last + 1) + 1 = n - last /\ \A i \in 1..(n - last) : (last + 1) + i - 1 = last + i
    BY <1>0, <1>1
  <2> QED BY <2>3, <1>1, <2>2
<1>6. chosen \in Seq(S) /\ Len(chosen) = k /\ \A i \in 1..k : chosen[i] = plan[first + i - 1]
  <2>1. first \in 1..(n + 1) /\ last \in (first - 1)..n
    BY <1>0, <1>1
  <2> QED BY <1>2, <2>1, SeqPiece
<1> HIDE DEF left, right, chosen
<1>7. rest \in Seq(S) /\ Len(rest) = n - k /\ \A i \in 1..(n - k) : rest[i] = other(i)
  <2>1. /\ rest \in Seq(S) /\ Len(rest) = Len(left) + Len(right)
        /\ \A i \in 1..(Len(left) + Len(right)) : rest[i] = IF i <= Len(left) THEN left[i]
                                                            ELSE right[i - Len(left)]
    BY <1>4, <1>5, ConcatProperties
  <2> HIDE DEF rest
  <2>2. Len(left) + Len(right) = n - k
    BY <1>0, <1>1, <1>4, <1>5
  <2>3. ASSUME NEW i \in 1..(n - k) PROVE rest[i] = other(i)
    <3>1. CASE i < first
      <4>1. i \in 1..(first - 1) /\ i \in 1..(Len(left) + Len(right)) /\ i <= Len(left)
        BY <1>0, <1>1, <1>4, <2>2, <3>1
      <4> QED BY <1>4, <2>1, <3>1, <4>1
    <3>2. CASE first <= i
      <4>1. rest[i] = right[i - (first - 1)]
        BY <1>0, <1>1, <1>4, <2>1, <2>2, <3>2, SMTT(60)
      <4>2. i - (first - 1) \in 1..(n - last) /\ last + (i - (first - 1)) = i + k
        BY <1>0, <1>1, <3>2
      <4>3. right[i - (first - 1)] = plan[i + k]
        BY <1>5, <4>2
      <4> QED BY <1>0, <3>2, <4>1, <4>3
    <3> QED BY <1>0, <3>1, <3>2
  <2> QED BY <2>1, <2>2, <2>3
<1> HIDE DEF rest
<1>8. above \in Seq(S) /\ Len(above) = before /\ \A i \in 1..before : above[i] = rest[i]
  <2>1. 1 \in 1..(Len(rest) + 1) /\ before \in (1 - 1)..Len(rest)
    BY <1>0, <1>1, <1>7
  <2>2. /\ above \in Seq(S) /\ Len(above) = before - 1 + 1
        /\ \A i \in 1..(before - 1 + 1) : above[i] = rest[1 + i - 1]
    BY <1>7, <2>1, SeqPiece
  <2> QED BY <1>0, <1>1, <2>2
<1>9. below \in Seq(S) /\ Len(below) = n - k - before
      /\ \A i \in 1..(n - k - before) : below[i] = rest[before + i]
  <2>1. PICK m, p : m = before + 1 /\ p = Len(rest)
    OBVIOUS
  <2>2. m \in 1..(Len(rest) + 1) /\ p \in (m - 1)..Len(rest)
    BY <1>0, <1>1, <1>7, <2>1
  <2>3. /\ SubSeq(rest, m, p) \in Seq(S) /\ Len(SubSeq(rest, m, p)) = p - m + 1
        /\ \A i \in 1..(p - m + 1) : SubSeq(rest, m, p)[i] = rest[m + i - 1]
    BY <1>7, <2>2, SeqPiece
  <2>4. below = SubSeq(rest, m, p)
    BY <2>1
  <2> HIDE DEF below
  <2>5. p - m + 1 = n - k - before /\ \A i \in 1..(n - k - before) : m + i - 1 = before + i
    BY <1>0, <1>1, <1>7, <2>1
  <2> QED BY <2>3, <2>4, <2>5
<1> HIDE DEF above, below
<1>10. /\ upper \in Seq(S) /\ Len(upper) = before + k
       /\ \A i \in 1..(before + k) : upper[i] = IF i <= before THEN above[i] ELSE chosen[i - before]
  <2>1. /\ upper \in Seq(S) /\ Len(upper) = Len(above) + Len(chosen)
        /\ \A i \in 1..(Len(above) + Len(chosen)) : upper[i] = IF i <= Len(above) THEN above[i]
                                                              ELSE chosen[i - Len(above)]
    BY <1>6, <1>8, ConcatProperties
  <2> HIDE DEF upper
  <2> QED BY <1>0, <1>1, <1>6, <1>8, <2>1
<1> HIDE DEF upper
<1>11. /\ t \in Seq(S) /\ Len(t) = n
       /\ \A i \in 1..n : t[i] = IF i <= before + k THEN upper[i] ELSE below[i - (before + k)]
  <2>1. /\ upper \o below \in Seq(S) /\ Len(upper \o below) = Len(upper) + Len(below)
        /\ \A i \in 1..(Len(upper) + Len(below)) : (upper \o below)[i] = IF i <= Len(upper) THEN upper[i]
                                                                       ELSE below[i - Len(upper)]
    BY <1>9, <1>10, ConcatProperties
  <2>2. Len(upper) + Len(below) = n
    <3>1. Len(upper) = before + k
      BY <1>0, <1>10
    <3>2. Len(below) = n - k - before
      BY <1>9
    <3>3. \A x, y : x = before + k /\ y = n - k - before => x + y = n
      BY <1>0, <1>1
    <3> HIDE DEF n, k
    <3> QED BY <3>1, <3>2, <3>3
  <2> QED BY <1>3, <1>10, <2>1, <2>2
<1>12. ASSUME NEW i \in 1..n
       PROVE  t[i] = IF i <= before THEN other(i)
                     ELSE IF i <= before + k THEN plan[first + i - before - 1] ELSE other(i - k)
  <2> HIDE DEF n, k, other
  <2>1. CASE i <= before
    <3>1. i \in 1..before /\ i \in 1..(before + k) /\ i \in 1..(n - k) /\ i <= before + k
      BY <1>0, <1>1, <2>1 DEF n, k
    <3>2. t[i] = upper[i] /\ upper[i] = above[i] /\ above[i] = rest[i] /\ rest[i] = other(i)
      BY <1>7, <1>8, <1>10, <1>11, <2>1, <3>1
    <3> QED BY <2>1, <3>2
  <2>2. CASE before < i /\ i <= before + k
    <3>1. /\ i \in 1..(before + k) /\ i - before \in 1..k /\ ~(i <= before)
          /\ first + (i - before) - 1 = first + i - before - 1
      BY <1>0, <1>1, <2>2 DEF k
    <3>2. t[i] = upper[i] /\ upper[i] = chosen[i - before]
      BY <1>0, <1>10, <1>11, <2>2, <3>1
    <3>3. chosen[i - before] = plan[first + i - before - 1]
      BY <1>6, <3>1
    <3> QED BY <2>2, <3>1, <3>2, <3>3
  <2>3. CASE before + k < i
    <3>1. /\ i - (before + k) \in 1..(n - k - before) /\ before + (i - (before + k)) = i - k
          /\ i - k \in 1..(n - k) /\ ~(i <= before) /\ ~(i <= before + k)
      BY <1>0, <1>1, <2>3 DEF n, k
    <3>2. t[i] = below[i - (before + k)]
      BY <1>0, <1>11, <3>1
    <3>3. below[i - (before + k)] = rest[i - k]
      BY <1>9, <3>1
    <3>4. rest[i - k] = other(i - k)
      BY <1>7, <3>1
    <3> QED BY <3>1, <3>2, <3>3, <3>4
  <2>4. before \in Int /\ k \in Int
    BY <1>0, <1>1 DEF k
  <2> QED BY <2>1, <2>2, <2>3, <2>4
<1>13. Sequence(t)
  BY <1>11 DEF Sequence
<1> QED BY <1>11, <1>12, <1>13 DEF Between, Other

\* Rows moved by one: every row is still there, those moved are one place further.
MovedUp(plan, n, first, last, new) ==
  /\ n = Len(plan) /\ n \in Nat /\ first \in 2..n /\ last \in first..n
  /\ Between(plan, first, last, first - 2, new)
MovedDown(plan, n, first, last, new) ==
  /\ n = Len(plan) /\ n \in Nat /\ first \in 1..n /\ last \in first..(n - 1)
  /\ Between(plan, first, last, first, new)

LEMMA RowsUp ==
  ASSUME NEW plan, NEW n, NEW first, NEW last, NEW new, MovedUp(plan, n, first, last, new)
  PROVE  /\ \A i \in 1..n : \E j \in 1..n : new[i] = plan[j]
         /\ \A j \in 1..n : \E i \in 1..n : new[i] = plan[j]
         /\ \A j \in first..last : j - 1 \in 1..n /\ new[j - 1] = plan[j]
<1>0. /\ n \in Nat /\ first \in 2..n /\ last \in first..n
      /\ \A i \in 1..n :
           new[i] = IF i <= first - 2 THEN Other(plan, first, last, i)
                    ELSE IF i <= first - 2 + (last - first + 1) THEN plan[first + i - (first - 2) - 1]
                    ELSE Other(plan, first, last, i - (last - first + 1))
  BY DEF MovedUp, Between
<1>1. ASSUME NEW i \in 1..n
      PROVE  new[i] = IF i < first - 1 \/ i > last THEN plan[i]
                      ELSE IF i = last THEN plan[first - 1] ELSE plan[i + 1]
  <2>1. CASE i < first - 1
    BY <1>0, <2>1 DEF Other
  <2>2. CASE first - 1 <= i /\ i < last
    <3>1. first + i - (first - 2) - 1 = i + 1
      BY <1>0
    <3> QED BY <1>0, <1>0, <2>2, <3>1
  <2>3. CASE i = last
    <3>1. last - (last - first + 1) = first - 1
      BY <1>0
    <3> QED BY <1>0, <1>0, <2>3, <3>1 DEF Other
  <2>4. CASE last < i
    <3>1. i - (last - first + 1) + (last - first + 1) = i /\ ~(i - (last - first + 1) < first)
      BY <1>0, <2>4
    <3> QED BY <1>0, <1>0, <2>4, <3>1 DEF Other
  <2> QED BY <1>0, <2>1, <2>2, <2>3, <2>4
<1>2. ASSUME NEW i \in 1..n PROVE \E j \in 1..n : new[i] = plan[j]
  <2>1. first - 1 \in 1..n /\ (i < last => i + 1 \in 1..n)
    BY <1>0
  <2> QED BY <1>0, <1>1, <2>1
<1>3. \A j \in first..last : j - 1 \in 1..n /\ new[j - 1] = plan[j]
  BY <1>0, <1>1
<1>4. ASSUME NEW j \in 1..n PROVE \E i \in 1..n : new[i] = plan[j]
  <2>1. CASE j < first - 1 \/ j > last
    BY <1>0, <1>1, <2>1
  <2>2. CASE j = first - 1
    BY <1>0, <1>1, <2>2
  <2>3. CASE first <= j /\ j <= last
    BY <1>0, <1>3, <2>3
  <2> QED BY <1>0, <2>1, <2>2, <2>3
<1> QED BY <1>2, <1>3, <1>4

LEMMA RowsDown ==
  ASSUME NEW plan, NEW n, NEW first, NEW last, NEW new, MovedDown(plan, n, first, last, new)
  PROVE  /\ \A i \in 1..n : \E j \in 1..n : new[i] = plan[j]
         /\ \A j \in 1..n : \E i \in 1..n : new[i] = plan[j]
         /\ \A j \in first..last : j + 1 \in 1..n /\ new[j + 1] = plan[j]
<1>0. /\ n \in Nat /\ first \in 1..n /\ last \in first..(n - 1)
      /\ \A i \in 1..n :
           new[i] = IF i <= first THEN Other(plan, first, last, i)
                    ELSE IF i <= first + (last - first + 1) THEN plan[first + i - first - 1]
                    ELSE Other(plan, first, last, i - (last - first + 1))
  BY DEF MovedDown, Between
<1>1. ASSUME NEW i \in 1..n
      PROVE  new[i] = IF i < first \/ i > last + 1 THEN plan[i]
                      ELSE IF i = first THEN plan[last + 1] ELSE plan[i - 1]
  <2>1. CASE i < first
    BY <1>0, <2>1 DEF Other
  <2>2. CASE i = first
    <3>1. first + (last - first + 1) = last + 1
      BY <1>0
    <3> QED BY <1>0, <1>0, <2>2, <3>1 DEF Other
  <2>3. CASE first < i /\ i <= last + 1
    <3>1. first + i - first - 1 = i - 1
      BY <1>0
    <3> QED BY <1>0, <1>0, <2>3, <3>1
  <2>4. CASE last + 1 < i
    <3>1. i - (last - first + 1) + (last - first + 1) = i /\ ~(i - (last - first + 1) < first)
      BY <1>0, <2>4
    <3> QED BY <1>0, <1>0, <2>4, <3>1 DEF Other
  <2> QED BY <1>0, <2>1, <2>2, <2>3, <2>4
<1>2. ASSUME NEW i \in 1..n PROVE \E j \in 1..n : new[i] = plan[j]
  <2>1. last + 1 \in 1..n /\ (i > first => i - 1 \in 1..n)
    BY <1>0
  <2> QED BY <1>0, <1>1, <2>1
<1>3. \A j \in first..last : j + 1 \in 1..n /\ new[j + 1] = plan[j]
  BY <1>0, <1>1
<1>4. ASSUME NEW j \in 1..n PROVE \E i \in 1..n : new[i] = plan[j]
  <2>1. CASE j < first \/ j > last + 1
    BY <1>0, <1>1, <2>1
  <2>2. CASE j = last + 1
    BY <1>0, <1>1, <2>2
  <2>3. CASE first <= j /\ j <= last
    BY <1>0, <1>3, <2>3
  <2> QED BY <1>0, <2>1, <2>2, <2>3
<1> QED BY <1>2, <1>3, <1>4

\* What Shift makes of the plan.
MovedBy(plan, first, last, d, new) ==
  /\ Sequence(plan) /\ first \in 1..Len(plan) /\ last \in first..Len(plan) /\ d \in {-1, 1}
  /\ IF d < 0 THEN first # 1 ELSE last # Len(plan)
  /\ new = MoveRange(plan, first, last, IF d < 0 THEN first - 1 ELSE last + 2)

\* The same rows, those of first..last d places further.
SameRows(plan, first, last, d, new) ==
  /\ Sequence(new) /\ Len(new) = Len(plan) /\ DOMAIN new = DOMAIN plan
  /\ \A i \in DOMAIN plan : \E j \in DOMAIN plan : new[i] = plan[j]
  /\ \A j \in DOMAIN plan : \E i \in DOMAIN plan : new[i] = plan[j]
  /\ \A j \in first..last : j + d \in DOMAIN plan /\ new[j + d] = plan[j]

LEMMA RowsMoved ==
  ASSUME NEW plan, NEW first, NEW last, NEW d, NEW new, MovedBy(plan, first, last, d, new)
  PROVE  SameRows(plan, first, last, d, new)
<1>1. /\ Len(plan) \in Nat /\ DOMAIN plan = 1..Len(plan)
      /\ first \in Nat /\ last \in Nat /\ 1 <= first /\ first <= last /\ last <= Len(plan)
      /\ Sequence(plan) /\ (d = -1 \/ d = 1)
  BY SeqLength DEF MovedBy
<1>2. CASE d = -1
  <2>1. new = MoveRange(plan, first, last, first - 1) /\ first > 1
    BY <1>1, <1>2 DEF MovedBy
  <2>2. Moves(plan, first, last, first - 2, first - 1, new)
    BY <1>1, <2>1 DEF Moves
  <2>3. Sequence(new) /\ Len(new) = Len(plan) /\ Between(plan, first, last, first - 2, new)
    BY <2>2, RangeMoved
  <2>4. MovedUp(plan, Len(plan), first, last, new)
    BY <1>1, <2>1, <2>3 DEF MovedUp
  <2>5. DOMAIN new = DOMAIN plan
    BY <1>1, <2>3, SeqLength
  <2>6. /\ \A i \in 1..Len(plan) : \E j \in 1..Len(plan) : new[i] = plan[j]
        /\ \A j \in 1..Len(plan) : \E i \in 1..Len(plan) : new[i] = plan[j]
        /\ \A j \in first..last : j - 1 \in 1..Len(plan) /\ new[j - 1] = plan[j]
    BY <2>4, RowsUp
  <2>7. \A j \in first..last : j + d = j - 1
    BY <1>2
  <2> QED BY <1>1, <2>3, <2>5, <2>6, <2>7 DEF SameRows
<1>3. CASE d = 1
  <2>1. new = MoveRange(plan, first, last, last + 2) /\ last < Len(plan)
    <3>1. ~(d < 0)
      BY <1>3
    <3>2. last # Len(plan)
      BY <3>1 DEF MovedBy
    <3>3. new = MoveRange(plan, first, last, last + 2)
      BY <3>1 DEF MovedBy
    <3>4. \A x, y \in Nat : x <= y /\ x # y => x < y
      OBVIOUS
    <3>5. last < Len(plan)
      BY <1>1, <3>2, <3>4, Zenon
    <3> QED BY <3>3, <3>5
  <2>2. Moves(plan, first, last, first, last + 2, new)
    BY <1>1, <2>1 DEF Moves
  <2>3. Sequence(new) /\ Len(new) = Len(plan) /\ Between(plan, first, last, first, new)
    BY <2>2, RangeMoved
  <2>4. MovedDown(plan, Len(plan), first, last, new)
    BY <1>1, <2>1, <2>3 DEF MovedDown
  <2>5. DOMAIN new = DOMAIN plan
    BY <1>1, <2>3, SeqLength
  <2>6. /\ \A i \in 1..Len(plan) : \E j \in 1..Len(plan) : new[i] = plan[j]
        /\ \A j \in 1..Len(plan) : \E i \in 1..Len(plan) : new[i] = plan[j]
        /\ \A j \in first..last : j + 1 \in 1..Len(plan) /\ new[j + 1] = plan[j]
    BY <2>4, RowsDown
  <2> QED BY <1>1, <1>3, <2>3, <2>5, <2>6 DEF SameRows
<1> QED BY <1>1, <1>2, <1>3

\* What an edit keeps of the plan it is made on.
Kept(s, t) ==
  /\ {t.plan[i].commit : i \in DOMAIN t.plan} = {s.plan[i].commit : i \in DOMAIN s.plan}
  /\ Len(t.plan) = Len(s.plan)
  /\ Validate(t.plan)
  /\ t.plan # s.plan /\ s.marked \subseteq DOMAIN s.plan
     => {t.plan[i].commit : i \in t.marked \cap DOMAIN t.plan} = {s.plan[i].commit : i \in s.marked}

\* An edit that leaves the plan.
LEMMA SamePlan ==
  ASSUME NEW s, SheetFits(s), NEW t, DOMAIN t = SheetFields, t.plan = s.plan,
         t.base \in s.bases \cup {s.base}, t.bases = s.bases
  PROVE  SheetFits(t) /\ Kept(s, t)
BY DEF SheetFits, PlanFits, Kept

\* A change of actions that is accepted.
LEMMA ActionKept ==
  ASSUME NEW s, SheetFits(s), NEW lines, NEW a, Validate(ChangeActions(s.plan, lines, a)),
         NEW t, t = [s EXCEPT !.plan = ChangeActions(s.plan, lines, a), !.error = FALSE]
  PROVE  SheetFits(t) /\ Kept(s, t)
<1>1. PICK new : new = ChangeActions(s.plan, lines, a)
  OBVIOUS
<1>2. /\ Sequence(new) /\ Len(new) = Len(s.plan) /\ DOMAIN new = DOMAIN s.plan
      /\ \A i \in DOMAIN s.plan : DOMAIN new[i] = RowFields /\ new[i].commit = s.plan[i].commit
  BY <1>1, ActionsChanged DEF SheetFits
<1>3. /\ DOMAIN t = SheetFields /\ t.plan = new /\ t.base = s.base /\ t.bases = s.bases
      /\ t.marked = s.marked
  BY <1>1 DEF SheetFits, SheetFields
<1>4. Validate(new)
  BY <1>1
<1>5. SheetFits(t)
  BY <1>2, <1>3, <1>4 DEF SheetFits, PlanFits
<1>6. {new[i].commit : i \in DOMAIN new} = {s.plan[i].commit : i \in DOMAIN s.plan}
  BY <1>2
<1>7. ASSUME s.marked \subseteq DOMAIN s.plan
      PROVE  {new[i].commit : i \in s.marked \cap DOMAIN new} = {s.plan[i].commit : i \in s.marked}
  <2>1. s.marked \cap DOMAIN new = s.marked /\ \A i \in s.marked : new[i].commit = s.plan[i].commit
    BY <1>2, <1>7
  <2> QED BY <2>1
<1> QED BY <1>2, <1>3, <1>4, <1>5, <1>6, <1>7 DEF Kept

LEMMA WithActionKept ==
  ASSUME SheetFits(sheet), NEW a
  PROVE  SheetFits(WithAction(a)) /\ Kept(sheet, WithAction(a))
<1>1. CASE MarkedRows \subseteq DOMAIN sheet.plan /\ Validate(ChangeActions(sheet.plan, MarkedRows, a))
  BY <1>1, ActionKept DEF WithAction, Accept
<1>2. CASE ~(MarkedRows \subseteq DOMAIN sheet.plan /\ Validate(ChangeActions(sheet.plan, MarkedRows, a)))
  <2>1. WithAction(a) = [sheet EXCEPT !.error = TRUE]
    BY <1>2 DEF WithAction, Accept
  <2>2. /\ DOMAIN [sheet EXCEPT !.error = TRUE] = SheetFields
        /\ [sheet EXCEPT !.error = TRUE].plan = sheet.plan
        /\ [sheet EXCEPT !.error = TRUE].base = sheet.base
        /\ [sheet EXCEPT !.error = TRUE].bases = sheet.bases
    BY DEF SheetFits, SheetFields
  <2> QED BY <2>1, <2>2, SamePlan
<1> QED BY <1>1, <1>2

\* Rows that are the same have the same commits.
LEMMA SameCommits ==
  ASSUME NEW p, NEW A, NEW q, NEW B, \A i \in A : \E j \in B : p[i] = q[j],
         \A j \in B : \E i \in A : p[i] = q[j]
  PROVE  {p[i].commit : i \in A} = {q[j].commit : j \in B}
<1>1. ASSUME NEW i \in A PROVE p[i].commit \in {q[j].commit : j \in B}
  OBVIOUS
<1>2. ASSUME NEW j \in B PROVE q[j].commit \in {p[i].commit : i \in A}
  OBVIOUS
<1> QED BY <1>1, <1>2

\* A move of a range of rows that is accepted: the marks move with the rows.
LEMMA MoveKept ==
  ASSUME NEW s, SheetFits(s), NEW first, NEW last, NEW d, NEW t,
         SameRows(s.plan, first, last, d, t.plan), Validate(t.plan),
         s.marked \in {{}, first..last},
         DOMAIN t = SheetFields, t.base = s.base, t.bases = s.bases,
         t.marked = {m + d : m \in s.marked}
  PROVE  SheetFits(t) /\ Kept(s, t)
<1>1. /\ Sequence(t.plan) /\ Len(t.plan) = Len(s.plan) /\ DOMAIN t.plan = DOMAIN s.plan
      /\ \A i \in DOMAIN s.plan : \E j \in DOMAIN s.plan : t.plan[i] = s.plan[j]
      /\ \A j \in DOMAIN s.plan : \E i \in DOMAIN s.plan : t.plan[i] = s.plan[j]
      /\ \A j \in first..last : j + d \in DOMAIN s.plan /\ t.plan[j + d] = s.plan[j]
  BY DEF SameRows
<1>2. SheetFits(t)
  BY <1>1 DEF SheetFits, PlanFits
<1>3. {t.plan[i].commit : i \in DOMAIN t.plan} = {s.plan[i].commit : i \in DOMAIN s.plan}
  <2>1. \A i \in DOMAIN t.plan : \E j \in DOMAIN s.plan : t.plan[i] = s.plan[j]
    BY <1>1
  <2>2. \A j \in DOMAIN s.plan : \E i \in DOMAIN t.plan : t.plan[i] = s.plan[j]
    BY <1>1
  <2> QED BY <2>1, <2>2, SameCommits
<1>4. {t.plan[i].commit : i \in t.marked \cap DOMAIN t.plan} = {s.plan[i].commit : i \in s.marked}
  <2>1. \A m \in s.marked : m + d \in DOMAIN t.plan /\ t.plan[m + d] = s.plan[m]
    BY <1>1
  <2>2. \A m \in s.marked : m + d \in t.marked
    OBVIOUS
  <2>3. \A i \in t.marked : \E m \in s.marked : i = m + d
    OBVIOUS
  <2>4. \A i \in t.marked \cap DOMAIN t.plan : \E m \in s.marked : t.plan[i] = s.plan[m]
    BY <2>1, <2>3
  <2>5. \A m \in s.marked : \E i \in t.marked \cap DOMAIN t.plan : t.plan[i] = s.plan[m]
    BY <2>1, <2>2
  <2> QED BY <2>4, <2>5, SameCommits
<1> QED BY <1>1, <1>2, <1>3, <1>4 DEF Kept

\* Nothing but the sheet and what is shown of it changes when a plan is edited or opened.
OnlySheet == UNCHANGED <<branch, rebase, loaded, paging, pages, runs, lost>>

LEMMA EditKept ==
  ASSUME RbInv, ChooseBase \/ MoveCursor \/ ToggleMark \/ PressAction \/ Answer \/ MoveRows
  PROVE  SheetFits(sheet') /\ Kept(sheet, sheet') /\ OnlySheet
<1>0. SheetFits(sheet) /\ DOMAIN sheet = SheetFields
  BY DEF RbInv, SheetFits
<1>1. CASE ChooseBase
  <2>1. PICK b \in sheet.bases : sheet' = [sheet EXCEPT !.base = b]
    BY <1>1 DEF ChooseBase
  <2>2. /\ DOMAIN sheet' = SheetFields /\ sheet'.plan = sheet.plan
        /\ sheet'.base \in sheet.bases \cup {sheet.base} /\ sheet'.bases = sheet.bases
    BY <1>0, <2>1 DEF SheetFields
  <2> QED BY <1>0, <1>1, <2>2, SamePlan DEF ChooseBase, Editing, OnlySheet
<1>2. CASE MoveCursor \/ ToggleMark
  <2>1. \E x : sheet' = [sheet EXCEPT !.selected = x] \/ sheet' = [sheet EXCEPT !.marked = x]
    BY <1>2, Zenon DEF MoveCursor, ToggleMark
  <2>2. /\ DOMAIN sheet' = SheetFields /\ sheet'.plan = sheet.plan
        /\ sheet'.base \in sheet.bases \cup {sheet.base} /\ sheet'.bases = sheet.bases
    BY <1>0, <2>1 DEF SheetFields
  <2> QED BY <1>0, <1>2, <2>2, SamePlan DEF MoveCursor, ToggleMark, Editing, OnlySheet
<1>3. CASE PressAction \/ Answer
  <2>1. OnlySheet
    BY <1>3 DEF PressAction, Answer, Editing, OnlySheet
  <2>2. sheet' = sheet \/ \E a : sheet' = WithAction(a)
    BY <1>3 DEF PressAction, Answer
  <2>3. CASE sheet' = sheet
    BY <1>0, <2>1, <2>3, SamePlan
  <2>4. CASE \E a : sheet' = WithAction(a)
    BY <1>0, <2>1, <2>4, WithActionKept
  <2> QED BY <2>1, <2>2, <2>3, <2>4
<1>4. CASE MoveRows
  <2> DEFINE first == Min(MarkedRows)
             last == Max(MarkedRows)
  <2>1. PICK d \in {-1, 1} :
          /\ IF d < 0 THEN first # 1 ELSE last # Len(sheet.plan)
          /\ sheet' = IF MarkedRows \subseteq DOMAIN sheet.plan /\ ~Shift(d).error THEN Shift(d)
                      ELSE [sheet EXCEPT !.error = TRUE]
    BY <1>4 DEF MoveRows
  <2>2. OnlySheet /\ MarkedRows = first..last
    BY <1>4 DEF MoveRows, Editing, OnlySheet
  <2>3. CASE MarkedRows \subseteq DOMAIN sheet.plan /\ ~Shift(d).error
    <3> DEFINE new == MoveRange(sheet.plan, first, last, IF d < 0 THEN first - 1 ELSE last + 2)
               marks == {m + d : m \in sheet.marked}
    <3>1. sheet' = [Accept(new) EXCEPT !.marked = marks, !.selected = @ + d] /\ ~sheet'.error
      BY <2>1, <2>3 DEF Shift
    <3> HIDE DEF marks
    <3>2. PICK accepted : accepted = Accept(new)
      OBVIOUS
    <3>3. Validate(new) /\ accepted = [sheet EXCEPT !.plan = new, !.error = FALSE]
      <4> HIDE DEF new
      <4>1. CASE Validate(new)
        BY <3>2, <4>1 DEF Accept
      <4>2. CASE ~Validate(new)
        <5>1. Accept(new) = [sheet EXCEPT !.error = TRUE]
          BY <4>2 DEF Accept
        <5> QED BY <1>0, <3>1, <5>1 DEF SheetFields
      <4> QED BY <4>1, <4>2
    <3>4. /\ DOMAIN sheet' = SheetFields /\ sheet'.plan = new
          /\ sheet'.base = sheet.base /\ sheet'.bases = sheet.bases
          /\ sheet'.marked = {m + d : m \in sheet.marked}
      <4> HIDE DEF new
      <4> QED BY <1>0, <3>1, <3>2, <3>3 DEF SheetFields, marks
    <3>5. Sequence(sheet.plan) /\ Len(sheet.plan) \in Nat /\ DOMAIN sheet.plan = 1..Len(sheet.plan)
      BY <1>0, SeqLength DEF SheetFits, PlanFits
    <3>6. first \in MarkedRows /\ last \in MarkedRows /\ first <= last
      BY <2>3, <3>5, FirstAndLast DEF MarkedRows
    <3>7. MovedBy(sheet.plan, first, last, d, new)
      BY <2>1, <2>3, <3>5, <3>6 DEF MovedBy
    <3>8. sheet.marked \in {{}, first..last}
      BY <2>2 DEF MarkedRows
    <3> HIDE DEF first, last, new
    <3>9. SameRows(sheet.plan, first, last, d, new)
      BY <3>7, RowsMoved
    <3> QED BY <1>0, <2>2, <3>3, <3>4, <3>8, <3>9, MoveKept
  <2>4. CASE ~(MarkedRows \subseteq DOMAIN sheet.plan /\ ~Shift(d).error)
    <3>1. sheet' = [sheet EXCEPT !.error = TRUE]
      BY <2>1, <2>4
    <3>2. /\ DOMAIN sheet' = SheetFields /\ sheet'.plan = sheet.plan
          /\ sheet'.base = sheet.base /\ sheet'.bases = sheet.bases
      BY <1>0, <3>1 DEF SheetFields
    <3> QED BY <1>0, <2>2, <3>2, SamePlan
  <2> QED BY <2>3, <2>4
<1> QED BY <1>1, <1>2, <1>3, <1>4

\* The base first chosen is one of the bases, the longest.
LEMMA LongestBase ==
  ASSUME NEW bases, bases # {}, NEW a, NEW c, bases \subseteq {a, c},
         \A b \in bases : Sequence(b)
  PROVE  (CHOOSE b \in bases : \A d \in bases : Len(b) >= Len(d)) \in bases
<1>1. \A b \in bases : Len(b) \in Nat
  BY SeqLength
<1>2. \E b \in bases : \A d \in bases : Len(b) >= Len(d)
  <2>1. CASE a \in bases /\ (c \in bases => Len(a) >= Len(c))
    BY <1>1, <2>1, SMTT(60)
  <2>2. CASE c \in bases /\ (a \in bases => Len(c) >= Len(a))
    BY <1>1, <2>2, SMTT(60)
  <2> QED BY <1>1, <2>1, <2>2
<1> QED BY <1>2

LEMMA OpenedFits ==
  ASSUME NEW bases, bases # {}, NEW a, NEW c, bases \subseteq {a, c},
         \A b \in bases : Sequence(b), NEW plan, PlanFits(plan), NEW published,
         NEW t, t = Opened(bases, plan, published)
  PROVE  SheetFits(t)
<1> DEFINE base == CHOOSE b \in bases : \A d \in bases : Len(b) >= Len(d)
<1>1. base \in bases
  BY LongestBase
<1>2. t = [EmptySheet EXCEPT !.plan = plan, !.bases = bases, !.published = published, !.base = base,
                             !.known = paging.known]
  BY Zenon DEF Opened
<1> HIDE DEF base
<1>3. DOMAIN t = SheetFields /\ t.plan = plan /\ t.bases = bases /\ t.base = base
  BY <1>2 DEF EmptySheet, SheetFields
<1> QED BY <1>1, <1>3 DEF SheetFits

LEMMA OpeningFits ==
  ASSUME RbInv, OpenRebase \/ OpenHistorical
  PROVE  SheetFits(sheet') /\ OnlySheet /\ rebaseView = "Log"
<1>0. OnlySheet /\ rebaseView = "Log"
  BY DEF OpenRebase, OpenHistorical, OnlySheet
<1>1. /\ Sequence(loaded) /\ Len(loaded) \in Nat /\ DOMAIN loaded = 1..Len(loaded)
      /\ PlanFits(Parse(loaded)) /\ DOMAIN Parse(loaded) = DOMAIN loaded
      /\ \A i \in DOMAIN Parse(loaded) : Parse(loaded)[i].action = "pick"
  BY SeqLength, ParseFits DEF RbInv, HistoryFits, RowsFit
<1>2. ASSUME NEW row \in DOMAIN loaded PROVE \A b \in ParentOf(row) : Sequence(b)
  <2> SUFFICES ASSUME Len(loaded[row]) > 1 PROVE Sequence(Front(loaded[row]))
    BY DEF ParentOf
  <2>1. PICK chain : chain = loaded[row]
    OBVIOUS
  <2>2. Sequence(chain) /\ Len(chain) \in Nat /\ Len(chain) > 1
    BY <2>1, SeqLength DEF RbInv, HistoryFits, RowsFit
  <2>3. PICK n : n = Len(chain) - 1
    OBVIOUS
  <2>4. n \in 0..Len(chain)
    BY <2>2, <2>3
  <2> QED BY <2>1, <2>2, <2>3, <2>4, SeqStart DEF Front
<1>3. Sequence(UpstreamChain)
  <2>1. Upstream \in Nat
    BY RebaseBounds
  <2>2. PICK s : s = [i \in 1..Upstream |-> {i}]
    OBVIOUS
  <2>3. s = [i \in 1..Upstream |-> s[i]]
    BY <2>2
  <2> QED BY <2>1, <2>2, <2>3, SeqTable DEF UpstreamChain
<1>4. CASE OpenRebase
  <2> DEFINE upstream == IF Upstream > 0 THEN {UpstreamChain} ELSE {}
             published == UpstreamChain \in Range(loaded)
  <2>1. PICK bases \in {{other} : other \in OtherBranches}
                       \cup {ParentOf(row) \cup upstream : row \in DOMAIN loaded} :
          bases # {} /\ sheet' = Opened(bases, Parse(loaded), published)
    BY <1>4 DEF OpenRebase
  <2> HIDE DEF published
  <2>2. CASE \E other \in OtherBranches : bases = {other}
    <3>1. PICK other \in OtherBranches : bases = {other}
      BY <2>2
    <3>2. Sequence(other)
      BY RebaseBounds DEF Sequence
    <3>3. bases \subseteq {other, other} /\ \A b \in bases : Sequence(b)
      BY <3>1, <3>2
    <3> QED BY <1>0, <1>1, <2>1, <3>3, OpenedFits
  <2>3. CASE \E row \in DOMAIN loaded : bases = ParentOf(row) \cup upstream
    <3>1. PICK row \in DOMAIN loaded : bases = ParentOf(row) \cup upstream
      BY <2>3
    <3>2. PICK parent : parent = Front(loaded[row])
      OBVIOUS
    <3>3. bases \subseteq {parent, UpstreamChain}
      BY <3>1, <3>2 DEF ParentOf
    <3>4. \A b \in bases : Sequence(b)
      BY <1>2, <1>3, <3>1
    <3> QED BY <1>0, <1>1, <2>1, <3>3, <3>4, OpenedFits
  <2> QED BY <2>1, <2>2, <2>3
<1>5. CASE OpenHistorical
  <2>1. PICK row \in DOMAIN loaded, action \in {"edit", "reword"} :
          /\ ParentOf(row) # {}
          /\ LET same == {i \in DOMAIN loaded : loaded[i] = loaded[row]} IN
             sheet' = Opened(ParentOf(row), ChangeActions(Parse(loaded), same, action),
                             loaded[row] = UpstreamChain)
    BY <1>5, Zenon DEF OpenHistorical
  <2>0. PICK set : set = {i \in DOMAIN loaded : loaded[i] = loaded[row]}
    BY Zenon
  <2>2. PICK same, published :
          sheet' = Opened(ParentOf(row), ChangeActions(Parse(loaded), same, action), published)
    <3>1. sheet' = Opened(ParentOf(row), ChangeActions(Parse(loaded), set, action),
                          loaded[row] = UpstreamChain)
      BY <2>0, <2>1, Zenon
    <3> QED BY <3>1, Zenon
  <2>3. PICK plan : plan = ChangeActions(Parse(loaded), same, action)
    OBVIOUS
  <2>4. /\ Sequence(plan) /\ Len(plan) = Len(Parse(loaded)) /\ DOMAIN plan = DOMAIN loaded
        /\ \A i \in DOMAIN loaded : /\ DOMAIN plan[i] = RowFields
                                    /\ i \notin same => plan[i] = Parse(loaded)[i]
                                    /\ i \in same => plan[i].action = action
    BY <1>1, <2>3, ActionsChanged
  <2>5. Validate(plan)
    <3>1. 1 \in DOMAIN loaded
      BY <1>1
    <3>2. plan[1].action \in {"pick", "edit", "reword"}
      BY <1>1, <2>4, <3>1
    <3> QED BY <3>2 DEF Validate, Melds
  <2>6. PlanFits(plan)
    BY <2>4, <2>5 DEF PlanFits
  <2>7. PICK parent : parent = Front(loaded[row])
    OBVIOUS
  <2>8. ParentOf(row) \subseteq {parent, parent}
    BY <2>7 DEF ParentOf
  <2>9. SheetFits(sheet')
    BY <1>2, <2>1, <2>2, <2>3, <2>6, <2>8, OpenedFits
  <2> QED BY <1>0, <2>9
<1> QED BY <1>4, <1>5

\* A step of the rebase that leaves the branch, and one that Git's commands are told of.
LEMMA RebaseMoved ==
  ASSUME RbInv, UNCHANGED <<branch, loaded, paging, pages, sheet, runs, lost>>,
         RebaseFits(rebase', branch)
  PROVE  RbInv'
BY DEF RbInv, HistoryFits, RunsFit, OnlyDropsLost

LEMMA RunsMoved ==
  ASSUME RbInv, UNCHANGED <<branch, rebase, loaded, paging, pages, sheet, lost>>,
         \A r \in runs' : r \in runs \/ \E kind : r = Asked(kind)
  PROVE  RbInv'
<1>1. \A kind : /\ DOMAIN Asked(kind) = RunFields
                /\ Asked(kind).plan \in {sheet.plan, <<>>} /\ Asked(kind).base \in {sheet.base, <<>>}
  BY DEF Asked, RunFields
<1>2. Sequence(sheet.plan) /\ Sequence(sheet.base) /\ Sequence(<<>>)
  BY EmptySeq DEF RbInv, SheetFits, PlanFits, Sequence
<1>3. RunsFit'
  <2>1. \A kind : Sequence(Asked(kind).plan) /\ Sequence(Asked(kind).base)
    BY <1>1, <1>2
  <2> QED BY <1>1, <2>1 DEF RbInv, RunsFit
<1> QED BY <1>3 DEF RbInv, HistoryFits, OnlyDropsLost

LEMMA GitStepsKeep ==
  ASSUME RbInv, GitSteps
  PROVE  RbInv'
<1>0. /\ RebaseFits(rebase, branch) /\ DOMAIN rebase = RebaseFields /\ Sequence(rebase.head)
      /\ Sequence(rebase.todo) /\ rebase.at = "running" /\ UNCHANGED <<loaded, paging, pages, sheet, runs>>
  BY DEF RbInv, RebaseFits, GitSteps
<1>1. CASE rebase.todo = <<>>
  <2>1. /\ branch' = rebase.head /\ rebase' = NoRebase
        /\ lost' = IF rebase.whole
                     THEN lost \cup ((Changes(branch) \ Changes(rebase.head)) \ rebase.excused)
                     ELSE lost
    BY <1>1 DEF GitSteps
  <2>2. Planned(rebase.todo) = {}
    BY <1>1 DEF Planned
  <2>3. lost' = {}
    BY <1>0, <2>1, <2>2 DEF RbInv, OnlyDropsLost, RebaseFits, Accounted
  <2>4. RebaseFits(rebase', branch')
    BY <2>1, NoRebaseFits
  <2> QED BY <1>0, <2>1, <2>3, <2>4 DEF RbInv, HistoryFits, RunsFit, OnlyDropsLost
<1>2. CASE rebase.todo # <<>>
  <2> DEFINE line == Head(rebase.todo)
             next == [rebase EXCEPT !.todo = Tail(@)]
  <2>1. /\ UNCHANGED <<branch, loaded, paging, pages, sheet, runs, lost>>
        /\ \/ line.action = "drop" /\ rebase' = next
           \/ rebase' = [rebase EXCEPT !.at = "conflict"]
           \/ rebase.head # <<>>
              /\ rebase' = [next EXCEPT !.head = Append(Front(@), Last(@) \cup line.commit)]
           \/ \E stop \in BOOLEAN :
                rebase' = [next EXCEPT !.head = Append(@, line.commit),
                                       !.at = IF stop THEN "edit" ELSE "running"]
    BY <1>0, <1>2 DEF GitSteps
  <2>2. CASE line.action = "drop" /\ rebase' = next
    <3>1. /\ DOMAIN rebase' = RebaseFields /\ rebase'.todo = Tail(rebase.todo)
          /\ rebase'.whole = rebase.whole /\ rebase'.at = "running" /\ rebase'.head = rebase.head
          /\ rebase'.excused = rebase.excused
      BY <1>0, <2>2 DEF RebaseFields
    <3>2. rebase.whole => line.commit \subseteq rebase.excused
      <4>1. PICK rest : rest = Tail(rebase.todo)
        OBVIOUS
      <4>2. line.commit \subseteq Dropped(rebase.todo)
        BY <1>0, <1>2, <2>2, <4>1, TodoTaken
      <4> QED BY <4>2 DEF RbInv, RebaseFits, Accounted
    <3>3. RebaseFits(rebase', branch)
      BY <1>0, <1>2, <3>1, <3>2, LineTaken
    <3> QED BY <2>1, <3>3, RebaseMoved
  <2>3. CASE rebase' = [rebase EXCEPT !.at = "conflict"]
    <3>1. /\ DOMAIN rebase' = RebaseFields /\ rebase'.todo = rebase.todo
          /\ rebase'.whole = rebase.whole /\ rebase'.at = "conflict" /\ rebase'.head = rebase.head
          /\ rebase'.excused = rebase.excused
      BY <1>0, <2>3 DEF RebaseFields
    <3>2. RebaseFits(rebase', branch)
      BY <1>0, <1>2, <3>1, HeadGrows
    <3> QED BY <2>1, <3>2, RebaseMoved
  <2>4. CASE /\ rebase.head # <<>>
             /\ rebase' = [next EXCEPT !.head = Append(Front(@), Last(@) \cup line.commit)]
    <3>1. PICK head : head = Append(Front(rebase.head), Last(rebase.head) \cup line.commit)
      OBVIOUS
    <3>2. /\ DOMAIN rebase' = RebaseFields /\ rebase'.todo = Tail(rebase.todo)
          /\ rebase'.whole = rebase.whole /\ rebase'.at = "running" /\ rebase'.head = head
          /\ rebase'.excused = rebase.excused
      <4>1. rebase' = [[rebase EXCEPT !.todo = Tail(rebase.todo)] EXCEPT !.head = head]
        BY <1>0, <2>4, <3>1 DEF RebaseFields
      <4> HIDE DEF line
      <4> QED BY <1>0, <4>1 DEF RebaseFields
    <3>3. Sequence(head) /\ Changes(head) = Changes(rebase.head) \cup line.commit
      <4> HIDE DEF line
      <4> QED BY <1>0, <2>4, <3>1, ChangesMelded
    <3>4. RebaseFits(rebase', branch)
      BY <1>0, <1>2, <3>2, <3>3, LineTaken
    <3> QED BY <2>1, <3>4, RebaseMoved
  <2>5. ASSUME NEW stop \in BOOLEAN,
               rebase' = [next EXCEPT !.head = Append(@, line.commit),
                                      !.at = IF stop THEN "edit" ELSE "running"]
        PROVE  RbInv'
    <3>1. PICK head : head = Append(rebase.head, line.commit)
      OBVIOUS
    <3>2. /\ DOMAIN rebase' = RebaseFields /\ rebase'.todo = Tail(rebase.todo)
          /\ rebase'.whole = rebase.whole /\ rebase'.at \in {"running", "edit"} /\ rebase'.head = head
          /\ rebase'.excused = rebase.excused
      <4>1. rebase' = [[rebase EXCEPT !.todo = Tail(rebase.todo)]
                         EXCEPT !.head = head, !.at = IF stop THEN "edit" ELSE "running"]
        BY <1>0, <2>5, <3>1 DEF RebaseFields
      <4> HIDE DEF line
      <4> QED BY <1>0, <4>1 DEF RebaseFields
    <3>3. Sequence(head) /\ Changes(head) = Changes(rebase.head) \cup line.commit
      <4> HIDE DEF line
      <4> QED BY <1>0, <3>1, ChangesAdded
    <3>4. RebaseFits(rebase', branch)
      BY <1>0, <1>2, <3>2, <3>3, LineTaken
    <3> QED BY <2>1, <3>4, RebaseMoved
  <2> QED BY <2>1, <2>2, <2>3, <2>4, <2>5
<1> QED BY <1>1, <1>2

LEMMA OutsideKeeps ==
  ASSUME RbInv, RebaseOutside
  PROVE  RbInv'
<1>0. /\ RebaseFits(rebase, branch) /\ UNCHANGED <<loaded, paging, pages, sheet, runs, lost>>
      /\ Sequence(branch) /\ Len(branch) \in Nat
  BY SeqLength DEF RbInv, RebaseOutside
<1>1. CASE rebase.at = "none" /\ branch' = Append(branch, {-work.other}) /\ UNCHANGED rebase
  <2>1. Sequence(branch')
    <3>1. PICK grown : grown = Append(branch, {-work.other})
      OBVIOUS
    <3>2. Sequence(grown)
      BY <1>0, <3>1, ChangesAdded
    <3> QED BY <1>1, <3>1, <3>2
  <2>2. RebaseFits(rebase', branch')
    BY <1>0, <1>1 DEF RebaseFits
  <2> QED BY <1>0, <2>1, <2>2 DEF RbInv, HistoryFits, RunsFit, OnlyDropsLost
<1>2. ASSUME UNCHANGED branch, NEW b \in 0..(Len(branch) - 1),
             rebase' = Begin(SubSeq(branch, 1, b), Picks(SubSeq(branch, b + 1, Len(branch))),
                             FALSE, {})
      PROVE  RbInv'
  <2>1. PICK head : head = SubSeq(branch, 1, b)
    OBVIOUS
  <2>2. PICK n, m : n = Len(branch) /\ m = b + 1
    OBVIOUS
  <2>3. PICK above : above = SubSeq(branch, m, n)
    OBVIOUS
  <2>4. Sequence(head)
    <3>1. b \in 0..Len(branch)
      BY <1>0
    <3> QED BY <1>0, <2>1, <3>1, SeqStart
  <2>5. Sequence(above)
    <3>1. m \in Int /\ n \in Int
      BY <1>0, <2>2
    <3> QED BY <1>0, <2>3, <3>1, SeqPart
  <2>6. rebase' = Begin(head, Picks(above), FALSE, {})
    BY <1>2, <2>1, <2>2, <2>3
  <2>7. RebaseFits(rebase', branch)
    BY <2>4, <2>5, <2>6, OtherRebaseFits
  <2> QED BY <1>0, <1>2, <2>7, RebaseMoved
<1>3. CASE /\ rebase.at \in Stopped /\ UNCHANGED branch
           /\ rebase' \in {Continued(rebase), Skipped(rebase), NoRebase}
  <2>1. RebaseFits(rebase', branch)
    BY <1>0, <1>3, ContinuedFits, SkippedFits, NoRebaseFits
  <2> QED BY <1>0, <1>3, <2>1, RebaseMoved
<1> QED BY <1>1, <1>2, <1>3 DEF RebaseOutside

\* What Git makes of a command: a rebase it begins accounts for the branch, a commit on
\* top of a stopped rebase only adds to it.
LEMMA OutcomesFit ==
  ASSUME RbInv, rebase.at # "running", NEW r \in runs, NEW o \in Outcomes(r)
  PROVE  Sequence(o.branch) /\ RebaseFits(o.rebase, o.branch)
<1>0. /\ Sequence(branch) /\ RebaseFits(rebase, branch) /\ Sequence(r.plan) /\ Sequence(r.base)
      /\ DOMAIN rebase = RebaseFields /\ Sequence(rebase.head)
  BY DEF RbInv, RunsFit, RebaseFits
<1>1. CASE r.kind = "rebase" /\ rebase.at = "none"
  <2>1. PICK excused : excused = Dropped(r.plan) \cup (Changes(branch) \ r.known)
    OBVIOUS
  <2>2. PICK whole : whole = Reaches(r)
    OBVIOUS
  <2>3. whole \in BOOLEAN /\ (whole => r.known \subseteq Changes(r.base) \cup Planned(r.plan))
    BY <2>2 DEF Reaches
  <2>4. PICK begun : begun = Begin(r.base, Render(r.plan), whole, excused)
    OBVIOUS
  <2>5. Outcomes(r) = {Outcome(branch, begun, FALSE)}
    BY <1>1, <2>1, <2>2, <2>4 DEF Outcomes
  <2>6. o.branch = branch /\ o.rebase = begun
    BY <2>5 DEF Outcome
  <2>7. RebaseFits(begun, branch)
    BY <1>0, <2>1, <2>3, <2>4, BegunRebaseFits
  <2> QED BY <1>0, <2>6, <2>7
<1>2. CASE r.kind = "continue" /\ rebase.at \in Stopped
  <2>1. o.branch = branch /\ o.rebase \in {Continued(rebase), rebase}
    BY <1>2 DEF Outcomes, Outcome
  <2> QED BY <1>0, <1>2, <2>1, ContinuedFits
<1>3. CASE r.kind = "abort" /\ rebase.at \in Stopped
  <2>1. o.branch = branch /\ o.rebase = NoRebase
    BY <1>3 DEF Outcomes, Outcome
  <2> QED BY <1>0, <2>1, NoRebaseFits
<1>4. CASE r.kind = "commit"
  <2>1. o \in {Outcome(branch, rebase, TRUE), Outcome(branch, rebase, FALSE),
               IF rebase.at = "none" THEN Outcome(Append(branch, {Commits + r.n}), rebase, FALSE)
               ELSE Outcome(branch, [rebase EXCEPT !.head = Append(@, {Commits + r.n})], FALSE)}
    BY <1>4 DEF Outcomes
  <2>2. CASE o \in {Outcome(branch, rebase, TRUE), Outcome(branch, rebase, FALSE)}
    BY <1>0, <2>2 DEF Outcome
  <2>3. CASE rebase.at = "none" /\ o = Outcome(Append(branch, {Commits + r.n}), rebase, FALSE)
    <3>1. PICK grown : grown = Append(branch, {Commits + r.n})
      OBVIOUS
    <3>2. Sequence(grown)
      BY <1>0, <3>1, ChangesAdded
    <3>3. o.branch = grown /\ o.rebase = rebase
      BY <2>3, <3>1 DEF Outcome
    <3> QED BY <1>0, <2>3, <3>2, <3>3 DEF RebaseFits
  <2>4. CASE /\ rebase.at # "none"
             /\ o = Outcome(branch, [rebase EXCEPT !.head = Append(@, {Commits + r.n})], FALSE)
    <3>1. PICK head : head = Append(rebase.head, {Commits + r.n})
      OBVIOUS
    <3>2. Sequence(head) /\ Changes(head) = Changes(rebase.head) \cup {Commits + r.n}
      BY <1>0, <3>1, ChangesAdded
    <3>3. o.branch = branch /\ o.rebase = [rebase EXCEPT !.head = head]
      BY <2>4, <3>1 DEF Outcome
    <3>4. /\ DOMAIN o.rebase = RebaseFields /\ o.rebase.todo = rebase.todo
          /\ o.rebase.whole = rebase.whole /\ o.rebase.at = rebase.at /\ o.rebase.head = head
          /\ o.rebase.excused = rebase.excused
      BY <1>0, <3>3 DEF RebaseFields
    <3>5. rebase.at = "conflict" => rebase.todo # <<>>
      BY <1>0 DEF RebaseFits
    <3> QED BY <1>0, <2>4, <3>2, <3>3, <3>4, <3>5, HeadGrows
  <2> QED BY <2>1, <2>2, <2>3, <2>4
<1>5. CASE ~\/ r.kind = "rebase" /\ rebase.at = "none"
            \/ r.kind \in {"continue", "abort"} /\ rebase.at \in Stopped
            \/ r.kind = "commit"
  <2>1. Outcomes(r) = {Outcome(branch, rebase, TRUE)}
    BY <1>5 DEF Outcomes
  <2>2. o.branch = branch /\ o.rebase = rebase
    BY <2>1 DEF Outcome
  <2> QED BY <1>0, <2>2
<1> QED BY <1>1, <1>2, <1>3, <1>4, <1>5

LEMMA GitTakesKeeps ==
  ASSUME RbInv, GitTakes
  PROVE  RbInv'
<1>0. PICK r \in runs :
        /\ rebase.at # "running" /\ UNCHANGED <<loaded, paging, pages, sheet, lost>>
        /\ \E o \in Outcomes(r) :
             /\ branch' = o.branch /\ rebase' = o.rebase
             /\ runs' = (runs \ {r}) \cup {[r EXCEPT !.at = "waiting", !.failed = o.failed]}
  BY DEF GitTakes
<1>1. PICK o \in Outcomes(r) :
        /\ branch' = o.branch /\ rebase' = o.rebase
        /\ runs' = (runs \ {r}) \cup {[r EXCEPT !.at = "waiting", !.failed = o.failed]}
  BY <1>0
<1>2. Sequence(branch') /\ RebaseFits(rebase', branch')
  BY <1>0, <1>1, OutcomesFit
<1> DEFINE done == [r EXCEPT !.at = "waiting", !.failed = o.failed]
<1>3. DOMAIN done = RunFields /\ done.plan = r.plan /\ done.base = r.base
  BY DEF RbInv, RunsFit, RunFields
<1> HIDE DEF done
<1>4. RunsFit'
  BY <1>1, <1>3 DEF RbInv, RunsFit, done
<1> QED BY <1>0, <1>2, <1>4 DEF RbInv, HistoryFits, OnlyDropsLost

LEMMA CommandsKeep ==
  ASSUME RbInv, Start \/ Compose \/ Handle
  PROVE  RbInv'
<1>1. UNCHANGED <<branch, rebase, loaded, paging, pages, sheet, lost>>
  BY DEF Start, Compose, Handle
<1>2. \A r \in runs' : r \in runs \/ \E kind : r = Asked(kind)
  BY DEF Start, Compose, Handle, Run, RebaseFinished, CommitFinished, LifecycleFinished
<1> QED BY <1>1, <1>2, RunsMoved

\* A page of the history holds chains of the branch.
LEMMA PageFits ==
  ASSUME Sequence(branch), NEW n, NEW skip \in Nat, NEW page, page = Page(n, skip)
  PROVE  RowsFit(page.rows) /\ page.skip = skip
<1>1. PageSize \in Nat \ {0} /\ Len(branch) \in Nat
  BY RebaseBounds, SeqLength
<1>2. PICK last : last = IF skip < Len(branch) THEN Len(branch) - skip ELSE 0
  OBVIOUS
<1>3. PICK first : first = IF last > PageSize THEN last - PageSize ELSE 0
  OBVIOUS
<1>4. last \in 0..Len(branch) /\ first \in 0..last
  BY <1>1, <1>2, <1>3
<1>5. PICK chains : chains = [i \in 1..(last - first) |-> SubSeq(branch, 1, first + i)]
  OBVIOUS
<1>6. page = [n |-> n, skip |-> skip, more |-> first > 0, known |-> Changes(branch), rows |-> chains]
  BY <1>2, <1>3, <1>5, Zenon DEF Page
<1>7. last - first \in Nat /\ chains = [i \in 1..(last - first) |-> chains[i]]
  BY <1>4, <1>5
<1>8. Sequence(chains)
  BY <1>7, SeqTable
<1>9. ASSUME NEW i \in DOMAIN chains PROVE Sequence(chains[i])
  <2>1. PICK k : k = first + i
    OBVIOUS
  <2>2. k \in 0..Len(branch) /\ chains[i] = SubSeq(branch, 1, k)
    BY <1>1, <1>4, <1>5, <2>1
  <2> QED BY <2>2, SeqStart
<1>10. page.rows = chains /\ page.skip = skip
  BY <1>6
<1> QED BY <1>8, <1>9, <1>10 DEF RowsFit

LEMMA RowsJoined ==
  ASSUME NEW s, RowsFit(s), NEW u, RowsFit(u), NEW t, t = s \o u
  PROVE  RowsFit(t)
<1>1. /\ Sequence(t) /\ Len(t) = Len(s) + Len(u)
      /\ \A i \in 1..(Len(s) + Len(u)) : t[i] = IF i <= Len(s) THEN s[i] ELSE u[i - Len(s)]
  BY SeqJoin DEF RowsFit
<1>2. /\ Len(s) \in Nat /\ DOMAIN s = 1..Len(s) /\ Len(u) \in Nat /\ DOMAIN u = 1..Len(u)
      /\ DOMAIN t = 1..Len(t)
  BY <1>1, SeqLength DEF RowsFit
<1>3. ASSUME NEW i \in DOMAIN t PROVE Sequence(t[i])
  <2>1. CASE i <= Len(s)
    BY <1>1, <1>2, <2>1 DEF RowsFit
  <2>2. CASE i > Len(s)
    <3>1. t[i] = u[i - Len(s)] /\ i - Len(s) \in DOMAIN u
      BY <1>1, <1>2, <2>2
    <3> QED BY <3>1 DEF RowsFit
  <2> QED BY <1>2, <2>1, <2>2
<1> QED BY <1>1, <1>3 DEF RowsFit

LEMMA HistoryKeeps ==
  ASSUME RbInv, LoadHistory \/ HistoryReady
  PROVE  HistoryFits'
<1>1. CASE LoadHistory
  <2>1. PICK skip \in {0, paging.skip}, still \in SUBSET pages :
          pages' = still \cup {Page(work.loads, skip)}
    BY <1>1 DEF LoadHistory
  <2>2. PICK page : page = Page(work.loads, skip)
    OBVIOUS
  <2>3. RowsFit(page.rows) /\ page.skip \in Nat
    <3>1. skip \in Nat /\ Sequence(branch)
      BY DEF RbInv, HistoryFits
    <3> QED BY <2>2, <3>1, PageFits
  <2>4. UNCHANGED <<loaded, paging>>
    BY <1>1 DEF LoadHistory
  <2> QED BY <2>1, <2>2, <2>3, <2>4 DEF RbInv, HistoryFits
<1>2. CASE HistoryReady
  <2>1. PICK page \in pages :
          loaded' = WithPage(page) /\ paging' = Paged(page) /\ pages' = pages \ {page}
    BY <1>2 DEF HistoryReady
  <2>2. RowsFit(page.rows) /\ page.skip \in Nat /\ RowsFit(loaded)
    BY DEF RbInv, HistoryFits
  <2>3. RowsFit(loaded')
    <3>1. PICK joined : joined = page.rows \o loaded
      OBVIOUS
    <3>2. RowsFit(joined)
      BY <2>2, <3>1, RowsJoined
    <3> QED BY <2>1, <2>2, <3>1, <3>2 DEF WithPage
  <2>4. paging'.skip = page.skip + Len(page.rows)
    BY <2>1 DEF Paged
  <2>5. Len(page.rows) \in Nat
    BY <2>2, SeqLength DEF RowsFit
  <2> QED BY <2>1, <2>2, <2>3, <2>4, <2>5 DEF RbInv, HistoryFits
<1> QED BY <1>1, <1>2

LEMMA RbInductive ==
  ASSUME RbInv, [RbNext]_rbVars
  PROVE  RbInv'
<1>1. CASE RebaseOutside
  BY <1>1, OutsideKeeps
<1>2. CASE GitSteps
  BY <1>2, GitStepsKeep
<1>3. CASE LoadHistory \/ HistoryReady \/ CloseSheet \/ UNCHANGED rbVars
  <2>1. UNCHANGED <<branch, rebase, sheet, runs, lost>>
    BY <1>3 DEF LoadHistory, HistoryReady, CloseSheet, rbVars
  <2>2. HistoryFits'
    <3>1. CASE LoadHistory \/ HistoryReady
      BY <3>1, HistoryKeeps
    <3>2. CASE CloseSheet \/ UNCHANGED rbVars
      BY <3>2 DEF CloseSheet, rbVars, RbInv, HistoryFits
    <3> QED BY <1>3, <3>1, <3>2
  <2> QED BY <2>1, <2>2 DEF RbInv, RunsFit, OnlyDropsLost
<1>4. CASE OpenRebase \/ OpenHistorical
  BY <1>4, OpeningFits DEF OnlySheet, RbInv, HistoryFits, RunsFit, OnlyDropsLost
<1>5. CASE ChooseBase \/ MoveCursor \/ ToggleMark \/ PressAction \/ Answer \/ MoveRows
  BY <1>5, EditKept DEF OnlySheet, RbInv, HistoryFits, RunsFit, OnlyDropsLost
<1>6. CASE Start \/ Compose \/ Handle
  BY <1>6, CommandsKeep
<1>7. CASE GitTakes
  BY <1>7, GitTakesKeeps
<1> QED BY <1>1, <1>2, <1>3, <1>4, <1>5, <1>6, <1>7 DEF RbNext

LEMMA RbInitially == RbInit => RbInv
<1> SUFFICES ASSUME RbInit PROVE RbInv
  OBVIOUS
<1>1. /\ branch = [i \in 1..Commits |-> {i}] /\ rebase = NoRebase /\ pages = {}
      /\ loaded = Page(0, 0).rows /\ paging.skip = Len(loaded)
      /\ sheet = EmptySheet /\ runs = {} /\ lost = {}
  <2>1. paging = [skip |-> Len(loaded), more |-> Page(0, 0).more, known |-> Changes(branch)]
    BY Zenon DEF RbInit
  <2>2. paging.skip = Len(loaded)
    BY <2>1, Zenon
  <2> QED BY <2>2, Zenon DEF RbInit
<1>2. Sequence(branch)
  <2>1. branch = [i \in 1..Commits |-> branch[i]]
    BY <1>1
  <2> QED BY <2>1, RebaseBounds, SeqTable
<1>4. HistoryFits
  <2>1. PICK page : page = Page(0, 0)
    OBVIOUS
  <2>2. RowsFit(page.rows)
    BY <1>2, <2>1, PageFits
  <2>3. loaded = page.rows
    BY <1>1, <2>1
  <2>4. RowsFit(loaded) /\ Len(loaded) \in Nat
    BY <2>2, <2>3, SeqLength DEF RowsFit
  <2> QED BY <1>1, <2>4 DEF HistoryFits
<1>3. SheetFits(sheet)
  <2>1. DOMAIN sheet = SheetFields /\ sheet.plan = <<>> /\ sheet.base = <<>> /\ sheet.bases = {}
    BY <1>1 DEF EmptySheet, SheetFields
  <2>2. Sequence(<<>>) /\ DOMAIN <<>> = {} /\ Validate(<<>>)
    BY EmptySeq DEF Sequence, Validate
  <2> QED BY <2>1, <2>2 DEF SheetFits, PlanFits
<1> QED BY <1>1, <1>2, <1>3, <1>4, NoRebaseFits DEF RbInv, RunsFit, OnlyDropsLost

\* A rebase begun on the screen by a plan that reaches its base loses nothing but what its
\* plan dropped, somebody skipped or was committed after its rows were read: for every
\* size of a page, number and order of pages, plan, base, order of lines, stop, conflict
\* and answer of Git, and any number of commits and commands of the other terminal.
THEOREM DropsAlwaysTold == RbSpec => []OnlyDropsLost
<1>1. RbInv => OnlyDropsLost
  BY DEF RbInv
<1> QED BY <1>1, RbInitially, RbInductive, PTL DEF RbSpec

\* The edits of a plan of any length keep its commits, leave the first line one that Git
\* takes, and carry the marks with the commits they were set on.
THEOREM EditsAlwaysKeepPlan == RbSpec => EditsKeepPlan
<1> DEFINE keeps ==
      sheet.plan # <<>> /\ rebaseView = "Rebase" /\ rebaseView' = "Rebase" => Kept(sheet, sheet')
<1>1. RbInv /\ [RbNext]_rbVars => [keeps]_rbVars
  <2> SUFFICES ASSUME RbInv, RbNext PROVE keeps
    OBVIOUS
  <2>1. CASE OpenRebase \/ OpenHistorical
    BY <2>1, OpeningFits
  <2>2. CASE ChooseBase \/ MoveCursor \/ ToggleMark \/ PressAction \/ Answer \/ MoveRows
    BY <2>2, EditKept
  <2>3. CASE ~\/ OpenRebase \/ OpenHistorical
              \/ ChooseBase \/ MoveCursor \/ ToggleMark \/ PressAction \/ Answer \/ MoveRows
    <3>1. UNCHANGED sheet
      BY <2>3 DEF RbNext, RebaseOutside, GitSteps, LoadHistory, HistoryReady, CloseSheet, Start, Compose,
         GitTakes, Handle
    <3> QED BY <3>1 DEF RbInv, SheetFits, PlanFits, Kept
  <2> QED BY <2>1, <2>2, <2>3
<1>2. [keeps]_rbVars => [ /\ sheet.plan # <<>> /\ rebaseView = "Rebase" /\ rebaseView' = "Rebase"
        => /\ {sheet'.plan[i].commit : i \in DOMAIN sheet'.plan}
              = {sheet.plan[i].commit : i \in DOMAIN sheet.plan}
           /\ Len(sheet'.plan) = Len(sheet.plan)
           /\ Validate(sheet'.plan)
           /\ sheet'.plan # sheet.plan /\ sheet.marked \subseteq DOMAIN sheet.plan
              => {sheet'.plan[i].commit : i \in sheet'.marked \cap DOMAIN sheet'.plan}
                 = {sheet.plan[i].commit : i \in sheet.marked} ]_rbVars
  BY DEF Kept
<1> HIDE DEF keeps
<1> QED BY <1>1, <1>2, RbInitially, RbInductive, PTL DEF RbSpec, EditsKeepPlan

LEMMA LeastNatural ==
  ASSUME NEW T \in SUBSET Nat, T # {}
  PROVE  \E x \in T : \A y \in T : x <= y
<1>1. PICK x \in T : \A y \in T : ~(<<y, x>> \in OpToRel(<, Nat))
  BY NatLessThanWellFounded, WFMin, Zenon
<1>2. \A y \in T : ~(y < x)
  BY <1>1, Zenon DEF OpToRel
<1> QED BY <1>2

LEMMA Climb ==
  ASSUME NEW n \in Nat, NEW T, 0 \in T, \A i \in 1..n : i - 1 \in T => i \in T
  PROVE  \A i \in 0..n : i \in T
<1> DEFINE others == (0..n) \ T
<1>1. ASSUME others # {} PROVE FALSE
  <2>1. PICK i \in others : \A j \in others : i <= j
    <3>1. others \in SUBSET Nat
      OBVIOUS
    <3> HIDE DEF others
    <3> QED BY <1>1, <3>1, LeastNatural
  <2>2. i \in 1..n /\ i - 1 \in 0..n /\ i - 1 \notin others
    BY <2>1
  <2> QED BY <2>2
<1> QED BY <1>1

-----------------------------------------------------------------------------
(* Only.                                                                    *)

LEMMA Listed ==
  ASSUME NEW S, NEW m \in Nat, NEW q \in [1..m -> S]
  PROVE  q \in Seq(S)
BY SeqDef, ZenonT(60)

\* Two sequences in turn, and a sequence with one element more, as names the provers
\* need not look into.
Both(s, t) == s \o t
More(s, x) == Append(s, x)

LEMMA BothFacts ==
  \A S : \A s, t \in Seq(S) :
    /\ Both(s, t) \in Seq(S) /\ Len(Both(s, t)) = Len(s) + Len(t)
    /\ \A i \in 1..(Len(s) + Len(t)) : Both(s, t)[i] = IF i <= Len(s) THEN s[i] ELSE t[i - Len(s)]
BY ConcatProperties DEF Both

LEMMA BothNone ==
  \A S : \A s \in Seq(S) : Both(s, <<>>) = s /\ Both(<<>>, s) = s
BY ConcatEmptySeq DEF Both

LEMMA BothGrouped ==
  \A S : \A s, t, u \in Seq(S) : Both(Both(s, t), u) = Both(s, Both(t, u))
BY ConcatAssociative, Zenon DEF Both

LEMMA MoreFacts ==
  \A S : \A s \in Seq(S), x \in S :
    /\ More(s, x) \in Seq(S) /\ Len(More(s, x)) = Len(s) + 1
    /\ \A i \in 1..Len(s) : More(s, x)[i] = s[i]
    /\ More(s, x)[Len(s) + 1] = x
BY AppendProperties DEF More

LEMMA BothMore ==
  \A S : \A s, t \in Seq(S), x \in S : More(Both(s, t), x) = Both(s, More(t, x))
<1>1. ASSUME NEW S, NEW s \in Seq(S), NEW t \in Seq(S), NEW x \in S
      PROVE  Append(s \o t, x) = s \o Append(t, x)
  OBVIOUS
<1> QED BY <1>1, Zenon DEF Both, More

Taken(f, s, places, i) == IF i \in places THEN More(f[i - 1], s[i]) ELSE f[i - 1]
OnlySteps(f, s, places) ==
  /\ f[0] = <<>> /\ Only(s, places) = f[Len(s)]
  /\ \A i \in 1..Len(s) : f[i] = Taken(f, s, places, i)

LEMMA OnlyTaken ==
  ASSUME NEW S, NEW s \in Seq(S), NEW places
  PROVE  \E f : OnlySteps(f, s, places)
<1>1. PICK n \in Nat : n = Len(s)
  BY LenProperties
<1> DEFINE Takes(f, m) == /\ f = [i \in 0..m |-> f[i]] /\ f[0] = <<>>
                          /\ \A i \in 1..m : f[i] = Taken(f, s, places, i)
           T == {m \in 0..n : \E f : Takes(f, m)}
<1>2. 0 \in T
  <2>1. PICK f : f = [i \in 0..0 |-> <<>>]
    BY Zenon
  <2>2. Takes(f, 0)
    BY <2>1
  <2> QED BY <2>2
<1>3. ASSUME NEW m \in 1..n, m - 1 \in T PROVE m \in T
  <2>1. PICK f : Takes(f, m - 1)
    BY <1>3
  <2>2. PICK g : g = [i \in 0..m |-> IF i = m THEN Taken(f, s, places, m) ELSE f[i]]
    BY Zenon
  <2>3. /\ \A i \in 0..(m - 1) : g[i] = f[i]
        /\ g[m] = Taken(f, s, places, m)
    BY <2>2, SMTT(60)
  <2>4. \A i \in 1..m : /\ i - 1 \in 0..(m - 1)
                        /\ i = m \/ (i \in 1..(m - 1) /\ i \in 0..(m - 1))
    OBVIOUS
  <2>5. \A i \in 1..m : g[i] = Taken(g, s, places, i)
    BY <2>1, <2>3, <2>4, Zenon DEF Taken
  <2>6. g = [i \in 0..m |-> g[i]] /\ g[0] = <<>>
    BY <2>1, <2>2, <2>3
  <2>7. Takes(g, m)
    BY <2>5, <2>6
  <2> HIDE DEF Takes
  <2> QED BY <2>7
<1>4. PICK f : Takes(f, n)
  <2>1. n \in 0..n
    BY <1>1
  <2>2. n \in T
    <3> HIDE DEF T
    <3> QED BY <1>1, <1>2, <1>3, <2>1, Climb, Zenon
  <2> QED BY <2>2
<1> DEFINE Is(g) == g = [i \in 0..n |-> IF i = 0 THEN <<>>
                                        ELSE IF i \in places THEN Append(g[i - 1], s[i])
                                        ELSE g[i - 1]]
<1>5. Is(f)
  <2>1. \A i \in 0..n : f[i] = IF i = 0 THEN <<>>
                               ELSE IF i \in places THEN Append(f[i - 1], s[i]) ELSE f[i - 1]
    BY <1>4, SMTT(60) DEF Taken, More
  <2> QED BY <1>4, <2>1, Zenon
<1>6. PICK g : g = CHOOSE h : Is(h)
  OBVIOUS
<1>7. Is(g)
  BY <1>5, <1>6, Zenon
<1>8. Only(s, places) = g[n]
  BY <1>1, <1>6 DEF Only
<1>9. g[0] = <<>> /\ \A i \in 1..n : g[i] = Taken(g, s, places, i)
  <2>1. \A i \in 0..n : g[i] = IF i = 0 THEN <<>>
                               ELSE IF i \in places THEN Append(g[i - 1], s[i]) ELSE g[i - 1]
    BY <1>7, Zenon
  <2>2. 0 \in 0..n /\ \A i \in 1..n : i \in 0..n /\ i # 0
    BY <1>1
  <2> HIDE DEF Is
  <2> QED BY <2>1, <2>2 DEF Taken, More
<1>10. OnlySteps(g, s, places)
  <2> HIDE DEF Is
  <2> QED BY <1>1, <1>8, <1>9 DEF OnlySteps
<1> QED BY <1>10

LEMMA OnlyStepsTyped ==
  ASSUME NEW S, NEW s \in Seq(S), NEW places, NEW f, OnlySteps(f, s, places)
  PROVE  Len(s) \in Nat /\ \A i \in 0..Len(s) : f[i] \in Seq(S)
<1>1. PICK n \in Nat : n = Len(s) /\ \A i \in 1..n : s[i] \in S
  BY LenProperties
<1> DEFINE T == {i \in 0..n : f[i] \in Seq(S)}
<1>2. 0 \in T
  <2>1. f[0] = <<>>
    BY DEF OnlySteps
  <2>2. f[0] \in Seq(S)
    BY <2>1, EmptySeq, Zenon
  <2> QED BY <1>1, <2>2
<1>3. ASSUME NEW i \in 1..n, i - 1 \in T PROVE i \in T
  <2>1. f[i] = Taken(f, s, places, i)
    BY <1>1 DEF OnlySteps
  <2>2. f[i - 1] \in Seq(S) /\ s[i] \in S
    BY <1>1, <1>3
  <2>3. More(f[i - 1], s[i]) \in Seq(S)
    BY <2>2, MoreFacts, Zenon
  <2>4. f[i] \in Seq(S)
    BY <2>1, <2>2, <2>3 DEF Taken
  <2> QED BY <2>4
<1>4. \A i \in 0..n : i \in T
  <2> HIDE DEF T
  <2> QED BY <1>1, <1>2, <1>3, Climb, Zenon
<1>5. \A i \in 0..n : f[i] \in Seq(S)
  BY <1>4
<1> QED BY <1>1, <1>5

LEMMA OnlyTyped ==
  ASSUME NEW S, NEW s \in Seq(S), NEW places
  PROVE  Only(s, places) \in Seq(S)
<1>1. PICK f : OnlySteps(f, s, places)
  BY OnlyTaken, Zenon
<1>2. Len(s) \in 0..Len(s) /\ \A i \in 0..Len(s) : f[i] \in Seq(S)
  BY <1>1, OnlyStepsTyped, LenProperties
<1> QED BY <1>1, <1>2 DEF OnlySteps

\* What is taken of two sequences in turn.
Splits(places, n, here, m, there) ==
  /\ \A i \in 1..n : i \in places <=> i \in here
  /\ \A i \in 1..m : n + i \in places <=> i \in there

LEMMA OnlyJoined ==
  ASSUME NEW S, NEW s \in Seq(S), NEW t \in Seq(S), NEW places, NEW here, NEW there,
         Splits(places, Len(s), here, Len(t), there)
  PROVE  Only(Both(s, t), places) = Both(Only(s, here), Only(t, there))
<1>1. PICK u : u = Both(s, t)
  OBVIOUS
<1>2. PICK n \in Nat, m \in Nat : n = Len(s) /\ m = Len(t)
  BY LenProperties
<1>3. /\ u \in Seq(S) /\ Len(u) = n + m
      /\ \A i \in 1..(n + m) : u[i] = IF i <= n THEN s[i] ELSE t[i - n]
  BY <1>1, <1>2, BothFacts, Zenon
<1>4. PICK f : OnlySteps(f, s, here)
  BY OnlyTaken, Zenon
<1>5. PICK g : OnlySteps(g, t, there)
  BY OnlyTaken, Zenon
<1>6. PICK h : OnlySteps(h, u, places)
  BY <1>3, OnlyTaken, Zenon
<1>7. /\ \A i \in 0..n : f[i] \in Seq(S)
      /\ \A i \in 0..m : g[i] \in Seq(S)
  BY <1>2, <1>4, <1>5, OnlyStepsTyped
<1> DEFINE A == {i \in 0..n : h[i] = f[i]}
           B == {i \in 0..m : h[n + i] = Both(f[n], g[i])}
<1>8. \A i \in 0..n : i \in A
  <2>1. 0 \in A
    BY <1>4, <1>6 DEF OnlySteps
  <2>2. ASSUME NEW i \in 1..n, i - 1 \in A PROVE i \in A
    <3>1. h[i] = Taken(h, u, places, i) /\ f[i] = Taken(f, s, here, i)
      BY <1>2, <1>3, <1>4, <1>6 DEF OnlySteps
    <3>2. u[i] = s[i] /\ h[i - 1] = f[i - 1] /\ (i \in places <=> i \in here)
      BY <1>2, <1>3, <2>2 DEF Splits
    <3>3. h[i] = f[i]
      BY <3>1, <3>2 DEF Taken
    <3> QED BY <3>3
  <2> HIDE DEF A
  <2> QED BY <1>2, <2>1, <2>2, Climb, Zenon
<1>9. \A i \in 0..m : i \in B
  <2>1. 0 \in B
    <3>1. h[n] = f[n] /\ f[n] \in Seq(S)
      BY <1>7, <1>8
    <3>2. f[n] = Both(f[n], g[0])
      BY <1>5, <3>1, BothNone DEF OnlySteps
    <3>3. n + 0 = n /\ 0 \in 0..m
      BY <1>2
    <3>4. h[n + 0] = Both(f[n], g[0])
      BY <3>1, <3>2, <3>3
    <3> QED BY <3>3, <3>4
  <2>2. ASSUME NEW i \in 1..m, i - 1 \in B PROVE i \in B
    <3>1. i \in 0..m /\ i \in 1..m /\ i - 1 \in 0..m /\ n + i \in 1..(n + m) /\ ~(n + i <= n) /\ (n + i) - n = i /\ (n + i) - 1 = n + (i - 1)
      BY <1>2
    <3>2. h[n + i] = Taken(h, u, places, n + i) /\ g[i] = Taken(g, t, there, i)
      BY <1>2, <1>3, <1>5, <1>6, <3>1 DEF OnlySteps
    <3>3. u[n + i] = t[i] /\ (n + i \in places <=> i \in there)
      BY <1>2, <1>3, <3>1 DEF Splits
    <3>4. h[n + (i - 1)] = Both(f[n], g[i - 1])
      BY <2>2
    <3>5. h[n + i] = IF i \in there THEN More(Both(f[n], g[i - 1]), t[i]) ELSE Both(f[n], g[i - 1])
      BY <3>1, <3>2, <3>3, <3>4 DEF Taken
    <3>6. f[n] \in Seq(S) /\ g[i - 1] \in Seq(S) /\ t[i] \in S
      BY <1>2, <1>7, <3>1, LenProperties
    <3>7. More(Both(f[n], g[i - 1]), t[i]) = Both(f[n], More(g[i - 1], t[i]))
      BY <3>6, BothMore
    <3>8. h[n + i] = Both(f[n], g[i])
      BY <3>2, <3>5, <3>7, Zenon DEF Taken
    <3> QED BY <3>1, <3>8
  <2> HIDE DEF B
  <2> QED BY <1>2, <2>1, <2>2, Climb, Zenon
<1>10. h[n + m] = Both(f[n], g[m])
  <2>1. m \in 0..m
    BY <1>2
  <2> QED BY <1>9, <2>1
<1> QED BY <1>1, <1>2, <1>3, <1>4, <1>5, <1>6, <1>10 DEF OnlySteps

\* All of a sequence, and the order and the range of the places taken.
LEMMA OnlyAll ==
  ASSUME NEW S, NEW s \in Seq(S), NEW places, 1..Len(s) \subseteq places
  PROVE  Only(s, places) = s
<1>1. PICK n \in Nat : n = Len(s)
  BY LenProperties
<1>2. PICK f : OnlySteps(f, s, places)
  BY OnlyTaken, Zenon
<1>3. \A i \in 0..n : f[i] \in Seq(S)
  BY <1>1, <1>2, OnlyStepsTyped
<1> DEFINE T == {i \in 0..n : f[i] = SubSeq(s, 1, i)}
<1>4. 0 \in T
  <2>1. f[0] = <<>>
    BY <1>2 DEF OnlySteps
  <2>2. SubSeq(s, 1, 0) = <<>>
    BY SubSeqEmpty
  <2>3. f[0] = SubSeq(s, 1, 0)
    BY <2>1, <2>2, Zenon
  <2> QED BY <1>1, <2>3
<1>5. ASSUME NEW i \in 1..n, i - 1 \in T PROVE i \in T
  <2>1. f[i] = Append(f[i - 1], s[i])
    BY <1>1, <1>2, Zenon DEF OnlySteps, Taken, More
  <2>2. f[i - 1] = SubSeq(s, 1, i - 1)
    BY <1>5
  <2>3. SubSeq(s, 1, i) = SubSeq(s, 1, i - 1) \o <<s[i]>>
    BY <1>1, SubSeqRecursiveSecond
  <2>4. SubSeq(s, 1, i - 1) \in Seq(S) /\ s[i] \in S
    BY <1>1, <1>3, <2>2, LenProperties
  <2>5. Append(SubSeq(s, 1, i - 1), s[i]) = SubSeq(s, 1, i - 1) \o <<s[i]>>
    BY <2>4, AppendIsConcat
  <2>6. f[i] = SubSeq(s, 1, i)
    BY <2>1, <2>2, <2>3, <2>5
  <2> QED BY <2>6
<1>6. \A i \in 0..n : i \in T
  <2> HIDE DEF T
  <2> QED BY <1>1, <1>4, <1>5, Climb, Zenon
<1>7. f[n] = SubSeq(s, 1, n)
  <2>1. n \in 0..n
    BY <1>1
  <2> QED BY <1>6, <2>1
<1> QED BY <1>1, <1>2, <1>7, SubSeqFull DEF OnlySteps

LEMMA OnlySome ==
  ASSUME NEW S, NEW s \in Seq(S), NEW places, NEW i \in 1..Len(s), i \in places
  PROVE  Only(s, places) # <<>>
<1>1. PICK n \in Nat : n = Len(s)
  BY LenProperties
<1>2. PICK f : OnlySteps(f, s, places)
  BY OnlyTaken
<1>3. \A k \in 0..n : f[k] \in Seq(S)
  BY <1>1, <1>2, OnlyStepsTyped
<1> DEFINE T == {k \in 0..n : k >= i => Len(f[k]) > 0}
<1>4. 0 \in T
  BY <1>1
<1>5. ASSUME NEW k \in 1..n, k - 1 \in T PROVE k \in T
  <2>1. f[k] = Taken(f, s, places, k)
    BY <1>1, <1>2 DEF OnlySteps
  <2>2. f[k - 1] \in Seq(S) /\ Len(f[k - 1]) \in Nat /\ s[k] \in S
    <3>1. f[k - 1] \in Seq(S)
      BY <1>3
    <3> QED BY <1>1, <3>1, LenProperties
  <2>3. Len(More(f[k - 1], s[k])) = Len(f[k - 1]) + 1
    BY <2>2, MoreFacts, ZenonT(30)
  <2>4. CASE k \in places
    <3>1. Len(f[k]) > 0
      BY <2>1, <2>2, <2>3, <2>4 DEF Taken
    <3> QED BY <3>1
  <2>5. CASE k \notin places
    <3>1. f[k] = f[k - 1] /\ (k >= i => k - 1 >= i)
      BY <1>1, <2>1, <2>5 DEF Taken
    <3> QED BY <1>5, <3>1
  <2> QED BY <2>4, <2>5
<1>6. \A k \in 0..n : k \in T
  <2> HIDE DEF T
  <2> QED BY <1>1, <1>4, <1>5, Climb, Zenon
<1>7. Len(f[n]) > 0
  <2>1. n \in 0..n /\ n >= i
    BY <1>1
  <2> QED BY <1>6, <2>1
<1>8. Len(<<>>) = 0
  BY EmptySeq
<1>9. Only(s, places) = f[n]
  BY <1>1, <1>2 DEF OnlySteps
<1> QED BY <1>7, <1>8, <1>9

\* The first places of a set of numbers, in order.
InOrder(s, places) ==
  /\ \A a \in 1..Len(s), b \in 1..Len(s) : a < b => s[a] < s[b]
  /\ \A a \in 1..Len(s) : s[a] \in places
  /\ \A p \in places : \E a \in 1..Len(s) : s[a] = p

LEMMA OrderAppended ==
  ASSUME NEW s \in Seq(Nat), NEW places \in SUBSET Nat, InOrder(s, places),
         NEW x \in Nat, \A p \in places : p < x
  PROVE  InOrder(More(s, x), places \cup {x})
<1>1. PICK t : t = More(s, x)
  OBVIOUS
<1>2. PICK n \in Nat : n = Len(s) /\ \A a \in 1..n : s[a] \in Nat
  BY LenProperties
<1>3. Len(t) = n + 1 /\ t[n + 1] = x /\ \A a \in 1..n : t[a] = s[a]
  <2>1. /\ Len(More(s, x)) = Len(s) + 1 /\ More(s, x)[Len(s) + 1] = x
        /\ \A a \in 1..Len(s) : More(s, x)[a] = s[a]
    BY AppendProperties DEF More
  <2> QED BY <1>1, <1>2, <2>1
<1>4. \A a \in 1..(n + 1) : a \in 1..n \/ a = n + 1
  BY <1>2
<1>5. ASSUME NEW a \in 1..(n + 1), NEW b \in 1..(n + 1), a < b PROVE t[a] < t[b]
  <2>1. a \in 1..n
    BY <1>2, <1>5
  <2>2. s[a] \in places
    BY <1>2, <2>1 DEF InOrder
  <2> QED BY <1>2, <1>3, <1>4, <1>5, <2>1, <2>2, Zenon DEF InOrder
<1>6. \A a \in 1..(n + 1) : t[a] \in places \cup {x}
  BY <1>2, <1>3, <1>4 DEF InOrder
<1>7. ASSUME NEW p \in places \cup {x} PROVE \E a \in 1..(n + 1) : t[a] = p
  <2>1. CASE p = x
    BY <1>2, <1>3, <2>1
  <2>2. CASE p \in places
    <3>1. PICK a \in 1..n : s[a] = p
      BY <1>2, <2>2 DEF InOrder
    <3> QED BY <1>2, <1>3, <3>1
  <2> QED BY <2>1, <2>2
<1> QED BY <1>1, <1>3, <1>5, <1>6, <1>7 DEF InOrder

LEMMA OnlyOrdered ==
  ASSUME NEW n \in Nat, NEW s, s = [i \in 1..n |-> i], NEW places \in SUBSET (1..n)
  PROVE  Only(s, places) \in Seq(Nat) /\ InOrder(Only(s, places), places)
<1>1. s \in Seq(Nat) /\ Len(s) = n /\ \A i \in 1..n : s[i] = i
  OBVIOUS
<1>2. PICK f : OnlySteps(f, s, places)
  BY <1>1, OnlyTaken, Zenon
<1>3. \A k \in 0..n : f[k] \in Seq(Nat)
  BY <1>1, <1>2, OnlyStepsTyped, Zenon
<1>0. \A p \in places : p \in Int /\ 1 <= p /\ p <= n
  OBVIOUS
<1> DEFINE P(k) == {p \in places : p <= k}
           T == {k \in 0..n : InOrder(f[k], P(k))}
<1>4. 0 \in T
  <2>1. f[0] = <<>>
    BY <1>2 DEF OnlySteps
  <2>4. \A p \in places : ~(p <= 0)
    BY <1>0
  <2>5. P(0) = {}
    BY <2>4, Zenon
  <2>2. Len(<<>>) = 0
    BY EmptySeq
  <2>3. InOrder(f[0], P(0))
    BY <2>1, <2>2, <2>5 DEF InOrder
  <2> QED BY <2>3
<1>5. ASSUME NEW k \in 1..n, k - 1 \in T PROVE k \in T
  <2>1. f[k] = Taken(f, s, places, k) /\ s[k] = k
    BY <1>1, <1>2 DEF OnlySteps
  <2>2. f[k - 1] \in Seq(Nat) /\ InOrder(f[k - 1], P(k - 1))
    BY <1>3, <1>5
  <2>5. P(k - 1) \in SUBSET Nat
    <3>1. \A p \in places : p \in Nat
      BY <1>0
    <3> QED BY <3>1, Zenon
  <2>3. CASE k \in places
    <3>4. ASSUME NEW p \in places PROVE (p <= k <=> (p <= k - 1 \/ p = k)) /\ (p <= k - 1 => p < k)
      BY <1>0
    <3>1. P(k) = P(k - 1) \cup {k} /\ \A p \in P(k - 1) : p < k
      BY <2>3, <3>4, Zenon
    <3>2. f[k] = More(f[k - 1], k)
      BY <2>1, <2>3 DEF Taken
    <3> HIDE DEF P
    <3>3. InOrder(f[k], P(k))
      BY <2>2, <2>5, <3>1, <3>2, OrderAppended
    <3> QED BY <3>3
  <2>4. CASE k \notin places
    <3>1. \A p \in places : p <= k <=> p <= k - 1
      BY <1>0, <2>4
    <3>4. P(k) = P(k - 1)
      BY <3>1, Zenon
    <3>2. f[k] = f[k - 1]
      BY <2>1, <2>4 DEF Taken
    <3>3. InOrder(f[k], P(k))
      BY <2>2, <3>4, <3>2, Zenon
    <3> QED BY <3>3
  <2> QED BY <2>3, <2>4
<1>6. \A k \in 0..n : k \in T
  <2> HIDE DEF T
  <2> QED BY <1>4, <1>5, Climb, Zenon
<1>7. P(n) = places /\ n \in 0..n
  <2>1. \A p \in places : p <= n
    BY <1>0
  <2>2. P(n) = places
    BY <2>1, Zenon
  <2>3. n \in 0..n
    OBVIOUS
  <2> QED BY <2>2, <2>3
<1>8. InOrder(f[n], places) /\ f[n] \in Seq(Nat)
  <2>1. InOrder(f[n], P(n))
    BY <1>6, <1>7
  <2> QED BY <1>3, <1>7, <2>1, Zenon
<1> QED BY <1>1, <1>2, <1>8 DEF OnlySteps

-----------------------------------------------------------------------------
(* The sides of a diff.                                                     *)

LEMMA TextsTyped ==
  ASSUME NEW S, \A e \in S : e.text \in FileLines, NEW s \in Seq(S)
  PROVE  /\ Texts(s) \in Seq(FileLines) /\ Len(Texts(s)) = Len(s)
         /\ \A i \in 1..Len(s) : Texts(s)[i] = s[i].text
<1>1. PICK n \in Nat : n = Len(s) /\ DOMAIN s = 1..n /\ \A i \in 1..n : s[i] \in S
  BY LenProperties
<1>2. Texts(s) = [i \in 1..n |-> s[i].text]
  BY <1>1 DEF Texts
<1>3. \A i \in 1..n : s[i].text \in FileLines
  BY <1>1
<1>4. Texts(s) \in [1..n -> FileLines]
  BY <1>2, <1>3
<1>5. Texts(s) \in Seq(FileLines)
  BY <1>1, <1>4, Listed
<1>6. Len(Texts(s)) = n
  BY <1>4, <1>5, LenProperties
<1>7. \A i \in 1..n : Texts(s)[i] = s[i].text
  BY <1>2
<1> QED BY <1>1, <1>5, <1>6, <1>7

LEMMA TextsBoth ==
  ASSUME NEW S, \A e \in S : e.text \in FileLines, NEW s \in Seq(S), NEW t \in Seq(S)
  PROVE  Texts(Both(s, t)) = Both(Texts(s), Texts(t))
<1>1. PICK n \in Nat, m \in Nat : n = Len(s) /\ m = Len(t)
  BY LenProperties
<1>2. PICK u : u = Both(s, t)
  OBVIOUS
<1>3. /\ u \in Seq(S) /\ Len(u) = n + m
      /\ \A i \in 1..(n + m) : u[i] = IF i <= n THEN s[i] ELSE t[i - n]
  BY <1>1, <1>2, BothFacts, Zenon
<1>4. PICK a : a = Texts(s)
  OBVIOUS
<1>5. PICK b : b = Texts(t)
  OBVIOUS
<1>6. PICK c : c = Texts(u)
  OBVIOUS
<1>7. /\ a \in Seq(FileLines) /\ Len(a) = n /\ \A i \in 1..n : a[i] = s[i].text
  BY <1>1, <1>4, TextsTyped, Zenon
<1>8. /\ b \in Seq(FileLines) /\ Len(b) = m /\ \A i \in 1..m : b[i] = t[i].text
  BY <1>1, <1>5, TextsTyped
<1>9. /\ c \in Seq(FileLines) /\ Len(c) = n + m /\ \A i \in 1..(n + m) : c[i] = u[i].text
  BY <1>3, <1>6, TextsTyped, Zenon
<1>10. PICK d : d = Both(a, b)
  OBVIOUS
<1>11. /\ d \in Seq(FileLines) /\ Len(d) = n + m
       /\ \A i \in 1..(n + m) : d[i] = IF i <= n THEN a[i] ELSE b[i - n]
  BY <1>7, <1>8, <1>10, BothFacts, ZenonT(30)
<1>12. ASSUME NEW i \in 1..(n + m) PROVE c[i] = d[i]
  <2>1. CASE i <= n
    <3>1. i \in 1..n
      BY <1>1, <2>1
    <3> QED BY <1>3, <1>7, <1>9, <1>11, <2>1, <3>1, ZenonT(30)
  <2>2. CASE ~(i <= n)
    <3>1. i - n \in 1..m
      BY <1>1, <2>2
    <3> QED BY <1>3, <1>8, <1>9, <1>11, <2>2, <3>1, Zenon
  <2> QED BY <2>1, <2>2
<1>13. c = d
  BY <1>9, <1>11, <1>12, SeqEqual
<1> QED BY <1>2, <1>4, <1>5, <1>6, <1>10, <1>13

LEMMA LinesHaveText == \A l \in DiffLines : l.text \in FileLines
BY Zenon DEF DiffLines

LEMMA WithoutTyped ==
  ASSUME NEW kind, NEW s \in Seq(DiffLines)
  PROVE  Without(kind, s) \in Seq(FileLines)
<1>1. Texts(s) \in Seq(FileLines)
  BY LinesHaveText, TextsTyped
<1> QED BY <1>1, OnlyTyped DEF Without

LEMMA WithoutBoth ==
  ASSUME NEW kind, NEW s \in Seq(DiffLines), NEW t \in Seq(DiffLines)
  PROVE  Without(kind, Both(s, t)) = Both(Without(kind, s), Without(kind, t))
<1>1. PICK n \in Nat, m \in Nat : n = Len(s) /\ m = Len(t) /\ DOMAIN s = 1..n /\ DOMAIN t = 1..m
  BY LenProperties
<1>2. PICK u : u = Both(s, t)
  OBVIOUS
<1>3. /\ u \in Seq(DiffLines) /\ Len(u) = n + m
      /\ \A i \in 1..(n + m) : u[i] = IF i <= n THEN s[i] ELSE t[i - n]
  BY <1>1, <1>2, BothFacts, Zenon
<1>4. DOMAIN u = 1..(n + m)
  BY <1>3, LenProperties
<1>5. PICK a : a = Texts(s) /\ a \in Seq(FileLines) /\ Len(a) = n
  BY <1>1, LinesHaveText, TextsTyped
<1>6. PICK b : b = Texts(t) /\ b \in Seq(FileLines) /\ Len(b) = m
  BY <1>1, LinesHaveText, TextsTyped
<1>7. Texts(u) = Both(a, b)
  BY <1>2, <1>5, <1>6, LinesHaveText, TextsBoth
<1>8. PICK P : P = {i \in 1..(n + m) : u[i].kind # kind}
  BY Zenon
<1>9. PICK Q : Q = {i \in 1..n : s[i].kind # kind}
  BY Zenon
<1>10. PICK R : R = {i \in 1..m : t[i].kind # kind}
  BY Zenon
<1>11. ASSUME NEW i \in 1..Len(a) PROVE i \in P <=> i \in Q
  <2>1. i \in 1..(n + m) /\ i \in 1..n /\ i <= n
    BY <1>1, <1>5
  <2> QED BY <1>3, <1>8, <1>9, <2>1
<1>12. ASSUME NEW i \in 1..Len(b) PROVE Len(a) + i \in P <=> i \in R
  <2>1. n + i \in 1..(n + m) /\ i \in 1..m /\ ~(n + i <= n) /\ (n + i) - n = i
    BY <1>1, <1>6
  <2> QED BY <1>3, <1>5, <1>8, <1>10, <2>1
<1>13. Only(Both(a, b), P) = Both(Only(a, Q), Only(b, R))
  <2>1. Splits(P, Len(a), Q, Len(b), R)
    BY <1>11, <1>12 DEF Splits
  <2> QED BY <1>5, <1>6, <2>1, OnlyJoined
<1>14. Without(kind, u) = Only(Both(a, b), P)
  BY <1>4, <1>7, <1>8 DEF Without
<1>15. Without(kind, s) = Only(a, Q) /\ Without(kind, t) = Only(b, R)
  BY <1>1, <1>5, <1>6, <1>9, <1>10 DEF Without
<1> QED BY <1>2, <1>13, <1>14, <1>15

LEMMA SomeSide ==
  ASSUME NEW kind, NEW s \in Seq(DiffLines), NEW i \in 1..Len(s), s[i].kind # kind
  PROVE  Without(kind, s) # <<>>
<1>1. PICK a : a = Texts(s) /\ a \in Seq(FileLines) /\ Len(a) = Len(s)
  BY LinesHaveText, TextsTyped
<1>2. PICK P : P = {k \in DOMAIN s : s[k].kind # kind}
  BY Zenon
<1>3. i \in P /\ i \in 1..Len(a)
  BY <1>1, <1>2, LenProperties
<1>4. Only(a, P) # <<>>
  BY <1>1, <1>3, OnlySome
<1> QED BY <1>1, <1>2, <1>4 DEF Without

LEMMA SameSides ==
  ASSUME NEW s \in Seq(DiffLines), \A i \in 1..Len(s) : ~Changed(s[i])
  PROVE  OldSide(s) = NewSide(s)
<1>1. \A i \in DOMAIN s : s[i].kind # "+" <=> s[i].kind # "-"
  BY LenProperties, Zenon DEF Changed
<1>2. {i \in DOMAIN s : s[i].kind # "+"} = {i \in DOMAIN s : s[i].kind # "-"}
  BY <1>1
<1> QED BY <1>2, Zenon DEF OldSide, NewSide, Without

LEMMA FlipFacts ==
  ASSUME NEW s \in Seq(DiffLines)
  PROVE  /\ Flip(s) \in Seq(DiffLines) /\ Len(Flip(s)) = Len(s)
         /\ \A i \in 1..Len(s) : Changed(Flip(s)[i]) <=> Changed(s[i])
         /\ OldSide(Flip(s)) = NewSide(s) /\ NewSide(Flip(s)) = OldSide(s)
<1>1. PICK n \in Nat : n = Len(s) /\ DOMAIN s = 1..n /\ \A i \in 1..n : s[i] \in DiffLines
  BY LenProperties
<1>2. PICK t : t = Flip(s)
  OBVIOUS
<1> DEFINE Turned(k) == CASE k = "+" -> "-" [] k = "-" -> "+" [] OTHER -> " "
<1>3. t = [i \in 1..n |-> [kind |-> Turned(s[i].kind), text |-> s[i].text]]
  BY <1>1, <1>2, Zenon DEF Flip, Line
<1>4. ASSUME NEW l \in DiffLines
      PROVE  /\ [kind |-> Turned(l.kind), text |-> l.text] \in DiffLines
             /\ Turned(l.kind) # " " <=> l.kind # " "
             /\ Turned(l.kind) # "+" <=> l.kind # "-"
             /\ Turned(l.kind) # "-" <=> l.kind # "+"
  BY Zenon DEF DiffLines
<1> HIDE DEF Turned
<1>5. \A i \in 1..n : t[i] \in DiffLines /\ t[i].text = s[i].text /\ t[i].kind = Turned(s[i].kind)
  BY <1>1, <1>3, <1>4, Zenon
<1>6. t \in [1..n -> DiffLines]
  BY <1>3, <1>5
<1>7. t \in Seq(DiffLines)
  BY <1>2, <1>6, Listed
<1>8. Len(t) = n /\ DOMAIN t = 1..n
  BY <1>6, <1>7, LenProperties
<1>13. \A i \in 1..n : /\ t[i].kind # " " <=> s[i].kind # " "
                       /\ t[i].kind # "+" <=> s[i].kind # "-"
                       /\ t[i].kind # "-" <=> s[i].kind # "+"
  <2>1. ASSUME NEW i \in 1..n
        PROVE  /\ Turned(s[i].kind) # " " <=> s[i].kind # " "
               /\ Turned(s[i].kind) # "+" <=> s[i].kind # "-"
               /\ Turned(s[i].kind) # "-" <=> s[i].kind # "+"
    BY <1>1, <1>4, Zenon
  <2> QED BY <1>5, <2>1, Zenon
<1>9. \A i \in 1..n : Changed(t[i]) <=> Changed(s[i])
  BY <1>13, Zenon DEF Changed
<1>10. Texts(t) = Texts(s)
  <2>1. Texts(t) = [i \in 1..n |-> t[i].text] /\ Texts(s) = [i \in 1..n |-> s[i].text]
    BY <1>1, <1>8 DEF Texts
  <2> QED BY <1>5, <2>1
<1>11. /\ {i \in DOMAIN t : t[i].kind # "+"} = {i \in DOMAIN s : s[i].kind # "-"}
       /\ {i \in DOMAIN t : t[i].kind # "-"} = {i \in DOMAIN s : s[i].kind # "+"}
  BY <1>1, <1>8, <1>13, Zenon
<1>12. OldSide(t) = NewSide(s) /\ NewSide(t) = OldSide(s)
  BY <1>10, <1>11, Zenon DEF OldSide, NewSide, Without
<1> QED BY <1>1, <1>2, <1>7, <1>8, <1>9, <1>12

-----------------------------------------------------------------------------
(* Parts of a sequence.                                                     *)

LEMMA PartFacts ==
  ASSUME NEW S, NEW s \in Seq(S), NEW m \in 1..(Len(s) + 1), NEW n \in (m - 1)..Len(s)
  PROVE  /\ SubSeq(s, m, n) \in Seq(S) /\ Len(SubSeq(s, m, n)) = n - m + 1
         /\ \A i \in 1..(n - m + 1) : SubSeq(s, m, n)[i] = s[m + i - 1]
<1>1. \A i \in m..n : s[i] \in S
  BY LenProperties
<1> QED BY <1>1, LenProperties, SubSeqProperties

LEMMA PartsJoin ==
  ASSUME NEW S, NEW s \in Seq(S), NEW m \in 1..(Len(s) + 1), NEW k \in (m - 1)..Len(s),
         NEW n \in k..Len(s)
  PROVE  SubSeq(s, m, n) = Both(SubSeq(s, m, k), SubSeq(s, k + 1, n))
<1>0. Len(s) \in Nat
  BY LenProperties
<1>1. PICK a : a = SubSeq(s, m, k)
  BY Zenon
<1>2. PICK b : b = SubSeq(s, k + 1, n)
  BY Zenon
<1>3. PICK c : c = SubSeq(s, m, n)
  BY Zenon
<1>4. a \in Seq(S) /\ Len(a) = k - m + 1 /\ \A i \in 1..(k - m + 1) : a[i] = s[m + i - 1]
  BY <1>1, PartFacts
<1>5. b \in Seq(S) /\ Len(b) = n - k /\ \A i \in 1..(n - k) : b[i] = s[k + i]
  <2>1. k + 1 \in 1..(Len(s) + 1) /\ n \in ((k + 1) - 1)..Len(s) /\ n - (k + 1) + 1 = n - k
    BY <1>0
  <2>2. /\ SubSeq(s, k + 1, n) \in Seq(S) /\ Len(SubSeq(s, k + 1, n)) = n - (k + 1) + 1
        /\ \A i \in 1..(n - (k + 1) + 1) : SubSeq(s, k + 1, n)[i] = s[(k + 1) + i - 1]
    BY <2>1, PartFacts
  <2>3. \A i \in 1..(n - k) : (k + 1) + i - 1 = k + i
    BY <1>0
  <2> QED BY <1>2, <2>1, <2>2, <2>3
<1>6. c \in Seq(S) /\ Len(c) = n - m + 1 /\ \A i \in 1..(n - m + 1) : c[i] = s[m + i - 1]
  <2>1. n \in (m - 1)..Len(s)
    BY <1>0
  <2> QED BY <1>3, <2>1, PartFacts
<1>7. PICK d : d = Both(a, b)
  OBVIOUS
<1>8. /\ d \in Seq(S) /\ Len(d) = n - m + 1
      /\ \A i \in 1..(n - m + 1) : d[i] = IF i <= k - m + 1 THEN a[i] ELSE b[i - (k - m + 1)]
  <2>1. Len(a) + Len(b) = n - m + 1
    BY <1>0, <1>4, <1>5
  <2>2. /\ d \in Seq(S) /\ Len(d) = Len(a) + Len(b)
        /\ \A i \in 1..(Len(a) + Len(b)) : d[i] = IF i <= Len(a) THEN a[i] ELSE b[i - Len(a)]
    BY <1>4, <1>5, <1>7, BothFacts, Zenon
  <2> QED BY <1>4, <2>1, <2>2
<1>9. ASSUME NEW i \in 1..(n - m + 1) PROVE c[i] = d[i]
  <2>1. CASE i <= k - m + 1
    <3>1. i \in 1..(k - m + 1)
      BY <1>0, <2>1
    <3> QED BY <1>4, <1>6, <1>8, <2>1, <3>1
  <2>2. CASE ~(i <= k - m + 1)
    <3>1. i - (k - m + 1) \in 1..(n - k) /\ k + (i - (k - m + 1)) = m + i - 1
      BY <1>0, <2>2
    <3>2. b[i - (k - m + 1)] = s[m + i - 1]
      BY <1>5, <3>1, Zenon
    <3> QED BY <1>6, <1>8, <2>2, <3>2
  <2> QED BY <2>1, <2>2
<1>10. c = d
  BY <1>6, <1>8, <1>9, SeqEqual
<1> QED BY <1>1, <1>2, <1>3, <1>7, <1>10

LEMMA JoinParts ==
  ASSUME NEW S, NEW a \in Seq(S), NEW b \in Seq(S)
  PROVE  /\ SubSeq(Both(a, b), 1, Len(a)) = a
         /\ SubSeq(Both(a, b), Len(a) + 1, Len(Both(a, b))) = b
<1>1. PICK n \in Nat, m \in Nat : n = Len(a) /\ m = Len(b)
  BY LenProperties
<1>2. PICK u : u = Both(a, b)
  OBVIOUS
<1>3. /\ u \in Seq(S) /\ Len(u) = n + m
      /\ \A i \in 1..(n + m) : u[i] = IF i <= n THEN a[i] ELSE b[i - n]
  BY <1>1, <1>2, BothFacts, Zenon
<1>4. PICK c : c = SubSeq(u, 1, n)
  BY Zenon
<1>5. PICK d : d = SubSeq(u, n + 1, n + m)
  BY Zenon
<1>6. c \in Seq(S) /\ Len(c) = n /\ \A i \in 1..n : c[i] = u[i]
  <2>1. 1 \in 1..(Len(u) + 1) /\ n \in (1 - 1)..Len(u) /\ n - 1 + 1 = n
    BY <1>1, <1>3
  <2>2. \A i \in 1..n : 1 + i - 1 = i
    BY <1>1
  <2>3. /\ SubSeq(u, 1, n) \in Seq(S) /\ Len(SubSeq(u, 1, n)) = n - 1 + 1
        /\ \A i \in 1..(n - 1 + 1) : SubSeq(u, 1, n)[i] = u[1 + i - 1]
    BY <1>3, <2>1, PartFacts
  <2> QED BY <1>4, <2>1, <2>2, <2>3
<1>7. d \in Seq(S) /\ Len(d) = m /\ \A i \in 1..m : d[i] = u[n + i]
  <2>1. n + 1 \in 1..(Len(u) + 1) /\ n + m \in ((n + 1) - 1)..Len(u) /\ (n + m) - (n + 1) + 1 = m
    BY <1>1, <1>3
  <2>2. \A i \in 1..m : (n + 1) + i - 1 = n + i
    BY <1>1
  <2>3. /\ SubSeq(u, n + 1, n + m) \in Seq(S)
        /\ Len(SubSeq(u, n + 1, n + m)) = (n + m) - (n + 1) + 1
        /\ \A i \in 1..((n + m) - (n + 1) + 1) : SubSeq(u, n + 1, n + m)[i] = u[(n + 1) + i - 1]
    BY <1>3, <2>1, PartFacts
  <2> QED BY <1>5, <2>1, <2>2, <2>3, Zenon
<1>8. ASSUME NEW i \in 1..n PROVE c[i] = a[i]
  <2>1. i \in 1..(n + m) /\ i <= n
    BY <1>1
  <2> QED BY <1>3, <1>6, <2>1
<1>9. ASSUME NEW i \in 1..m PROVE d[i] = b[i]
  <2>1. n + i \in 1..(n + m) /\ ~(n + i <= n) /\ (n + i) - n = i
    BY <1>1
  <2> QED BY <1>3, <1>7, <2>1
<1>10. c = a
  BY <1>1, <1>6, <1>8, SeqEqual
<1>11. d = b
  BY <1>1, <1>7, <1>9, SeqEqual
<1> QED BY <1>1, <1>2, <1>3, <1>4, <1>5, <1>10, <1>11

-----------------------------------------------------------------------------
(* The hunks of a script.                                                   *)

LEMMA RunEnds ==
  ASSUME NEW n \in Nat, NEW near \in SUBSET (1..n), NEW a \in near
  PROVE  \E b \in near : /\ RunFrom(a, near) = a..b
                         /\ a <= b /\ a..b \subseteq near /\ b + 1 \notin near
<1>1. \A x \in near : x \in Nat /\ 1 <= x /\ x <= n
  OBVIOUS
<1> DEFINE T == {b \in Nat : a <= b /\ b + 1 \notin near}
<1>2. n \in T
  BY <1>1
<1>3. PICK b \in T : \A y \in T : b <= y
  <2>1. T \in SUBSET Nat
    OBVIOUS
  <2> HIDE DEF T
  <2> QED BY <1>2, <2>1, LeastNatural
<1>4. ASSUME NEW x \in a..b PROVE x \in near
  <2>1. CASE x = a
    BY <2>1
  <2>2. CASE x # a
    <3>1. x - 1 \in Nat /\ a <= x - 1 /\ ~(b <= x - 1) /\ (x - 1) + 1 = x
      BY <1>1, <1>3, <2>2
    <3>2. x - 1 \notin T
      BY <1>3, <3>1
    <3> QED BY <3>1, <3>2
  <2> QED BY <2>1, <2>2
<1>5. b \in near /\ a <= b /\ a..b \subseteq near /\ b + 1 \notin near
  <2>1. b \in a..b
    BY <1>1, <1>3
  <2> QED BY <1>3, <1>4, <2>1
<1> DEFINE Q(c) == a <= c /\ a..c \subseteq near /\ c + 1 \notin near
<1>6. PICK c : c = CHOOSE d \in near : Q(d)
  OBVIOUS
<1>7. c \in near /\ Q(c)
  <2>1. \E d \in near : Q(d)
    BY <1>5
  <2> HIDE DEF Q
  <2> QED BY <1>6, <2>1
<1>8. RunFrom(a, near) = a..c
  BY <1>6 DEF RunFrom
<1> QED BY <1>7, <1>8

LEMMA NearFacts ==
  ASSUME NEW s \in Seq(DiffLines), NEW n, n = Len(s), NEW near, near = NearChange(s)
  PROVE  /\ n \in Nat /\ near \in SUBSET (1..n)
         /\ \A k \in 1..n : Changed(s[k]) =>
              \A i \in 1..n : i \in {k - 1, k, k + 1} => i \in near
         /\ \A i \in near : \E k \in near : Changed(s[k]) /\ i..k \subseteq near /\ k..i \subseteq near
<1>1. n \in Nat /\ DOMAIN s = 1..n
  BY LenProperties
<1>2. Context \in Nat /\ Context >= 1
  BY HunkBounds
<1>3. near = {i \in 1..n : \E k \in 1..n : Changed(s[k]) /\ i - k \in -Context..Context}
  BY <1>1 DEF NearChange
<1>4. ASSUME NEW k \in 1..n, Changed(s[k]), NEW i \in 1..n, i \in {k - 1, k, k + 1}
      PROVE  i \in near
  <2>1. i - k \in -Context..Context
    BY <1>1, <1>2, <1>4
  <2> QED BY <1>3, <1>4, <2>1
<1>5. ASSUME NEW i \in near
      PROVE  \E k \in near : Changed(s[k]) /\ i..k \subseteq near /\ k..i \subseteq near
  <2>1. i \in 1..n
    BY <1>3
  <2>2. PICK k \in 1..n : Changed(s[k]) /\ i - k \in -Context..Context
    BY <1>3
  <2>3. k \in near
    BY <1>4, <2>2
  <2>4. ASSUME NEW x \in i..k PROVE x \in near
    <3>1. x \in 1..n /\ x - k \in -Context..Context
      BY <1>1, <1>2, <2>1, <2>2
    <3> QED BY <1>3, <2>2, <3>1
  <2>5. ASSUME NEW x \in k..i PROVE x \in near
    <3>1. x \in 1..n /\ x - k \in -Context..Context
      BY <1>1, <1>2, <2>1, <2>2
    <3> QED BY <1>3, <2>2, <3>1
  <2> QED BY <2>2, <2>3, <2>4, <2>5
<1> QED BY <1>1, <1>3, <1>4, <1>5, Zenon

\* The hunks lie apart and in order, every change is in one, and a hunk begins or ends
\* with a change only where the script does.
Apart(s, m, lo, hi) ==
  /\ m \in Nat
  /\ \A h \in 1..m : lo[h] \in 1..Len(s) /\ hi[h] \in lo[h]..Len(s)
  /\ \A g, h \in 1..m : g < h => hi[g] < lo[h]
  /\ \A i \in 1..Len(s) : Changed(s[i]) => \E h \in 1..m : i \in lo[h]..hi[h]
  /\ \A h \in 1..m : /\ Changed(s[lo[h]]) => lo[h] = 1
                     /\ lo[h] > 1 => ~Changed(s[lo[h] - 1])
                     /\ Changed(s[hi[h]]) => hi[h] = Len(s)
                     /\ \E i \in lo[h]..hi[h] : Changed(s[i])

LEMMA HunksApart ==
  ASSUME NEW s \in Seq(DiffLines)
  PROVE  \E m, lo, hi : Apart(s, m, lo, hi) /\ Hunks(s) = [h \in 1..m |-> lo[h]..hi[h]]
<1>1. PICK n : n = Len(s)
  OBVIOUS
<1>2. PICK near : near = NearChange(s)
  OBVIOUS
<1>3. /\ n \in Nat /\ near \in SUBSET (1..n)
      /\ \A k \in 1..n : Changed(s[k]) => \A i \in 1..n : i \in {k - 1, k, k + 1} => i \in near
      /\ \A i \in near : \E k \in near : Changed(s[k]) /\ i..k \subseteq near /\ k..i \subseteq near
  BY <1>1, <1>2, NearFacts
<1>4. \A x \in near : x \in Nat /\ 1 <= x /\ x <= n
  BY <1>3
<1>5. PICK firsts : firsts = {i \in near : i - 1 \notin near}
  BY Zenon
<1>6. PICK lo : lo = Only([i \in 1..n |-> i], firsts)
  BY Zenon
<1>7. lo \in Seq(Nat) /\ InOrder(lo, firsts)
  <2>1. firsts \in SUBSET (1..n)
    BY <1>3, <1>5, Zenon
  <2> QED BY <1>3, <1>6, <2>1, OnlyOrdered, Zenon
<1>8. PICK m : m = Len(lo) /\ m \in Nat /\ DOMAIN lo = 1..m
  BY <1>7, LenProperties
<1>9. \A h \in 1..m : lo[h] \in near /\ lo[h] - 1 \notin near
  BY <1>5, <1>7, <1>8 DEF InOrder
<1> DEFINE End(a, b) == /\ b \in near /\ RunFrom(a, near) = a..b
                        /\ a <= b /\ a..b \subseteq near /\ b + 1 \notin near
<1>10. PICK hi : hi = [h \in 1..m |-> CHOOSE b : End(lo[h], b)]
  BY Zenon
<1>11. ASSUME NEW h \in 1..m PROVE End(lo[h], hi[h])
  <2>1. \E b : End(lo[h], b)
    BY <1>3, <1>9, RunEnds, Zenon
  <2> HIDE DEF End
  <2> QED BY <1>10, <2>1
<1>12. Hunks(s) = [h \in 1..m |-> lo[h]..hi[h]]
  <2>1. DOMAIN s = 1..n
    BY <1>1, LenProperties
  <2>2. Hunks(s) = [h \in 1..m |-> RunFrom(lo[h], near)]
    BY <1>2, <1>5, <1>6, <1>8, <2>1 DEF Hunks
  <2> QED BY <1>11, <2>2
<1>13. ASSUME NEW g \in 1..m, NEW h \in 1..m, g < h PROVE hi[g] < lo[h]
  <2>1. lo[g] < lo[h] /\ lo[h] \in Nat /\ lo[g] \in Nat /\ hi[g] \in Nat
    BY <1>4, <1>7, <1>8, <1>9, <1>11, <1>13, Zenon DEF InOrder
  <2>2. ~(lo[h] - 1 \in lo[g]..hi[g])
    BY <1>9, <1>11
  <2>3. lo[h] - 1 >= lo[g]
    BY <2>1
  <2> QED BY <2>1, <2>2, <2>3
<1>14. ASSUME NEW k \in 1..n, Changed(s[k]) PROVE \E h \in 1..m : k \in lo[h]..hi[h]
  <2> DEFINE T == {a \in 1..k : a..k \subseteq near}
  <2>1. k \in T
    <3>1. k \in near
      BY <1>3, <1>14
    <3>2. k..k \subseteq near /\ k \in 1..k
      BY <1>3, <3>1
    <3> QED BY <3>2
  <2>2. PICK a \in T : \A y \in T : a <= y
    <3>1. T \in SUBSET Nat
      OBVIOUS
    <3> HIDE DEF T
    <3> QED BY <2>1, <3>1, LeastNatural, Zenon
  <2>3. a \in near /\ a - 1 \notin near
    <3>1. a \in a..k /\ a \in Nat /\ a <= k
      BY <1>3, <2>2
    <3>2. ASSUME a - 1 \in near PROVE FALSE
      <4>1. a - 1 \in 1..k
        BY <1>4, <3>1, <3>2
      <4>2. ASSUME NEW x \in (a - 1)..k PROVE x \in near
        <5>1. x = a - 1 \/ x \in a..k
          BY <3>1
        <5> QED BY <2>2, <3>2, <5>1
      <4>3. a - 1 \in T
        BY <4>1, <4>2
      <4>4. a <= a - 1
        <5> HIDE DEF T
        <5> QED BY <2>2, <4>3
      <4> QED BY <3>1, <4>4
    <3> QED BY <2>2, <3>1, <3>2
  <2>4. PICK h \in 1..m : lo[h] = a
    BY <1>5, <1>7, <1>8, <2>3 DEF InOrder
  <2>5. hi[h] + 1 \notin near /\ a <= hi[h] /\ hi[h] \in Nat /\ a \in Nat
    BY <1>4, <1>11, <2>3, <2>4, Zenon
  <2>6. ~(hi[h] + 1 \in a..k)
    BY <2>2, <2>5
  <2>7. k <= hi[h] /\ a <= k
    BY <1>3, <2>2, <2>5, <2>6
  <2> QED BY <2>4, <2>5, <2>7
<1>15. ASSUME NEW h \in 1..m
       PROVE  /\ lo[h] \in 1..n /\ hi[h] \in lo[h]..n
              /\ Changed(s[lo[h]]) => lo[h] = 1
              /\ lo[h] > 1 => ~Changed(s[lo[h] - 1])
              /\ Changed(s[hi[h]]) => hi[h] = n
              /\ \E i \in lo[h]..hi[h] : Changed(s[i])
  <2>1. PICK a \in 1..n, b \in 1..n : a = lo[h] /\ b = hi[h]
    BY <1>4, <1>9, <1>11
  <2>2. /\ a \in near /\ b \in near /\ a <= b /\ a..b \subseteq near
        /\ b + 1 \notin near /\ a - 1 \notin near
    BY <1>9, <1>11, <2>1
  <2>3. Changed(s[a]) => a = 1
    <3>1. ASSUME Changed(s[a]), a # 1 PROVE FALSE
      <4>1. a - 1 \in 1..n /\ a - 1 \in {a - 1, a, a + 1}
        BY <1>3, <2>1, <3>1
      <4>2. a - 1 \in near
        BY <1>3, <2>1, <3>1, <4>1, Zenon
      <4> QED BY <2>2, <4>2
    <3> QED BY <3>1
  <2>4. a > 1 => ~Changed(s[a - 1])
    <3>1. ASSUME Changed(s[a - 1]), a > 1 PROVE FALSE
      <4>1. a - 1 \in 1..n /\ a - 1 \in {(a - 1) - 1, a - 1, (a - 1) + 1}
        BY <1>3, <2>1, <3>1
      <4>2. a - 1 \in near
        BY <1>3, <3>1, <4>1
      <4> QED BY <2>2, <4>2
    <3> QED BY <3>1
  <2>5. Changed(s[b]) => b = n
    <3>1. ASSUME Changed(s[b]), b # n PROVE FALSE
      <4>1. b + 1 \in 1..n
        BY <1>3, <2>1, <3>1
      <4> QED BY <1>3, <2>2, <3>1, <4>1
    <3> QED BY <3>1
  <2>6. \E i \in a..b : Changed(s[i])
    <3>1. PICK k \in near : Changed(s[k]) /\ a..k \subseteq near /\ k..a \subseteq near
      BY <1>3, <2>2, Zenon
    <3>2. k \in Nat
      BY <1>4
    <3>3. a <= k
      <4>1. a - 1 \notin k..a
        BY <2>2, <3>1
      <4> QED BY <2>1, <3>2, <4>1
    <3>4. k <= b
      <4>1. b + 1 \notin a..k
        BY <2>2, <3>1
      <4> QED BY <2>1, <2>2, <3>2, <4>1
    <3> QED BY <2>1, <3>1, <3>2, <3>3, <3>4
  <2>7. b \in a..n
    BY <1>3, <2>1, <2>2
  <2> QED BY <2>1, <2>3, <2>4, <2>5, <2>6, <2>7
<1>16. Apart(s, m, lo, hi)
  BY <1>1, <1>8, <1>13, <1>14, <1>15 DEF Apart
<1> QED BY <1>12, <1>16

-----------------------------------------------------------------------------
(* The patch of everything a script changes, and that patch reversed.       *)

Above(s, lo) == SubSeq(s, 1, lo - 1)
Own(s, lo, hi) == SubSeq(s, lo, hi)
HunkOf(s, lo, hi) ==
  [old |-> StartOf(OldSide(Above(s, lo)), OldSide(Own(s, lo, hi))),
   new |-> StartOf(NewSide(Above(s, lo)), NewSide(Own(s, lo, hi))),
   lines |-> Own(s, lo, hi)]
Complete(s, m, lo, hi) == [h \in 1..m |-> HunkOf(s, lo[h], hi[h])]
ChangesOf(s) == {i \in DOMAIN s : Changed(s[i])}

LEMMA IntervalEnds ==
  ASSUME NEW a \in Nat, NEW b \in Nat, a <= b
  PROVE  Min(a..b) = a /\ Max(a..b) = b
<1>1. PICK x : x = Min(a..b)
  OBVIOUS
<1>2. PICK y : y = Max(a..b)
  OBVIOUS
<1>3. a \in a..b /\ b \in a..b
  OBVIOUS
<1>4. x \in a..b /\ \A z \in a..b : x <= z
  BY <1>1, <1>3 DEF Min
<1>5. y \in a..b /\ \A z \in a..b : y >= z
  BY <1>2, <1>3 DEF Max
<1> QED BY <1>1, <1>2, <1>3, <1>4, <1>5

LEMMA OwnRendered ==
  ASSUME NEW s \in Seq(DiffLines), NEW a \in 1..Len(s), NEW b \in a..Len(s)
  PROVE  Rendered(s, Len(s), ChangesOf(s), a..b) = Own(s, a, b)
<1>1. PICK n \in Nat : n = Len(s) /\ DOMAIN s = 1..n
  BY LenProperties
<1>2. PICK own : own = Own(s, a, b)
  OBVIOUS
<1>3. a \in 1..(Len(s) + 1) /\ b \in (a - 1)..Len(s)
  BY <1>1
<1>4. /\ own \in Seq(DiffLines) /\ Len(own) = b - a + 1
      /\ \A i \in 1..(b - a + 1) : own[i] = s[a + i - 1]
  BY <1>2, <1>3, PartFacts DEF Own
<1>5. DOMAIN own = 1..(b - a + 1)
  BY <1>4, LenProperties
<1>6. Min(a..b) = a /\ LastOf(a..b, Len(s)) = b
  BY <1>1, IntervalEnds DEF LastOf
<1>7. PICK left : left = {i \in DOMAIN own : ~Changed(own[i]) \/ a + i - 1 \in ChangesOf(s)}
  BY Zenon
<1>8. ASSUME NEW i \in 1..Len(own) PROVE i \in left
  <2>1. i \in 1..(b - a + 1) /\ a + i - 1 \in 1..n
    BY <1>1, <1>4
  <2> QED BY <1>1, <1>4, <1>5, <1>7, <2>1 DEF ChangesOf
<1>9. Only(own, left) = own
  BY <1>4, <1>8, OnlyAll
<1>10. Rendered(s, Len(s), ChangesOf(s), a..b) = Only(own, left)
  BY <1>2, <1>6, <1>7, Zenon DEF Rendered, Own
<1> QED BY <1>2, <1>9, <1>10

LEMMA WholePatch ==
  ASSUME NEW s \in Seq(DiffLines), NEW m, NEW lo, NEW hi, Apart(s, m, lo, hi),
         Hunks(s) = [h \in 1..m |-> lo[h]..hi[h]]
  PROVE  BuildPatch(s, Len(s), ChangesOf(s)) = [h \in 1..m |-> HunkOf(s, lo[h], hi[h])]
<1>1. PICK n \in Nat : n = Len(s) /\ DOMAIN s = 1..n
  BY LenProperties
<1>2. PICK all : all = Hunks(s)
  OBVIOUS
<1>3. all = [h \in 1..m |-> lo[h]..hi[h]] /\ m \in Nat
  BY <1>2 DEF Apart
<1>4. \A h \in 1..m : all[h] \in SUBSET Nat
  <2>1. ASSUME NEW h \in 1..m PROVE all[h] \in SUBSET Nat
    <3>1. lo[h] \in 1..n /\ hi[h] \in lo[h]..n
      BY <1>1 DEF Apart
    <3> QED BY <1>1, <1>3, <3>1
  <2> QED BY <2>1
<1>5. all \in [1..m -> SUBSET Nat]
  BY <1>3, <1>4
<1>6. all \in Seq(SUBSET Nat)
  <2>1. PICK E : E = SUBSET Nat
    BY Zenon
  <2> QED BY <1>3, <1>5, <2>1, Listed
<1>7. Len(all) = m /\ DOMAIN all = 1..m
  BY <1>3, <1>5, <1>6, LenProperties
<1>8. PICK left : left = {h \in DOMAIN all : all[h] \cap ChangesOf(s) # {}}
  BY Zenon
<1>9. ASSUME NEW h \in 1..Len(all) PROVE h \in left
  <2>1. h \in 1..m
    BY <1>7
  <2>2. PICK i \in lo[h]..hi[h] : Changed(s[i])
    BY <2>1 DEF Apart
  <2>3. lo[h] \in 1..n /\ hi[h] \in lo[h]..n
    BY <1>1, <2>1 DEF Apart
  <2>4. i \in 1..n /\ i \in all[h]
    BY <1>1, <1>3, <2>1, <2>2, <2>3
  <2>5. i \in ChangesOf(s)
    BY <1>1, <2>2, <2>4 DEF ChangesOf
  <2> QED BY <1>7, <1>8, <2>1, <2>4, <2>5
<1>10. Only(all, left) = all
  BY <1>6, <1>9, OnlyAll
<1>11. ASSUME NEW h \in 1..m
       PROVE  PatchHunk(s, Len(s), ChangesOf(s), all[h]) = HunkOf(s, lo[h], hi[h])
  <2>1. PICK a \in 1..n, b \in 1..n : a = lo[h] /\ b = hi[h] /\ a <= b
    <3>1. lo[h] \in 1..n /\ hi[h] \in lo[h]..n
      BY <1>1 DEF Apart
    <3> QED BY <1>1, <3>1
  <2>2. all[h] = a..b
    BY <1>3, <2>1
  <2>3. Rendered(s, Len(s), ChangesOf(s), a..b) = Own(s, a, b)
    <3>1. a \in 1..Len(s) /\ b \in a..Len(s)
      BY <1>1, <2>1
    <3> QED BY <3>1, OwnRendered
  <2>4. Min(a..b) = a /\ Max(a..b) = b
    BY <1>1, <2>1, IntervalEnds
  <2>5. PatchHunk(s, Len(s), ChangesOf(s), a..b) = HunkOf(s, a, b)
    BY <2>3, <2>4, Zenon DEF PatchHunk, HunkOf, Above, Own
  <2> QED BY <2>1, <2>2, <2>5
<1>12. BuildPatch(s, Len(s), ChangesOf(s))
       = [h \in DOMAIN all |-> PatchHunk(s, Len(s), ChangesOf(s), all[h])]
  <2>1. BuildPatch(s, Len(s), ChangesOf(s))
        = [h \in DOMAIN Only(all, left) |-> PatchHunk(s, Len(s), ChangesOf(s), Only(all, left)[h])]
    BY <1>2, <1>8 DEF BuildPatch
  <2> QED BY <1>10, <2>1
<1> QED BY <1>7, <1>11, <1>12

LEMMA PartFlipped ==
  ASSUME NEW s \in Seq(DiffLines), NEW m \in 1..(Len(s) + 1), NEW n \in (m - 1)..Len(s)
  PROVE  Flip(SubSeq(s, m, n)) = SubSeq(Flip(s), m, n)
<1>1. PICK k \in Nat : k = Len(s) /\ DOMAIN s = 1..k
  BY LenProperties
<1>2. PICK t : t = Flip(s)
  OBVIOUS
<1>3. t \in Seq(DiffLines) /\ Len(t) = k
  BY <1>1, <1>2, FlipFacts
<1>4. PICK a : a = SubSeq(s, m, n)
  BY Zenon
<1>5. a \in Seq(DiffLines) /\ Len(a) = n - m + 1 /\ \A i \in 1..(n - m + 1) : a[i] = s[m + i - 1]
  BY <1>4, PartFacts
<1>6. PICK b : b = SubSeq(t, m, n)
  BY Zenon
<1>7. b \in Seq(DiffLines) /\ Len(b) = n - m + 1 /\ \A i \in 1..(n - m + 1) : b[i] = t[m + i - 1]
  BY <1>1, <1>3, <1>6, PartFacts
<1>8. PICK c : c = Flip(a)
  OBVIOUS
<1>9. c \in Seq(DiffLines) /\ Len(c) = n - m + 1 /\ DOMAIN a = 1..(n - m + 1)
  BY <1>5, <1>8, FlipFacts, LenProperties, Zenon
<1> DEFINE Turned(l) == Line(CASE l.kind = "+" -> "-" [] l.kind = "-" -> "+" [] OTHER -> " ", l.text)
<1>10. t = [i \in 1..k |-> Turned(s[i])] /\ c = [i \in 1..(n - m + 1) |-> Turned(a[i])]
  BY <1>1, <1>2, <1>8, <1>9, Zenon DEF Flip
<1> HIDE DEF Turned
<1>11. ASSUME NEW i \in 1..(n - m + 1) PROVE c[i] = b[i]
  <2>1. m + i - 1 \in 1..k
    BY <1>1
  <2> QED BY <1>5, <1>7, <1>10, <2>1, Zenon
<1>12. c = b
  BY <1>7, <1>9, <1>11, SeqEqual
<1> QED BY <1>2, <1>4, <1>6, <1>8, <1>12

LEMMA HunkReversed ==
  ASSUME NEW s \in Seq(DiffLines), NEW a \in 1..Len(s), NEW b \in a..Len(s), NEW u,
         u = HunkOf(s, a, b)
  PROVE  [old |-> u.new, new |-> u.old, lines |-> Flip(u.lines)] = HunkOf(Flip(s), a, b)
<1>1. PICK n \in Nat : n = Len(s)
  BY LenProperties
<1>2. PICK t : t = Flip(s)
  OBVIOUS
<1>3. /\ 1 \in 1..(Len(s) + 1) /\ a - 1 \in (1 - 1)..Len(s)
      /\ a \in 1..(Len(s) + 1) /\ b \in (a - 1)..Len(s)
  BY <1>1
<1>4. Above(t, a) = Flip(Above(s, a)) /\ Own(t, a, b) = Flip(Own(s, a, b))
  BY <1>2, <1>3, PartFlipped, Zenon DEF Above, Own
<1>5. Above(s, a) \in Seq(DiffLines) /\ Own(s, a, b) \in Seq(DiffLines)
  BY <1>3, PartFacts DEF Above, Own
<1>6. /\ OldSide(Above(t, a)) = NewSide(Above(s, a)) /\ NewSide(Above(t, a)) = OldSide(Above(s, a))
      /\ OldSide(Own(t, a, b)) = NewSide(Own(s, a, b)) /\ NewSide(Own(t, a, b)) = OldSide(Own(s, a, b))
  BY <1>4, <1>5, FlipFacts
<1> QED BY <1>2, <1>4, <1>6 DEF HunkOf

LEMMA PatchReversed ==
  ASSUME NEW s \in Seq(DiffLines), NEW m, NEW lo, NEW hi, Apart(s, m, lo, hi)
  PROVE  /\ Reversed(Complete(s, m, lo, hi)) = Complete(Flip(s), m, lo, hi)
         /\ Apart(Flip(s), m, lo, hi)
<1>0. PICK patch : patch = Complete(s, m, lo, hi) /\ patch = [h \in 1..m |-> HunkOf(s, lo[h], hi[h])]
  BY Zenon DEF Complete
<1>1. Reversed(patch) = [h \in 1..m |-> [old |-> patch[h].new, new |-> patch[h].old,
                                         lines |-> Flip(patch[h].lines)]]
  BY <1>0 DEF Reversed
<1>2. ASSUME NEW h \in 1..m
      PROVE  [old |-> patch[h].new, new |-> patch[h].old, lines |-> Flip(patch[h].lines)]
             = HunkOf(Flip(s), lo[h], hi[h])
  <2>1. PICK u : u = patch[h]
    OBVIOUS
  <2>2. u = HunkOf(s, lo[h], hi[h]) /\ lo[h] \in 1..Len(s) /\ hi[h] \in lo[h]..Len(s)
    BY <1>0, <2>1 DEF Apart
  <2>3. [old |-> u.new, new |-> u.old, lines |-> Flip(u.lines)] = HunkOf(Flip(s), lo[h], hi[h])
    BY <2>2, HunkReversed
  <2> QED BY <2>1, <2>3
<1>3. PICK t : t = Flip(s)
  OBVIOUS
<1>4. Len(t) = Len(s) /\ Len(s) \in Nat /\ \A i \in 1..Len(s) : Changed(t[i]) <=> Changed(s[i])
  BY <1>3, FlipFacts, LenProperties
<1>5. Apart(t, m, lo, hi)
  <2>1. ASSUME NEW h \in 1..m
        PROVE  /\ Changed(t[lo[h]]) => lo[h] = 1
               /\ lo[h] > 1 => ~Changed(t[lo[h] - 1])
               /\ Changed(t[hi[h]]) => hi[h] = Len(t)
               /\ \E i \in lo[h]..hi[h] : Changed(t[i])
    <3>1. lo[h] \in 1..Len(s) /\ hi[h] \in lo[h]..Len(s)
      BY DEF Apart
    <3>2. hi[h] \in 1..Len(s) /\ lo[h]..hi[h] \subseteq 1..Len(s)
          /\ (lo[h] > 1 => lo[h] - 1 \in 1..Len(s))
      BY <1>4, <3>1
    <3>3. PICK i \in lo[h]..hi[h] : Changed(s[i])
      BY DEF Apart
    <3>4. i \in 1..Len(s)
      BY <3>2
    <3>5. Changed(t[i])
      BY <1>4, <3>3, <3>4
    <3> QED BY <1>4, <3>1, <3>2, <3>5, Zenon DEF Apart
  <2> QED BY <1>4, <2>1 DEF Apart
<1> QED BY <1>0, <1>1, <1>2, <1>3, <1>5, Zenon DEF Complete

-----------------------------------------------------------------------------
(* git apply.                                                               *)

Entries == [text : FileLines, patched : BOOLEAN]

LEMMA NearestExact ==
  ASSUME NEW places \in SUBSET Nat, NEW p \in places
  PROVE  Nearest(places, p) = p
<1>1. \A q \in places : Away(p, p) = 0 /\ Away(q, p) >= 0 /\ (Away(q, p) = 0 => q = p)
                        /\ Away(q, p) \in Nat
  <2>1. ASSUME NEW q \in Nat, NEW r \in Nat
        PROVE  Away(r, r) = 0 /\ Away(q, r) >= 0 /\ (Away(q, r) = 0 => q = r) /\ Away(q, r) \in Nat
    BY DEF Away
  <2>2. p \in Nat /\ \A q \in places : q \in Nat
    OBVIOUS
  <2> QED BY <2>1, <2>2
<1>2. PICK c : c = Nearest(places, p)
  OBVIOUS
<1>3. \E c1 \in places : \A q \in places : Away(c1, p) <= Away(q, p)
  BY <1>1
<1>4. c \in places /\ \A q \in places : Away(c, p) <= Away(q, p)
  BY <1>2, <1>3, Zenon DEF Nearest
<1>5. Away(c, p) = 0
  BY <1>1, <1>4
<1> QED BY <1>1, <1>2, <1>4, <1>5

LEMMA MarkedFacts ==
  ASSUME NEW x \in Seq(FileLines), NEW p \in BOOLEAN
  PROVE  /\ Marked(x, p) \in Seq(Entries) /\ Len(Marked(x, p)) = Len(x)
         /\ \A i \in 1..Len(x) : Marked(x, p)[i].text = x[i] /\ Marked(x, p)[i].patched = p
         /\ \A i \in 1..Len(x) : Marked(x, p)[i] = [text |-> x[i], patched |-> p]
<1>1. PICK n \in Nat : n = Len(x) /\ DOMAIN x = 1..n /\ \A i \in 1..n : x[i] \in FileLines
  BY LenProperties, ElementOfSeq
<1>2. PICK y : y = Marked(x, p)
  OBVIOUS
<1>3. y = [i \in 1..n |-> [text |-> x[i], patched |-> p]]
  BY <1>1, <1>2 DEF Marked
<1>4. \A i \in 1..n : [text |-> x[i], patched |-> p] \in Entries
  BY <1>1 DEF Entries
<1>5. y \in [1..n -> Entries]
  BY <1>3, <1>4
<1>6. y \in Seq(Entries)
  BY <1>1, <1>5, Listed
<1>7. Len(y) = n
  BY <1>1, <1>5, <1>6, LenProperties
<1> QED BY <1>1, <1>2, <1>3, <1>6, <1>7

LEMMA MarkedTexts ==
  ASSUME NEW x \in Seq(FileLines), NEW p \in BOOLEAN
  PROVE  Texts(Marked(x, p)) = x
<1>1. PICK y : y = Marked(x, p)
  OBVIOUS
<1>2. y \in Seq(Entries) /\ Len(y) = Len(x) /\ \A i \in 1..Len(x) : y[i].text = x[i]
  BY <1>1, MarkedFacts
<1>3. PICK t : t = Texts(y)
  OBVIOUS
<1>4. \A e \in Entries : e.text \in FileLines
  BY DEF Entries
<1>5. t \in Seq(FileLines) /\ Len(t) = Len(y) /\ \A i \in 1..Len(y) : t[i] = y[i].text
  BY <1>2, <1>3, <1>4, TextsTyped
<1>6. t = x
  BY <1>2, <1>5, SeqEqual
<1> QED BY <1>1, <1>3, <1>6

LEMMA MarkedBoth ==
  ASSUME NEW x \in Seq(FileLines), NEW y \in Seq(FileLines), NEW p \in BOOLEAN
  PROVE  Marked(Both(x, y), p) = Both(Marked(x, p), Marked(y, p))
<1>1. PICK n \in Nat, m \in Nat : n = Len(x) /\ m = Len(y)
  BY LenProperties
<1>2. PICK z : z = Both(x, y)
  OBVIOUS
<1>3. /\ z \in Seq(FileLines) /\ Len(z) = n + m
      /\ \A i \in 1..(n + m) : z[i] = IF i <= n THEN x[i] ELSE y[i - n]
  BY <1>1, <1>2, BothFacts, Zenon
<1>4. PICK a : a = Marked(x, p)
  OBVIOUS
<1>5. PICK b : b = Marked(y, p)
  OBVIOUS
<1>6. PICK c : c = Marked(z, p)
  OBVIOUS
<1>7. /\ a \in Seq(Entries) /\ Len(a) = n
      /\ \A i \in 1..n : a[i] = [text |-> x[i], patched |-> p]
  BY <1>1, <1>4, MarkedFacts
<1>8. /\ b \in Seq(Entries) /\ Len(b) = m
      /\ \A i \in 1..m : b[i] = [text |-> y[i], patched |-> p]
  BY <1>1, <1>5, MarkedFacts
<1>9. /\ c \in Seq(Entries) /\ Len(c) = n + m
      /\ \A i \in 1..(n + m) : c[i] = [text |-> z[i], patched |-> p]
  BY <1>3, <1>6, MarkedFacts
<1>10. PICK d : d = Both(a, b)
  OBVIOUS
<1>11. /\ d \in Seq(Entries) /\ Len(d) = n + m
       /\ \A i \in 1..(n + m) : d[i] = IF i <= n THEN a[i] ELSE b[i - n]
  BY <1>7, <1>8, <1>10, BothFacts, ZenonT(30)
<1>12. ASSUME NEW i \in 1..(n + m) PROVE c[i] = d[i]
  <2>1. CASE i <= n
    <3>1. i \in 1..n
      BY <1>1, <2>1
    <3> QED BY <1>3, <1>7, <1>9, <1>11, <2>1, <3>1
  <2>2. CASE ~(i <= n)
    <3>1. i - n \in 1..m
      BY <1>1, <2>2
    <3> QED BY <1>3, <1>8, <1>9, <1>11, <2>2, <3>1, Zenon
  <2> QED BY <2>1, <2>2
<1>13. c = d
  BY <1>9, <1>11, <1>12, SeqEqual
<1> QED BY <1>2, <1>4, <1>5, <1>6, <1>10, <1>13

LEMMA SideFacts ==
  ASSUME NEW s \in Seq(DiffLines)
  PROVE  OldSide(s) \in Seq(FileLines) /\ NewSide(s) \in Seq(FileLines)
BY WithoutTyped DEF OldSide, NewSide

LEMMA SidesBoth ==
  ASSUME NEW s \in Seq(DiffLines), NEW t \in Seq(DiffLines)
  PROVE  /\ OldSide(Both(s, t)) = Both(OldSide(s), OldSide(t))
         /\ NewSide(Both(s, t)) = Both(NewSide(s), NewSide(t))
BY WithoutBoth DEF OldSide, NewSide

Triple(whole, S, a, b, c) ==
  /\ whole \in Seq(S) /\ Len(whole) = Len(a) + Len(b) + Len(c)
  /\ \A i \in 1..Len(b) : whole[Len(a) + i] = b[i]
  /\ SubSeq(whole, 1, Len(a)) = a
  /\ SubSeq(whole, Len(a) + Len(b) + 1, Len(whole)) = c

LEMMA ThreeParts ==
  ASSUME NEW S, NEW a \in Seq(S), NEW b \in Seq(S), NEW c \in Seq(S)
  PROVE  Triple(Both(a, Both(b, c)), S, a, b, c)
<1>1. PICK l \in Nat, k \in Nat, r \in Nat : l = Len(a) /\ k = Len(b) /\ r = Len(c)
  BY LenProperties
<1>2. PICK tail : tail = Both(b, c)
  OBVIOUS
<1>3. /\ tail \in Seq(S) /\ Len(tail) = k + r
      /\ \A i \in 1..(k + r) : tail[i] = IF i <= k THEN b[i] ELSE c[i - k]
  BY <1>1, <1>2, BothFacts, Zenon
<1>4. PICK t \in Nat : t = Len(tail)
  BY <1>3, LenProperties
<1>5. t = k + r
  BY <1>3, <1>4
<1>6. PICK whole : whole = Both(a, tail)
  OBVIOUS
<1>7. /\ whole \in Seq(S) /\ Len(whole) = l + t
      /\ \A i \in 1..(l + t) : whole[i] = IF i <= l THEN a[i] ELSE tail[i - l]
  <2>1. tail \in Seq(S)
    BY <1>3
  <2> QED BY <1>1, <1>4, <1>6, <2>1, BothFacts, Zenon
<1>8. ASSUME NEW i \in 1..k PROVE whole[l + i] = b[i]
  <2>1. i \in 1..(k + r) /\ l + i \in 1..(l + t) /\ ~(l + i <= l) /\ i <= k
        /\ l + i - l = i
    BY <1>1, <1>5
  <2>2. whole[l + i] = tail[i]
    BY <1>7, <2>1
  <2>3. tail[i] = b[i]
    BY <1>3, <2>1
  <2> QED BY <2>2, <2>3
<1>9. SubSeq(whole, 1, l) = a
  <2>1. tail \in Seq(S)
    BY <1>3
  <2> QED BY <1>1, <1>6, <2>1, JoinParts, Zenon
<1>10. SubSeq(whole, l + k + 1, Len(whole)) = c
  <2>1. PICK front : front = Both(a, b)
    OBVIOUS
  <2>2. front \in Seq(S) /\ Len(front) = l + k
    BY <1>1, <2>1, BothFacts
  <2>3. whole = Both(front, c)
    BY <1>2, <1>6, <2>1, BothGrouped
  <2>4. front \in Seq(S)
    BY <2>2
  <2>5. SubSeq(Both(front, c), Len(front) + 1, Len(Both(front, c))) = c
    BY <2>4, JoinParts
  <2> QED BY <2>2, <2>3, <2>5
<1>11. Len(whole) = l + k + r
  BY <1>1, <1>5, <1>7
<1>12. whole = Both(a, Both(b, c))
  BY <1>2, <1>6
<1>13. whole \in Seq(S)
  BY <1>7
<1>14. Triple(whole, S, a, b, c)
  BY <1>1, <1>8, <1>9, <1>10, <1>11, <1>13 DEF Triple
<1> QED BY <1>12, <1>14

\* A hunk whose lines follow the texts of L goes exactly there.
Holds(result, image) == result.ok = TRUE /\ result.image = image
Aimed(hunk, above, below) ==
  /\ hunk.new = 0 => above = 0
  /\ hunk.new # 0 => hunk.new - 1 = above
  /\ hunk.old \in {0, 1} => above = 0
  /\ Changed(hunk.lines[Len(hunk.lines)]) => below = 0

LEMMA HunkPlaced ==
  ASSUME NEW L \in Seq(Entries), NEW B \in Seq(FileLines), NEW hunk,
         OldSide(hunk.lines) \in Seq(FileLines), NewSide(hunk.lines) \in Seq(FileLines),
         Aimed(hunk, Len(L), Len(B)), NEW result,
         Holds(result, Both(L, Both(Marked(OldSide(hunk.lines), FALSE), Marked(B, FALSE))))
  PROVE  ApplyHunk(result, hunk)
         = [ok |-> TRUE, image |-> Both(L, Both(Marked(NewSide(hunk.lines), TRUE), Marked(B, FALSE)))]
<1>1. PICK O \in Seq(FileLines), N \in Seq(FileLines) :
        O = OldSide(hunk.lines) /\ N = NewSide(hunk.lines)
  OBVIOUS
<1>2. PICK pre : pre = Marked(O, FALSE)
  BY Zenon
<1>3. PICK rest : rest = Marked(B, FALSE)
  BY Zenon
<1>4. PICK put : put = Marked(N, TRUE)
  BY Zenon
<1>5. /\ pre \in Seq(Entries) /\ Len(pre) = Len(O)
      /\ rest \in Seq(Entries) /\ Len(rest) = Len(B)
      /\ put \in Seq(Entries)
  BY <1>2, <1>3, <1>4, MarkedFacts, Zenon
<1>6. PICK l \in Nat, k \in Nat, r \in Nat : l = Len(L) /\ k = Len(pre) /\ r = Len(rest)
  BY <1>5, LenProperties
<1>7. PICK image : image = Both(L, Both(pre, rest))
  OBVIOUS
<1>8. /\ l \in Nat /\ k \in Nat /\ r \in Nat
      /\ image \in Seq(Entries) /\ Len(image) = l + k + r
      /\ \A i \in 1..k : image[l + i] = pre[i]
      /\ SubSeq(image, 1, l) = L /\ SubSeq(image, l + k + 1, Len(image)) = rest
  <2>1. pre \in Seq(Entries) /\ rest \in Seq(Entries) /\ L \in Seq(Entries)
    BY <1>5
  <2>2. Triple(image, Entries, L, pre, rest)
    BY <1>7, <2>1, ThreeParts
  <2> QED BY <1>6, <2>2, Zenon DEF Triple
<1>9. result.image = image /\ result.ok = TRUE
  BY <1>1, <1>2, <1>3, <1>7 DEF Holds
<1>10. PICK fits : fits = Fits(image, hunk)
  OBVIOUS
<1>11. fits = {p \in 0..(Len(image) - k) :
                 /\ \A i \in DOMAIN pre : image[p + i] = pre[i]
                 /\ hunk.old \in {0, 1} => p = 0
                 /\ Changed(hunk.lines[Len(hunk.lines)]) => p + k = Len(image)}
  BY <1>1, <1>2, <1>6, <1>10 DEF Fits
<1>12. l \in fits
  <2>1. l \in 0..(Len(image) - k)
    BY <1>8
  <2>2. \A i \in DOMAIN pre : image[l + i] = pre[i]
    BY <1>5, <1>6, <1>8, LenProperties, Zenon
  <2>3. hunk.old \in {0, 1} => l = 0
    BY <1>6 DEF Aimed
  <2>4. Changed(hunk.lines[Len(hunk.lines)]) => l + k = Len(image)
    BY <1>5, <1>6, <1>8 DEF Aimed
  <2> QED BY <1>11, <2>1, <2>2, <2>3, <2>4
<1>13. fits \in SUBSET Nat
  <2>1. ASSUME NEW p \in fits PROVE p \in Nat
    BY <1>11, <1>8
  <2> QED BY <2>1
<1>14. PICK line : line = IF hunk.new = 0 THEN 0 ELSE hunk.new - 1
  OBVIOUS
<1>15. line = l
  BY <1>6, <1>14 DEF Aimed
<1>16. Nearest(fits, line) = l
  BY <1>12, <1>13, <1>15, NearestExact
<1>17. ApplyHunk(result, hunk)
       = [ok |-> TRUE,
          image |-> SubSeq(image, 1, l) \o put \o SubSeq(image, l + Len(O) + 1, Len(image))]
  BY <1>1, <1>4, <1>9, <1>10, <1>12, <1>14, <1>16, Zenon DEF ApplyHunk
<1>18. Len(O) = k
  BY <1>5, <1>6
<1>19. ApplyHunk(result, hunk) = [ok |-> TRUE, image |-> (L \o put) \o rest]
  BY <1>8, <1>17, <1>18, Zenon
<1>20. Both(Both(L, put), rest) = Both(L, Both(put, rest))
  BY <1>5, BothGrouped
<1>21. (L \o put) \o rest = Both(Both(L, put), rest)
  BY DEF Both
<1> QED BY <1>1, <1>3, <1>4, <1>19, <1>20, <1>21, Zenon

\* The hunks that end at row from are in, and the rest of the file is as it was.
PatchedUpTo(result, s, from) ==
  \E L \in Seq(Entries) :
    /\ Texts(L) = NewSide(SubSeq(s, 1, from))
    /\ Holds(result, Both(L, Marked(OldSide(SubSeq(s, from + 1, Len(s))), FALSE)))

\* Rows a to b are a hunk of s, and no row between from and a is changed.
Framed(s, from, a, b) ==
  /\ a \in (from + 1)..Len(s) /\ b \in a..Len(s)
  /\ \A i \in (from + 1)..(a - 1) : ~Changed(s[i])
  /\ Changed(s[a]) => a = 1
  /\ a > 1 => ~Changed(s[a - 1])
  /\ Changed(s[b]) => b = Len(s)

LEMMA NothingSided ==
  ASSUME NEW s \in Seq(DiffLines), Len(s) = 0
  PROVE  Len(OldSide(s)) = 0 /\ Len(NewSide(s)) = 0 /\ s = <<>>
<1>1. s = <<>>
  BY EmptySeq
<1>2. Both(s, s) = s
  BY <1>1, BothNone, Zenon
<1>3. PICK x \in Seq(FileLines), y \in Seq(FileLines) : x = OldSide(s) /\ y = NewSide(s)
  BY SideFacts, Zenon
<1>4. Both(x, x) = x /\ Both(y, y) = y
  BY <1>2, <1>3, SidesBoth, Zenon
<1>5. Len(Both(x, x)) = Len(x) + Len(x) /\ Len(Both(y, y)) = Len(y) + Len(y)
  BY BothFacts
<1>6. Len(x) \in Nat /\ Len(y) \in Nat
  BY LenProperties
<1> QED BY <1>1, <1>3, <1>4, <1>5, <1>6

\* The header of a hunk says where the lines above it end.
LEMMA HunkAimed ==
  ASSUME NEW s \in Seq(DiffLines), NEW from \in 0..Len(s), NEW a, NEW b, Framed(s, from, a, b)
  PROVE  Aimed(HunkOf(s, a, b), Len(NewSide(Above(s, a))), Len(OldSide(SubSeq(s, b + 1, Len(s)))))
<1>1. PICK n \in Nat : n = Len(s)
  BY LenProperties
<1>2. a \in 1..n /\ b \in a..n /\ a \in Nat /\ b \in Nat
  BY <1>1 DEF Framed
<1>3. PICK above : above = Above(s, a)
  OBVIOUS
<1>4. PICK own : own = Own(s, a, b)
  OBVIOUS
<1>5. PICK below : below = SubSeq(s, b + 1, n)
  BY Zenon
<1>6. above \in Seq(DiffLines) /\ Len(above) = a - 1 /\ \A i \in 1..(a - 1) : above[i] = s[i]
  <2>1. 1 \in 1..(Len(s) + 1) /\ a - 1 \in (1 - 1)..Len(s) /\ a - 1 - 1 + 1 = a - 1
    BY <1>1, <1>2
  <2>2. \A i \in 1..(a - 1) : 1 + i - 1 = i
    BY <1>2
  <2> QED BY <1>3, <2>1, <2>2, PartFacts DEF Above
<1>7. own \in Seq(DiffLines) /\ Len(own) = b - a + 1
      /\ \A i \in 1..(b - a + 1) : own[i] = s[a + i - 1]
  <2>1. a \in 1..(Len(s) + 1) /\ b \in (a - 1)..Len(s)
    BY <1>1, <1>2
  <2> QED BY <1>4, <2>1, PartFacts DEF Own
<1>8. below \in Seq(DiffLines) /\ Len(below) = n - b
  <2>1. PICK c : c = b + 1
    OBVIOUS
  <2>2. c \in 1..(Len(s) + 1) /\ n \in (c - 1)..Len(s) /\ n - c + 1 = n - b
    BY <1>1, <1>2, <2>1
  <2>3. SubSeq(s, c, n) \in Seq(DiffLines) /\ Len(SubSeq(s, c, n)) = n - c + 1
    BY <2>2, PartFacts
  <2> QED BY <1>5, <2>1, <2>2, <2>3
<1>9. /\ NewSide(above) \in Seq(FileLines) /\ OldSide(above) \in Seq(FileLines)
      /\ NewSide(own) \in Seq(FileLines) /\ OldSide(own) \in Seq(FileLines)
  BY <1>6, <1>7, SideFacts
<1>10. PICK l \in Nat, k \in Nat : l = Len(NewSide(above)) /\ k = Len(OldSide(above))
  BY <1>9, LenProperties
<1>11. PICK hunk : hunk = HunkOf(s, a, b)
  OBVIOUS
<1>12. /\ hunk.old = k + (IF OldSide(own) = <<>> THEN 0 ELSE 1)
       /\ hunk.new = l + (IF NewSide(own) = <<>> THEN 0 ELSE 1)
       /\ hunk.lines = own
  BY <1>3, <1>4, <1>10, <1>11 DEF HunkOf, StartOf
<1>13. ASSUME a = 1 PROVE l = 0 /\ k = 0
  <2>1. Len(above) = 0
    BY <1>6, <1>13
  <2> QED BY <1>6, <1>10, <2>1, NothingSided, Zenon
<1>14. ASSUME a # 1
       PROVE  OldSide(own) # <<>> /\ NewSide(own) # <<>> /\ k > 0
  <2>1. ~Changed(s[a]) /\ ~Changed(s[a - 1])
    BY <1>2, <1>14 DEF Framed
  <2>2. 1 \in 1..Len(own) /\ own[1] = s[a]
    <3>1. 1 \in 1..(b - a + 1) /\ a + 1 - 1 = a
      BY <1>2
    <3> QED BY <1>7, <3>1
  <2>3. own[1].kind # "+" /\ own[1].kind # "-"
    BY <2>1, <2>2, Zenon DEF Changed
  <2>4. OldSide(own) # <<>> /\ NewSide(own) # <<>>
    BY <1>7, <2>2, <2>3, SomeSide DEF OldSide, NewSide
  <2>5. a - 1 \in 1..(a - 1) /\ a - 1 \in 1..Len(above)
    BY <1>2, <1>6, <1>14
  <2>6. above[a - 1].kind # "+"
    BY <1>6, <2>1, <2>5, Zenon DEF Changed
  <2>7. OldSide(above) # <<>>
    BY <1>6, <2>5, <2>6, SomeSide DEF OldSide
  <2>8. Len(OldSide(above)) # 0
    BY <1>9, <2>7, EmptySeq
  <2> QED BY <1>10, <2>4, <2>8
<1>15. ASSUME Changed(hunk.lines[Len(hunk.lines)]) PROVE Len(OldSide(below)) = 0
  <2>1. b - a + 1 \in 1..(b - a + 1) /\ a + (b - a + 1) - 1 = b
    BY <1>2
  <2>2. own[Len(own)] = s[b]
    BY <1>7, <2>1
  <2>3. b = n
    BY <1>1, <1>12, <1>15, <2>2 DEF Framed
  <2>4. Len(below) = 0
    BY <1>1, <1>8, <2>3
  <2> QED BY <1>8, <2>4, NothingSided, Zenon
<1>16. hunk.new = 0 => l = 0
  BY <1>12
<1>17. hunk.new # 0 => hunk.new - 1 = l
  BY <1>12, <1>13, <1>14
<1>18. hunk.old \in {0, 1} => l = 0
  BY <1>12, <1>13, <1>14
<1> QED BY <1>1, <1>3, <1>5, <1>10, <1>11, <1>15, <1>16, <1>17, <1>18 DEF Aimed

\* The parts of a script: what is before row from, the gap, the hunk and the rest.
Parted(s, from, a, b, done, gap, own, below) ==
  /\ done \in Seq(DiffLines) /\ gap \in Seq(DiffLines) /\ own \in Seq(DiffLines)
  /\ below \in Seq(DiffLines)
  /\ done = SubSeq(s, 1, from) /\ own = Own(s, a, b) /\ below = SubSeq(s, b + 1, Len(s))
  /\ Above(s, a) = Both(done, gap)
  /\ SubSeq(s, 1, b) = Both(Both(done, gap), own)
  /\ SubSeq(s, from + 1, Len(s)) = Both(gap, Both(own, below))
  /\ OldSide(gap) = NewSide(gap)

LEMMA ScriptParts ==
  ASSUME NEW s \in Seq(DiffLines), NEW from \in 0..Len(s), NEW a, NEW b, Framed(s, from, a, b)
  PROVE  \E done, gap, own, below : Parted(s, from, a, b, done, gap, own, below)
<1>1. PICK n \in Nat : n = Len(s)
  BY LenProperties
<1>2. from \in 0..n /\ a \in (from + 1)..n /\ b \in a..n /\ from \in Nat /\ a \in Nat /\ b \in Nat
  BY <1>1 DEF Framed
<1>3. PICK f \in Nat, c \in Nat, d \in Nat : f = from + 1 /\ c = a - 1 /\ d = b + 1 /\ c + 1 = a
  BY <1>2
<1>4. PICK done : done = SubSeq(s, 1, from)
  BY Zenon
<1>5. PICK gap : gap = SubSeq(s, f, c)
  BY Zenon
<1>6. PICK own : own = SubSeq(s, a, b)
  BY Zenon
<1>7. PICK below : below = SubSeq(s, d, n)
  BY Zenon
<1>8. done \in Seq(DiffLines)
  <2>1. 1 \in 1..(Len(s) + 1) /\ from \in (1 - 1)..Len(s)
    BY <1>1, <1>2
  <2> QED BY <1>4, <2>1, PartFacts
<1>9. gap \in Seq(DiffLines) /\ \A i \in 1..Len(gap) : ~Changed(gap[i])
  <2>1. f \in 1..(Len(s) + 1) /\ c \in (f - 1)..Len(s)
    BY <1>1, <1>2, <1>3
  <2>2. /\ gap \in Seq(DiffLines) /\ Len(gap) = c - f + 1
        /\ \A i \in 1..(c - f + 1) : gap[i] = s[f + i - 1]
    BY <1>5, <2>1, PartFacts
  <2>3. ASSUME NEW i \in 1..(c - f + 1) PROVE ~Changed(gap[i])
    <3>1. f + i - 1 \in (from + 1)..(a - 1)
      BY <1>2, <1>3
    <3> QED BY <2>2, <3>1 DEF Framed
  <2> QED BY <2>2, <2>3
<1>10. own \in Seq(DiffLines)
  <2>1. a \in 1..(Len(s) + 1) /\ b \in (a - 1)..Len(s)
    BY <1>1, <1>2
  <2> QED BY <1>6, <2>1, PartFacts
<1>11. below \in Seq(DiffLines)
  <2>1. d \in 1..(Len(s) + 1) /\ n \in (d - 1)..Len(s)
    BY <1>1, <1>2, <1>3
  <2> QED BY <1>7, <2>1, PartFacts
<1>12. SubSeq(s, 1, c) = Both(done, gap)
  <2>1. 1 \in 1..(Len(s) + 1) /\ from \in (1 - 1)..Len(s) /\ c \in from..Len(s)
    BY <1>1, <1>2, <1>3
  <2>2. SubSeq(s, 1, c) = Both(SubSeq(s, 1, from), SubSeq(s, from + 1, c))
    BY <2>1, PartsJoin
  <2> QED BY <1>3, <1>4, <1>5, <2>2
<1>13. SubSeq(s, 1, b) = Both(SubSeq(s, 1, c), own)
  <2>1. 1 \in 1..(Len(s) + 1) /\ c \in (1 - 1)..Len(s) /\ b \in c..Len(s)
    BY <1>1, <1>2, <1>3
  <2>2. SubSeq(s, 1, b) = Both(SubSeq(s, 1, c), SubSeq(s, c + 1, b))
    BY <2>1, PartsJoin
  <2> QED BY <1>3, <1>6, <2>2
<1>14. SubSeq(s, f, n) = Both(gap, SubSeq(s, a, n))
  <2>1. f \in 1..(Len(s) + 1) /\ c \in (f - 1)..Len(s) /\ n \in c..Len(s)
    BY <1>1, <1>2, <1>3
  <2>2. SubSeq(s, f, n) = Both(SubSeq(s, f, c), SubSeq(s, c + 1, n))
    BY <2>1, PartsJoin
  <2> QED BY <1>3, <1>5, <2>2, Zenon
<1>15. SubSeq(s, a, n) = Both(own, below)
  <2>1. a \in 1..(Len(s) + 1) /\ b \in (a - 1)..Len(s) /\ n \in b..Len(s)
    BY <1>1, <1>2, <1>3
  <2>2. SubSeq(s, a, n) = Both(SubSeq(s, a, b), SubSeq(s, b + 1, n))
    BY <2>1, PartsJoin
  <2> QED BY <1>3, <1>6, <1>7, <2>2
<1>16. OldSide(gap) = NewSide(gap)
  BY <1>9, SameSides
<1>17. own = Own(s, a, b) /\ Above(s, a) = SubSeq(s, 1, c)
  BY <1>3, <1>6 DEF Own, Above
<1>18. Parted(s, from, a, b, done, gap, own, below)
  BY <1>1, <1>3, <1>4, <1>7, <1>8, <1>9, <1>10, <1>11, <1>12, <1>13, <1>14, <1>15, <1>16, <1>17, Zenon
     DEF Parted
<1> QED BY <1>18

LEMMA HunkApplied ==
  ASSUME NEW s \in Seq(DiffLines), NEW from \in 0..Len(s), NEW a, NEW b, Framed(s, from, a, b),
         NEW result, PatchedUpTo(result, s, from)
  PROVE  PatchedUpTo(ApplyHunk(result, HunkOf(s, a, b)), s, b)
<1>0. PICK done, gap, own, below : Parted(s, from, a, b, done, gap, own, below)
  BY ScriptParts
<1>1. /\ done = SubSeq(s, 1, from) /\ own = Own(s, a, b) /\ below = SubSeq(s, b + 1, Len(s))
      /\ Above(s, a) = Both(done, gap)
      /\ SubSeq(s, 1, b) = Both(Both(done, gap), own)
      /\ SubSeq(s, from + 1, Len(s)) = Both(gap, Both(own, below))
      /\ OldSide(gap) = NewSide(gap)
  BY <1>0, Zenon DEF Parted
<1>2. /\ done \in Seq(DiffLines) /\ gap \in Seq(DiffLines) /\ own \in Seq(DiffLines)
      /\ below \in Seq(DiffLines)
  BY <1>0 DEF Parted
<1>3. PICK G \in Seq(FileLines), O \in Seq(FileLines), N \in Seq(FileLines), B \in Seq(FileLines),
           D \in Seq(FileLines) :
        /\ G = OldSide(gap) /\ O = OldSide(own) /\ N = NewSide(own) /\ B = OldSide(below)
        /\ D = NewSide(done)
  BY <1>2, SideFacts
<1>4. OldSide(Both(gap, Both(own, below))) = Both(G, Both(O, B))
  <2>1. Both(own, below) \in Seq(DiffLines)
    BY <1>2, BothFacts
  <2>2. OldSide(Both(own, below)) = Both(O, B)
    BY <1>2, <1>3, SidesBoth
  <2> QED BY <1>2, <1>3, <2>1, <2>2, SidesBoth
<1>5. PICK above : above = Both(done, gap)
  OBVIOUS
<1>6. above \in Seq(DiffLines)
  BY <1>2, <1>5, BothFacts
<1>7. NewSide(above) = Both(D, G) /\ NewSide(Both(above, own)) = Both(Both(D, G), N)
  <2>1. NewSide(above) = Both(D, G)
    <3>1. NewSide(Both(done, gap)) = Both(NewSide(done), NewSide(gap))
      BY <1>2, SidesBoth
    <3>2. NewSide(gap) = G /\ NewSide(done) = D
      BY <1>1, <1>3
    <3> QED BY <1>5, <3>1, <3>2
  <2>2. NewSide(Both(above, own)) = Both(NewSide(above), NewSide(own))
    BY <1>2, <1>6, SidesBoth
  <2> QED BY <1>3, <2>1, <2>2
<1>8. PICK L \in Seq(Entries) :
        /\ Texts(L) = NewSide(done)
        /\ Holds(result, Both(L, Marked(OldSide(SubSeq(s, from + 1, Len(s))), FALSE)))
  BY <1>1, Zenon DEF PatchedUpTo
<1>9. PICK mg : mg = Marked(G, FALSE)
  BY Zenon
<1>10. PICK mo : mo = Marked(O, FALSE)
  BY Zenon
<1>11. PICK mb : mb = Marked(B, FALSE)
  BY Zenon
<1>12. PICK mn : mn = Marked(N, TRUE)
  BY Zenon
<1>13. /\ mg \in Seq(Entries) /\ mo \in Seq(Entries) /\ mb \in Seq(Entries)
       /\ mn \in Seq(Entries) /\ L \in Seq(Entries)
  BY <1>3, <1>8, <1>9, <1>10, <1>11, <1>12, MarkedFacts, Zenon
<1>14. Marked(Both(G, Both(O, B)), FALSE) = Both(mg, Both(mo, mb))
  <2>1. PICK X : X = Both(O, B)
    OBVIOUS
  <2>2. X \in Seq(FileLines)
    BY <1>3, <2>1, BothFacts
  <2>3. Marked(X, FALSE) = Both(mo, mb)
    BY <1>3, <1>10, <1>11, <2>1, MarkedBoth, Zenon
  <2>4. Marked(Both(G, X), FALSE) = Both(Marked(G, FALSE), Marked(X, FALSE))
    BY <1>3, <2>2, MarkedBoth, Zenon
  <2> QED BY <1>9, <2>1, <2>3, <2>4, Zenon
<1>15. PICK K : K = Both(L, mg)
  OBVIOUS
<1>16. K \in Seq(Entries)
  BY <1>13, <1>15, BothFacts
<1>17. Texts(K) = NewSide(above)
  <2>1. \A e \in Entries : e.text \in FileLines
    BY DEF Entries
  <2>2. Texts(K) = Both(Texts(L), Texts(mg))
    BY <1>13, <1>15, <2>1, TextsBoth, Zenon
  <2>3. Texts(mg) = G
    BY <1>3, <1>9, MarkedTexts, Zenon
  <2> QED BY <1>3, <1>7, <1>8, <2>2, <2>3
<1>18. Len(K) = Len(NewSide(above))
  <2>1. \A e \in Entries : e.text \in FileLines
    BY DEF Entries
  <2>2. Len(Texts(K)) = Len(K)
    BY <1>16, <2>1, TextsTyped, Zenon
  <2> QED BY <1>17, <2>2
<1>19. Both(L, Both(mg, Both(mo, mb))) = Both(K, Both(mo, mb))
  <2>1. Both(mo, mb) \in Seq(Entries)
    BY <1>13, BothFacts
  <2> QED BY <1>13, <1>15, <2>1, BothGrouped
<1>20. Holds(result, Both(K, Both(mo, mb)))
  BY <1>1, <1>4, <1>8, <1>14, <1>19, Zenon
<1>21. PICK hunk : hunk = HunkOf(s, a, b)
  OBVIOUS
<1>22. hunk.lines = own
  BY <1>1, <1>21 DEF HunkOf
<1>23. Aimed(hunk, Len(K), Len(B))
  BY <1>1, <1>3, <1>5, <1>18, <1>21, HunkAimed
<1>24. ApplyHunk(result, hunk) = [ok |-> TRUE, image |-> Both(K, Both(mn, mb))]
  <2>1. Holds(result, Both(K, Both(Marked(OldSide(hunk.lines), FALSE), Marked(B, FALSE))))
    BY <1>3, <1>10, <1>11, <1>20, <1>22, Zenon
  <2>2. OldSide(hunk.lines) \in Seq(FileLines) /\ NewSide(hunk.lines) \in Seq(FileLines)
    BY <1>3, <1>22
  <2>3. ApplyHunk(result, hunk)
        = [ok |-> TRUE, image |-> Both(K, Both(Marked(NewSide(hunk.lines), TRUE), Marked(B, FALSE)))]
    BY <1>3, <1>16, <1>23, <2>1, <2>2, HunkPlaced, Zenon
  <2> QED BY <1>3, <1>11, <1>12, <1>22, <2>3
<1>25. PICK M : M = Both(K, mn)
  OBVIOUS
<1>26. M \in Seq(Entries)
  BY <1>13, <1>16, <1>25, BothFacts
<1>27. Texts(M) = NewSide(SubSeq(s, 1, b))
  <2>1. \A e \in Entries : e.text \in FileLines
    BY DEF Entries
  <2>2. Texts(M) = Both(Texts(K), Texts(mn))
    BY <1>13, <1>16, <1>25, <2>1, TextsBoth, Zenon
  <2>3. Texts(mn) = N
    BY <1>3, <1>12, MarkedTexts, Zenon
  <2> QED BY <1>1, <1>5, <1>7, <1>17, <2>2, <2>3, Zenon
<1>28. Both(M, mb) = Both(K, Both(mn, mb))
  BY <1>13, <1>16, <1>25, BothGrouped
<1>29. Holds(ApplyHunk(result, hunk), Both(M, Marked(OldSide(SubSeq(s, b + 1, Len(s))), FALSE)))
  <2>1. Marked(OldSide(SubSeq(s, b + 1, Len(s))), FALSE) = mb
    BY <1>1, <1>3, <1>11
  <2>2. PICK out : out = ApplyHunk(result, hunk)
    OBVIOUS
  <2>3. out = [ok |-> TRUE, image |-> Both(K, Both(mn, mb))]
    BY <1>24, <2>2
  <2>4. out.ok = TRUE /\ out.image = Both(M, mb)
    BY <1>28, <2>3
  <2> QED BY <2>1, <2>2, <2>4, Zenon DEF Holds
<1>30. PatchedUpTo(ApplyHunk(result, hunk), s, b)
  BY <1>26, <1>27, <1>29, Zenon DEF PatchedUpTo
<1> QED BY <1>21, <1>30

Unpatched(file, patch) == [ok |-> patch # <<>>, image |-> Marked(file, FALSE)]
PatchSteps(f, file, patch) ==
  /\ f[0] = Unpatched(file, patch)
  /\ \A h \in 1..Len(patch) : f[h] = ApplyHunk(f[h - 1], patch[h])
  /\ GitApply(file, patch) = [ok |-> f[Len(patch)].ok, file |-> Texts(f[Len(patch)].image)]

LEMMA PatchTaken ==
  ASSUME NEW S, NEW patch \in Seq(S), NEW file
  PROVE  \E f : PatchSteps(f, file, patch)
<1>1. PICK n \in Nat : n = Len(patch)
  BY LenProperties
<1>2. PICK z : z = Unpatched(file, patch)
  OBVIOUS
<1> DEFINE Takes(f, m) == /\ f = [h \in 0..m |-> f[h]] /\ f[0] = z
                          /\ \A h \in 1..m : f[h] = ApplyHunk(f[h - 1], patch[h])
           T == {m \in 0..n : \E f : Takes(f, m)}
<1>3. 0 \in T
  <2>1. PICK f : f = [h \in 0..0 |-> z]
    BY Zenon
  <2>2. Takes(f, 0)
    BY <2>1
  <2> QED BY <2>2
<1>4. ASSUME NEW m \in 1..n, m - 1 \in T PROVE m \in T
  <2>1. PICK f : Takes(f, m - 1)
    BY <1>4
  <2>2. PICK x : x = ApplyHunk(f[m - 1], patch[m])
    OBVIOUS
  <2>3. PICK g : g = [h \in 0..m |-> IF h = m THEN x ELSE f[h]]
    BY Zenon
  <2>4. (\A h \in 0..(m - 1) : g[h] = f[h]) /\ g[m] = x
    BY <2>3, SMTT(60)
  <2>5. \A h \in 1..m : /\ h - 1 \in 0..(m - 1)
                        /\ h = m \/ (h \in 1..(m - 1) /\ h \in 0..(m - 1))
    OBVIOUS
  <2>6. \A h \in 1..m : g[h] = ApplyHunk(g[h - 1], patch[h])
    BY <2>1, <2>2, <2>4, <2>5, Zenon
  <2>7. g = [h \in 0..m |-> g[h]] /\ g[0] = z
    BY <2>1, <2>3, <2>4
  <2>8. Takes(g, m)
    BY <2>6, <2>7, Zenon
  <2> HIDE DEF Takes
  <2> QED BY <2>8
<1>5. PICK f : Takes(f, n)
  <2>1. n \in 0..n
    BY <1>1
  <2>2. n \in T
    <3> HIDE DEF T
    <3> QED BY <1>1, <1>3, <1>4, <2>1, Climb, Zenon
  <2> QED BY <2>2
<1> DEFINE Is(g) == g = [h \in 0..n |-> IF h = 0 THEN [ok |-> patch # <<>>, image |-> Marked(file, FALSE)]
                                        ELSE ApplyHunk(g[h - 1], patch[h])]
<1>6. Is(f)
  <2>1. \A h \in 0..n : f[h] = IF h = 0 THEN [ok |-> patch # <<>>, image |-> Marked(file, FALSE)]
                               ELSE ApplyHunk(f[h - 1], patch[h])
    <3>1. [ok |-> patch # <<>>, image |-> Marked(file, FALSE)] = z
      BY <1>2 DEF Unpatched
    <3>2. \A h \in 0..n : f[h] = IF h = 0 THEN z ELSE ApplyHunk(f[h - 1], patch[h])
      BY <1>5, SMTT(60)
    <3> QED BY <3>1, <3>2, Zenon
  <2> QED BY <1>5, <2>1
<1>7. PICK g : g = CHOOSE k : Is(k)
  BY Zenon
<1>8. Is(g)
  BY <1>6, <1>7, Zenon
<1>9. GitApply(file, patch) = [ok |-> g[n].ok, file |-> Texts(g[n].image)]
  BY <1>1, <1>7 DEF GitApply
<1>10. g[0] = z /\ \A h \in 1..n : g[h] = ApplyHunk(g[h - 1], patch[h])
  <2>1. \A h \in 0..n : g[h] = IF h = 0 THEN [ok |-> patch # <<>>, image |-> Marked(file, FALSE)]
                               ELSE ApplyHunk(g[h - 1], patch[h])
    BY <1>8, Zenon
  <2>2. [ok |-> patch # <<>>, image |-> Marked(file, FALSE)] = z
    BY <1>2 DEF Unpatched
  <2>3. \A h \in 0..n : g[h] = IF h = 0 THEN z ELSE ApplyHunk(g[h - 1], patch[h])
    BY <2>1, <2>2, Zenon
  <2>4. 0 \in 0..n /\ \A h \in 1..n : h \in 0..n /\ h # 0
    BY <1>1
  <2> HIDE DEF Is
  <2> QED BY <2>3, <2>4
<1>11. PatchSteps(g, file, patch)
  <2> HIDE DEF Is
  <2> QED BY <1>1, <1>2, <1>9, <1>10 DEF PatchSteps
<1> QED BY <1>11

LEMMA WholeApplied ==
  ASSUME NEW s \in Seq(DiffLines), NEW m, NEW lo, NEW hi, Apart(s, m, lo, hi), m # 0
  PROVE  GitApply(OldSide(s), Complete(s, m, lo, hi)) = [ok |-> TRUE, file |-> NewSide(s)]
<1>0. PICK patch : patch = Complete(s, m, lo, hi) /\ patch = [h \in 1..m |-> HunkOf(s, lo[h], hi[h])]
  BY Zenon DEF Complete
<1>1. PICK n \in Nat : n = Len(s)
  BY LenProperties
<1>2. m \in Nat /\ m \in 1..m
  BY DEF Apart
<1>3. PICK S : S = {HunkOf(s, lo[h], hi[h]) : h \in 1..m}
  BY Zenon
<1>4. patch \in Seq(S)
  <2>1. patch \in [1..m -> S]
    BY <1>0, <1>3
  <2> QED BY <1>2, <2>1, Listed
<1>5. Len(patch) = m /\ patch # <<>>
  <2>1. DOMAIN patch = 1..m
    BY <1>0
  <2>2. Len(patch) = m
    BY <1>2, <1>4, <2>1, LenProperties
  <2> QED BY <1>4, <2>2, EmptySeq
<1>6. PICK file : file = OldSide(s)
  OBVIOUS
<1>7. PICK f : PatchSteps(f, file, patch)
  BY <1>4, PatchTaken
<1> DEFINE From(h) == IF h = 0 THEN 0 ELSE hi[h]
           T == {h \in 0..m : PatchedUpTo(f[h], s, From(h))}
<1>8. \A h \in 0..m : From(h) \in 0..n
  <2>1. ASSUME NEW h \in 1..m PROVE hi[h] \in 0..n
    <3>1. lo[h] \in 1..n /\ hi[h] \in lo[h]..n
      BY <1>1 DEF Apart
    <3> QED BY <1>1, <3>1
  <2> QED BY <1>1, <2>1
<1>9. 0 \in T
  <2>1. PICK start : start = f[0]
    OBVIOUS
  <2>2. start = Unpatched(file, patch)
    BY <1>7, <2>1 DEF PatchSteps
  <2>3. start.ok = TRUE /\ start.image = Marked(file, FALSE)
    BY <1>5, <2>2, Zenon DEF Unpatched
  <2>4. SubSeq(s, 0 + 1, Len(s)) = s /\ SubSeq(s, 1, 0) = <<>>
    <3>1. 1 \in 1..(Len(s) + 1) /\ n \in (1 - 1)..Len(s) /\ 0 \in (1 - 1)..Len(s)
          /\ n - 1 + 1 = n /\ 0 - 1 + 1 = 0
      BY <1>1
    <3>2. PICK t : t = SubSeq(s, 1, n)
      BY Zenon
    <3>3. t \in Seq(DiffLines) /\ Len(t) = n - 1 + 1 /\ \A i \in 1..(n - 1 + 1) : t[i] = s[1 + i - 1]
      BY <3>1, <3>2, PartFacts
    <3>4. \A i \in 1..n : t[i] = s[i]
      <4>1. \A i \in 1..n : 1 + i - 1 = i
        BY <1>1
      <4> QED BY <3>1, <3>3, <4>1
    <3>5. t = s
      BY <1>1, <3>1, <3>3, <3>4, SeqEqual
    <3>6. PICK u : u = SubSeq(s, 1, 0)
      BY Zenon
    <3>7. u \in Seq(DiffLines) /\ Len(u) = 0
      BY <3>1, <3>6, PartFacts
    <3>8. u = <<>>
      BY <3>7, EmptySeq
    <3> QED BY <1>1, <3>2, <3>5, <3>6, <3>8
  <2>5. PICK L : L = <<>>
    OBVIOUS
  <2>6. L \in Seq(Entries) /\ L \in Seq(DiffLines) /\ L \in Seq(FileLines)
    BY <2>5, EmptySeq, Zenon
  <2>7. NewSide(SubSeq(s, 1, 0)) = L
    <3>1. Len(L) = 0
      BY <2>5, <2>6, EmptySeq
    <3>2. Len(NewSide(L)) = 0 /\ NewSide(L) \in Seq(FileLines)
      BY <2>6, <3>1, NothingSided, SideFacts, Zenon
    <3>3. NewSide(L) = <<>>
      BY <3>2, EmptySeq
    <3> QED BY <2>4, <2>5, <3>3, Zenon
  <2>8. Texts(L) = L
    <3>1. \A e \in Entries : e.text \in FileLines
      BY DEF Entries
    <3>2. Texts(L) \in Seq(FileLines) /\ Len(Texts(L)) = Len(L)
      BY <2>6, <3>1, TextsTyped
    <3>3. Len(L) = 0
      BY <2>5, <2>6, EmptySeq
    <3> QED BY <2>5, <3>2, <3>3, EmptySeq
  <2>9. Both(L, Marked(file, FALSE)) = Marked(file, FALSE)
    <3>1. file \in Seq(FileLines)
      BY <1>6, SideFacts
    <3>2. Marked(file, FALSE) \in Seq(Entries)
      BY <3>1, MarkedFacts, Zenon
    <3> QED BY <2>5, <3>2, BothNone, Zenon
  <2>10. Holds(start, Both(L, Marked(OldSide(SubSeq(s, 0 + 1, Len(s))), FALSE)))
    BY <1>6, <2>3, <2>4, <2>9, Zenon DEF Holds
  <2>11. PatchedUpTo(start, s, 0)
    BY <2>6, <2>7, <2>8, <2>10, Zenon DEF PatchedUpTo
  <2>12. From(0) = 0 /\ 0 \in 0..m
    BY <1>2
  <2> HIDE DEF From
  <2> QED BY <2>1, <2>11, <2>12
<1>10. ASSUME NEW h \in 1..m, h - 1 \in T PROVE h \in T
  <2>1. PICK from \in 0..n : from = From(h - 1)
    <3>1. h - 1 \in 0..m
      BY <1>2
    <3> HIDE DEF From
    <3> QED BY <1>8, <3>1
  <2>2. PatchedUpTo(f[h - 1], s, from)
    <3> HIDE DEF From
    <3> QED BY <1>10, <2>1
  <2>3. Framed(s, from, lo[h], hi[h])
    <3>1. lo[h] \in 1..n /\ hi[h] \in lo[h]..n /\ lo[h] \in Nat /\ hi[h] \in Nat
      BY <1>1 DEF Apart
    <3>2. from < lo[h]
      <4>1. CASE h = 1
        BY <2>1, <3>1, <4>1
      <4>2. CASE h # 1
        <5>1. h - 1 \in 1..m /\ h - 1 < h
          BY <1>2, <4>2
        <5>2. from = hi[h - 1]
          BY <2>1, <5>1
        <5> QED BY <5>1, <5>2 DEF Apart
      <4> QED BY <4>1, <4>2
    <3>3. ASSUME NEW i \in (from + 1)..(lo[h] - 1), Changed(s[i]) PROVE FALSE
      <4>1. i \in 1..n
        BY <1>1, <3>1
      <4>2. PICK g \in 1..m : i \in lo[g]..hi[g]
        BY <1>1, <3>3, <4>1 DEF Apart
      <4>3. lo[g] \in 1..n /\ hi[g] \in lo[g]..n /\ lo[g] \in Nat /\ hi[g] \in Nat
        BY <1>1, <4>2 DEF Apart
      <4>4. g \in 1..m /\ g \in Nat /\ h \in Nat
        BY <1>2, <4>2
      <4>5. CASE g < h
        <5>1. h - 1 \in 1..m /\ g <= h - 1 /\ from = hi[h - 1]
          BY <1>2, <2>1, <4>4, <4>5
        <5>2. hi[g] <= hi[h - 1]
          <6>1. CASE g = h - 1
            BY <4>3, <6>1
          <6>2. CASE g # h - 1
            <7>1. g < h - 1
              BY <4>4, <5>1, <6>2
            <7>2. hi[g] < lo[h - 1]
              BY <4>4, <5>1, <7>1 DEF Apart
            <7>3. lo[h - 1] \in 1..n /\ hi[h - 1] \in lo[h - 1]..n
              BY <1>1, <5>1 DEF Apart
            <7> QED BY <1>1, <4>3, <7>2, <7>3
          <6> QED BY <6>1, <6>2
        <5> QED BY <1>1, <4>2, <4>3, <5>1, <5>2, <2>1
      <4>6. CASE g = h
        BY <3>1, <4>2, <4>6, <2>1
      <4>7. CASE h < g
        <5>1. hi[h] < lo[g]
          BY <4>4, <4>7 DEF Apart
        <5> QED BY <3>1, <4>2, <4>3, <5>1, <2>1
      <4> QED BY <4>4, <4>5, <4>6, <4>7
    <3>4. lo[h] \in (from + 1)..Len(s) /\ hi[h] \in lo[h]..Len(s)
      BY <1>1, <2>1, <3>1, <3>2
    <3>5. /\ Changed(s[lo[h]]) => lo[h] = 1
          /\ lo[h] > 1 => ~Changed(s[lo[h] - 1])
          /\ Changed(s[hi[h]]) => hi[h] = Len(s)
      BY DEF Apart
    <3> QED BY <3>3, <3>4, <3>5 DEF Framed
  <2>4. f[h] = ApplyHunk(f[h - 1], HunkOf(s, lo[h], hi[h]))
    <3>1. f[h] = ApplyHunk(f[h - 1], patch[h])
      BY <1>5, <1>7 DEF PatchSteps
    <3> QED BY <1>0, <3>1
  <2>5. PatchedUpTo(f[h], s, hi[h])
    <3>1. from \in 0..Len(s)
      BY <1>1, <2>1
    <3> QED BY <2>2, <2>3, <2>4, <3>1, HunkApplied
  <2>6. From(h) = hi[h] /\ h \in 0..m
    BY <1>2
  <2> HIDE DEF From
  <2> QED BY <2>5, <2>6
<1>11. m \in T
  <2>1. m \in 0..m
    BY <1>2
  <2> HIDE DEF T
  <2> QED BY <1>2, <1>9, <1>10, <2>1, Climb, Zenon
<1>12. PatchedUpTo(f[m], s, hi[m])
  BY <1>2, <1>11
<1>13. PICK L \in Seq(Entries) :
         /\ Texts(L) = NewSide(SubSeq(s, 1, hi[m]))
         /\ Holds(f[m], Both(L, Marked(OldSide(SubSeq(s, hi[m] + 1, Len(s))), FALSE)))
  BY <1>12, Zenon DEF PatchedUpTo
<1>14. PICK end \in 1..n : end = hi[m]
  <2>1. lo[m] \in 1..n /\ hi[m] \in lo[m]..n
    BY <1>1, <1>2 DEF Apart
  <2> QED BY <1>1, <2>1
<1>15. \A i \in 1..n : i > end => ~Changed(s[i])
  <2>1. ASSUME NEW i \in 1..n, i > end, Changed(s[i]) PROVE FALSE
    <3>1. PICK g \in 1..m : i \in lo[g]..hi[g]
      BY <1>1, <2>1 DEF Apart
    <3>2. lo[g] \in 1..n /\ hi[g] \in lo[g]..n /\ g \in 1..m /\ lo[m] \in 1..n /\ hi[m] \in lo[m]..n
      BY <1>1, <1>2, <3>1 DEF Apart
    <3>3. CASE g = m
      BY <1>14, <2>1, <3>1, <3>2, <3>3
    <3>4. CASE g # m
      <4>1. g < m
        BY <1>2, <3>2, <3>4
      <4>2. hi[g] < lo[m]
        BY <1>2, <3>2, <4>1 DEF Apart
      <4> QED BY <1>14, <2>1, <3>1, <3>2, <4>2
    <3> QED BY <3>3, <3>4
  <2> QED BY <2>1
<1>16. PICK first : first = SubSeq(s, 1, end)
  BY Zenon
<1>17. PICK after : after = SubSeq(s, end + 1, n)
  BY Zenon
<1>18. first \in Seq(DiffLines) /\ after \in Seq(DiffLines) /\ s = Both(first, after)
       /\ \A i \in 1..Len(after) : ~Changed(after[i])
  <2>1. 1 \in 1..(Len(s) + 1) /\ end \in (1 - 1)..Len(s) /\ n \in end..Len(s) /\ n \in (1 - 1)..Len(s)
        /\ n - 1 + 1 = n
    BY <1>1, <1>14
  <2>2. SubSeq(s, 1, n) = Both(first, after)
    BY <1>16, <1>17, <2>1, PartsJoin
  <2>3. PICK t : t = SubSeq(s, 1, n)
    BY Zenon
  <2>4. t \in Seq(DiffLines) /\ Len(t) = n - 1 + 1 /\ \A i \in 1..(n - 1 + 1) : t[i] = s[1 + i - 1]
    BY <2>1, <2>3, PartFacts
  <2>5. \A i \in 1..n : t[i] = s[i]
    <3>1. \A i \in 1..n : 1 + i - 1 = i
      BY <1>1
    <3> QED BY <2>1, <2>4, <3>1
  <2>6. t = s
    BY <1>1, <2>1, <2>4, <2>5, SeqEqual
  <2>7. first \in Seq(DiffLines)
    BY <1>16, <2>1, PartFacts
  <2>8. PICK c \in Nat : c = end + 1
    BY <1>14
  <2>9. c \in 1..(Len(s) + 1) /\ n \in (c - 1)..Len(s)
    BY <1>1, <1>14, <2>8
  <2>10. /\ after \in Seq(DiffLines) /\ Len(after) = n - c + 1
         /\ \A i \in 1..(n - c + 1) : after[i] = s[c + i - 1]
    BY <1>17, <2>8, <2>9, PartFacts
  <2>11. ASSUME NEW i \in 1..(n - c + 1) PROVE ~Changed(after[i])
    <3>1. c + i - 1 \in 1..n /\ c + i - 1 > end
      <4>1. i \in Nat /\ i >= 1 /\ i <= n - c + 1 /\ c \in Nat /\ c = end + 1 /\ end >= 1
            /\ end \in Nat /\ n \in Nat
        BY <1>1, <1>14, <2>8
      <4> QED BY <4>1
    <3> QED BY <1>15, <2>10, <3>1, Zenon
  <2> QED BY <2>2, <2>3, <2>6, <2>7, <2>10, <2>11
<1>19. OldSide(after) = NewSide(after) /\ OldSide(after) \in Seq(FileLines)
  BY <1>18, SameSides, SideFacts
<1>20. NewSide(s) = Both(NewSide(first), NewSide(after))
  BY <1>18, SidesBoth
<1>21. PICK rest : rest = Marked(OldSide(after), FALSE)
  BY Zenon
<1>22. rest \in Seq(Entries) /\ Texts(rest) = OldSide(after)
  BY <1>19, <1>21, MarkedFacts, MarkedTexts, Zenon
<1>23. Texts(Both(L, rest)) = Both(Texts(L), Texts(rest))
  <2>1. \A e \in Entries : e.text \in FileLines
    BY DEF Entries
  <2> QED BY <1>13, <1>22, <2>1, TextsBoth
<1>24. Texts(Both(L, rest)) = NewSide(s)
  BY <1>13, <1>14, <1>16, <1>19, <1>20, <1>22, <1>23
<1>25. Holds(f[m], Both(L, rest))
  BY <1>1, <1>13, <1>14, <1>17, <1>21, Zenon
<1>26. GitApply(file, patch) = [ok |-> f[m].ok, file |-> Texts(f[m].image)]
  BY <1>5, <1>7 DEF PatchSteps
<1>27. f[m].ok = TRUE /\ f[m].image = Both(L, rest)
  BY <1>25 DEF Holds
<1> QED BY <1>0, <1>6, <1>24, <1>26, <1>27, Zenon

\* The patch of a whole selection takes the old side to the new one, and back.
LEMMA WholeBothWays ==
  ASSUME NEW s \in Seq(DiffLines), ChangesOf(s) # {}
  PROVE  /\ GitApply(OldSide(s), BuildPatch(s, Len(s), ChangesOf(s)))
            = [ok |-> TRUE, file |-> NewSide(s)]
         /\ GitApply(NewSide(s), Reversed(BuildPatch(s, Len(s), ChangesOf(s))))
            = [ok |-> TRUE, file |-> OldSide(s)]
<1>1. PICK m, lo, hi : Apart(s, m, lo, hi) /\ Hunks(s) = [h \in 1..m |-> lo[h]..hi[h]]
  BY HunksApart
<1>2. PICK patch : patch = BuildPatch(s, Len(s), ChangesOf(s))
  OBVIOUS
<1>3. patch = Complete(s, m, lo, hi)
  BY <1>1, <1>2, WholePatch DEF Complete
<1>4. m # 0
  <2>1. PICK i : i \in DOMAIN s /\ Changed(s[i])
    BY DEF ChangesOf
  <2>2. i \in 1..Len(s)
    BY <2>1, LenProperties
  <2>3. \E h \in 1..m : i \in lo[h]..hi[h]
    BY <1>1, <2>1, <2>2, Zenon DEF Apart
  <2> QED BY <2>3
<1>5. GitApply(OldSide(s), patch) = [ok |-> TRUE, file |-> NewSide(s)]
  BY <1>1, <1>3, <1>4, WholeApplied
<1>6. PICK t : t = Flip(s)
  OBVIOUS
<1>7. PICK back : back = Reversed(patch)
  OBVIOUS
<1>8. back = Complete(t, m, lo, hi) /\ Apart(t, m, lo, hi)
  BY <1>1, <1>3, <1>6, <1>7, PatchReversed
<1>9. t \in Seq(DiffLines) /\ OldSide(t) = NewSide(s) /\ NewSide(t) = OldSide(s)
  BY <1>6, FlipFacts
<1>10. GitApply(OldSide(t), back) = [ok |-> TRUE, file |-> NewSide(t)]
  BY <1>4, <1>8, <1>9, WholeApplied
<1> QED BY <1>2, <1>5, <1>7, <1>9, <1>10

-----------------------------------------------------------------------------
(* What patches and scripts are made of.                                    *)

HunkTexts == [old : Nat, new : Nat, lines : Seq(DiffLines)]

LEMMA PatchHunkTyped ==
  ASSUME NEW s \in Seq(DiffLines), NEW last \in Nat, NEW selected,
         NEW a \in 1..Len(s), NEW b \in a..Len(s)
  PROVE  PatchHunk(s, last, selected, a..b) \in HunkTexts
<1>1. PICK n \in Nat : n = Len(s)
  BY LenProperties
<1>2. a \in Nat /\ b \in Nat /\ a <= b /\ a \in 1..n /\ b \in a..n
  BY <1>1
<1>3. Min(a..b) = a /\ Max(a..b) = b
  BY <1>2, IntervalEnds
<1>4. PICK above : above = SubSeq(s, 1, a - 1)
  BY Zenon
<1>5. PICK whole : whole = SubSeq(s, a, b)
  BY Zenon
<1>6. above \in Seq(DiffLines) /\ whole \in Seq(DiffLines)
  <2>1. /\ 1 \in 1..(Len(s) + 1) /\ a - 1 \in (1 - 1)..Len(s)
        /\ a \in 1..(Len(s) + 1) /\ b \in (a - 1)..Len(s)
    BY <1>1, <1>2
  <2> QED BY <1>4, <1>5, <2>1, PartFacts
<1>7. PICK lines : lines = Rendered(s, last, selected, a..b)
  OBVIOUS
<1>8. PICK cut : cut = SubSeq(s, a, LastOf(a..b, last))
  BY Zenon
<1>9. lines \in Seq(DiffLines)
  <2>1. PICK z \in Nat : z = LastOf(a..b, last) /\ z <= b
    BY <1>2, <1>3 DEF LastOf
  <2>2. cut \in Seq(DiffLines)
    <3>1. CASE z < a
      <4>1. cut = <<>>
        BY <1>2, <1>8, <2>1, <3>1, SubSeqEmpty
      <4> QED BY <4>1, EmptySeq, Zenon
    <3>2. CASE z >= a
      <4>1. a \in 1..(Len(s) + 1) /\ z \in (a - 1)..Len(s)
        BY <1>1, <1>2, <2>1, <3>2
      <4> QED BY <1>8, <2>1, <4>1, PartFacts
    <3> QED BY <1>2, <2>1, <3>1, <3>2
  <2>3. PICK left : lines = Only(cut, left)
    BY <1>3, <1>7, <1>8, Zenon DEF Rendered
  <2> QED BY <2>2, <2>3, OnlyTyped
<1>10. /\ OldSide(above) \in Seq(FileLines) /\ NewSide(above) \in Seq(FileLines)
  BY <1>6, SideFacts
<1>11. Len(OldSide(above)) \in Nat /\ Len(NewSide(above)) \in Nat
  BY <1>10, LenProperties
<1>12. /\ StartOf(OldSide(above), OldSide(whole)) \in Nat
       /\ StartOf(NewSide(above), NewSide(whole)) \in Nat
  BY <1>11 DEF StartOf
<1>13. PatchHunk(s, last, selected, a..b)
       = [old |-> StartOf(OldSide(above), OldSide(whole)),
          new |-> StartOf(NewSide(above), NewSide(whole)), lines |-> lines]
  BY <1>3, <1>4, <1>5, <1>7 DEF PatchHunk
<1> QED BY <1>9, <1>12, <1>13 DEF HunkTexts

LEMMA PatchTyped ==
  ASSUME NEW s \in Seq(DiffLines), NEW last \in Nat, NEW selected
  PROVE  BuildPatch(s, last, selected) \in Seq(HunkTexts)
<1>1. PICK m, lo, hi : Apart(s, m, lo, hi) /\ Hunks(s) = [h \in 1..m |-> lo[h]..hi[h]]
  BY HunksApart
<1>2. PICK all : all = Hunks(s)
  OBVIOUS
<1>3. PICK I : I = {all[h] : h \in 1..m}
  BY Zenon
<1>4. m \in Nat
  BY <1>1 DEF Apart
<1>5. all \in Seq(I)
  <2>1. all \in [1..m -> I]
    BY <1>1, <1>2, <1>3
  <2> QED BY <1>4, <2>1, Listed
<1>6. \A i \in I : PatchHunk(s, last, selected, i) \in HunkTexts
  <2>1. ASSUME NEW h \in 1..m PROVE PatchHunk(s, last, selected, all[h]) \in HunkTexts
    <3>1. lo[h] \in 1..Len(s) /\ hi[h] \in lo[h]..Len(s)
      BY <1>1 DEF Apart
    <3>2. PatchHunk(s, last, selected, lo[h]..hi[h]) \in HunkTexts
      BY <3>1, PatchHunkTyped
    <3> QED BY <1>1, <1>2, <3>2
  <2> QED BY <1>3, <2>1
<1>7. PICK hunks : hunks = Only(all, {h \in DOMAIN all : all[h] \cap selected # {}})
  BY Zenon
<1>8. hunks \in Seq(I)
  BY <1>5, <1>7, OnlyTyped
<1>9. PICK k \in Nat : DOMAIN hunks = 1..k /\ \A i \in 1..k : hunks[i] \in I
  BY <1>8, LenProperties, ElementOfSeq
<1>10. BuildPatch(s, last, selected) = [i \in 1..k |-> PatchHunk(s, last, selected, hunks[i])]
  BY <1>2, <1>7, <1>9 DEF BuildPatch
<1>11. BuildPatch(s, last, selected) \in [1..k -> HunkTexts]
  BY <1>6, <1>9, <1>10
<1> QED BY <1>9, <1>11, Listed

LEMMA ReversedTyped ==
  ASSUME NEW patch \in Seq(HunkTexts)
  PROVE  Reversed(patch) \in Seq(HunkTexts)
<1>1. PICK k \in Nat : DOMAIN patch = 1..k /\ \A i \in 1..k : patch[i] \in HunkTexts
  BY LenProperties, ElementOfSeq
<1>2. Reversed(patch) = [h \in 1..k |-> [old |-> patch[h].new, new |-> patch[h].old,
                                         lines |-> Flip(patch[h].lines)]]
  BY <1>1 DEF Reversed
<1>3. ASSUME NEW h \in 1..k
      PROVE  [old |-> patch[h].new, new |-> patch[h].old, lines |-> Flip(patch[h].lines)]
             \in HunkTexts
  <2>1. patch[h].old \in Nat /\ patch[h].new \in Nat /\ patch[h].lines \in Seq(DiffLines)
    BY <1>1, Zenon DEF HunkTexts
  <2>2. Flip(patch[h].lines) \in Seq(DiffLines)
    BY <2>1, FlipFacts
  <2> QED BY <2>1, <2>2 DEF HunkTexts
<1>4. Reversed(patch) \in [1..k -> HunkTexts]
  BY <1>2, <1>3
<1> QED BY <1>4, Listed

Results == [ok : BOOLEAN, image : Seq(Entries)]

LEMMA NearestIn ==
  ASSUME NEW places \in SUBSET Nat, places # {}, NEW line \in Nat
  PROVE  Nearest(places, line) \in places
<1>1. PICK far : far = {Away(p, line) : p \in places}
  BY Zenon
<1>2. \A p \in places : Away(p, line) \in Nat
  BY DEF Away
<1>3. far \in SUBSET Nat /\ far # {}
  BY <1>1, <1>2, Zenon
<1>4. PICK x \in far : \A y \in far : x <= y
  BY <1>3, LeastNatural
<1>5. PICK p \in places : x = Away(p, line)
  BY <1>1, <1>4
<1>6. \A q \in places : Away(p, line) <= Away(q, line)
  BY <1>1, <1>4, <1>5
<1>7. \E c \in places : \A q \in places : Away(c, line) <= Away(q, line)
  BY <1>5, <1>6
<1> QED BY <1>7, Zenon DEF Nearest

LEMMA ApplyTyped ==
  ASSUME NEW result \in Results, NEW hunk \in HunkTexts
  PROVE  ApplyHunk(result, hunk) \in Results
<1>1. PICK image \in Seq(Entries) : image = result.image
  BY DEF Results
<1>2. PICK own \in Seq(DiffLines) : own = hunk.lines
  BY DEF HunkTexts
<1>3. PICK line \in Nat : line = IF hunk.new = 0 THEN 0 ELSE hunk.new - 1
  BY DEF HunkTexts
<1>4. PICK fits : fits = Fits(image, hunk)
  OBVIOUS
<1>5. CASE ~result.ok \/ fits = {}
  <2>1. ApplyHunk(result, hunk) = [result EXCEPT !.ok = FALSE]
    BY <1>1, <1>4, <1>5 DEF ApplyHunk
  <2> QED BY <2>1, Zenon DEF Results
<1>6. CASE result.ok /\ fits # {}
  <2>1. PICK x \in Seq(FileLines), y \in Seq(FileLines) : x = OldSide(own) /\ y = NewSide(own)
    BY <1>2, SideFacts
  <2>2. PICK pre : pre = Marked(x, FALSE)
    BY Zenon
  <2>3. PICK k \in Nat, n \in Nat : k = Len(x) /\ k = Len(pre) /\ n = Len(image)
    BY <1>1, <2>1, <2>2, MarkedFacts, LenProperties, ZenonT(30)
  <2>4. \A p \in fits : p \in 0..(n - k)
    BY <1>2, <1>4, <2>1, <2>2, <2>3, Zenon DEF Fits
  <2>5. fits \in SUBSET Nat
    BY <2>3, <2>4
  <2>6. PICK at : at = Nearest(fits, line)
    OBVIOUS
  <2>7. at \in fits
    BY <1>3, <1>6, <2>5, <2>6, NearestIn
  <2>8. at \in 0..(n - k)
    BY <2>4, <2>7
  <2>9. PICK a : a = SubSeq(image, 1, at)
    BY Zenon
  <2>10. PICK c : c = SubSeq(image, at + k + 1, n)
    BY Zenon
  <2>11. PICK b : b = Marked(y, TRUE)
    BY Zenon
  <2>12. a \in Seq(Entries)
    <3>1. 1 \in 1..(Len(image) + 1) /\ at \in (1 - 1)..Len(image)
      BY <2>3, <2>8
    <3> QED BY <1>1, <2>9, <3>1, PartFacts
  <2>13. c \in Seq(Entries)
    <3>1. PICK d : d = at + k + 1
      OBVIOUS
    <3>2. d \in 1..(Len(image) + 1) /\ n \in (d - 1)..Len(image)
      BY <2>3, <2>8, <3>1
    <3>3. SubSeq(image, d, n) \in Seq(Entries)
      BY <1>1, <3>2, PartFacts, Zenon
    <3> QED BY <2>10, <3>1, <3>3
  <2>14. b \in Seq(Entries)
    BY <2>1, <2>11, MarkedFacts, Zenon
  <2>15. Both(a, b) \in Seq(Entries)
    BY <2>12, <2>14, BothFacts
  <2>16. Both(Both(a, b), c) \in Seq(Entries)
    BY <2>13, <2>15, BothFacts
  <2>17. ApplyHunk(result, hunk) = [ok |-> TRUE, image |-> (a \o b) \o c]
    BY <1>1, <1>2, <1>3, <1>4, <1>6, <2>1, <2>3, <2>6, <2>9, <2>10, <2>11 DEF ApplyHunk
  <2>18. (a \o b) \o c \in Seq(Entries)
    BY <2>16 DEF Both
  <2> QED BY <2>17, <2>18 DEF Results
<1> QED BY <1>5, <1>6

LEMMA GitTyped ==
  ASSUME NEW file \in Seq(FileLines), NEW patch \in Seq(HunkTexts)
  PROVE  GitApply(file, patch).ok \in BOOLEAN /\ GitApply(file, patch).file \in Seq(FileLines)
<1>1. PICK n \in Nat : n = Len(patch) /\ \A h \in 1..n : patch[h] \in HunkTexts
  BY LenProperties, ElementOfSeq
<1>2. PICK f : PatchSteps(f, file, patch)
  BY PatchTaken
<1> DEFINE T == {h \in 0..n : f[h] \in Results}
<1>3. 0 \in T
  <2>1. Marked(file, FALSE) \in Seq(Entries)
    BY MarkedFacts, Zenon
  <2>2. (patch # <<>>) \in BOOLEAN
    OBVIOUS
  <2>3. Unpatched(file, patch) \in Results
    BY <2>1, <2>2, Zenon DEF Unpatched, Results
  <2>4. f[0] \in Results
    BY <1>2, <2>3 DEF PatchSteps
  <2> QED BY <1>1, <2>4
<1>4. ASSUME NEW h \in 1..n, h - 1 \in T PROVE h \in T
  <2>1. f[h - 1] \in Results /\ patch[h] \in HunkTexts
    BY <1>1, <1>4
  <2>2. f[h] = ApplyHunk(f[h - 1], patch[h])
    BY <1>1, <1>2 DEF PatchSteps
  <2>3. f[h] \in Results
    BY <2>1, <2>2, ApplyTyped
  <2> QED BY <1>1, <2>3
<1>5. n \in T
  <2>1. n \in 0..n
    BY <1>1
  <2> HIDE DEF T
  <2> QED BY <1>1, <1>3, <1>4, <2>1, Climb, Zenon
<1>6. PICK result \in Results : result = f[n]
  BY <1>5
<1>7. GitApply(file, patch) = [ok |-> result.ok, file |-> Texts(result.image)]
  BY <1>1, <1>2, <1>6 DEF PatchSteps
<1>8. result.ok \in BOOLEAN /\ result.image \in Seq(Entries)
  BY <1>6 DEF Results
<1>9. Texts(result.image) \in Seq(FileLines)
  <2>1. \A e \in Entries : e.text \in FileLines
    BY DEF Entries
  <2> QED BY <1>8, <2>1, TextsTyped
<1> QED BY <1>7, <1>8, <1>9

LEMMA LongerTyped ==
  ASSUME NEW old, NEW new, NEW script \in Seq(DiffLines)
  PROVE  Longer(old, new, script) \in SUBSET Seq(DiffLines)
<1>1. ASSUME NEW t \in Longer(old, new, script) PROVE t \in Seq(DiffLines)
  <2>1. PICK l \in DiffLines : t = Append(script, l)
    BY DEF Longer
  <2> QED BY <2>1, AppendProperties
<1> QED BY <1>1

LEMMA ScriptsTyped ==
  ASSUME NEW old \in Seq(FileLines), NEW new \in Seq(FileLines)
  PROVE  Scripts(old, new) \in SUBSET Seq(DiffLines)
<1>1. PICK n \in Nat : n = Len(old) + Len(new)
  <2>1. Len(old) \in Nat /\ Len(new) \in Nat
    BY LenProperties
  <2> QED BY <2>1
<1> DEFINE More1(X) == UNION {Longer(old, new, s) : s \in X}
           Takes(f, m) == /\ f = [h \in 0..m |-> f[h]] /\ f[0] = {<<>>}
                          /\ \A h \in 1..m : f[h] = More1(f[h - 1])
           T == {m \in 0..n : \E f : Takes(f, m)}
<1>2. 0 \in T
  <2>1. PICK f : f = [h \in 0..0 |-> {<<>>}]
    BY Zenon
  <2>2. Takes(f, 0)
    BY <2>1
  <2> QED BY <2>2
<1>3. ASSUME NEW m \in 1..n, m - 1 \in T PROVE m \in T
  <2>1. PICK f : Takes(f, m - 1)
    BY <1>3, Zenon
  <2>2. PICK x : x = More1(f[m - 1])
    BY Zenon
  <2>3. PICK g : g = [h \in 0..m |-> IF h = m THEN x ELSE f[h]]
    BY Zenon
  <2>4. (\A h \in 0..(m - 1) : g[h] = f[h]) /\ g[m] = x
    BY <2>3, SMTT(60)
  <2>5. \A h \in 1..m : /\ h - 1 \in 0..(m - 1)
                        /\ h = m \/ (h \in 1..(m - 1) /\ h \in 0..(m - 1))
    OBVIOUS
  <2>6. \A h \in 1..m : g[h] = More1(g[h - 1])
    <3> HIDE DEF More1
    <3> QED BY <2>1, <2>2, <2>4, <2>5, Zenon
  <2>7. g = [h \in 0..m |-> g[h]] /\ g[0] = {<<>>}
    <3>1. 0 \in 0..(m - 1)
      OBVIOUS
    <3>2. g[0] = {<<>>}
      BY <2>1, <2>4, <3>1, Zenon
    <3>3. g = [h \in 0..m |-> g[h]]
      BY <2>3, Zenon
    <3> QED BY <3>2, <3>3
  <2>8. Takes(g, m)
    BY <2>6, <2>7, Zenon
  <2> HIDE DEF Takes
  <2> QED BY <2>8
<1>4. PICK f : Takes(f, n)
  <2>1. n \in 0..n
    BY <1>1
  <2>2. n \in T
    <3> HIDE DEF T
    <3> QED BY <1>1, <1>2, <1>3, <2>1, Climb, Zenon
  <2> QED BY <2>2, Zenon
<1> DEFINE Is(g) == g = [h \in 0..n |-> IF h = 0 THEN {<<>>} ELSE More1(g[h - 1])]
<1>5. Is(f)
  <2> HIDE DEF More1
  <2>1. f = [h \in 0..n |-> f[h]] /\ f[0] = {<<>>} /\ \A h \in 1..n : f[h] = More1(f[h - 1])
    BY <1>4, Zenon
  <2>2. ASSUME NEW h \in 0..n
        PROVE  f[h] = IF h = 0 THEN {<<>>} ELSE More1(f[h - 1])
    <3>1. CASE h = 0
      BY <2>1, <3>1, Zenon
    <3>2. CASE h # 0
      <4>1. h \in 1..n
        BY <1>1, <3>2
      <4> QED BY <2>1, <3>2, <4>1, Zenon
    <3> QED BY <3>1, <3>2
  <2> QED BY <2>1, <2>2, Zenon
<1>6. PICK g : g = CHOOSE k : Is(k)
  OBVIOUS
<1>7. Is(g)
  BY <1>5, <1>6, Zenon
<1>8. \A s \in Scripts(old, new) : \E h \in 0..n : s \in g[h]
  BY <1>1, <1>6, ZenonT(30) DEF Scripts
<1>9. g[0] = {<<>>} /\ \A h \in 1..n : g[h] = More1(g[h - 1])
  <2> HIDE DEF More1
  <2>1. \A h \in 0..n : g[h] = IF h = 0 THEN {<<>>} ELSE More1(g[h - 1])
    BY <1>7, Zenon
  <2>2. 0 \in 0..n /\ \A h \in 1..n : h \in 0..n /\ h # 0
    BY <1>1
  <2> HIDE DEF Is
  <2> QED BY <2>1, <2>2, Zenon
<1> DEFINE U == {h \in 0..n : g[h] \in SUBSET Seq(DiffLines)}
<1>10. 0 \in U
  <2>1. <<>> \in Seq(DiffLines)
    BY EmptySeq, Zenon
  <2>2. g[0] \in SUBSET Seq(DiffLines)
    BY <1>9, <2>1
  <2> QED BY <1>1, <2>2
<1>11. ASSUME NEW h \in 1..n, h - 1 \in U PROVE h \in U
  <2>1. g[h - 1] \in SUBSET Seq(DiffLines)
    BY <1>11
  <2>2. ASSUME NEW t \in g[h] PROVE t \in Seq(DiffLines)
    <3>1. PICK s \in g[h - 1] : t \in Longer(old, new, s)
      BY <1>9, <2>2
    <3>2. s \in Seq(DiffLines)
      BY <2>1, <3>1
    <3> QED BY <3>1, <3>2, LongerTyped
  <2>3. h \in 0..n
    BY <1>1
  <2> QED BY <2>2, <2>3
<1>12. \A h \in 0..n : h \in U
  <2> HIDE DEF U
  <2> QED BY <1>1, <1>10, <1>11, Climb, Zenon
<1>13. \A h \in 0..n : g[h] \in SUBSET Seq(DiffLines)
  BY <1>12
<1> QED BY <1>8, <1>13

-----------------------------------------------------------------------------
(* Every step keeps the types, and what a run on everything leaves.         *)

\* What a run on everything starts from, and what it has done so far.
Basis(r) == IF r.how = "stage" THEN OldSide(r.script) ELSE NewSide(r.script)
RunSound(r) ==
  /\ r.picked # {}
  /\ r.at = "half" => r.how = "historical"
  /\ Whole(r) /\ All(r) =>
       /\ r.at = "half" /\ r.before.worktree = Basis(r) => r.after.worktree = Wanted(r)
       /\ r.at = "done" /\ Stands(r) => Exact(r)
HunkInv == HunkTypeOK /\ \A r \in applies : RunSound(r)

LEMMA WantedOfAll ==
  ASSUME NEW r \in PartialRuns, All(r)
  PROVE  Wanted(r) = IF r.how = "stage" THEN NewSide(r.script) ELSE OldSide(r.script)
<1>1. PICK s \in Seq(DiffLines) : s = r.script
  BY DEF PartialRuns
<1>2. PICK n \in Nat : DOMAIN s = 1..n /\ \A i \in 1..n : s[i] \in DiffLines
  BY LenProperties, ElementOfSeq
<1>3. \A i \in 1..n : s[i].kind \in {" ", "+", "-"}
  BY <1>2, Zenon DEF DiffLines
<1>4. PICK stays : stays = {i \in DOMAIN s : \/ ~Changed(s[i])
            \/ (i \in r.picked) = (s[i].kind = IF r.how = "stage" THEN "+" ELSE "-")}
  BY Zenon
<1>5. Wanted(r) = Only(Texts(s), stays)
  BY <1>1, <1>4 DEF Wanted
<1>6. \A i \in 1..n : i \in r.picked <=> Changed(s[i])
  BY <1>1, <1>2 DEF All
<1>7. CASE r.how = "stage"
  <2>1. \A i \in 1..n : i \in stays <=> s[i].kind # "-"
    BY <1>2, <1>3, <1>4, <1>6, <1>7, Zenon DEF Changed
  <2>2. stays = {i \in DOMAIN s : s[i].kind # "-"}
    BY <1>2, <1>4, <2>1
  <2> QED BY <1>1, <1>5, <1>7, <2>2 DEF NewSide, Without
<1>8. CASE r.how # "stage"
  <2>1. \A i \in 1..n : i \in stays <=> s[i].kind # "+"
    BY <1>2, <1>3, <1>4, <1>6, <1>8, Zenon DEF Changed
  <2>2. stays = {i \in DOMAIN s : s[i].kind # "+"}
    BY <1>2, <1>4, <2>1
  <2> QED BY <1>1, <1>5, <1>8, <2>2 DEF OldSide, Without
<1> QED BY <1>7, <1>8

\* A run on everything succeeds on a side that holds its basis.
LEMMA WholeRun ==
  ASSUME NEW r \in PartialRuns, Whole(r), All(r), r.picked # {},
         NEW side, content[side] = Basis(r)
  PROVE  Patched(r, side).ok = TRUE /\ Patched(r, side).file = Wanted(r)
<1>1. PICK s \in Seq(DiffLines) : s = r.script
  BY DEF PartialRuns
<1>2. r.picked = ChangesOf(s) /\ ChangesOf(s) # {}
  BY <1>1 DEF All, ChangesOf
<1>3. PICK patch : patch = BuildPatch(s, Len(s), ChangesOf(s))
  OBVIOUS
<1>4. /\ GitApply(OldSide(s), patch) = [ok |-> TRUE, file |-> NewSide(s)]
      /\ GitApply(NewSide(s), Reversed(patch)) = [ok |-> TRUE, file |-> OldSide(s)]
  BY <1>2, <1>3, WholeBothWays
<1>5. PatchOf(r) = IF r.how = "stage" THEN patch ELSE Reversed(patch)
  BY <1>1, <1>2, <1>3 DEF PatchOf, Whole
<1>6. Wanted(r) = IF r.how = "stage" THEN NewSide(s) ELSE OldSide(s)
  BY <1>1, WantedOfAll
<1>7. PICK out : out = Patched(r, side)
  OBVIOUS
<1>8. CASE r.how = "stage"
  <2>1. out = [ok |-> TRUE, file |-> NewSide(s)]
    BY <1>1, <1>4, <1>5, <1>7, <1>8 DEF Patched, Basis
  <2>2. out.ok = TRUE /\ out.file = NewSide(s)
    BY <2>1
  <2> QED BY <1>6, <1>7, <1>8, <2>2
<1>9. CASE r.how # "stage"
  <2>1. out = [ok |-> TRUE, file |-> OldSide(s)]
    BY <1>1, <1>4, <1>5, <1>7, <1>9 DEF Patched, Basis
  <2>2. out.ok = TRUE /\ out.file = OldSide(s)
    BY <2>1
  <2> QED BY <1>6, <1>7, <1>9, <2>2
<1> QED BY <1>8, <1>9, Zenon

LEMMA PatchedTyped ==
  ASSUME HunkTypeOK, NEW r \in applies, NEW side \in Sides
  PROVE  Patched(r, side).ok \in BOOLEAN /\ Patched(r, side).file \in Seq(FileLines)
<1>1. r \in PartialRuns /\ content[side] \in Seq(FileLines)
  BY DEF HunkTypeOK, Contents
<1>2. r.script \in Seq(DiffLines) /\ r.lastRow \in Nat
  BY <1>1 DEF PartialRuns
<1>3. PICK patch : patch = BuildPatch(r.script, r.lastRow, r.picked)
  OBVIOUS
<1>4. patch \in Seq(HunkTexts)
  BY <1>2, <1>3, PatchTyped
<1>5. Reversed(patch) \in Seq(HunkTexts)
  BY <1>4, ReversedTyped
<1>6. PatchOf(r) \in Seq(HunkTexts)
  BY <1>3, <1>4, <1>5 DEF PatchOf
<1> QED BY <1>1, <1>6, GitTyped DEF Patched

LEMMA SidesKnown ==
  ASSUME NEW how \in {"stage", "unstage", "discard", "historical"}
  PROVE  /\ Target(how) \in Sides /\ SidesOf(how) \in SUBSET Sides
         /\ how # "historical" => SidesOf(how) = {Target(how)}
         /\ how = "historical" => SidesOf(how) = {"worktree", "index"} /\ Target(how) = "worktree"
BY DEF Target, SidesOf, Sides

LEMMA RunsKept ==
  ASSUME HunkInv, applies' = applies
  PROVE  applies' \subseteq PartialRuns /\ \A r \in applies' : RunSound(r)
BY DEF HunkInv, HunkTypeOK

\* The rows shown of a script, and the last of them that is kept.
LEMMA ParsedTyped ==
  ASSUME NEW s \in Seq(DiffLines)
  PROVE  Parsed(s) \in Seq(DiffLines)
<1>1. PICK k \in Nat : DOMAIN s = 1..k /\ \A i \in 1..k : s[i] \in DiffLines
  BY LenProperties, ElementOfSeq
<1>2. Parsed(s) = [i \in 1..k |-> Line(s[i].kind, Plain[s[i].text])]
  BY <1>1 DEF Parsed
<1>3. ASSUME NEW i \in 1..k PROVE Line(s[i].kind, Plain[s[i].text]) \in DiffLines
  <2>1. s[i].kind \in {" ", "+", "-"} /\ s[i].text \in FileLines
    BY <1>1, Zenon DEF DiffLines
  <2>2. Plain[s[i].text] \in FileLines
    BY <2>1, HunkBounds
  <2> QED BY <2>1, <2>2 DEF Line, DiffLines
<1>4. Parsed(s) \in [1..k -> DiffLines]
  BY <1>2, <1>3
<1> QED BY <1>4, Listed

LEMMA LastInside ==
  ASSUME NEW s \in Seq(DiffLines)
  PROVE  LastKept(s) \in Nat
<1>1. PICK n \in Nat : n = Len(s)
  BY LenProperties
<1>2. PICK ends : ends = {k \in 0..n : Cardinality({i \in NearChange(s) : i <= k}) <= MaxRows}
  BY Zenon
<1>3. 0 \in ends
  <2>1. {i \in NearChange(s) : i <= 0} = {}
    <3>1. NearChange(s) \subseteq 1..n
      BY <1>1, LenProperties DEF NearChange
    <3> QED BY <3>1
  <2>2. Cardinality({i \in NearChange(s) : i <= 0}) = 0
    BY <2>1, FS_EmptySet
  <2> QED BY <1>2, <2>2, HunkBounds
<1>4. ends \subseteq 0..n
  BY <1>2
<1>5. \E top \in ends : \A k \in ends : top >= k
  <2>0. \A k \in ends : k \in Nat /\ k <= n
    BY <1>4
  <2>1. PICK gaps : gaps = {n - k : k \in ends}
    BY Zenon
  <2>2. gaps \in SUBSET Nat /\ gaps # {}
    BY <1>3, <1>4, <2>1
  <2>3. PICK gap \in gaps : \A g \in gaps : gap <= g
    BY <2>2, LeastNatural
  <2>4. PICK top \in ends : gap = n - top
    BY <2>1, <2>3
  <2>5. ASSUME NEW k \in ends PROVE top >= k
    <3>1. n - top <= n - k
      BY <2>1, <2>3, <2>4
    <3> QED BY <2>0, <3>1
  <2> QED BY <2>5
<1>6. PICK top : top = Max(ends)
  OBVIOUS
<1>7. top \in ends
  BY <1>5, <1>6 DEF Max
<1> QED BY <1>1, <1>2, <1>4, <1>6, <1>7 DEF LastKept

LEMMA ReadingDiffs ==
  ASSUME HunkInv, HunkEdit \/ OpenDiff \/ DiffReady
  PROVE  HunkInv'
<1>1. applies' = applies
  BY DEF HunkEdit, OpenDiff, DiffReady
<1>2. CASE HunkEdit
  <2>1. content' \in Contents
    <3>1. content \in Contents
      BY DEF HunkInv, HunkTypeOK
    <3>2. CASE \E f \in Files : content' = [content EXCEPT !.worktree = f]
      <4>1. PICK f \in Files : content' = [content EXCEPT !.worktree = f]
        BY <3>2
      <4>2. f \in Seq(FileLines)
        BY HunkBounds
      <4> QED BY <3>1, <4>1, <4>2, Zenon DEF Contents, Sides
    <3>3. CASE content' = [content EXCEPT !.index = content.worktree]
      <4>1. content["worktree"] \in Seq(FileLines)
        BY <3>1 DEF Contents, Sides
      <4> QED BY <3>1, <3>3, <4>1 DEF Contents, Sides
    <3> QED BY <1>2, <3>2, <3>3 DEF HunkEdit
  <2>2. hunkWork' \in [diffs : Nat, applies : Nat, edits : Nat]
    <3>1. hunkWork \in [diffs : Nat, applies : Nat, edits : Nat]
      BY DEF HunkInv, HunkTypeOK
    <3> QED BY <1>2, <3>1 DEF HunkEdit
  <2>3. UNCHANGED <<diff, reads, diffRequest, hunkView, rows, lastRow, picked, historic, discardAsked>>
    BY <1>2 DEF HunkEdit
  <2> QED BY <1>1, <2>1, <2>2, <2>3, RunsKept DEF HunkInv, HunkTypeOK, ChangedRows
<1>3. CASE OpenDiff
  <2>1. hunkWork' \in [diffs : Nat, applies : Nat, edits : Nat]
    <3>1. hunkWork \in [diffs : Nat, applies : Nat, edits : Nat]
      BY DEF HunkInv, HunkTypeOK
    <3> QED BY <1>3, <3>1 DEF OpenDiff
  <2>2. PICK staged \in BOOLEAN :
          /\ diff' = [NoDiff EXCEPT !.staged = staged]
          /\ reads' = {[request |-> diffRequest + 1, staged |-> staged]}
    <3>1. (content.head # content.index /\ content.index = content.worktree) \in BOOLEAN
      OBVIOUS
    <3> QED BY <1>3, <3>1, Zenon DEF OpenDiff
  <2>3. diff' \in [script : Seq(DiffLines), lastRow : Nat, staged : BOOLEAN]
    <3>1. <<>> \in Seq(DiffLines)
      BY EmptySeq, Zenon
    <3> QED BY <2>2, <3>1 DEF NoDiff
  <2>4. diffRequest' \in Nat /\ reads' \subseteq [request : Nat, staged : BOOLEAN]
    <3>1. diffRequest \in Nat /\ diffRequest' = diffRequest + 1
      BY <1>3 DEF OpenDiff, HunkInv, HunkTypeOK
    <3> QED BY <2>2, <3>1
  <2>5. UNCHANGED <<content, hunkView, rows, lastRow, picked, historic, discardAsked>>
    BY <1>3 DEF OpenDiff
  <2> QED BY <1>1, <2>1, <2>3, <2>4, <2>5, RunsKept, Zenon DEF HunkInv, HunkTypeOK, ChangedRows
<1>4. CASE DiffReady
  <2>1. PICK r \in reads :
          \E script \in IF r.staged THEN Scripts(content.head, content.index)
                        ELSE Scripts(content.index, content.worktree) :
           /\ diff' = IF Size(script) = 0 THEN [NoDiff EXCEPT !.staged = r.staged]
                      ELSE [script |-> script, lastRow |-> LastKept(script), staged |-> r.staged]
           /\ IF hunkView /\ Size(script) # 0 THEN Shown(script, LastKept(script))
              ELSE UNCHANGED <<rows, lastRow, picked>>
    BY <1>4 DEF DiffReady
  <2>2. r.staged \in BOOLEAN
    BY <2>1 DEF HunkInv, HunkTypeOK
  <2>3. PICK script :
           /\ script \in IF r.staged THEN Scripts(content.head, content.index)
                        ELSE Scripts(content.index, content.worktree)
           /\ diff' = IF Size(script) = 0 THEN [NoDiff EXCEPT !.staged = r.staged]
                      ELSE [script |-> script, lastRow |-> LastKept(script), staged |-> r.staged]
           /\ IF hunkView /\ Size(script) # 0 THEN Shown(script, LastKept(script))
              ELSE UNCHANGED <<rows, lastRow, picked>>
    BY <2>1
  <2>4. script \in Seq(DiffLines)
    <3>1. /\ content["head"] \in Seq(FileLines) /\ content["index"] \in Seq(FileLines)
          /\ content["worktree"] \in Seq(FileLines)
      BY DEF HunkInv, HunkTypeOK, Contents, Sides
    <3>2. /\ Scripts(content.head, content.index) \in SUBSET Seq(DiffLines)
          /\ Scripts(content.index, content.worktree) \in SUBSET Seq(DiffLines)
      BY <3>1, ScriptsTyped
    <3> QED BY <2>3, <3>2
  <2>5. diff' \in [script : Seq(DiffLines), lastRow : Nat, staged : BOOLEAN]
    <3>1. <<>> \in Seq(DiffLines) /\ LastKept(script) \in Nat
      BY <2>4, LastInside, EmptySeq, Zenon
    <3>2. [NoDiff EXCEPT !.staged = r.staged] \in [script : Seq(DiffLines), lastRow : Nat, staged : BOOLEAN]
      BY <2>2, <3>1 DEF NoDiff
    <3> QED BY <2>2, <2>3, <2>4, <3>1, <3>2
  <2>6. reads' = {}
    BY <1>4 DEF DiffReady
  <2>7. UNCHANGED <<content, diffRequest, hunkView, historic, discardAsked, hunkWork>>
    BY <1>4 DEF DiffReady
  <2>8. rows' \in Seq(DiffLines) /\ lastRow' \in Nat /\ picked' \subseteq ChangedRows'
    <3>1. Parsed(script) \in Seq(DiffLines) /\ LastKept(script) \in Nat
      BY <2>4, ParsedTyped, LastInside
    <3> QED BY <2>3, <3>1 DEF HunkInv, HunkTypeOK, Shown, ChangedRows
  <2> QED BY <1>1, <2>5, <2>6, <2>7, <2>8, RunsKept DEF HunkInv, HunkTypeOK
<1> QED BY <1>2, <1>3, <1>4

LEMMA ChoosingHunks ==
  ASSUME HunkInv,
         BeginHunks \/ BeginHistoricalHunks \/ CloseHunks \/ Pick \/ AskDiscard
  PROVE  HunkInv'
<1>1. UNCHANGED <<content, diff, reads, diffRequest, applies, hunkWork>>
  BY DEF BeginHunks, BeginHistoricalHunks, CloseHunks, Pick, AskDiscard, Keep
<1>2. rows' \in Seq(DiffLines) /\ lastRow' \in Nat /\ picked' \subseteq ChangedRows'
  <2>1. /\ rows \in Seq(DiffLines) /\ lastRow \in Nat /\ picked \subseteq ChangedRows
        /\ diff.script \in Seq(DiffLines) /\ diff.lastRow \in Nat
    BY DEF HunkInv, HunkTypeOK
  <2>2. CASE BeginHunks
    <3>1. Parsed(diff.script) \in Seq(DiffLines)
      BY <2>1, ParsedTyped
    <3> QED BY <2>1, <2>2, <3>1 DEF BeginHunks, Shown
  <2>3. CASE BeginHistoricalHunks
    <3>1. PICK script \in Scripts(Parent, content.head) : Shown(script, Len(script))
      BY <2>3 DEF BeginHistoricalHunks
    <3>2. Parent \in Seq(FileLines) /\ content["head"] \in Seq(FileLines)
      BY HunkBounds DEF HunkInv, HunkTypeOK, Contents, Sides
    <3>3. script \in Seq(DiffLines)
      BY <3>1, <3>2, ScriptsTyped
    <3>4. Parsed(script) \in Seq(DiffLines) /\ Len(script) \in Nat
      BY <3>3, ParsedTyped, LenProperties
    <3> QED BY <3>1, <3>4 DEF Shown
  <2>4. CASE CloseHunks
    BY <2>1, <2>4 DEF CloseHunks, ChangedRows
  <2>5. CASE Pick
    <3>1. rows' = rows /\ lastRow' = lastRow
      BY <2>5 DEF Pick
    <3>2. picked' \subseteq ChangedRows
      BY <2>1, <2>5, Zenon DEF Pick
    <3> QED BY <2>1, <3>1, <3>2 DEF ChangedRows
  <2>6. CASE AskDiscard
    BY <2>1, <2>6 DEF AskDiscard, ChangedRows
  <2> QED BY <2>2, <2>3, <2>4, <2>5, <2>6
<1>3. {hunkView', historic', discardAsked'} \subseteq BOOLEAN
  <2>1. hunkView \in BOOLEAN /\ historic \in BOOLEAN /\ discardAsked \in BOOLEAN
    BY DEF HunkInv, HunkTypeOK
  <2> QED BY <2>1, Zenon DEF BeginHunks, BeginHistoricalHunks, CloseHunks, Pick, AskDiscard
<1> QED BY <1>1, <1>2, <1>3, RunsKept DEF HunkInv, HunkTypeOK

LEMMA BegunSound ==
  ASSUME HunkInv, picked # {}, NEW how \in {"stage", "unstage", "discard", "historical"}
  PROVE  Begun(how) \in PartialRuns /\ RunSound(Begun(how))
<1>1. /\ rows \in Seq(DiffLines) /\ lastRow \in Nat
      /\ picked \subseteq ChangedRows /\ historic \in BOOLEAN
      /\ content \in Contents
  BY DEF HunkInv, HunkTypeOK
<1>2. picked \in SUBSET Nat
  BY <1>1, LenProperties DEF ChangedRows
<1>3. PICK b : b = Begun(how)
  OBVIOUS
<1>4. b \in PartialRuns
  BY <1>1, <1>2, <1>3 DEF Begun, PartialRuns
<1>5. b.at = "asked" /\ b.picked = picked
  BY <1>3 DEF Begun
<1>6. RunSound(b)
  BY <1>5 DEF RunSound
<1> QED BY <1>3, <1>4, <1>6

LEMMA BeginningRuns ==
  ASSUME HunkInv, ApplySelected \/ ApplyHistorical
  PROVE  HunkInv'
<1>1. PICK how \in {"stage", "unstage", "discard", "historical"} :
        applies' = applies \cup {Begun(how)}
  <2>1. CASE ApplySelected
    <3>1. \E h \in {"stage", "unstage", "discard"} : applies' = applies \cup {Begun(h)}
      BY <2>1 DEF ApplySelected
    <3> QED BY <3>1
  <2>2. CASE ApplyHistorical
    <3>1. applies' = applies \cup {Begun("historical")}
      BY <2>2 DEF ApplyHistorical
    <3> QED BY <3>1
  <2> QED BY <2>1, <2>2
<1>2. picked # {}
  BY DEF ApplySelected, ApplyHistorical
<1>3. applies' \subseteq PartialRuns /\ \A r \in applies' : RunSound(r)
  <2>1. Begun(how) \in PartialRuns /\ RunSound(Begun(how))
    BY <1>1, <1>2, BegunSound
  <2> QED BY <1>1, <2>1 DEF HunkInv, HunkTypeOK
<1>4. hunkWork' \in [diffs : Nat, applies : Nat, edits : Nat]
  <2>1. hunkWork \in [diffs : Nat, applies : Nat, edits : Nat]
    BY DEF HunkInv, HunkTypeOK
  <2>2. hunkWork.applies > 0 /\ hunkWork' = [hunkWork EXCEPT !.applies = @ - 1]
    BY DEF ApplySelected, ApplyHistorical
  <2> QED BY <2>1, <2>2
<1>5. {hunkView', historic', discardAsked'} \subseteq BOOLEAN
  <2>1. hunkView \in BOOLEAN /\ historic \in BOOLEAN /\ discardAsked \in BOOLEAN
    BY DEF HunkInv, HunkTypeOK
  <2> QED BY <2>1, Zenon DEF ApplySelected, ApplyHistorical
<1>6. UNCHANGED <<content, diff, reads, diffRequest, rows, lastRow, picked>>
  BY DEF ApplySelected, ApplyHistorical
<1> QED BY <1>3, <1>4, <1>5, <1>6 DEF HunkInv, HunkTypeOK, ChangedRows

\* A run that goes on, in the types and sound, is all that such a step has to show.
LEMMA RunMoved ==
  ASSUME HunkInv, Rest, content' \in Contents, NEW r \in applies, NEW t,
         Moved(r, t), t \in PartialRuns, RunSound(t)
  PROVE  HunkInv'
<1>1. applies' \subseteq PartialRuns /\ \A u \in applies' : RunSound(u)
  BY DEF Moved, HunkInv, HunkTypeOK
<1>2. UNCHANGED <<diff, reads, diffRequest, hunkView, rows, lastRow, picked, historic, discardAsked,
                  hunkWork>>
  BY DEF Rest
<1> QED BY <1>1, <1>2 DEF HunkInv, HunkTypeOK, ChangedRows

LEMMA CheckKeeps ==
  ASSUME HunkInv, CheckPatch
  PROVE  HunkInv'
<1>1. PICK r \in applies :
        /\ r.at = "asked" /\ UNCHANGED content /\ Rest
        /\ LET ok == \A side \in SidesOf(r.how) : Patched(r, side).ok
           IN  Moved(r, [r EXCEPT !.at = IF ok THEN "checked" ELSE "done",
                                 !.before = content, !.after = content])
  BY Zenon DEF CheckPatch
<1>2. PICK ok \in BOOLEAN :
        /\ ok <=> \A side \in SidesOf(r.how) : Patched(r, side).ok
        /\ Moved(r, [r EXCEPT !.at = IF ok THEN "checked" ELSE "done",
                             !.before = content, !.after = content])
  <2>1. PICK ok : ok = (\A side \in SidesOf(r.how) : Patched(r, side).ok)
    BY Zenon
  <2> QED BY <1>1, <2>1, Zenon
<1>3. PICK t : t = [r EXCEPT !.at = IF ok THEN "checked" ELSE "done",
                            !.before = content, !.after = content]
  OBVIOUS
<1>4. content \in Contents /\ r \in PartialRuns /\ RunSound(r)
  BY <1>1 DEF HunkInv, HunkTypeOK
<1>5. t \in PartialRuns
  BY <1>3, <1>4, Zenon DEF PartialRuns
<1>6. /\ t.at = (IF ok THEN "checked" ELSE "done") /\ t.before = content
      /\ t.how = r.how /\ t.script = r.script /\ t.picked = r.picked /\ t.lastRow = r.lastRow
  BY <1>3, <1>4 DEF PartialRuns
<1>7. ASSUME Whole(t), All(t), t.at = "done", Stands(t) PROVE FALSE
  <2>1. ~ok
    BY <1>6, <1>7
  <2>2. PICK side \in SidesOf(r.how) : ~Patched(r, side).ok
    BY <1>2, <2>1
  <2>3. content[side] = Basis(r)
    BY <1>6, <1>7, <2>2 DEF Stands, Basis
  <2>4. Whole(r) /\ All(r) /\ r.picked # {}
    BY <1>4, <1>6, <1>7 DEF Whole, All, RunSound
  <2> QED BY <1>4, <2>2, <2>3, <2>4, WholeRun, Zenon
<1>8. RunSound(t)
  BY <1>4, <1>6, <1>7 DEF RunSound
<1>9. content' \in Contents
  BY <1>1, <1>4
<1>10. Moved(r, t)
  BY <1>2, <1>3
<1> QED BY <1>1, <1>5, <1>8, <1>9, <1>10, RunMoved

\* What a patch leaves: the side it was for in the types, and the whole selection in it.
LEMMA LeftBehind ==
  ASSUME HunkInv, NEW r \in applies, NEW side \in Sides, NEW left,
         left = IF Patched(r, side).ok THEN [content EXCEPT ![side] = Patched(r, side).file]
                                       ELSE content
  PROVE  /\ left \in Contents
         /\ Whole(r) /\ All(r) /\ content[side] = Basis(r)
            => Patched(r, side).ok = TRUE /\ left[side] = Wanted(r)
<1>1. PICK out : out = Patched(r, side)
  OBVIOUS
<1>2. content \in Contents /\ r \in PartialRuns /\ r.picked # {} /\ HunkTypeOK
  BY DEF HunkInv, HunkTypeOK, RunSound
<1>3. out.ok \in BOOLEAN /\ out.file \in Seq(FileLines)
  BY <1>1, <1>2, PatchedTyped
<1>4. left = IF out.ok THEN [content EXCEPT ![side] = out.file] ELSE content
  BY <1>1
<1>5. left \in Contents
  BY <1>2, <1>3, <1>4 DEF Contents
<1>6. ASSUME Whole(r), All(r), content[side] = Basis(r)
      PROVE  out.ok = TRUE /\ left[side] = Wanted(r)
  <2>1. out.ok = TRUE /\ out.file = Wanted(r)
    BY <1>1, <1>2, <1>6, WholeRun, Zenon
  <2> QED BY <1>2, <1>4, <2>1 DEF Contents
<1> QED BY <1>1, <1>5, <1>6, Zenon

LEMMA ApplyKeeps ==
  ASSUME HunkInv, ApplyPatch
  PROVE  HunkInv'
<1>1. PICK r \in applies :
        /\ r.at = "checked" /\ Rest
        /\ LET result == Patched(r, Target(r.how))
               left == IF result.ok THEN [content EXCEPT ![Target(r.how)] = result.file]
                       ELSE content
           IN  /\ content' = left
               /\ Moved(r, [r EXCEPT !.at = IF r.how = "historical" /\ result.ok THEN "half"
                                           ELSE "done",
                                     !.ok = result.ok, !.before = content, !.after = left])
  BY Zenon DEF ApplyPatch
<1>2. PICK side : side = Target(r.how)
  OBVIOUS
<1>3. PICK ok : ok = Patched(r, side).ok
  OBVIOUS
<1>4. PICK left : left = IF Patched(r, side).ok
                         THEN [content EXCEPT ![side] = Patched(r, side).file] ELSE content
  BY Zenon
<1>5. PICK t : t = [r EXCEPT !.at = IF r.how = "historical" /\ ok THEN "half" ELSE "done",
                            !.ok = ok, !.before = content, !.after = left]
  OBVIOUS
<1>6. content' = left /\ Moved(r, t)
  BY <1>1, <1>2, <1>3, <1>4, <1>5
<1>7. content \in Contents /\ r \in PartialRuns /\ RunSound(r) /\ HunkTypeOK
  BY <1>1 DEF HunkInv, HunkTypeOK
<1>8. r.how \in {"stage", "unstage", "discard", "historical"}
  BY <1>7 DEF PartialRuns
<1>9. /\ side \in Sides
      /\ r.how # "historical" => SidesOf(r.how) = {side}
      /\ r.how = "historical" => SidesOf(r.how) = {"worktree", "index"} /\ side = "worktree"
  BY <1>2, <1>8, SidesKnown
<1>10. ok \in BOOLEAN
  BY <1>1, <1>3, <1>7, <1>9, PatchedTyped
<1>11. /\ left \in Contents
       /\ Whole(r) /\ All(r) /\ content[side] = Basis(r) => ok = TRUE /\ left[side] = Wanted(r)
  BY <1>1, <1>3, <1>4, <1>9, LeftBehind, Zenon
<1>12. t \in PartialRuns
  BY <1>5, <1>7, <1>10, <1>11, Zenon DEF PartialRuns
<1>13. /\ t.at = (IF r.how = "historical" /\ ok THEN "half" ELSE "done")
       /\ t.before = content /\ t.after = left
       /\ t.how = r.how /\ t.script = r.script /\ t.picked = r.picked /\ t.lastRow = r.lastRow
  BY <1>5, <1>7 DEF PartialRuns
<1>14. Wanted(t) = Wanted(r) /\ Basis(t) = Basis(r) /\ (Whole(t) <=> Whole(r)) /\ (All(t) <=> All(r))
  BY <1>13 DEF Wanted, Basis, Whole, All
<1>15. t.at = "half" => r.how = "historical"
  BY <1>13
<1>16. ASSUME Whole(t), All(t), t.at = "half", t.before.worktree = Basis(t)
       PROVE  t.after.worktree = Wanted(t)
  <2>1. side = "worktree"
    BY <1>9, <1>15, <1>16
  <2>2. content[side] = Basis(r)
    BY <1>13, <1>14, <1>16, <2>1
  <2>3. left[side] = Wanted(r)
    BY <1>11, <1>14, <1>16, <2>2
  <2> QED BY <1>13, <1>14, <2>1, <2>3
<1>17. ASSUME Whole(t), All(t), t.at = "done", Stands(t) PROVE Exact(t)
  <2>1. side \in SidesOf(r.how)
    BY <1>9
  <2>2. content[side] = Basis(r)
    BY <1>13, <1>14, <1>17, <2>1 DEF Stands, Basis
  <2>3. ok = TRUE /\ left[side] = Wanted(r)
    BY <1>11, <1>14, <1>17, <2>2
  <2>4. r.how # "historical"
    BY <1>13, <1>17, <2>3
  <2>5. SidesOf(t.how) = {side}
    BY <1>9, <1>13, <2>4
  <2> QED BY <1>13, <1>14, <2>3, <2>5 DEF Exact
<1>18. RunSound(t)
  BY <1>7, <1>13, <1>15, <1>16, <1>17 DEF RunSound
<1>19. content' \in Contents
  BY <1>6, <1>11
<1> QED BY <1>1, <1>6, <1>12, <1>18, <1>19, RunMoved

LEMMA IndexKeeps ==
  ASSUME HunkInv, ApplyToIndex
  PROVE  HunkInv'
<1>1. PICK r \in applies :
        /\ r.at = "half" /\ Rest
        /\ LET result == Patched(r, "index")
               left == IF result.ok THEN [content EXCEPT !.index = result.file] ELSE content
           IN  /\ content' = left
               /\ Moved(r, [r EXCEPT !.at = "done", !.ok = result.ok,
                                   !.before.index = content.index, !.after.index = left.index])
  BY Zenon DEF ApplyToIndex
<1>2. PICK ok : ok = Patched(r, "index").ok
  OBVIOUS
<1>3. PICK left : left = IF Patched(r, "index").ok
                         THEN [content EXCEPT !["index"] = Patched(r, "index").file] ELSE content
  BY Zenon
<1>4. PICK t : t = [r EXCEPT !.at = "done", !.ok = ok,
                            !.before.index = content.index, !.after.index = left.index]
  OBVIOUS
<1>5. content' = left /\ Moved(r, t)
  BY <1>1, <1>2, <1>3, <1>4, Zenon
<1>6. content \in Contents /\ r \in PartialRuns /\ RunSound(r) /\ HunkTypeOK
  BY <1>1 DEF HunkInv, HunkTypeOK
<1>7. "index" \in Sides
  BY DEF Sides
<1>8. ok \in BOOLEAN
  BY <1>1, <1>2, <1>6, <1>7, PatchedTyped
<1>9. /\ left \in Contents
      /\ Whole(r) /\ All(r) /\ content["index"] = Basis(r) => ok = TRUE /\ left["index"] = Wanted(r)
  BY <1>1, <1>2, <1>3, <1>7, LeftBehind, Zenon
<1>10. PICK before \in Contents, after \in Contents :
         /\ before = [r.before EXCEPT !.index = content.index]
         /\ after = [r.after EXCEPT !.index = left.index]
  <2>1. r.before \in Contents /\ r.after \in Contents
    BY <1>6 DEF PartialRuns
  <2>2. content["index"] \in Seq(FileLines) /\ left["index"] \in Seq(FileLines)
    BY <1>6, <1>7, <1>9 DEF Contents
  <2> QED BY <2>1, <2>2, Zenon DEF Contents
<1>11. /\ before["index"] = content["index"] /\ after["index"] = left["index"]
       /\ before["worktree"] = r.before["worktree"] /\ after["worktree"] = r.after["worktree"]
  <2>1. r.before \in Contents /\ r.after \in Contents
    BY <1>6 DEF PartialRuns
  <2> QED BY <1>10, <2>1 DEF Contents, Sides
<1>12. t = [r EXCEPT !.at = "done", !.ok = ok, !.before = before, !.after = after]
  BY <1>4, <1>6, <1>10 DEF PartialRuns
<1>13. t \in PartialRuns
  BY <1>6, <1>8, <1>10, <1>12, Zenon DEF PartialRuns
<1>14. /\ t.at = "done" /\ t.before = before /\ t.after = after
       /\ t.how = r.how /\ t.script = r.script /\ t.picked = r.picked /\ t.lastRow = r.lastRow
  BY <1>6, <1>12 DEF PartialRuns
<1>15. Wanted(t) = Wanted(r) /\ Basis(t) = Basis(r) /\ (Whole(t) <=> Whole(r)) /\ (All(t) <=> All(r))
  BY <1>14 DEF Wanted, Basis, Whole, All
<1>16. r.how = "historical" /\ SidesOf(t.how) = {"worktree", "index"}
  BY <1>1, <1>6, <1>14 DEF RunSound, SidesOf
<1>17. ASSUME Whole(t), All(t), Stands(t) PROVE Exact(t)
  <2>1. before["worktree"] = Basis(r) /\ before["index"] = Basis(r)
    BY <1>14, <1>15, <1>16, <1>17 DEF Stands, Basis
  <2>2. after["index"] = Wanted(r)
    BY <1>9, <1>11, <1>15, <1>17, <2>1
  <2>3. after["worktree"] = Wanted(r)
    BY <1>1, <1>6, <1>11, <1>15, <1>17, <2>1, Zenon DEF RunSound
  <2> QED BY <1>14, <1>15, <1>16, <2>2, <2>3 DEF Exact
<1>18. RunSound(t)
  BY <1>6, <1>14, <1>17 DEF RunSound
<1>19. content' \in Contents
  BY <1>5, <1>9
<1> QED BY <1>1, <1>5, <1>13, <1>18, <1>19, RunMoved

LEMMA FinishKeeps ==
  ASSUME HunkInv, ApplyFinished
  PROVE  HunkInv'
<1>1. applies' \subseteq applies /\ UNCHANGED content /\ Rest
  BY DEF ApplyFinished
<1>2. UNCHANGED <<diff, reads, diffRequest, hunkView, rows, lastRow, picked, historic, discardAsked,
                  hunkWork>>
  BY <1>1 DEF Rest
<1> QED BY <1>1, <1>2 DEF HunkInv, HunkTypeOK, ChangedRows

LEMMA HunksInductive == HunkInv /\ [HunkNext]_hunkVars => HunkInv'
<1> SUFFICES ASSUME HunkInv, [HunkNext]_hunkVars PROVE HunkInv'
  OBVIOUS
<1>1. CASE HunkEdit \/ OpenDiff \/ DiffReady
  BY <1>1, ReadingDiffs
<1>2. CASE BeginHunks \/ BeginHistoricalHunks \/ CloseHunks \/ Pick \/ AskDiscard
  BY <1>2, ChoosingHunks
<1>3. CASE ApplySelected \/ ApplyHistorical
  BY <1>3, BeginningRuns
<1>4. CASE CheckPatch
  BY <1>4, CheckKeeps
<1>5. CASE ApplyPatch
  BY <1>5, ApplyKeeps
<1>6. CASE ApplyToIndex
  BY <1>6, IndexKeeps
<1>7. CASE ApplyFinished
  BY <1>7, FinishKeeps
<1>8. CASE UNCHANGED hunkVars
  BY <1>8 DEF hunkVars, HunkInv, HunkTypeOK, ChangedRows
<1> QED BY <1>1, <1>2, <1>3, <1>4, <1>5, <1>6, <1>7, <1>8 DEF HunkNext

LEMMA HunksInitially == HunkInit => HunkInv
<1> SUFFICES ASSUME HunkInit PROVE HunkInv
  OBVIOUS
<1>1. content \in Contents
  BY HunkBounds DEF HunkInit, Contents
<1>2. <<>> \in Seq(DiffLines)
  BY EmptySeq, Zenon
<1>3. /\ diff \in [script : Seq(DiffLines), lastRow : Nat, staged : BOOLEAN]
      /\ rows \in Seq(DiffLines) /\ lastRow \in Nat
  BY <1>2 DEF HunkInit, NoDiff
<1>4. hunkWork \in [diffs : Nat, applies : Nat, edits : Nat]
  BY HunkBounds DEF HunkInit
<1> QED BY <1>1, <1>3, <1>4, Zenon DEF HunkInit, HunkInv, HunkTypeOK, ChangedRows

\* The diff, the rows and the contents stay lines of the files: for any files, any
\* contents of the three sides and any diff that is a script of them.
THEOREM HunksAlwaysTyped == HunkSpec => []HunkTypeOK
<1>1. HunkInv => HunkTypeOK
  BY DEF HunkInv
<1> QED BY <1>1, HunksInitially, HunksInductive, PTL DEF HunkSpec

\* Everything selected of a diff that is kept in whole and staged, unstaged, discarded or
\* undone in a commit succeeds and leaves exactly the other side of the diff, on a side that
\* is what the rows say: for files of any length whose lines, all ending in a line feed,
\* repeat in any way, any number of hunks, any context and any other program at work.
THEOREM WholeSelectionsAlwaysExact == HunkSpec => []WholeSelectionExact
<1>1. HunkInv => WholeSelectionExact
  BY DEF HunkInv, RunSound, WholeSelectionExact
<1> QED BY <1>1, HunksInitially, HunksInductive, PTL DEF HunkSpec

-----------------------------------------------------------------------------
(* The form of a custom command.                                           *)

\* The prompts of a form that NewForm accepted.
CanAsk(prompts) ==
  /\ prompts \in Seq(Prompts) /\ prompts # <<>>
  /\ \A i, j \in 1..Len(prompts) : prompts[i].id = prompts[j].id => i = j
  /\ \A i \in 1..Len(prompts) : Chooses(prompts[i]) => prompts[i].options # <<>>

\* The value v is one that the prompt p lets pass.
Passes(p, v) ==
  p.kind # "confirm" => /\ v \in p.accepts /\ (p.required => v # {})
                        /\ Chooses(p) => v \subseteq ToSet(p.options)

HasFields(f) == f \in [of : {f.of}, prompts : {f.prompts}, values : {f.values}, picked : {f.picked},
                       at : {f.at}, input : {f.input}, cursor : {f.cursor}]

AsksFrom(f) ==
  /\ CanAsk(f.prompts)
  /\ f.at \in 1..Len(f.prompts)
  /\ f.values = [id \in IDs(f.prompts) |-> f.values[id]]
  /\ f.cursor \in Nat
  /\ Chooses(f.prompts[f.at]) => f.cursor \in 1..Len(f.prompts[f.at].options)
  /\ \A i \in 1..Len(f.prompts) : i < f.at => Passes(f.prompts[i], f.values[f.prompts[i].id])
NoPrompts(f) == f.prompts = <<>> /\ f.at = 0
FormOK(f) == HasFields(f) /\ (NoPrompts(f) \/ AsksFrom(f))
FormInv == FormOK(form) /\ place \in Places

LEMMA PassedFromForm ==
  ASSUME FormInv
  PROVE  PassedPromptsHold
<1>1. CASE NoPrompts(form)
  <2>1. form.at = 0
    BY <1>1 DEF NoPrompts
  <2> QED BY <2>1 DEF PassedPromptsHold
<1>2. CASE AsksFrom(form)
  <2>1. PICK n \in Nat : n = Len(form.prompts)
    BY <1>2, LenProperties DEF AsksFrom, CanAsk
  <2>2. ASSUME NEW i \in 1..(form.at - 1)
        PROVE  Passes(form.prompts[i], form.values[form.prompts[i].id])
    <3>1. i \in 1..n /\ i < form.at
      BY <1>2, <2>1 DEF AsksFrom
    <3> QED BY <1>2, <2>1, <3>1 DEF AsksFrom
  <2> QED BY <2>2 DEF PassedPromptsHold, Passes
<1> QED BY <1>1, <1>2 DEF FormInv, FormOK

LEMMA IDsDistinct ==
  ASSUME NEW prompts \in Seq(Prompts), Cardinality(IDs(prompts)) = Len(prompts),
         NEW i \in 1..Len(prompts), NEW j \in 1..Len(prompts), prompts[i].id = prompts[j].id
  PROVE  i = j
<1>1. PICK n \in Nat : n = Len(prompts) /\ DOMAIN prompts = 1..n
  BY LenProperties
<1>2. PICK f : f = [k \in 1..n |-> prompts[k].id]
  BY Zenon
<1>3. IDs(prompts) = {prompts[k].id : k \in 1..n}
  BY <1>1 DEF IDs
<1>4. f \in Surjection(1..n, IDs(prompts))
  <2>1. f \in [1..n -> IDs(prompts)]
    BY <1>2, <1>3
  <2>2. \A t \in IDs(prompts) : \E s \in 1..n : f[s] = t
    BY <1>2, <1>3
  <2> QED BY <2>1, <2>2 DEF Surjection
<1>5. IsFiniteSet(1..n) /\ Cardinality(1..n) = n
  <2>1. 1 \in Int /\ n \in Int /\ (IF 1 > n THEN 0 ELSE n - 1 + 1) = n
    OBVIOUS
  <2> QED BY <2>1, FS_Interval
<1>6. f \in Injection(1..n, IDs(prompts))
  BY <1>1, <1>4, <1>5, FS_SurjSameCardinalityImpliesInj
<1>7. f[i] = f[j] /\ i \in 1..n /\ j \in 1..n
  BY <1>1, <1>2
<1> QED BY <1>6, <1>7 DEF Injection, IsInjective

\* Unique, step by step.
Seen(f, words, i) == IF words[i] \in ToSet(f[i - 1]) THEN f[i - 1] ELSE More(f[i - 1], words[i])

LEMMA UniqueTyped ==
  ASSUME NEW S, NEW words \in Seq(S)
  PROVE  Unique(words) \in Seq(S)
<1>1. PICK n \in Nat : n = Len(words) /\ \A i \in 1..n : words[i] \in S
  BY LenProperties
<1> DEFINE Sees(f, m) == /\ f = [i \in 0..m |-> f[i]] /\ f[0] = <<>>
                         /\ \A i \in 1..m : f[i] = Seen(f, words, i)
           T == {m \in 0..n : \E f : Sees(f, m)}
<1>2. 0 \in T
  <2>1. PICK f : f = [i \in 0..0 |-> <<>>]
    BY Zenon
  <2>2. Sees(f, 0)
    BY <2>1
  <2> QED BY <2>2
<1>3. ASSUME NEW m \in 1..n, m - 1 \in T PROVE m \in T
  <2>1. PICK f : Sees(f, m - 1)
    BY <1>3
  <2>2. PICK g : g = [i \in 0..m |-> IF i = m THEN Seen(f, words, m) ELSE f[i]]
    BY Zenon
  <2>3. /\ \A i \in 0..(m - 1) : g[i] = f[i]
        /\ g[m] = Seen(f, words, m)
    BY <2>2, SMTT(60)
  <2>4. \A i \in 1..m : /\ i - 1 \in 0..(m - 1)
                        /\ i = m \/ (i \in 1..(m - 1) /\ i \in 0..(m - 1))
    OBVIOUS
  <2>5. \A i \in 1..m : g[i] = Seen(g, words, i)
    BY <2>1, <2>3, <2>4, Zenon DEF Seen
  <2>6. g = [i \in 0..m |-> g[i]] /\ g[0] = <<>>
    BY <2>1, <2>2, <2>3
  <2>7. Sees(g, m)
    BY <2>5, <2>6
  <2> HIDE DEF Sees
  <2> QED BY <2>7
<1>4. PICK f : Sees(f, n)
  <2>1. n \in 0..n
    BY <1>1
  <2>2. n \in T
    <3> HIDE DEF T
    <3> QED BY <1>1, <1>2, <1>3, <2>1, Climb, Zenon
  <2> QED BY <2>2
<1> DEFINE Is(g) == g = [i \in 0..n |-> IF i = 0 THEN <<>>
                                        ELSE IF words[i] \in ToSet(g[i - 1]) THEN g[i - 1]
                                        ELSE Append(g[i - 1], words[i])]
<1>5. Is(f)
  <2>1. \A i \in 0..n : f[i] = IF i = 0 THEN <<>>
                               ELSE IF words[i] \in ToSet(f[i - 1]) THEN f[i - 1]
                               ELSE Append(f[i - 1], words[i])
    <3>1. f[0] = <<>> /\ \A i \in 1..n : f[i] = Seen(f, words, i)
      BY <1>4, Zenon
    <3>2. \A i \in 0..n : i = 0 \/ (i # 0 /\ i \in 1..n)
      OBVIOUS
    <3> QED BY <3>1, <3>2, Zenon DEF Seen, More
  <2> QED BY <1>4, <2>1, Zenon
<1>6. PICK g : g = CHOOSE h : Is(h)
  OBVIOUS
<1>7. Is(g)
  BY <1>5, <1>6, Zenon
<1>8. Unique(words) = g[n]
  BY <1>1, <1>6 DEF Unique
<1>9. g[0] = <<>> /\ \A i \in 1..n : g[i] = Seen(g, words, i)
  <2>1. \A i \in 0..n : g[i] = IF i = 0 THEN <<>>
                               ELSE IF words[i] \in ToSet(g[i - 1]) THEN g[i - 1]
                               ELSE Append(g[i - 1], words[i])
    BY <1>7, Zenon
  <2>2. 0 \in 0..n /\ \A i \in 1..n : i \in 0..n /\ i # 0
    BY <1>1
  <2> HIDE DEF Is
  <2> QED BY <2>1, <2>2 DEF Seen, More
<1> HIDE DEF Is
<1> DEFINE U == {i \in 0..n : g[i] \in Seq(S)}
<1>10. 0 \in U
  <2>1. g[0] \in Seq(S)
    BY <1>9, EmptySeq, Zenon
  <2> QED BY <1>1, <2>1
<1>11. ASSUME NEW i \in 1..n, i - 1 \in U PROVE i \in U
  <2>1. g[i - 1] \in Seq(S) /\ words[i] \in S
    BY <1>1, <1>11
  <2>2. More(g[i - 1], words[i]) \in Seq(S)
    BY <2>1, MoreFacts, Zenon
  <2>3. g[i] \in Seq(S)
    BY <1>9, <2>1, <2>2 DEF Seen
  <2> QED BY <2>3
<1>12. \A i \in 0..n : i \in U
  <2> HIDE DEF U
  <2> QED BY <1>1, <1>10, <1>11, Climb, Zenon
<1>13. n \in U
  BY <1>1, <1>12
<1> QED BY <1>8, <1>13

\* What is assumed of a prompt of the configuration: its list is loaded.
Sourced(p) == p.source = "none" \/ (p.source \in DOMAIN place.lists /\ place.lists[p.source] \in Seq(STRING))

LEMMA OptionsReplaced ==
  ASSUME NEW I, NEW K, NEW R, NEW O, NEW S, NEW D, NEW A, NEW o \in O,
         NEW p \in [id : I, kind : K, required : R, options : O, source : S, default : D, accepts : A]
  PROVE  [p EXCEPT !.options = o]
           \in [id : I, kind : K, required : R, options : O, source : S, default : D, accepts : A]
OBVIOUS

LEMMA ResolvedTyped ==
  ASSUME NEW p \in Prompts, Sourced(p)
  PROVE  Resolved(p) \in Prompts
<1>1. CASE p.source = "none"
  BY <1>1 DEF Resolved
<1>2. CASE p.source # "none"
  <2>1. PICK own \in Seq(STRING), list \in Seq(STRING) : own = p.options /\ list = place.lists[p.source]
    BY <1>2 DEF Sourced, Prompts
  <2>2. PICK words : words = own \o list
    BY Zenon
  <2>3. words \in Seq(STRING)
    BY <2>2, ConcatProperties
  <2>4. PICK options \in Seq(STRING) : options = Unique(words)
    BY <2>3, UniqueTyped
  <2>5. Resolved(p) = [p EXCEPT !.options = options]
    BY <1>2, <2>1, <2>2, <2>4 DEF Resolved
  <2>6. [p EXCEPT !.options = options] \in Prompts
    BY OptionsReplaced, Zenon DEF Prompts
  <2> QED BY <2>5, <2>6, Zenon
<1> QED BY <1>1, <1>2

LEMMA ResolvedAsk ==
  ASSUME NEW prompts \in Seq(Prompts), \A i \in 1..Len(prompts) : Sourced(prompts[i]), Resolvable(prompts)
  PROVE  CanAsk([i \in DOMAIN prompts |-> Resolved(prompts[i])])
<1>1. PICK n \in Nat : n = Len(prompts) /\ DOMAIN prompts = 1..n /\ \A i \in 1..n : prompts[i] \in Prompts
  BY LenProperties
<1>2. PICK r : r = [i \in DOMAIN prompts |-> Resolved(prompts[i])]
  BY Zenon
<1>3. \A i \in 1..n : r[i] = Resolved(prompts[i]) /\ r[i] \in Prompts
  BY <1>1, <1>2, ResolvedTyped
<1>4. r \in [1..n -> Prompts]
  BY <1>1, <1>2, <1>3
<1>5. r \in Seq(Prompts) /\ Len(r) = n
  <2>1. r \in Seq(Prompts)
    BY <1>4, Listed
  <2>2. DOMAIN r = 1..n
    BY <1>4
  <2> QED BY <2>1, <2>2, LenProperties
<1>6. /\ FormValid(r)
      /\ \A i \in 1..n : prompts[i].source # "none" => r[i].options # <<>>
  BY <1>1, <1>2, Zenon DEF Resolvable
<1>7. r # <<>> /\ (\A i \in 1..n : PromptValid(r[i])) /\ Cardinality(IDs(r)) = Len(r)
  <2>1. DOMAIN r = 1..n
    BY <1>4
  <2> QED BY <1>6, <2>1, Zenon DEF FormValid
<1>8. ASSUME NEW i \in 1..n, Chooses(r[i]) PROVE r[i].options # <<>>
  <2>1. CASE prompts[i].source # "none"
    BY <1>6, <2>1
  <2>2. CASE prompts[i].source = "none"
    <3>1. r[i].source = "none"
      BY <1>3, <2>2 DEF Resolved
    <3>2. PromptValid(r[i])
      BY <1>7
    <3> QED BY <1>8, <3>1, <3>2, Zenon DEF PromptValid
  <2> QED BY <2>1, <2>2
<1>9. \A i, j \in 1..n : r[i].id = r[j].id => i = j
  BY <1>5, <1>7, IDsDistinct
<1>10. CanAsk(r)
  BY <1>5, <1>7, <1>8, <1>9 DEF CanAsk
<1> QED BY <1>2, <1>10

LEMMA PromptMade ==
  ASSUME NEW I, NEW i \in I, NEW K, NEW k \in K, NEW R, NEW r \in R, NEW O, NEW o \in O,
         NEW S, NEW s \in S, NEW D, NEW d \in D, NEW A, NEW a \in A
  PROVE  [id |-> i, kind |-> k, required |-> r, options |-> o, source |-> s, default |-> d, accepts |-> a]
           \in [id : I, kind : K, required : R, options : O, source : S, default : D, accepts : A]
OBVIOUS

LEMMA ConfirmAsks == CanAsk(<<ConfirmPrompt>>)
<1>1. ConfirmPrompt \in Prompts /\ ~Chooses(ConfirmPrompt)
  <2>1. <<>> \in Seq(STRING) /\ {{}} \in SUBSET SUBSET STRING /\ {} \in SUBSET STRING
    BY EmptySeq, Zenon
  <2>2. PICK none, all : none = <<>> /\ all = {{}}
    BY Zenon
  <2>3. ConfirmPrompt = [id |-> ConfirmID, kind |-> "confirm", required |-> FALSE, options |-> none,
                         source |-> "none", default |-> {}, accepts |-> all]
    BY <2>2, Zenon DEF ConfirmPrompt
  <2>4. ConfirmPrompt \in Prompts
    <3>1. none \in Seq(STRING) /\ all \in SUBSET SUBSET STRING
      BY <2>1, <2>2, Zenon
    <3>2. /\ ConfirmID \in STRING \cup {ConfirmID} /\ "confirm" \in PromptKinds
          /\ "none" \in STRING \cup {"none"} /\ FALSE \in BOOLEAN
      BY DEF PromptKinds
    <3> QED BY <2>1, <2>3, <3>1, <3>2, PromptMade, Zenon DEF Prompts
  <2>5. ~Chooses(ConfirmPrompt)
    BY <2>3 DEF Chooses
  <2> QED BY <2>4, <2>5
<1>2. PICK p \in Prompts : p = ConfirmPrompt
  BY <1>1
<1>3. PICK s : s = <<p>>
  BY Zenon
<1>4. s \in Seq(Prompts) /\ Len(s) = 1 /\ s[1] = p /\ s # <<>>
  BY <1>3
<1>5. CanAsk(s)
  BY <1>1, <1>2, <1>4 DEF CanAsk
<1> QED BY <1>2, <1>3, <1>5

LEMMA FirstPlace ==
  ASSUME NEW options \in Seq(STRING), NEW value
  PROVE  /\ FirstIn(options, value) \in Nat
         /\ options # <<>> => FirstIn(options, value) \in 1..Len(options)
<1>1. PICK n \in Nat : n = Len(options) /\ DOMAIN options = 1..n /\ (options # <<>> => n # 0)
  BY LenProperties, EmptySeq
<1>2. CASE \E i \in DOMAIN options : {options[i]} = value
  <2>1. FirstIn(options, value) \in DOMAIN options
    BY <1>2, Zenon DEF FirstIn
  <2> QED BY <1>1, <2>1
<1>3. CASE ~(\E i \in DOMAIN options : {options[i]} = value)
  <2>1. FirstIn(options, value) = 1
    BY <1>3, Zenon DEF FirstIn
  <2> QED BY <1>1, <2>1
<1> QED BY <1>2, <1>3

LEMMA PromptLoaded ==
  ASSUME NEW f, HasFields(f), CanAsk(f.prompts), NEW i \in 1..Len(f.prompts),
         f.values = [id \in IDs(f.prompts) |-> f.values[id]],
         \A j \in 1..Len(f.prompts) : j < i => Passes(f.prompts[j], f.values[f.prompts[j].id])
  PROVE  FormOK(LoadPrompt(f, i))
<1>1. PICK c : c = FirstIn(f.prompts[i].options, f.values[f.prompts[i].id])
  BY Zenon
<1>2. PICK v : v = f.values[f.prompts[i].id]
  BY Zenon
<1>3. PICK g : g = LoadPrompt(f, i)
  BY Zenon
<1>4. g = [f EXCEPT !.at = i, !.input = v, !.cursor = c]
  BY <1>1, <1>2, <1>3, Zenon DEF LoadPrompt
<1>5. HasFields(g) /\ g.prompts = f.prompts /\ g.values = f.values /\ g.at = i /\ g.cursor = c
  BY <1>4 DEF HasFields
<1>6. f.prompts[i].options \in Seq(STRING) /\ (Chooses(f.prompts[i]) => f.prompts[i].options # <<>>)
  <2>1. PICK p : p = f.prompts[i]
    BY Zenon
  <2>2. p \in Prompts
    BY <2>1, LenProperties DEF CanAsk
  <2> QED BY <2>1, <2>2 DEF CanAsk, Prompts
<1>7. c \in Nat /\ (Chooses(f.prompts[i]) => c \in 1..Len(f.prompts[i].options))
  BY <1>1, <1>6, FirstPlace
<1>8. AsksFrom(g)
  BY <1>5, <1>7 DEF AsksFrom
<1> QED BY <1>3, <1>5, <1>8 DEF FormOK

LEMMA FormMade ==
  ASSUME NEW name, NEW prompts, CanAsk(prompts)
  PROVE  FormOK(FormFor(name, prompts))
<1>1. PICK d : d = [id \in IDs(prompts) |-> (CHOOSE p \in ToSet(prompts) : p.id = id).default]
  BY Zenon
<1>2. PICK f : f = [NoForm EXCEPT !.of = name, !.prompts = prompts, !.values = d, !.picked = d]
  BY Zenon
<1>3. FormFor(name, prompts) = LoadPrompt(f, 1)
  BY <1>1, <1>2, Zenon DEF FormFor
<1>4. HasFields(f) /\ f.prompts = prompts /\ f.values = d
  BY <1>2 DEF HasFields, NoForm
<1>5. d = [id \in IDs(prompts) |-> d[id]]
  BY <1>1
<1>6. 1 \in 1..Len(prompts)
  BY LenProperties, EmptySeq DEF CanAsk
<1>7. \A j \in 1..Len(prompts) : ~(j < 1)
  OBVIOUS
<1> QED BY <1>3, <1>4, <1>5, <1>6, <1>7, PromptLoaded

LEMMA NoFormOK == FormOK(NoForm)
BY DEF FormOK, HasFields, NoPrompts, NoForm

LEMMA RunKeepsForm ==
  ASSUME NEW name, NEW k, RunCustomCommand(name, k)
  PROVE  FormOK(form')
<1>1. form' = NoForm \/ form' = FormFor(name, <<ConfirmPrompt>>)
  BY Zenon DEF RunCustomCommand, Refuse, AskToConfirm, StartProcess
<1>2. FormOK(FormFor(name, <<ConfirmPrompt>>))
  BY ConfirmAsks, FormMade
<1> QED BY <1>1, <1>2, NoFormOK

LEMMA ChooseKeepsForm ==
  ASSUME FormInv, NEW name \in DOMAIN Commands, ChooseCommand(name)
  PROVE  FormOK(form')
<1>1. CASE RunCustomCommand(name, kept)
  BY <1>1, RunKeepsForm
<1>2. CASE AskFirst(name)
  <2>1. PICK prompts : prompts = Commands[name].prompts
    BY Zenon
  <2>2. Resolvable(prompts) /\ form' = FormFor(name, [i \in DOMAIN prompts |-> Resolved(prompts[i])])
    BY <1>2, <2>1, Zenon DEF AskFirst
  <2>3. prompts \in Seq(Prompts)
    BY <2>1, CommandBounds
  <2>4. ASSUME NEW i \in 1..Len(prompts) PROVE Sourced(prompts[i])
    <3>1. PICK p : p = prompts[i]
      BY Zenon
    <3>2. p \in ToSet(prompts)
      BY <2>3, <3>1, LenProperties DEF ToSet
    <3>3. p.source = "none" \/ p.source \in DOMAIN place.lists
      BY <2>1, <3>2, CommandBounds DEF FormInv
    <3>4. \A source \in DOMAIN place.lists : place.lists[source] \in Seq(STRING)
      BY CommandBounds DEF FormInv
    <3> QED BY <3>1, <3>3, <3>4 DEF Sourced
  <2> QED BY <2>2, <2>3, <2>4, ResolvedAsk, FormMade
<1> QED BY <1>1, <1>2 DEF ChooseCommand

\* A key that moves no further than the prompt it is at.
LEMMA SameQuestions ==
  ASSUME FormOK(form), NEW g, HasFields(g), g.prompts = form.prompts, g.values = form.values,
         g.at = form.at,
         g.cursor = form.cursor \/ (AsksFrom(form) => g.cursor \in 1..Len(Prompt.options))
  PROVE  FormOK(g)
<1>1. CASE NoPrompts(form)
  BY <1>1 DEF FormOK, NoPrompts
<1>2. CASE AsksFrom(form)
  <2>1. Prompt.options \in Seq(STRING)
    <3>1. PICK p : p = Prompt
      BY Zenon
    <3>2. p \in Prompts
      BY <1>2, <3>1, LenProperties DEF AsksFrom, CanAsk, Prompt
    <3> QED BY <3>1, <3>2 DEF Prompts
  <2>2. /\ g.cursor \in Nat
        /\ Chooses(g.prompts[g.at]) => g.cursor \in 1..Len(g.prompts[g.at].options)
    BY <1>2, <2>1, LenProperties DEF AsksFrom, Prompt
  <2>3. AsksFrom(g)
    BY <1>2, <2>2 DEF AsksFrom
  <2> QED BY <2>3 DEF FormOK
<1> QED BY <1>1, <1>2 DEF FormOK

LEMMA AsksWhen ==
  ASSUME FormOK(form), NEW kinds, InForm(kinds)
  PROVE  AsksFrom(form)
BY DEF FormOK, NoPrompts, InForm

LEMMA AdvanceKeepsForm ==
  ASSUME FormOK(form), AsksFrom(form), NEW value, Passes(Prompt, value), AdvanceForm(value)
  PROVE  FormOK(form')
<1>1. PICK id : id = Prompt.id
  BY Zenon
<1>2. PICK values : values = [form.values EXCEPT ![id] = value]
  BY Zenon
<1>3. PICK f : f = [form EXCEPT !.input = value, !.values = values]
  BY Zenon
<1>4. IF form.at < Len(form.prompts) THEN form' = LoadPrompt(f, form.at + 1)
      ELSE RunCustomCommand(form.of, f.values)
  <2>1. HasFields(form)
    BY DEF FormOK
  <2>2. [form EXCEPT !.input = value, !.values[Prompt.id] = value] = f
    BY <1>1, <1>2, <1>3, <2>1 DEF HasFields
  <2> QED BY <2>2, Zenon DEF AdvanceForm
<1>5. CASE form.at < Len(form.prompts)
  <2>1. PICK n \in Nat : n = Len(form.prompts)
    BY LenProperties DEF AsksFrom, CanAsk
  <2>2. PICK at \in 1..n : at = form.at
    BY <2>1 DEF AsksFrom
  <2>3. HasFields(f) /\ f.prompts = form.prompts /\ f.values = values
    BY <1>3 DEF FormOK, HasFields
  <2>4. \A i \in 1..n : form.prompts[i].id \in IDs(form.prompts)
    BY <2>1, LenProperties DEF AsksFrom, CanAsk, IDs
  <2>5. id \in IDs(form.prompts)
    BY <1>1, <2>2, <2>4 DEF Prompt
  <2>6. /\ values = [x \in IDs(form.prompts) |-> values[x]] /\ values[id] = value
        /\ \A x \in IDs(form.prompts) : x # id => values[x] = form.values[x]
    BY <1>2, <2>5 DEF AsksFrom
  <2>7. ASSUME NEW i \in 1..n, i < at + 1 PROVE Passes(form.prompts[i], values[form.prompts[i].id])
    <3>1. CASE i = at
      BY <1>1, <2>2, <2>6, <3>1 DEF Prompt
    <3>2. CASE i # at
      <4>1. i < at
        BY <2>7, <3>2
      <4>2. form.prompts[i].id # id
        BY <1>1, <2>1, <2>2, <3>2 DEF AsksFrom, CanAsk, Prompt
      <4>3. Passes(form.prompts[i], form.values[form.prompts[i].id])
        BY <2>1, <2>2, <4>1 DEF AsksFrom
      <4> QED BY <2>4, <2>6, <4>2, <4>3
    <3> QED BY <3>1, <3>2
  <2>8. at + 1 \in 1..Len(f.prompts) /\ CanAsk(f.prompts)
    BY <1>5, <2>1, <2>2, <2>3 DEF AsksFrom
  <2>9. FormOK(LoadPrompt(f, at + 1))
    BY <2>1, <2>3, <2>6, <2>7, <2>8, PromptLoaded
  <2> QED BY <1>4, <1>5, <2>2, <2>9
<1>6. CASE ~(form.at < Len(form.prompts))
  BY <1>4, <1>6, RunKeepsForm
<1> QED BY <1>5, <1>6

LEMMA EnterKeepsForm ==
  ASSUME FormOK(form), Enter
  PROVE  FormOK(form')
<1>1. AsksFrom(form) /\ Prompt.kind \in {"text", "secret", "select", "multi"}
  BY AsksWhen DEF Enter, InForm
<1>2. PICK value : value = Entered
  BY Zenon
<1>3. CASE Accepts(Prompt, Entered)
  <2>1. value \in Prompt.accepts /\ (Prompt.required => value # {})
    BY <1>2, <1>3 DEF Accepts
  <2>2. ASSUME Chooses(Prompt) PROVE value \subseteq ToSet(Prompt.options)
    <3>1. CASE Prompt.kind = "select"
      <4>1. form.cursor \in 1..Len(Prompt.options)
        BY <1>1, <2>2 DEF AsksFrom, Prompt
      <4>2. PICK p : p = Prompt
        BY Zenon
      <4>3. p \in Prompts
        BY <1>1, <4>2, LenProperties DEF AsksFrom, CanAsk, Prompt
      <4>4. p.options \in Seq(STRING)
        BY <4>3 DEF Prompts
      <4>5. Prompt.options[form.cursor] \in ToSet(Prompt.options)
        BY <4>1, <4>2, <4>4, LenProperties DEF ToSet
      <4>6. value = {Prompt.options[form.cursor]}
        BY <1>2, <3>1 DEF Entered
      <4> QED BY <4>5, <4>6
    <3>2. CASE Prompt.kind = "multi"
      <4>1. value = form.picked[Prompt.id] \cap ToSet(Prompt.options)
        BY <1>2, <3>2 DEF Entered
      <4> QED BY <4>1
    <3> QED BY <2>2, <3>1, <3>2 DEF Chooses
  <2>3. Passes(Prompt, value) /\ AdvanceForm(value)
    BY <1>2, <1>3, <2>1, <2>2 DEF Passes, Enter
  <2> QED BY <1>1, <2>3, AdvanceKeepsForm
<1>4. CASE ~Accepts(Prompt, Entered)
  <2>1. PICK g : g = [form EXCEPT !.input = value]
    BY Zenon
  <2>2. form' = g
    BY <1>2, <1>4, <2>1 DEF Enter, Edit
  <2>3. /\ HasFields(g) /\ g.prompts = form.prompts /\ g.values = form.values
        /\ g.at = form.at /\ g.cursor = form.cursor
    BY <2>1 DEF FormOK, HasFields
  <2> QED BY <2>2, <2>3, SameQuestions
<1> QED BY <1>3, <1>4

LEMMA FormInductive ==
  ASSUME FormInv, [CommandNext]_commandVars
  PROVE  FormInv'
<1>1. FormOK(form) /\ place \in Places
  BY DEF FormInv
<1>2. CASE UNCHANGED commandVars
  BY <1>1, <1>2 DEF FormInv, commandVars, FormOK, HasFields, NoPrompts, AsksFrom
<1>3. ASSUME NEW name \in DOMAIN Commands, ChooseCommand(name) PROVE FormInv'
  <2>1. FormOK(form')
    BY <1>3, ChooseKeepsForm
  <2> QED BY <1>1, <1>3, <2>1 DEF FormInv, ChooseCommand
<1>4. ASSUME NEW v, Type(v) PROVE FormInv'
  <2>1. PICK g : g = [form EXCEPT !.input = v]
    BY Zenon
  <2>2. form' = g /\ place' = place
    BY <1>4, <2>1 DEF Type, Edit
  <2>3. /\ HasFields(g) /\ g.prompts = form.prompts /\ g.values = form.values
        /\ g.at = form.at /\ g.cursor = form.cursor
    BY <1>1, <2>1 DEF FormOK, HasFields
  <2>4. FormOK(g)
    BY <1>1, <2>3, SameQuestions
  <2> QED BY <1>1, <2>2, <2>4 DEF FormInv
<1>5. CASE MoveField
  <2>1. PICK i \in DOMAIN Prompt.options : Edit([form EXCEPT !.cursor = i])
    BY <1>5 DEF MoveField
  <2>2. PICK g : g = [form EXCEPT !.cursor = i]
    BY Zenon
  <2>3. form' = g /\ place' = place
    BY <2>1, <2>2 DEF Edit
  <2>4. /\ HasFields(g) /\ g.prompts = form.prompts /\ g.values = form.values
        /\ g.at = form.at /\ g.cursor = i
    BY <1>1, <2>2 DEF FormOK, HasFields
  <2>5. ASSUME AsksFrom(form) PROVE i \in 1..Len(Prompt.options)
    <3>1. PICK p : p = Prompt
      BY Zenon
    <3>2. p \in Prompts
      BY <2>5, <3>1, LenProperties DEF AsksFrom, CanAsk, Prompt
    <3>3. p.options \in Seq(STRING)
      BY <3>2 DEF Prompts
    <3> QED BY <3>1, <3>3, LenProperties
  <2>6. FormOK(g)
    BY <1>1, <2>4, <2>5, SameQuestions
  <2> QED BY <1>1, <2>3, <2>6 DEF FormInv
<1>6. CASE Space
  <2>1. PICK id, word : Edit(TogglePick(id, word))
    BY <1>6 DEF Space
  <2>2. PICK g : g = TogglePick(id, word)
    BY Zenon
  <2>3. form' = g /\ place' = place
    BY <2>1, <2>2 DEF Edit
  <2>4. /\ HasFields(g) /\ g.prompts = form.prompts /\ g.values = form.values
        /\ g.at = form.at /\ g.cursor = form.cursor
    BY <1>1, <2>2 DEF FormOK, HasFields, TogglePick
  <2>5. FormOK(g)
    BY <1>1, <2>4, SameQuestions
  <2> QED BY <1>1, <2>3, <2>5 DEF FormInv
<1>7. CASE Enter
  <2>1. place' = place
    BY <1>7 DEF Enter, AdvanceForm, Edit
  <2> QED BY <1>1, <1>7, <2>1, EnterKeepsForm DEF FormInv
<1>8. CASE SayYes
  <2>1. AsksFrom(form) /\ Prompt.kind = "confirm" /\ AdvanceForm({"true"})
    BY <1>1, <1>8, AsksWhen DEF SayYes, InForm
  <2>2. Passes(Prompt, {"true"})
    BY <2>1 DEF Passes
  <2>3. FormOK(form')
    BY <1>1, <2>1, <2>2, AdvanceKeepsForm
  <2>4. place' = place
    BY <2>1 DEF AdvanceForm
  <2> QED BY <1>1, <2>3, <2>4 DEF FormInv
<1>9. CASE LeaveForm
  BY <1>1, <1>9, NoFormOK DEF FormInv, LeaveForm
<1>10. ASSUME NEW p, NEW output, EndProcess(p, output) PROVE FormInv'
  BY <1>1, <1>10 DEF FormInv, EndProcess
<1>11. ASSUME NEW there \in Places, MoveAbout(there) PROVE FormInv'
  BY <1>1, <1>11 DEF FormInv, MoveAbout
<1> QED BY <1>2, <1>3, <1>4, <1>5, <1>6, <1>7, <1>8, <1>9, <1>10, <1>11 DEF CommandNext

\* In the form of a custom command a prompt that was passed keeps an answer that it accepts,
\* one of the words it offered, whatever lists were loaded and however the configuration
\* describes its prompts (form.go: Handle, advance).
THEOREM PassedPromptsAlwaysHold == CommandSpec => []PassedPromptsHold
<1>1. CommandInit => FormInv
  BY NoFormOK DEF CommandInit, FormInv
<1>2. FormInv => PassedPromptsHold
  BY PassedFromForm
<1> QED BY <1>1, <1>2, FormInductive, PTL DEF CommandSpec
=============================================================================
