----------------------------- MODULE PluginRuntime -----------------------------
(***************************************************************************)
(* Plugins (internal/plugins, pkg/plugin): the workspace discovers them,   *)
(* applies the switches kept in a file and asks each enabled one, a        *)
(* process of its own, for what it contributes, in one handshake.  A       *)
(* manifest and an answer are what the host tells apart: the versions, the *)
(* capabilities and what each contribution needs; plugins are told apart   *)
(* by their id, and limits on texts and lines are part of an answer being  *)
(* well formed or not.                                                     *)
(***************************************************************************)
EXTENDS Integers, FiniteSets, Sequences, TLC

CONSTANTS PluginOrder,  \* the plugins in the directories, in the order they are found
          Supported,    \* DefaultCapabilities
          Manifests,    \* manifests a plugin may have: version, capabilities it wants
          Replies,      \* what a plugin may answer: accepted, version, capabilities,
                        \* and what it contributes
          PluginWork    \* how much a behaviour may do

Needs(kind) ==  \* filterContributions, of the host's schema
    CASE kind = "table" -> {"table"} [] kind = "metadata" -> {"metadata"}
      [] kind = "action" -> {"metadata", "action"} [] OTHER -> {"none"}

ASSUME PluginBounds ==
    /\ PluginOrder \in Seq(STRING) /\ IsFiniteSet(Supported)
    /\ Manifests \subseteq [valid : BOOLEAN, api : {1, 2}, wants : SUBSET STRING]
    /\ Replies \subseteq [failed : BOOLEAN, accepted : BOOLEAN, api : Nat,
                          grants : SUBSET STRING, sends : SUBSET STRING]
    /\ PluginWork \subseteq [loads : Nat, toggles : Nat, outside : Nat]

VARIABLES manifests,   \* the manifest files
          switches,    \* the state file: whether a plugin it names is enabled
          inFlight,    \* m.pluginLoadInFlight
          pluginLoads, \* loads under way
          shown,       \* m.Plugins.Entries
          saves,       \* state files being written
          opened,      \* repositories opened so far, whose contexts loads run under
          pluginWork   \* what is left of one element of PluginWork

pluginVars == <<manifests, switches, inFlight, pluginLoads, shown, saves, opened, pluginWork>>

Plugins == {PluginOrder[i] : i \in DOMAIN PluginOrder}
NoEntries == [p \in {} |-> 0]
Discovered(p) == [manifest |-> manifests[p], enabled |-> TRUE, healthy |-> manifests[p].valid,
                  granted |-> {}, offers |-> {}]

PluginTypeOK ==
    /\ manifests \in [Plugins -> Manifests] /\ DOMAIN switches \subseteq Plugins
    /\ {inFlight} \cup {switches[p] : p \in DOMAIN switches} \subseteq BOOLEAN
    /\ \A l \in pluginLoads : l.next \in 0..(Len(PluginOrder) + 1) /\ l.session <= opened
    /\ DOMAIN shown \subseteq Plugins
    /\ \A p \in DOMAIN shown : shown[p].enabled \in BOOLEAN /\ shown[p].healthy \in BOOLEAN
    /\ pluginWork \in [loads : Nat, toggles : Nat, outside : Nat]

PluginInit ==
    /\ manifests \in [Plugins -> Manifests]
    /\ switches = NoEntries /\ inFlight = FALSE /\ pluginLoads = {}
    /\ shown = NoEntries /\ saves = {} /\ opened = 1
    /\ pluginWork \in PluginWork

PluginSpends(what) == pluginWork[what] > 0 /\ pluginWork' = [pluginWork EXCEPT ![what] = @ - 1]

-----------------------------------------------------------------------------
(* loadPlugins; a load while one is under way is not started.               *)
FaultyMayLoad == TRUE
MayLoad == ~inFlight
LoadPlugins ==
    /\ PluginSpends("loads")
    /\ IF MayLoad
         THEN /\ inFlight' = TRUE
              /\ pluginLoads' = pluginLoads \cup
                   {[id |-> pluginWork.loads, session |-> opened, next |-> 0, entries |-> NoEntries, asking |-> FALSE]}
         ELSE UNCHANGED <<inFlight, pluginLoads>>
    /\ UNCHANGED <<manifests, switches, shown, saves, opened>>
Loading(l, next) == /\ pluginLoads' = (pluginLoads \ {l}) \cup {next}
                    /\ UNCHANGED <<manifests, switches, inFlight, shown, saves, opened, pluginWork>>

(* Discover finds every plugin enabled, LoadState and ApplyState say which  *)
(* ones are not.                                                            *)
Discover ==
    \E l \in pluginLoads :
      /\ l.next = 0 /\ DOMAIN l.entries # Plugins /\ l.session = opened
      /\ Loading(l, [l EXCEPT !.entries = [p \in Plugins |-> Discovered(p)]])
ApplyState ==
    \E l \in pluginLoads :
      /\ l.next = 0 /\ DOMAIN l.entries = Plugins
      /\ Loading(l, [l EXCEPT !.next = 1,
                       !.entries = [p \in Plugins |-> [l.entries[p] EXCEPT
                          !.enabled = IF p \in DOMAIN switches THEN switches[p] ELSE @]]])

(* Probe.  Of a disabled or a broken plugin nothing is asked.  Handshake    *)
(* offers what both want and support; a plugin that claims more, answers a  *)
(* version not offered, refuses or fails is not healthy.                    *)
Offered(entry) == entry.manifest.wants \cap Supported
Versions(entry) == IF entry.manifest.api = 2 THEN {1, 2} ELSE {1}
Agrees(entry, r) == ~r.failed /\ r.accepted /\ r.api \in Versions(entry) /\ r.grants \subseteq Offered(entry)
Valid(kind) == kind # "malformed"
DecodeContributions(sends) == {k \in sends : Valid(k)}
Filtered(sends, granted) == {k \in sends : Needs(k) \subseteq granted}
Probed(entry, r) ==
    IF Agrees(entry, r)
      THEN [entry EXCEPT !.granted = r.grants, !.offers = Filtered(DecodeContributions(r.sends), r.grants)]
      ELSE [entry EXCEPT !.healthy = FALSE, !.granted = {}, !.offers = {}]
Probing(l) == PluginOrder[l.next]
Asks(entry) == entry.enabled /\ entry.healthy
StartProbe ==
    \E l \in pluginLoads :
      /\ l.next \in DOMAIN PluginOrder /\ ~l.asking
      /\ Loading(l, IF Asks(l.entries[Probing(l)]) THEN [l EXCEPT !.asking = TRUE]
                                                   ELSE [l EXCEPT !.next = @ + 1])
(* The process ends, or is killed with the repository's context or by time. *)
AfterProbe(l, r) == [l.entries EXCEPT ![Probing(l)] = Probed(l.entries[Probing(l)], r)]
EndProbe ==
    \E l \in pluginLoads, r \in Replies :
      /\ l.asking /\ (l.session # opened => r.failed)
      /\ Loading(l, [l EXCEPT !.asking = FALSE, !.next = l.next + 1, !.entries = AfterProbe(l, r)])

(* PluginsReadyMsg: the entries of the load, or an error: of Discover under *)
(* an ended context, of LoadState.                                          *)
PluginsReady ==
    \E l \in pluginLoads :
      /\ pluginLoads' = pluginLoads \ {l} /\ inFlight' = FALSE
      /\ \/ l.next > Len(PluginOrder) /\ shown' = l.entries
         \/ l.next = 0 /\ UNCHANGED shown
      /\ UNCHANGED <<manifests, switches, saves, opened, pluginWork>>

(* Space switches the plugin selected and saves every switch; each file is  *)
(* written beside the old one and renamed over it.                          *)
Toggle ==
    /\ PluginSpends("toggles")
    /\ \E p \in DOMAIN shown :
         /\ shown' = [shown EXCEPT ![p].enabled = ~@]
         /\ saves' = saves \cup {[p2 \in DOMAIN shown |-> shown'[p2].enabled]}
    /\ UNCHANGED <<manifests, switches, inFlight, pluginLoads, opened>>
SaveState ==
    \E s \in saves :
      /\ saves' = saves \ {s} /\ (switches' = s \/ UNCHANGED switches)
      /\ UNCHANGED <<manifests, inFlight, pluginLoads, shown, opened, pluginWork>>

(* CanRunMetadataAction, asked when the palette is built and at the choice. *)
CanRunMetadataAction(entry) == Asks(entry) /\ entry.manifest.api = 2 /\ "action" \in entry.offers

(* A plugin is replaced on the disk; another repository is opened.          *)
PluginOutside ==
    /\ PluginSpends("outside")
    /\ \/ /\ \E p \in Plugins, m \in Manifests : manifests[p] # m /\ manifests' = [manifests EXCEPT ![p] = m]
          /\ UNCHANGED opened
       \/ opened' = opened + 1 /\ UNCHANGED manifests
    /\ UNCHANGED <<switches, inFlight, pluginLoads, shown, saves>>

PluginNext ==
    \/ LoadPlugins \/ Discover \/ ApplyState \/ StartProbe \/ EndProbe \/ PluginsReady
    \/ Toggle \/ SaveState \/ PluginOutside

PluginSpec == PluginInit /\ [][PluginNext]_pluginVars

-----------------------------------------------------------------------------
(* "The Plugins workspace probes enabled entries serially and coalesces     *)
(* overlapping reload requests, so repeated reload input cannot fan out     *)
(* plugin processes" (docs/plugins.md): however loads, switches and         *)
(* repositories follow, one plugin process runs at a time.                  *)
PluginsProbedSerially == Cardinality({l \in pluginLoads : l.asking}) <= 1

(* "Contributions are filtered by the capabilities actually negotiated":    *)
(* whatever a plugin claims and sends, what is shown of it needs no more    *)
(* than its manifest asked for and the host supports, and its action can    *)
(* run only while it is enabled, if "context_action" was negotiated.        *)
OnlyNegotiatedShown ==
    \A p \in DOMAIN shown :
      /\ \A k \in shown[p].offers : Valid(k) /\ Needs(k) \subseteq Offered(shown[p])
      /\ ~shown[p].healthy => shown[p].offers = {}
      /\ CanRunMetadataAction(shown[p]) => shown[p].enabled /\ Needs("action") \subseteq shown[p].granted

(* When nothing is under way a plugin is enabled as the file says it is.    *)
(* The code does not keep this: a load that began before a toggle brings the *)
(* old setting back, and two saves may end in the other order.              *)
SwitchesKept == pluginLoads = {} /\ saves = {} =>
                  \A p \in DOMAIN shown \cap DOMAIN switches : shown[p].enabled = switches[p]
================================================================================
