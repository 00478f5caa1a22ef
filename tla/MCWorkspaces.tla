----------------------------- MODULE MCWorkspaces -----------------------------
(***************************************************************************)
(* Workspaces that share no state, checked one at a time: `part' says which *)
(* one a behaviour is about, and the others stay as they begin.            *)
(***************************************************************************)
EXTENDS RebaseWorkspace, HunkSelection, ConflictResolver,
        GitHubWorkspace, RemoteJobs, PluginRuntime, CustomCommands

CONSTANT Parts
VARIABLE part
localVars == <<rbVars, hunkVars, conflictVars>>
vars == <<localVars, hubVars, remoteVars, pluginVars, commandVars, part>>

MCRebaseWork == {[keys |-> 3, runs |-> 1, other |-> 0, loads |-> 0],
                 [keys |-> 1, runs |-> 1, other |-> 1, loads |-> 0],
                 [keys |-> 0, runs |-> 1, other |-> 1, loads |-> 2],
                 [keys |-> 0, runs |-> 2, other |-> 0, loads |-> 1]}
MCOtherBranches == {<<{1}, {9}>>}
MCFiles == {<<"a", "b", "a">>, <<"b", "a", "b", "a", "b">>, <<"a", "b", "a~">>}
(* A line that ends in CRLF or, the last one, in nothing.                   *)
MCPlain == [t \in FileLines |-> IF t = "a~" THEN "a" ELSE t]
MCParent == <<"a", "b", "a">>
(* For the run about lines that were not selected: changes above a hunk.    *)
MCShiftedFiles == {<<"a", "b">>, <<"b", "a", "b", "a", "b">>}
MCShiftedParent == <<"a", "b">>
MCHunkWork == {[diffs |-> 1, applies |-> 1, edits |-> 0], [diffs |-> 0, applies |-> 1, edits |-> 1]}

(* A region of two sides, one of them with a line Git could take for its    *)
(* own; two regions in the diff3 style.                                     *)
MCTwo == <<Region(<<"a">>, <<>>, <<"b">>), Text(<<"x">>), Region(<<"b", "=">>, <<>>, <<"a">>)>>
MCThree == <<Text(<<"a">>), Region(<<"a">>, <<"|", "x">>, <<"b">>), Region(<<"x">>, <<"|">>, <<"a">>)>>
MCPaths == <<"f", "g">>
MCMergeOf == [p \in Range(MCPaths) |-> IF p = "f" THEN MCTwo ELSE MCThree]
(* Theirs changed a line outside the regions, too.                          *)
MCBlobOf == [p \in Range(MCPaths) |->
    IF p = "f" THEN [ours |-> <<Text(<<"a", "x", "b", "=">>)>>, theirs |-> <<Text(<<"b", "x", "a">>)>>]
    ELSE [ours |-> <<Text(<<"x", "a", "x">>)>>, theirs |-> <<Text(<<"a", "b", "a">>)>>]]
MCElsewhere == {MCTwo, MCThree}
ASSUME MCUnambiguous == Unambiguous
MCConflictWork == {[keys |-> 2, choices |-> 2, snapshots |-> 1, other |-> 1],
                   [keys |-> 1, choices |-> 0, snapshots |-> 1, other |-> 1]}

MCHubWork == {[asks |-> 1, posts |-> 2, loads |-> 0, events |-> 0],
              [asks |-> 1, posts |-> 1, loads |-> 1, events |-> 0],
              [asks |-> 0, posts |-> 0, loads |-> 2, events |-> 1],
              [asks |-> 1, posts |-> 0, loads |-> 0, events |-> 2]}

MCListing == <<"a", "b">>
MCRemoteWork == {[asks |-> 2, moves |-> 0, opens |-> 1], [asks |-> 1, moves |-> 1, opens |-> 1]}

MCPluginOrder == <<"p", "q">>
MCManifests == {[valid |-> TRUE, api |-> 2, wants |-> {"metadata", "action", "process"}],
                [valid |-> TRUE, api |-> 1, wants |-> {"table"}],
                [valid |-> FALSE, api |-> 1, wants |-> {}]}
Reply(api, grants, sends) == [failed |-> FALSE, accepted |-> TRUE, api |-> api,
                              grants |-> grants, sends |-> sends]
MCReplies == {Reply(2, {"metadata"}, {"metadata", "action", "chart"}),
              Reply(2, {"metadata", "action"}, {"table", "action"}),
              Reply(1, {"table", "process"}, {"table", "malformed"}),
              Reply(1, {"table"}, {"table", "metadata"}),
              [Reply(1, {}, {}) EXCEPT !.failed = TRUE, !.accepted = FALSE]}
MCPluginWork == {[loads |-> 2, toggles |-> 1, outside |-> 1]}

(* A command confirmed each time, one that asks and is then confirmed, one  *)
(* that asks for a secret and words of a loaded list, one with two prompts. *)
Field(id, kind, options, default, accepts) ==
    [id |-> id, kind |-> kind, required |-> kind \in {"secret", "multi"}, options |-> options,
     source |-> IF kind \in {"select", "multi"} THEN "branches" ELSE "none",
     default |-> default, accepts |-> accepts]
Command(contexts, confirm, args, prompts) ==
    [contexts |-> contexts, confirm |-> confirm, mutates |-> confirm, refresh |-> FALSE,
     args |-> args, prompts |-> prompts]
Sure(id) == Field(id, "confirm", <<>>, {}, {{}})
MCCommands ==
    [fix |-> Command({}, TRUE, {[prompt |-> FALSE, name |-> "path"]}, <<>>),
     drop |-> Command({"status", "github"}, TRUE, {[prompt |-> FALSE, name |-> "branch"]}, <<Sure("sure")>>),
     tell |-> Command({"any"}, FALSE, {[prompt |-> TRUE, name |-> "key"], [prompt |-> TRUE, name |-> "to"]},
                      <<Field("key", "secret", <<>>, {}, {{}, {"a"}}),
                        Field("to", "multi", <<"b">>, {"b"}, SUBSET {"a", "b"}),
                        Field("on", "select", <<>>, {}, {{}, {"a"}})>>),
     note |-> Command({"status"}, TRUE, {[prompt |-> FALSE, name |-> "repo"]},
                      <<Sure("sure"), Field("why", "text", <<>>, {"a"}, {{}, {"a"}})>>)]
Place(view, path, branches) ==
    [view |-> view, path |-> path, sha |-> {"a"}, branch |-> {"a"}, url |-> {"a"},
     lists |-> [branches |-> branches]]
MCPlaces == {Place("status", {"a"}, <<"a", "b">>), Place("status", {}, <<>>),
             Place("history", {"a"}, <<"a">>)}
MCCommandWork == {[starts |-> 2, moves |-> 1]}

Init ==
    /\ RbInit /\ HunkInit /\ ConflictInit /\ HubInit /\ RemoteInit /\ PluginInit /\ CommandInit
    /\ part \in Parts
    /\ part # "rebase" => work = CHOOSE w \in RebaseWork : TRUE
    /\ part # "hunks" => /\ hunkWork = CHOOSE w \in HunkWork : TRUE
                         /\ \A s \in DOMAIN content : content[s] = Parent
    /\ part # "conflicts" => conflictWork = CHOOSE w \in ConflictWork : TRUE
    /\ part # "github" => /\ hubWork = CHOOSE w \in HubWork : TRUE
                          /\ ~inHub /\ \A b \in HubBranches : ~server[b].open
    /\ part # "remotes" => rwork = CHOOSE w \in RemoteWork : TRUE
    /\ part # "plugins" => /\ pluginWork = CHOOSE w \in PluginWork : TRUE
                           /\ \A p \in Plugins : ~manifests[p].valid
    /\ part # "commands" => /\ commandWork = CHOOSE w \in CommandWork : TRUE
                            /\ place = CHOOSE there \in Places : TRUE

Next ==
    /\ UNCHANGED part
    /\ \/ /\ UNCHANGED <<hubVars, remoteVars, pluginVars, commandVars>>
          /\ \/ part = "rebase" /\ RbNext /\ UNCHANGED <<hunkVars, conflictVars>>
             \/ part = "hunks" /\ HunkNext /\ UNCHANGED <<rbVars, conflictVars>>
             \/ part = "conflicts" /\ ConflictNext /\ UNCHANGED <<rbVars, hunkVars>>
       \/ /\ UNCHANGED localVars
          /\ \/ part = "github" /\ HubNext /\ UNCHANGED <<remoteVars, pluginVars, commandVars>>
             \/ part = "remotes" /\ RemoteNext /\ UNCHANGED <<hubVars, pluginVars, commandVars>>
             \/ part = "plugins" /\ PluginNext /\ UNCHANGED <<hubVars, remoteVars, commandVars>>
             \/ part = "commands" /\ CommandNext /\ UNCHANGED <<hubVars, remoteVars, pluginVars>>

Spec == Init /\ [][Next]_vars

(* The states of the workspaces are the ones their modules name.            *)
TypesOK == RbTypeOK /\ HunkTypeOK /\ ConflictTypeOK
           /\ HubTypeOK /\ RemoteTypeOK /\ PluginTypeOK /\ CommandTypeOK
===============================================================================
