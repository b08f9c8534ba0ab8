------------------------ MODULE MCRestoreTransaction ------------------------
(* Small plans for RestoreTransaction: each is the shortest that takes Run    *)
(* through a different combination of its branches.                           *)
EXTENDS RestoreRefinement

A(kind, op) == [kind |-> kind, op |-> op]
P(loader, actions) == [loader |-> loader, actions |-> actions]

(* Plugins through Decky and by rename, with settings, artwork, a theme file  *)
(* to remove and a preserved setting; loader.json is guarded.                 *)
GuardedPlans == {
    P("canonical", <<A("plugin_api", "replace"), A("loader", "replace"), A("steam", "create")>>),
    P("canonical", <<A("plugin_api", "create"), A("plugin_fs", "replace"), A("decky", "remove")>>),
    P("canonical", <<A("plugin_api", "remove"), A("decky", "unchanged"), A("steam", "replace"),
                     A("preserve", "create")>>),
    P("custom",    <<A("plugin_api", "create"), A("decky", "replace")>>),
    P("absent",    <<A("plugin_api", "replace"), A("loader", "create")>>),
    P("canonical", <<A("plugin_api", "replace")>>) }

(* No change through Decky, so no guard; loader.json is not in the snapshot.  *)
UnguardedPlans == {
    P("canonical", <<A("plugin_fs", "create"), A("decky", "replace"), A("steam", "remove")>>),
    P("canonical", <<A("plugin_api", "unchanged"), A("decky", "create"), A("preserve", "create")>>),
    P("canonical", <<A("decky", "unchanged"), A("preserve", "create"), A("preserve", "unchanged")>>),
    P("absent",    <<A("plugin_fs", "unchanged"), A("decky", "unchanged")>>) }

(* As before, with loader.json in the snapshot.                               *)
UnguardedLoaderPlans == {
    P("canonical", <<A("decky", "replace"), A("loader", "unchanged")>>),
    P("custom",    <<A("plugin_fs", "replace"), A("loader", "replace")>>),
    P("absent",    <<A("loader", "create"), A("steam", "create")>>) }

AllPlans == GuardedPlans \cup UnguardedPlans \cup UnguardedLoaderPlans

=============================================================================
