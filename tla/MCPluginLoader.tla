--------------------------- MODULE MCPluginLoader ---------------------------
(***************************************************************************)
(* Instances of PluginLoader: core is a protected system plugin, ext a     *)
(* module plugin and obj an object plugin that depends on core.            *)
(***************************************************************************)
EXTENDS PluginLoader, TLC

CONSTANTS core, ext, obj

\* analytics depends on user (analytics.plugin.ts:74).
MCDeps == [p \in Plugins |-> IF p = obj THEN {core} \cap Plugins ELSE {}]

\* The operations REST exposes (plugin.controller.ts:104-165).
RestOps == {"enable", "disable", "reload"}

\* With those alone the other disjuncts of Next are never enabled.
RestRequest(c) ==
  \E p \in Plugins : EnablePlugin(c, p, FALSE) \/ DisablePlugin(c, p) \/ ReloadPlugin(c, p)

RestNext ==
  \/ Boot
  \/ \E c \in Procs : HookSettles(c)
  \/ \E c \in Calls : RestRequest(c)

RestSpec == Init /\ [][RestNext]_vars

Symmetry == Permutations(Calls)
=============================================================================
