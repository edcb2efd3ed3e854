-------------------------- MODULE MCPluginServices --------------------------
(***************************************************************************)
(* The services of libs/plugin beyond REST, in two uses that need          *)
(* different bounds: every operation but clear and close with one call at  *)
(* a time, and every operation with two calls that are both about ext.     *)
(***************************************************************************)
EXTENDS PluginLoader

CONSTANTS ext, obj

VARIABLE use   \* which of the two this behaviour is

GivenDeps == [p \in Plugins |-> {}]

OneAtATime ==
  /\ \A c \in Calls : pc'[c] # "idle" => c = CHOOSE d \in Calls : TRUE
  /\ phase' # "closed"

\* Clients ask for ext only, and obj has started well.
AboutExt ==
  /\ \A c \in Calls : job'[c] # NoJob => job'[c].name = ext
  /\ status'[obj] # "FAILED"

MCInit == Init /\ use \in {"single", "teardown"}

MCNext ==
  /\ use' = use
  /\ \/ /\ use = "single"
        /\ \/ Boot
           \/ \E c \in Procs : HookSettles(c)
           \/ \E c \in Calls : Request(c)
           \/ \E p \in Plugins : Register(p)
        /\ OneAtATime
     \/ /\ use = "teardown"
        /\ Next
        /\ AboutExt

MCSpec == MCInit /\ [][MCNext]_<<vars, use>> /\ Fairness

-----------------------------------------------------------------------------
(* With one call at a time and no clear, the two maps hold entries of      *)
(* registered plugins only: what unloadPlugin removes, no other operation  *)
(* brings back (plugin-registry.service.ts:62-77,                          *)
(* plugin-loader.service.ts:330-331).                                      *)
NoOrphans == use = "single" => NoOrphanEntries
=============================================================================
