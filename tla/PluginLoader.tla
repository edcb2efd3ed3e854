---------------------------- MODULE PluginLoader ----------------------------
(***************************************************************************)
(* The plugin subsystem of libs/plugin: PluginRegistryService (the         *)
(* registered plugins and their PluginStatus), PluginLoaderService (the    *)
(* pluginStates table and the life-cycle operations), PluginStatusGuard    *)
(* and the answers PluginController gives to its clients.                  *)
(*                                                                         *)
(* Node runs one callback at a time, so an operation is cut exactly at its *)
(* awaits: every await is of a hook of the plugin (initialize,             *)
(* onApplicationBootstrap, onApplicationShutdown, destroy), which settles  *)
(* in a later step and may reject.  Between two awaits an operation works  *)
(* on what it captured before the await.                                   *)
(***************************************************************************)
EXTENDS Naturals, FiniteSets

CONSTANTS
  Plugins,          \* the names of the plugins
  ModulePlugins,    \* those with createModule (isModulePlugin)
  SystemPlugins,    \* those with type PluginType.SYSTEM
  ProtectedPlugins, \* those with isProtected
  FlaggedPlugins,   \* object plugins that define the isEnabled field
  Deps,             \* Deps[p]: the names in p's dependencies
  FeatureOn,        \* entries of config.featurePlugins with enabled: true
  FeatureOff,       \* entries of config.featurePlugins with enabled: false
  Calls,            \* slots for calls in flight at the same time
  Main,             \* main.ts' own call of loadPlugins
  Ops,              \* the operations the clients of this instance use
  NoJob             \* the job of an idle slot

AllOps == {"enable", "enableWithConfig", "disable", "reload", "unload",
           "register", "clear", "close"}

ASSUME ConstantsAssumption ==
  /\ ModulePlugins \subseteq Plugins
  /\ SystemPlugins \subseteq Plugins
  /\ ProtectedPlugins \subseteq Plugins
  /\ FlaggedPlugins \subseteq Plugins \ ModulePlugins
  /\ Deps \in [Plugins -> SUBSET Plugins]
  /\ FeatureOn \subseteq Plugins
  /\ FeatureOff \subseteq Plugins \ FeatureOn
  /\ Main \notin Calls
  /\ Ops \subseteq AllOps

VARIABLES
  registered,  \* registry.plugins: the names that are registered
  status,      \* registry.pluginStatuses
  states,      \* loader.pluginStates: the entry's enabled/status pair
  flagOn,      \* the flagged plugins whose isEnabled is true
  initialized, \* plugin side: initialize resolved, and no destroy was called
               \* or settled since
  phase,       \* where main.ts stands
  todo,        \* the plugins the current pass of loadPlugins has left
  pc,          \* pc[c]: the hook that call c awaits, or "idle"
  job,         \* job[c]: what call c was asked and what it captured
  told         \* the last success the clients were told about a plugin

tables == <<registered, status, states>>
plugin == <<flagOn, initialized>>
boot   == <<phase, todo>>
vars   == <<tables, plugin, boot, pc, job, told>>

Procs == Calls \cup {Main}

\* enums/plugin-type.enum.ts; "absent" is a key the map does not hold.
Statuses == {"UNLOADED", "LOADED", "INITIALIZED", "FAILED", "DISABLED"}

\* An IPluginState: every write pairs INITIALIZED with enabled: true and
\* DISABLED with enabled: false.
StateEntries == {"enabled", "disabled"}

Hooks == {"initialize", "bootstrap", "shutdown", "destroy"}

Jobs == [op : {"boot", "enable", "disable", "reload", "unload"},
         name : Plugins, force : BOOLEAN,
         seen : StateEntries \cup {"absent"}]

\* Only enablePlugin uses, after an await, the entry it captured before it.
NewJob(op, p, force) ==
  [op |-> op, name |-> p, force |-> force,
   seen |-> IF op = "enable" THEN states[p] ELSE "absent"]

TypeOK ==
  /\ registered \subseteq Plugins
  /\ status \in [Plugins -> Statuses \cup {"absent"}]
  /\ states \in [Plugins -> StateEntries \cup {"absent"}]
  /\ flagOn \subseteq FlaggedPlugins
  /\ initialized \in [Plugins -> BOOLEAN]
  /\ phase \in {"system", "feature", "listening", "closed"}
  /\ todo \subseteq Plugins
  /\ pc \in [Procs -> Hooks \cup {"idle"}]
  /\ job \in [Procs -> Jobs \cup {NoJob}]
  /\ told \in [Plugins -> {"nothing", "enabled", "disabled", "reloaded"}]

-----------------------------------------------------------------------------
(* Reads *)

\* getDependents: what it returns are the plugin's own dependencies that
\* are registered.
GetDependents(p) == IF p \in registered THEN Deps[p] \cap registered ELSE {}

\* PluginStatusGuard.canActivate for a route of plugin p: TRUE is admitted,
\* FALSE is 403 or 404.
GuardAllows(p) ==
  /\ p \in registered
  /\ p \in ProtectedPlugins \/ status[p] = "INITIALIZED"

-----------------------------------------------------------------------------
(* Writes *)

UpdateStatus(p, s) == status' = [status EXCEPT ![p] = s]

SetState(p, e) == states' = [states EXCEPT ![p] = e]

Tell(p, answer) == told' = [told EXCEPT ![p] = answer]

\* Call c starts to await a hook of its plugin.
Await(c, hook) == pc' = [pc EXCEPT ![c] = hook]

\* Call c returns or throws: its slot is free again.
Finish(c) ==
  /\ pc' = [pc EXCEPT ![c] = "idle"]
  /\ job' = [job EXCEPT ![c] = NoJob]

\* A load or an enable sets the isEnabled of a plugin that has the field.
SoftEnableForgotten(p) == UNCHANGED flagOn
SoftEnable(p) == flagOn' = flagOn \cup ({p} \cap FlaggedPlugins)

\* The plugin's destroy is called, or settles: what it tears down it may
\* tear down at any time between the two.
RunDestroy(p) == initialized' = [initialized EXCEPT ![p] = FALSE]

\* The plugin's initialize has resolved.
RunInitialize(p) == initialized' = [initialized EXCEPT ![p] = TRUE]

-----------------------------------------------------------------------------
(* The state once main.ts has registered every plugin. *)
Init ==
  /\ registered = Plugins
  /\ status = [p \in Plugins |-> "UNLOADED"]
  /\ states = [p \in Plugins |-> "absent"]
  /\ flagOn \in SUBSET FlaggedPlugins
  /\ initialized = [p \in Plugins |-> FALSE]
  /\ phase = "system"
  /\ todo = SystemPlugins
  /\ pc = [c \in Procs |-> "idle"]
  /\ job = [c \in Procs |-> NoJob]
  /\ told = [p \in Plugins |-> "nothing"]

-----------------------------------------------------------------------------
(* Start-up: loadPlugins.  The two passes take their plugins one at a time, *)
(* in an order the properties do not depend on.                             *)

\* loadPlugin up to its first await.
BeginLoadUnmarked(c, p) ==
  /\ Await(c, "initialize")
  /\ UNCHANGED <<status, states>>
BeginLoad(c, p) ==
  /\ Await(c, "initialize")
  /\ UpdateStatus(p, "LOADED")
  /\ UNCHANGED states

\* loadPlugin of the boot pass for p: a plugin that is INITIALIZED already
\* is left alone.
BootLoad(p) ==
  IF status[p] = "INITIALIZED"
  THEN UNCHANGED <<status, states, pc, job>>
  ELSE /\ job' = [job EXCEPT ![Main] = NewJob("boot", p, FALSE)]
       /\ BeginLoad(Main, p)

\* loadSystemPlugins takes the next plugin.
LoadSystemPlugin(p) ==
  /\ phase = "system" /\ pc[Main] = "idle" /\ p \in todo
  /\ todo' = todo \ {p}
  /\ BootLoad(p)
  /\ UNCHANGED <<registered, plugin, phase, told>>

\* loadSystemPlugins returns and loadFeaturePlugins starts.
StartFeaturePass ==
  /\ phase = "system" /\ pc[Main] = "idle" /\ todo = {}
  /\ phase' = "feature"
  /\ todo' = FeatureOn \cup FeatureOff
  /\ UNCHANGED <<tables, plugin, pc, job, told>>

\* loadFeaturePlugins takes the next entry.
LoadFeaturePlugin(p) ==
  /\ phase = "feature" /\ pc[Main] = "idle" /\ p \in todo
  /\ todo' = todo \ {p}
  /\ \/ /\ p \in FeatureOff
        /\ UpdateStatus(p, "DISABLED")
        /\ SetState(p, "disabled")
        /\ UNCHANGED <<pc, job>>
     \/ /\ p \in FeatureOn
        /\ BootLoad(p)
  /\ UNCHANGED <<registered, plugin, phase, told>>

\* loadPlugins has returned: main.ts calls app.listen.
ListenIfAllLoaded ==
  /\ phase = "feature" /\ pc[Main] = "idle" /\ todo = {}
  /\ \A p \in SystemPlugins : status[p] = "INITIALIZED"
  /\ phase' = "listening"
  /\ UNCHANGED <<tables, plugin, todo, pc, job, told>>
Listen ==
  /\ phase = "feature" /\ pc[Main] = "idle" /\ todo = {}
  /\ phase' = "listening"
  /\ UNCHANGED <<tables, plugin, todo, pc, job, told>>

-----------------------------------------------------------------------------
(* The operations up to their first await.  A call for a name that is not   *)
(* registered, or that a check refuses, throws and changes nothing.         *)

Ready(c, op) == phase = "listening" /\ op \in Ops /\ pc[c] = "idle"

Begin(c, op, p, force) == job' = [job EXCEPT ![c] = NewJob(op, p, force)]

ReloadPlugin(c, p) ==
  /\ Ready(c, "reload") /\ p \in registered
  /\ Begin(c, "reload", p, FALSE)
  /\ Await(c, "shutdown")
  /\ UNCHANGED <<tables, plugin, boot, told>>

UnloadPlugin(c, p, force) ==
  /\ Ready(c, "unload") /\ p \in registered
  /\ GetDependents(p) = {} \/ force
  /\ Begin(c, "unload", p, force)
  /\ Await(c, "shutdown")
  /\ UNCHANGED <<tables, plugin, boot, told>>

\* enablePlugin and disablePlugin refuse a protected plugin.
MayToggle(p) == p \in registered /\ p \notin ProtectedPlugins

\* A module plugin with an entry is shut down first; for any other plugin
\* disablePlugin has no await and, for an object plugin, leaves
\* pluginStates as it is.
DisablePlugin(c, p) ==
  /\ Ready(c, "disable") /\ MayToggle(p)
  /\ \/ /\ p \in ModulePlugins /\ states[p] # "absent"
        /\ Begin(c, "disable", p, FALSE)
        /\ Await(c, "shutdown")
        /\ UNCHANGED <<tables, plugin, told>>
     \/ /\ p \notin ModulePlugins \/ states[p] = "absent"
        /\ flagOn' = flagOn \ {p}
        /\ UpdateStatus(p, "DISABLED")
        /\ Tell(p, "disabled")
        /\ UNCHANGED <<registered, states, initialized, pc, job>>
  /\ UNCHANGED boot

\* The end of enablePlugin: the entry is rewritten only if the call
\* captured one.
Enabled(p, seen) ==
  /\ IF seen = "absent" THEN UNCHANGED states ELSE SetState(p, "enabled")
  /\ UpdateStatus(p, "INITIALIZED")
  /\ Tell(p, "enabled")

\* enablePlugin.  The REST endpoint passes no config.
EnablePlugin(c, p, config) ==
  /\ Ready(c, IF config THEN "enableWithConfig" ELSE "enable")
  /\ MayToggle(p)
  /\ \/ /\ states[p] = "enabled"
        /\ Tell(p, "enabled")
        /\ UNCHANGED <<status, states, flagOn, pc, job>>
     \/ /\ states[p] # "enabled"
        /\ SoftEnable(p)
        /\ IF p \in ModulePlugins \/ config
           THEN /\ Begin(c, "enable", p, FALSE)
                /\ Await(c, "initialize")
                /\ UNCHANGED <<status, states, told>>
           ELSE /\ Enabled(p, states[p])
                /\ UNCHANGED <<pc, job>>
  /\ UNCHANGED <<registered, initialized, boot>>

-----------------------------------------------------------------------------
(* The continuations: a hook resolves. *)

\* The end of disablePlugin for a module plugin.
DisabledInRegistryOnly(p) ==
  /\ UpdateStatus(p, "DISABLED")
  /\ Tell(p, "disabled")
  /\ UNCHANGED states
DisabledInEntryOnly(p) ==
  /\ SetState(p, "disabled")
  /\ Tell(p, "disabled")
  /\ UNCHANGED status
Disabled(p) ==
  /\ SetState(p, "disabled")
  /\ UpdateStatus(p, "DISABLED")
  /\ Tell(p, "disabled")

\* onApplicationShutdown resolves.  A reload or an unload calls destroy
\* with the status it finds, so a plugin that is torn down stays
\* INITIALIZED until destroy has settled.
ShutdownResolves(c) ==
  /\ pc[c] = "shutdown"
  /\ LET p == job[c].name IN
       \/ /\ job[c].op \in {"reload", "unload"}
          /\ RunDestroy(p)
          /\ Await(c, "destroy")
          /\ UNCHANGED <<status, states, job, told>>
       \/ /\ job[c].op = "disable"
          /\ Disabled(p)
          /\ Finish(c)
          /\ UNCHANGED initialized
  /\ UNCHANGED <<registered, flagOn, boot>>

\* registry.unregister and pluginStates.delete.  unregister throws if
\* another call has removed the plugin meanwhile; otherwise it runs destroy
\* once more.
UnregisterKeepsEntry(p) ==
  IF p \notin registered
  THEN UNCHANGED <<registered, status, states>>
  ELSE /\ registered' = registered \ {p}
       /\ UpdateStatus(p, "absent")
       /\ UNCHANGED states
Unregister(p) ==
  IF p \notin registered
  THEN UNCHANGED <<registered, status, states>>
  ELSE /\ registered' = registered \ {p}
       /\ UpdateStatus(p, "absent")
       /\ SetState(p, "absent")

\* destroy resolves: reloadPlugin goes on to loadPlugin with force,
\* unloadPlugin to the registry.
DestroyResolves(c) ==
  /\ pc[c] = "destroy"
  /\ LET p == job[c].name IN
       \/ /\ job[c].op = "reload"
          /\ RunDestroy(p)
          /\ BeginLoad(c, p)
          /\ UNCHANGED <<registered, job>>
       \/ /\ job[c].op = "unload"
          /\ Unregister(p)
          /\ RunDestroy(p)
          /\ Finish(c)
  /\ UNCHANGED <<flagOn, boot, told>>

\* initialize resolves.  loadPlugin writes both tables and goes on to
\* onApplicationBootstrap; enablePlugin ends.
InitializeResolves(c) ==
  /\ pc[c] = "initialize"
  /\ LET p == job[c].name IN
       /\ RunInitialize(p)
       /\ \/ /\ job[c].op \in {"boot", "reload"}
             /\ SoftEnable(p)
             /\ UpdateStatus(p, "INITIALIZED")
             /\ SetState(p, "enabled")
             /\ Await(c, "bootstrap")
             /\ UNCHANGED <<job, told>>
          \/ /\ job[c].op = "enable"
             /\ Enabled(p, job[c].seen)
             /\ Finish(c)
             /\ UNCHANGED flagOn
  /\ UNCHANGED <<registered, boot>>

\* onApplicationBootstrap resolves: loadPlugin returns.
BootstrapResolves(c) ==
  /\ pc[c] = "bootstrap"
  /\ Finish(c)
  /\ IF job[c].op = "reload" THEN Tell(job[c].name, "reloaded") ELSE UNCHANGED told
  /\ UNCHANGED <<tables, plugin, boot>>

\* The start-up passes and reloadPlugin catch the error of a hook and mark
\* the plugin FAILED; the other operations throw.
CatchUnmarked(c) == UNCHANGED status
Catch(c) ==
  IF job[c].op \in {"boot", "reload"}
  THEN UpdateStatus(job[c].name, "FAILED")
  ELSE UNCHANGED status

\* The hook that c awaits rejects.  A destroy that rejects may have done
\* any part of its work.  The client of reloadPlugin is told of a success.
HookRejects(c) ==
  /\ pc[c] # "idle"
  /\ LET p == job[c].name IN
       /\ IF pc[c] = "destroy" THEN RunDestroy(p) ELSE UNCHANGED initialized
       /\ IF job[c].op = "reload" THEN Tell(p, "reloaded") ELSE UNCHANGED told
  /\ Catch(c)
  /\ Finish(c)
  /\ UNCHANGED <<registered, states, flagOn, boot>>

-----------------------------------------------------------------------------
(* The synchronous operations of the registry, and the end. *)

\* registry.register, after start-up, of a plugin that was unloaded.
Register(p) ==
  /\ phase = "listening" /\ "register" \in Ops /\ p \notin registered
  /\ registered' = registered \cup {p}
  /\ UpdateStatus(p, "UNLOADED")
  /\ UNCHANGED <<states, plugin, boot, pc, job, told>>

DestroyAll ==
  initialized' = [p \in Plugins |-> initialized[p] /\ p \notin registered]

\* registry.clear: the loader's table is not cleared with it.
ClearRegistry ==
  /\ phase = "listening" /\ "clear" \in Ops /\ registered # {}
  /\ DestroyAll
  /\ registered' = {}
  /\ status' = [p \in Plugins |-> "absent"]
  /\ UNCHANGED <<states, flagOn, boot, pc, job, told>>

\* The loader's onModuleDestroy: the registry's tables stay.
OnModuleDestroy ==
  /\ phase = "listening" /\ "close" \in Ops
  /\ phase' = "closed"
  /\ DestroyAll
  /\ states' = [p \in Plugins |-> "absent"]
  /\ UNCHANGED <<registered, status, flagOn, todo, pc, job, told>>

-----------------------------------------------------------------------------
Boot ==
  \/ StartFeaturePass
  \/ Listen
  \/ \E p \in Plugins : LoadSystemPlugin(p) \/ LoadFeaturePlugin(p)

HookSettles(c) ==
  \/ ShutdownResolves(c)
  \/ DestroyResolves(c)
  \/ InitializeResolves(c)
  \/ BootstrapResolves(c)
  \/ HookRejects(c)

Request(c) ==
  \E p \in Plugins :
    \/ ReloadPlugin(c, p)
    \/ \E force \in BOOLEAN : UnloadPlugin(c, p, force)
    \/ DisablePlugin(c, p)
    \/ \E config \in BOOLEAN : EnablePlugin(c, p, config)

Next ==
  \/ Boot
  \/ \E c \in Procs : HookSettles(c)
  \/ \E c \in Calls : Request(c)
  \/ \E p \in Plugins : Register(p)
  \/ ClearRegistry
  \/ OnModuleDestroy

\* main.ts runs on, and a hook that is awaited settles: the loader has no
\* timeout of its own (IPluginLoadOptions.timeout is never read).  Nothing
\* makes clients call.
Fairness == WF_vars(Boot) /\ \A c \in Procs : WF_vars(HookSettles(c))

Spec == Init /\ [][Next]_vars /\ Fairness
-----------------------------------------------------------------------------
(* Properties *)

QuietOn(p) == \A c \in Procs : pc[c] = "idle" \/ job[c].name # p

\* A plugin that is INITIALIZED has been initialized and not torn down
\* since, or a reload in flight has called its destroy and will write the
\* status when it settles: no overlap of reloads, disables and enables, and no
\* hook that rejects, leaves INITIALIZED behind on a plugin that is gone
\* (plugin-loader.service.ts:343-369, plugin-type.enum.ts:84-89).  It is
\* claimed of the plugins that every path to INITIALIZED initializes: module
\* plugins and protected ones.
TornDown(p) ==
  \E c \in Procs : pc[c] = "destroy" /\ job[c].name = p /\ job[c].op = "reload"
InitializedIsLive ==
  \A p \in ModulePlugins \cup ProtectedPlugins :
    status[p] = "INITIALIZED" => initialized[p] \/ TornDown(p)

\* A module plugin that the registry calls DISABLED is never one that
\* pluginStates calls enabled, so enablePlugin never takes its early return
\* on it (plugin-loader.service.ts:396-407, 433-438).
ModuleDisableReversible ==
  \A p \in ModulePlugins : status[p] = "DISABLED" => states[p] # "enabled"

\* LOADED is the status of a plugin whose loadPlugin awaits initialize and
\* of no other: no failure and no overlap of calls leaves it behind
\* (plugin-loader.service.ts:165-187, 343-369).
LoadedIsTransient ==
  \A p \in Plugins : status[p] = "LOADED" =>
    \E c \in Procs :
      /\ pc[c] = "initialize"
      /\ job[c].name = p
      /\ job[c].op \in {"boot", "reload"}

\* If the last success clients were told about a plugin is that it was
\* disabled, and no call on it is in flight, the guard refuses its routes
\* (plugin.controller.ts:128-143, plugin-status.guard.ts:47-54).
DisableHonoured ==
  \A p \in Plugins : told[p] = "disabled" /\ QuietOn(p) => ~GuardAllows(p)

\* An object plugin whose isEnabled is false is not INITIALIZED: soft
\* disabling and the registry agree (plugin-semantic.interface.ts:140-146).
SoftDisabledIsRefused ==
  \A p \in FlaggedPlugins \ flagOn : status[p] # "INITIALIZED"

\* The two maps hold entries of registered plugins only: what unloadPlugin
\* removes, no other operation brings back
\* (plugin-registry.service.ts:148-156, plugin-loader.service.ts:330-331).
NoOrphanEntries ==
  \A p \in Plugins \ registered : status[p] = "absent" /\ states[p] = "absent"

\* However the hooks of the plugins fail, start-up reaches app.listen
\* (main.ts:53-60).
BootFinishes == <>(phase = "listening")

\* A plugin that a load has put to LOADED leaves it again, whatever calls
\* overlap (plugin-loader.service.ts:173-187).
LoadSettles == \A p \in Plugins : status[p] = "LOADED" ~> status[p] # "LOADED"
=============================================================================
