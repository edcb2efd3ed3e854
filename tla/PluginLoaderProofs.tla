------------------------- MODULE PluginLoaderProofs -------------------------
(***************************************************************************)
(* Proofs about PluginLoader, for any plugins, any number of overlapping   *)
(* calls and any outcome of the hooks.  The last part is about the uses of *)
(* MCPluginServices.                                                       *)
(***************************************************************************)
EXTENDS MCPluginServices, TLAPS

\* A call that awaits a hook has a job: the part of the type invariant that
\* the continuations need.
JobsOK == \A c \in Procs : pc[c] # "idle" => job[c] \in Jobs

\* The types of the variables are preserved by every step.
TypeInv == TypeOK /\ JobsOK

LEMMA JobType ==
  ASSUME TypeOK, NEW p \in Plugins, NEW force \in BOOLEAN,
         NEW op \in {"boot", "enable", "disable", "reload", "unload"}
  PROVE  NewJob(op, p, force) \in Jobs
BY DEF TypeOK, NewJob, Jobs

LEMMA InitTypeInv == Init => TypeInv
BY ConstantsAssumption DEF Init, TypeInv, TypeOK, JobsOK, Statuses

LEMMA NextTypeInv == TypeInv /\ [Next]_vars => TypeInv'
<1> SUFFICES ASSUME TypeInv, [Next]_vars PROVE TypeInv'
  OBVIOUS
<1> USE ConstantsAssumption DEF TypeInv, TypeOK, JobsOK, Procs, Statuses, StateEntries, Hooks,
        UpdateStatus, SetState, Tell, Await, Finish, SoftEnable, MayToggle, Disabled, Catch
<1>1. CASE Boot
  <2>0. ASSUME NEW p \in Plugins, BootLoad(p)
        PROVE  /\ status' \in [Plugins -> Statuses \cup {"absent"}]
               /\ states' = states
               /\ pc' \in [Procs -> Hooks \cup {"idle"}]
               /\ job' \in [Procs -> Jobs \cup {NoJob}]
               /\ JobsOK'
    <3>1. NewJob("boot", p, FALSE) \in Jobs
      BY JobType
    <3>2. CASE status[p] = "INITIALIZED"
      BY <2>0, <3>2 DEF BootLoad
    <3>3. CASE status[p] # "INITIALIZED"
      <4>1. PICK j \in Jobs : job' = [job EXCEPT ![Main] = j]
        BY <2>0, <3>1, <3>3, Zenon DEF BootLoad
      <4>2. QED
        BY <2>0, <3>3, <4>1 DEF BootLoad, BeginLoad
    <3>4. QED
      BY <3>2, <3>3
  <2>1. ASSUME NEW p \in Plugins, LoadSystemPlugin(p) PROVE TypeInv'
    <3>1. BootLoad(p)
      BY <2>1 DEF LoadSystemPlugin
    <3>2. QED
      BY <2>0, <2>1, <3>1 DEF LoadSystemPlugin, plugin
  <2>2. ASSUME NEW p \in Plugins, LoadFeaturePlugin(p) PROVE TypeInv'
    <3>1. CASE BootLoad(p)
      BY <2>0, <2>2, <3>1 DEF LoadFeaturePlugin, plugin
    <3>2. CASE ~BootLoad(p)
      BY <2>2, <3>2 DEF LoadFeaturePlugin, plugin
    <3>3. QED
      BY <3>1, <3>2
  <2>3. CASE StartFeaturePass
    BY <2>3 DEF StartFeaturePass, tables, plugin
  <2>4. CASE Listen
    BY <2>4 DEF Listen, tables, plugin
  <2>5. QED
    BY <1>1, <2>1, <2>2, <2>3, <2>4 DEF Boot
<1>2. ASSUME NEW c \in Procs, HookSettles(c) PROVE TypeInv'
  <2> DEFINE p == job[c].name
  <2>0. pc[c] # "idle" => p \in Plugins /\ job[c].seen \in StateEntries \cup {"absent"}
    BY DEF Jobs
  <2>1. CASE ShutdownResolves(c)
    <3>1. initialized' \in [Plugins -> BOOLEAN]
      BY <2>1 DEF ShutdownResolves, RunDestroy
    <3>2. /\ status' \in [Plugins -> Statuses \cup {"absent"}]
          /\ states' \in [Plugins -> StateEntries \cup {"absent"}]
          /\ told' \in [Plugins -> {"nothing", "enabled", "disabled", "reloaded"}]
      BY <2>0, <2>1 DEF ShutdownResolves
    <3>3. /\ pc' \in [Procs -> Hooks \cup {"idle"}]
          /\ job' \in [Procs -> Jobs \cup {NoJob}]
          /\ JobsOK'
      BY <2>1 DEF ShutdownResolves
    <3>4. UNCHANGED <<registered, flagOn, phase, todo>>
      BY <2>1 DEF ShutdownResolves, boot
    <3>5. QED
      BY <3>1, <3>2, <3>3, <3>4
  <2>2. CASE DestroyResolves(c)
    <3>1. CASE job[c].op = "reload"
      <4>1. initialized' \in [Plugins -> BOOLEAN]
        BY <2>2, <3>1 DEF DestroyResolves, RunDestroy
      <4>2. status' \in [Plugins -> Statuses \cup {"absent"}] /\ states' = states
        BY <2>2, <3>1 DEF DestroyResolves, BeginLoad
      <4>3. pc' \in [Procs -> Hooks \cup {"idle"}] /\ JobsOK'
        BY <2>2, <3>1 DEF DestroyResolves, BeginLoad
      <4>4. UNCHANGED <<registered, job, flagOn, phase, todo, told>>
        BY <2>2, <3>1 DEF DestroyResolves, BeginLoad, boot
      <4>5. QED
        BY <4>1, <4>2, <4>3, <4>4
    <3>2. CASE job[c].op = "unload"
      <4>1. /\ registered' \subseteq Plugins
            /\ status' \in [Plugins -> Statuses \cup {"absent"}]
            /\ states' \in [Plugins -> StateEntries \cup {"absent"}]
        BY <2>0, <2>2, <3>2 DEF DestroyResolves, Unregister
      <4>2. initialized' \in [Plugins -> BOOLEAN]
        BY <2>2, <3>2 DEF DestroyResolves, RunDestroy
      <4>3. /\ pc' \in [Procs -> Hooks \cup {"idle"}]
            /\ job' \in [Procs -> Jobs \cup {NoJob}]
            /\ JobsOK'
        BY <2>2, <3>2 DEF DestroyResolves
      <4>4. UNCHANGED <<flagOn, phase, todo, told>>
        BY <2>2, <3>2 DEF DestroyResolves, boot
      <4>5. QED
        BY <4>1, <4>2, <4>3, <4>4
    <3>3. QED
      BY <2>2, <3>1, <3>2 DEF DestroyResolves
  <2>3. CASE InitializeResolves(c)
    BY <2>0, <2>3 DEF InitializeResolves, RunInitialize, Enabled, boot
  <2>4. CASE BootstrapResolves(c)
    BY <2>0, <2>4 DEF BootstrapResolves, tables, plugin, boot
  <2>5. CASE HookRejects(c)
    <3>1. initialized' \in [Plugins -> BOOLEAN]
      BY <2>5 DEF HookRejects, RunDestroy
    <3>2. /\ status' \in [Plugins -> Statuses \cup {"absent"}]
          /\ told' \in [Plugins -> {"nothing", "enabled", "disabled", "reloaded"}]
      BY <2>0, <2>5 DEF HookRejects
    <3>3. /\ pc' \in [Procs -> Hooks \cup {"idle"}]
          /\ job' \in [Procs -> Jobs \cup {NoJob}]
          /\ JobsOK'
      BY <2>5 DEF HookRejects
    <3>4. UNCHANGED <<registered, states, flagOn, phase, todo>>
      BY <2>5 DEF HookRejects, boot
    <3>5. QED
      BY <3>1, <3>2, <3>3, <3>4
  <2>6. QED
    BY <1>2, <2>1, <2>2, <2>3, <2>4, <2>5 DEF HookSettles
<1>3. ASSUME NEW c \in Calls, Request(c) PROVE TypeInv'
  <2>1. ASSUME NEW p \in Plugins, ReloadPlugin(c, p) PROVE TypeInv'
    BY <2>1, JobType DEF ReloadPlugin, Ready, Begin, tables, plugin, boot
  <2>2. ASSUME NEW p \in Plugins, NEW force \in BOOLEAN, UnloadPlugin(c, p, force) PROVE TypeInv'
    BY <2>2, JobType DEF UnloadPlugin, Ready, Begin, tables, plugin, boot
  <2>3. ASSUME NEW p \in Plugins, DisablePlugin(c, p) PROVE TypeInv'
    <3>1. NewJob("disable", p, FALSE) \in Jobs
      BY JobType
    <3>2. CASE p \in ModulePlugins /\ states[p] # "absent"
      <4>1. PICK j \in Jobs : job' = [job EXCEPT ![c] = j]
        BY <2>3, <3>1, <3>2, Zenon DEF DisablePlugin, Begin
      <4>2. QED
        BY <2>3, <3>2, <4>1 DEF DisablePlugin, tables, plugin, boot
    <3>3. CASE ~(p \in ModulePlugins /\ states[p] # "absent")
      <4>1. /\ flagOn' = flagOn \ {p}
            /\ status' = [status EXCEPT ![p] = "DISABLED"]
            /\ told' = [told EXCEPT ![p] = "disabled"]
            /\ UNCHANGED <<registered, states, initialized, phase, todo, pc, job>>
        BY <2>3, <3>3 DEF DisablePlugin, boot
      <4>2. QED
        BY <4>1
    <3>4. QED
      BY <3>2, <3>3
  <2>4. ASSUME NEW p \in Plugins, NEW config \in BOOLEAN, EnablePlugin(c, p, config) PROVE TypeInv'
    <3>1. NewJob("enable", p, FALSE) \in Jobs
      BY JobType
    <3>2. flagOn' \subseteq FlaggedPlugins
      BY <2>4 DEF EnablePlugin
    <3>3. CASE states[p] = "enabled"
      BY <2>4, <3>2, <3>3 DEF EnablePlugin, Ready, boot
    <3>4. CASE states[p] # "enabled" /\ (p \in ModulePlugins \/ config)
      BY <2>4, <3>1, <3>2, <3>4 DEF EnablePlugin, Ready, Begin, boot
    <3>5. CASE states[p] # "enabled" /\ ~(p \in ModulePlugins \/ config)
      BY <2>4, <3>2, <3>5 DEF EnablePlugin, Ready, Enabled, boot
    <3>6. QED
      BY <3>3, <3>4, <3>5
  <2>5. QED
    BY <1>3, <2>1, <2>2, <2>3, <2>4 DEF Request
<1>4. ASSUME NEW p \in Plugins, Register(p) PROVE TypeInv'
  BY <1>4 DEF Register, plugin, boot
<1>5. CASE ClearRegistry
  BY <1>5 DEF ClearRegistry, DestroyAll, boot
<1>6. CASE OnModuleDestroy
  BY <1>6 DEF OnModuleDestroy, DestroyAll
<1>7. CASE UNCHANGED vars
  BY <1>7 DEF vars, tables, plugin, boot
<1>8. QED
  BY <1>1, <1>2, <1>3, <1>4, <1>5, <1>6, <1>7 DEF Next

\* Every reachable state is well typed.
THEOREM TypeCorrect == Spec => []TypeOK
<1>1. TypeInv => TypeOK
  BY DEF TypeInv
<1>2. QED
  BY <1>1, InitTypeInv, NextTypeInv, PTL DEF Spec

-----------------------------------------------------------------------------
(* LOADED is never left behind.  The witness of a LOADED plugin is the call *)
(* that awaits its initialize: only that call's own steps can move it on,   *)
(* and both of them overwrite the status.                                   *)

Loading(c, p) ==
  /\ pc[c] = "initialize"
  /\ job[c].name = p
  /\ job[c].op \in {"boot", "reload"}

\* A step that leaves the status of p and a witness alone keeps the claim
\* for p.
LEMMA LoadingKept ==
  ASSUME LoadedIsTransient, NEW p \in Plugins, status'[p] = status[p],
         \A c \in Procs : Loading(c, p) => pc'[c] = pc[c] /\ job'[c] = job[c]
  PROVE  status'[p] = "LOADED" => \E c \in Procs : Loading(c, p)'
<1> SUFFICES ASSUME status'[p] = "LOADED" PROVE \E c \in Procs : Loading(c, p)'
  OBVIOUS
<1>0. status[p] = "LOADED"
  OBVIOUS
<1>1. PICK c \in Procs : Loading(c, p)
  BY <1>0, Zenon DEF LoadedIsTransient, Loading
<1>2. pc'[c] = pc[c] /\ job'[c] = job[c]
  BY <1>1
<1>3. Loading(c, p)'
  BY <1>1, <1>2 DEF Loading
<1>4. QED
  BY <1>3

LEMMA NextLoaded == TypeInv /\ LoadedIsTransient /\ [Next]_vars => LoadedIsTransient'
<1> SUFFICES ASSUME TypeInv, LoadedIsTransient, [Next]_vars, NEW p \in Plugins
             PROVE  status'[p] = "LOADED" => \E c \in Procs : Loading(c, p)'
  BY DEF LoadedIsTransient, Loading
<1> USE DEF TypeInv, TypeOK, MayToggle, Disabled, Catch
<1>1. ASSUME NEW q \in Plugins, BootLoad(q), pc[Main] = "idle"
      PROVE  status'[p] = "LOADED" => \E c \in Procs : Loading(c, p)'
  <2>1. CASE status[q] = "INITIALIZED"
    BY <1>1, <2>1, LoadingKept DEF BootLoad
  <2>2. CASE status[q] # "INITIALIZED"
    <3>1. /\ status' = [status EXCEPT ![q] = "LOADED"]
          /\ pc' = [pc EXCEPT ![Main] = "initialize"]
          /\ job' = [job EXCEPT ![Main] = NewJob("boot", q, FALSE)]
      BY <1>1, <2>2 DEF BootLoad, BeginLoad, Await, UpdateStatus
    <3>2. NewJob("boot", q, FALSE).name = q /\ NewJob("boot", q, FALSE).op = "boot"
      BY DEF NewJob
    <3>3. CASE p = q
      BY <3>1, <3>2, <3>3 DEF Loading, Procs
    <3>4. CASE p # q
      <4>1. ~Loading(Main, p)
        BY <1>1 DEF Loading
      <4>2. ASSUME NEW d \in Procs, d # Main PROVE pc'[d] = pc[d] /\ job'[d] = job[d]
        BY <3>1, <4>2
      <4>3. status'[p] = status[p]
        BY <3>1, <3>4
      <4>4. QED
        BY <4>1, <4>2, <4>3, LoadingKept
    <3>5. QED
      BY <3>3, <3>4
  <2>3. QED
    BY <2>1, <2>2
<1>2. CASE Boot
  <2>1. ASSUME NEW q \in Plugins, LoadSystemPlugin(q)
        PROVE  status'[p] = "LOADED" => \E c \in Procs : Loading(c, p)'
    BY <1>1, <2>1 DEF LoadSystemPlugin
  <2>2. ASSUME NEW q \in Plugins, LoadFeaturePlugin(q)
        PROVE  status'[p] = "LOADED" => \E c \in Procs : Loading(c, p)'
    <3>1. CASE BootLoad(q)
      BY <1>1, <2>2, <3>1 DEF LoadFeaturePlugin
    <3>2. CASE ~BootLoad(q)
      <4>1. status' = [status EXCEPT ![q] = "DISABLED"] /\ UNCHANGED <<pc, job>>
        BY <2>2, <3>2 DEF LoadFeaturePlugin, UpdateStatus
      <4>2. QED
        BY <4>1, LoadingKept
    <3>3. QED
      BY <3>1, <3>2
  <2>3. CASE StartFeaturePass \/ Listen
    BY <2>3, LoadingKept DEF StartFeaturePass, Listen, tables
  <2>4. QED
    BY <1>2, <2>1, <2>2, <2>3 DEF Boot
<1>3. ASSUME NEW c \in Procs, HookSettles(c)
      PROVE  status'[p] = "LOADED" => \E d \in Procs : Loading(d, p)'
  <2> DEFINE n == job[c].name
  <2>1. pc[c] # "idle" => job[c] \in Jobs
    BY DEF JobsOK
  <2>2. ASSUME NEW d \in Procs, d # c PROVE pc'[d] = pc[d] /\ job'[d] = job[d]
    BY <1>3, <2>2 DEF HookSettles, ShutdownResolves, DestroyResolves, InitializeResolves,
                      BootstrapResolves, HookRejects, Await, Finish, BeginLoad
  <2>3. CASE ShutdownResolves(c)
    <3>1. ~Loading(c, p) /\ (status'[p] = status[p] \/ status'[p] = "DISABLED")
      BY <2>3 DEF ShutdownResolves, Loading, UpdateStatus
    <3>2. QED
      BY <2>2, <3>1, LoadingKept
  <2>4. CASE DestroyResolves(c)
    <3>1. CASE job[c].op = "reload"
      <4>1. /\ status' = [status EXCEPT ![n] = "LOADED"]
            /\ pc' = [pc EXCEPT ![c] = "initialize"]
            /\ job' = job
        BY <2>4, <3>1 DEF DestroyResolves, BeginLoad, Await, UpdateStatus
      <4>2. CASE p = n
        BY <3>1, <4>1, <4>2 DEF Loading
      <4>3. CASE p # n
        <5>1. ~Loading(c, p)
          BY <4>3 DEF Loading
        <5>2. QED
          BY <2>2, <4>1, <4>3, <5>1, LoadingKept
      <4>4. QED
        BY <4>2, <4>3
    <3>2. CASE job[c].op = "unload"
      <4>1. ~Loading(c, p) /\ (status'[p] = status[p] \/ status'[p] = "absent")
        BY <2>4, <3>2 DEF DestroyResolves, Unregister, Loading, UpdateStatus
      <4>2. QED
        BY <2>2, <4>1, LoadingKept
    <3>3. QED
      BY <2>4, <3>1, <3>2 DEF DestroyResolves
  <2>5. CASE InitializeResolves(c)
    <3>1. status' = [status EXCEPT ![n] = "INITIALIZED"]
      BY <2>5 DEF InitializeResolves, Enabled, UpdateStatus
    <3>2. CASE p = n
      BY <3>1, <3>2
    <3>3. CASE p # n
      <4>1. ~Loading(c, p)
        BY <3>3 DEF Loading
      <4>2. QED
        BY <2>2, <3>1, <3>3, <4>1, LoadingKept
    <3>4. QED
      BY <3>2, <3>3
  <2>6. CASE BootstrapResolves(c)
    <3>1. ~Loading(c, p) /\ status' = status
      BY <2>6 DEF BootstrapResolves, Loading, tables
    <3>2. QED
      BY <2>2, <3>1, LoadingKept
  <2>7. CASE HookRejects(c)
    <3>1. \/ status'[p] = "FAILED"
          \/ status'[p] = status[p] /\ ~Loading(c, p)
      BY <2>7 DEF HookRejects, Loading, UpdateStatus
    <3>2. QED
      BY <2>2, <3>1, LoadingKept
  <2>8. QED
    BY <1>3, <2>3, <2>4, <2>5, <2>6, <2>7 DEF HookSettles
<1>4. ASSUME NEW c \in Calls, Request(c)
      PROVE  status'[p] = "LOADED" => \E d \in Procs : Loading(d, p)'
  <2>1. pc[c] = "idle" /\ (status'[p] = status[p] \/ status'[p] \in {"DISABLED", "INITIALIZED"})
    BY <1>4 DEF Request, ReloadPlugin, UnloadPlugin, DisablePlugin, EnablePlugin, Enabled,
                Ready, tables, UpdateStatus
  <2>2. ASSUME NEW d \in Procs, d # c PROVE pc'[d] = pc[d] /\ job'[d] = job[d]
    BY <1>4, <2>2 DEF Request, ReloadPlugin, UnloadPlugin, DisablePlugin, EnablePlugin, Begin, Await
  <2>3. ~Loading(c, p)
    BY <2>1 DEF Loading
  <2>4. QED
    BY <2>1, <2>2, <2>3, LoadingKept
<1>5. ASSUME NEW q \in Plugins, Register(q)
      PROVE  status'[p] = "LOADED" => \E c \in Procs : Loading(c, p)'
  BY <1>5, LoadingKept DEF Register, UpdateStatus
<1>6. CASE ClearRegistry
  BY <1>6 DEF ClearRegistry
<1>7. CASE OnModuleDestroy \/ UNCHANGED vars
  BY <1>7, LoadingKept DEF OnModuleDestroy, vars, tables
<1>8. QED
  BY <1>2, <1>3, <1>4, <1>5, <1>6, <1>7 DEF Next

\* No overlap of calls and no failure of a hook leaves a plugin LOADED
\* without a call that is loading it.
THEOREM LoadedTransient == Spec => []LoadedIsTransient
<1>1. Init => LoadedIsTransient
  BY DEF Init, LoadedIsTransient
<1>2. QED
  BY <1>1, InitTypeInv, NextTypeInv, NextLoaded, PTL DEF Spec

-----------------------------------------------------------------------------
(* The two tables agree about a disabled module plugin: every step that     *)
(* writes DISABLED for one leaves its entry not enabled, and every step     *)
(* that enables an entry writes INITIALIZED with it.                        *)

LEMMA NextReversible ==
  TypeInv /\ ModuleDisableReversible /\ [Next]_vars => ModuleDisableReversible'
<1> SUFFICES ASSUME TypeInv, ModuleDisableReversible, [Next]_vars,
                    NEW p \in ModulePlugins
             PROVE  status'[p] = "DISABLED" => states'[p] # "enabled"
  BY DEF ModuleDisableReversible
<1> USE DEF TypeInv, TypeOK, UpdateStatus, SetState, Disabled, Catch
<1>0. p \in Plugins /\ (status[p] = "DISABLED" => states[p] # "enabled")
  BY ConstantsAssumption DEF ModuleDisableReversible
<1>1. CASE Boot
  <2>1. ASSUME NEW q \in Plugins, BootLoad(q)
        PROVE  status'[p] = "DISABLED" => states'[p] # "enabled"
    BY <1>0, <2>1 DEF BootLoad, BeginLoad
  <2>2. ASSUME NEW q \in Plugins, LoadSystemPlugin(q) \/ LoadFeaturePlugin(q)
        PROVE  status'[p] = "DISABLED" => states'[p] # "enabled"
    <3>1. CASE BootLoad(q)
      BY <2>1, <3>1
    <3>2. CASE ~BootLoad(q)
      BY <1>0, <2>2, <3>2 DEF LoadSystemPlugin, LoadFeaturePlugin
    <3>3. QED
      BY <3>1, <3>2
  <2>3. CASE StartFeaturePass \/ Listen
    BY <1>0, <2>3 DEF StartFeaturePass, Listen, tables
  <2>4. QED
    BY <1>1, <2>2, <2>3 DEF Boot
<1>2. ASSUME NEW c \in Procs, HookSettles(c)
      PROVE  status'[p] = "DISABLED" => states'[p] # "enabled"
  <2>1. CASE ShutdownResolves(c)
    BY <1>0, <2>1 DEF ShutdownResolves
  <2>2. CASE DestroyResolves(c)
    BY <1>0, <2>2 DEF DestroyResolves, Unregister, BeginLoad
  <2>3. CASE InitializeResolves(c)
    BY <1>0, <2>3 DEF InitializeResolves, Enabled
  <2>4. CASE BootstrapResolves(c) \/ HookRejects(c)
    BY <1>0, <2>4 DEF BootstrapResolves, HookRejects, tables
  <2>5. QED
    BY <1>2, <2>1, <2>2, <2>3, <2>4 DEF HookSettles
<1>3. ASSUME NEW c \in Calls, Request(c)
      PROVE  status'[p] = "DISABLED" => states'[p] # "enabled"
  <2>1. ASSUME NEW q \in Plugins, DisablePlugin(c, q)
        PROVE  status'[p] = "DISABLED" => states'[p] # "enabled"
    BY <1>0, <2>1 DEF DisablePlugin, tables
  <2>2. ASSUME NEW q \in Plugins, NEW config \in BOOLEAN, EnablePlugin(c, q, config)
        PROVE  status'[p] = "DISABLED" => states'[p] # "enabled"
    BY <1>0, <2>2 DEF EnablePlugin, Enabled
  <2>3. ASSUME NEW q \in Plugins,
               ReloadPlugin(c, q) \/ \E force \in BOOLEAN : UnloadPlugin(c, q, force)
        PROVE  status'[p] = "DISABLED" => states'[p] # "enabled"
    BY <1>0, <2>3 DEF ReloadPlugin, UnloadPlugin, tables
  <2>4. QED
    BY <1>3, <2>1, <2>2, <2>3 DEF Request
<1>4. ASSUME NEW q \in Plugins, Register(q)
      PROVE  status'[p] = "DISABLED" => states'[p] # "enabled"
  BY <1>0, <1>4 DEF Register
<1>5. CASE ClearRegistry \/ OnModuleDestroy \/ UNCHANGED vars
  BY <1>0, <1>5 DEF ClearRegistry, OnModuleDestroy, vars, tables
<1>6. QED
  BY <1>1, <1>2, <1>3, <1>4, <1>5 DEF Next

\* A module plugin that was disabled can be enabled again: enablePlugin
\* never takes the early return on it.
THEOREM DisableReversible == Spec => []ModuleDisableReversible
<1>1. Init => ModuleDisableReversible
  BY ConstantsAssumption DEF Init, ModuleDisableReversible
<1>2. QED
  BY <1>1, InitTypeInv, NextTypeInv, NextReversible, PTL DEF Spec

-----------------------------------------------------------------------------
(* What holds when the clients only enable, disable and reload.  The        *)
(* strengthening says which operations can be at which hook: only a reload  *)
(* awaits destroy, so whoever tears a plugin down will write its status.    *)

RestOnly == Ops \subseteq {"enable", "enableWithConfig", "disable", "reload"}

\* What the jobs under way can be.
RestJobs ==
  \A c \in Procs : pc[c] # "idle" =>
    /\ job[c].op # "unload"
    /\ pc[c] = "destroy" => job[c].op = "reload"

RestInv == RestJobs /\ InitializedIsLive

LEMMA NextRestJobs ==
  ASSUME RestOnly PROVE TypeInv /\ RestJobs /\ [Next]_vars => RestJobs'
<1> SUFFICES ASSUME TypeInv, RestJobs, [Next]_vars, NEW d \in Procs, pc'[d] # "idle"
             PROVE  /\ job'[d].op # "unload"
                    /\ pc'[d] = "destroy" => job'[d].op = "reload"
  BY DEF RestJobs
<1> DEFINE Goal == /\ job'[d].op # "unload"
                   /\ pc'[d] = "destroy" => job'[d].op = "reload"
<1> USE RestOnly DEF RestOnly, TypeInv, TypeOK, Await, Finish, MayToggle
<1>0. ASSUME pc'[d] = pc[d], job'[d] = job[d] PROVE Goal
  BY <1>0 DEF RestJobs
<1>1. CASE Boot
  <2>1. ASSUME NEW q \in Plugins, BootLoad(q) PROVE Goal
    <3>1. CASE d = Main /\ status[q] # "INITIALIZED"
      BY <2>1, <3>1 DEF BootLoad, BeginLoad, NewJob
    <3>2. CASE ~(d = Main /\ status[q] # "INITIALIZED")
      <4>1. pc'[d] = pc[d] /\ job'[d] = job[d]
        BY <2>1, <3>2 DEF BootLoad, BeginLoad
      <4>2. QED
        BY <1>0, <4>1
    <3>3. QED
      BY <3>1, <3>2
  <2>2. ASSUME NEW q \in Plugins, LoadSystemPlugin(q) \/ LoadFeaturePlugin(q) PROVE Goal
    <3>1. BootLoad(q) \/ UNCHANGED <<pc, job>>
      BY <2>2 DEF LoadSystemPlugin, LoadFeaturePlugin
    <3>2. QED
      BY <1>0, <2>1, <3>1
  <2>3. CASE StartFeaturePass \/ Listen
    BY <1>0, <2>3 DEF StartFeaturePass, Listen
  <2>4. QED
    BY <1>1, <2>2, <2>3 DEF Boot
<1>2. ASSUME NEW c \in Procs, HookSettles(c) PROVE Goal
  <2>1. CASE d = c
    <3>1. pc[c] # "idle"
      BY <1>2 DEF HookSettles, ShutdownResolves, DestroyResolves, InitializeResolves,
                  BootstrapResolves, HookRejects
    <3>2. job'[c] = job[c] /\ (pc'[c] = "destroy" => job[c].op = "reload")
      BY <1>2, <2>1, <3>1
         DEF HookSettles, ShutdownResolves, DestroyResolves, InitializeResolves,
             BootstrapResolves, HookRejects, BeginLoad, RestJobs
    <3>3. QED
      BY <2>1, <3>1, <3>2 DEF RestJobs
  <2>2. CASE d # c
    <3>1. pc'[d] = pc[d] /\ job'[d] = job[d]
      BY <1>2, <2>2 DEF HookSettles, ShutdownResolves, DestroyResolves, InitializeResolves,
                        BootstrapResolves, HookRejects, BeginLoad
    <3>2. QED
      BY <1>0, <3>1
  <2>3. QED
    BY <2>1, <2>2
<1>3. ASSUME NEW c \in Calls, Request(c) PROVE Goal
  <2>1. CASE d # c
    <3>1. pc'[d] = pc[d] /\ job'[d] = job[d]
      BY <1>3, <2>1 DEF Request, ReloadPlugin, UnloadPlugin, DisablePlugin, EnablePlugin, Begin
    <3>2. QED
      BY <1>0, <3>1
  <2>2. CASE d = c
    <3>1. ASSUME NEW q \in Plugins, ReloadPlugin(c, q) PROVE Goal
      BY <2>2, <3>1 DEF ReloadPlugin, Begin, NewJob, Procs
    <3>2. ASSUME NEW q \in Plugins, NEW force \in BOOLEAN, UnloadPlugin(c, q, force) PROVE Goal
      BY <3>2 DEF UnloadPlugin, Ready
    <3>3. ASSUME NEW q \in Plugins, DisablePlugin(c, q) PROVE Goal
      BY <1>0, <2>2, <3>3 DEF DisablePlugin, Begin, NewJob, Procs
    <3>4. ASSUME NEW q \in Plugins, NEW config \in BOOLEAN, EnablePlugin(c, q, config) PROVE Goal
      BY <1>0, <2>2, <3>4 DEF EnablePlugin, Begin, NewJob, Procs
    <3>5. QED
      BY <1>3, <3>1, <3>2, <3>3, <3>4 DEF Request
  <2>3. QED
    BY <2>1, <2>2
<1>4. CASE ClearRegistry \/ OnModuleDestroy \/ \E q \in Plugins : Register(q)
  BY <1>4 DEF ClearRegistry, OnModuleDestroy, Register
<1>5. CASE UNCHANGED vars
  BY <1>0, <1>5 DEF vars
<1>6. QED
  BY <1>1, <1>2, <1>3, <1>4, <1>5 DEF Next

LEMMA NextLive ==
  ASSUME RestOnly
  PROVE  TypeInv /\ RestJobs /\ InitializedIsLive /\ [Next]_vars => InitializedIsLive'
<1> SUFFICES ASSUME TypeInv, RestJobs, InitializedIsLive, [Next]_vars,
                    NEW p \in ModulePlugins \cup ProtectedPlugins
             PROVE  (status[p] = "INITIALIZED" => initialized[p] \/ TornDown(p))'
  BY DEF InitializedIsLive
<1> DEFINE Goal == (status[p] = "INITIALIZED" => initialized[p] \/ TornDown(p))'
<1> USE RestOnly DEF RestOnly, TypeInv, TypeOK, UpdateStatus, MayToggle, Disabled, Catch
<1>0. p \in Plugins /\ (status[p] = "INITIALIZED" => initialized[p] \/ TornDown(p))
  BY ConstantsAssumption DEF InitializedIsLive
\* A step that writes neither INITIALIZED nor the history, and at whose end
\* every call that was tearing p down still is.
<1>k. ASSUME status'[p] = "INITIALIZED" => status[p] = "INITIALIZED",
             initialized'[p] = initialized[p],
             \A c \in Procs : pc[c] = "destroy" => pc'[c] = pc[c] /\ job'[c] = job[c]
      PROVE  Goal
  BY <1>0, <1>k DEF TornDown
<1>1. CASE Boot
  <2>1. ASSUME NEW q \in Plugins, LoadSystemPlugin(q) \/ LoadFeaturePlugin(q) PROVE Goal
    <3>1. initialized'[p] = initialized[p]
      BY <2>1 DEF LoadSystemPlugin, LoadFeaturePlugin, plugin
    <3>2. status'[p] = "INITIALIZED" => status[p] = "INITIALIZED"
      BY <1>0, <2>1 DEF LoadSystemPlugin, LoadFeaturePlugin, BootLoad, BeginLoad
    <3>3. \A c \in Procs : pc[c] = "destroy" => pc'[c] = pc[c] /\ job'[c] = job[c]
      BY <2>1 DEF LoadSystemPlugin, LoadFeaturePlugin, BootLoad, BeginLoad, Await
    <3>4. QED
      BY <1>k, <3>1, <3>2, <3>3
  <2>2. CASE StartFeaturePass \/ Listen
    BY <1>k, <2>2 DEF StartFeaturePass, Listen, tables, plugin
  <2>3. QED
    BY <1>1, <2>1, <2>2 DEF Boot
<1>2. ASSUME NEW c \in Procs, HookSettles(c) PROVE Goal
  <2>1. /\ pc[c] # "idle" => job[c].op # "unload" /\ (pc[c] = "destroy" => job[c].op = "reload")
        /\ pc[c] # "idle" => job[c] \in Jobs
    BY DEF RestJobs, JobsOK
  <2>2. CASE ShutdownResolves(c)
    <3>1. CASE job[c].op = "reload" /\ job[c].name = p
      <4>1. pc'[c] = "destroy" /\ job'[c].name = p /\ job'[c].op = "reload"
        BY <2>2, <3>1 DEF ShutdownResolves, Await
      <4>2. QED
        BY <4>1 DEF TornDown
    <3>2. CASE ~(job[c].op = "reload" /\ job[c].name = p)
      <4>1. initialized'[p] = initialized[p]
        BY <1>0, <2>1, <2>2, <3>2 DEF ShutdownResolves, RunDestroy
      <4>2. status'[p] = "INITIALIZED" => status[p] = "INITIALIZED"
        BY <1>0, <2>2 DEF ShutdownResolves
      <4>3. \A d \in Procs : pc[d] = "destroy" => pc'[d] = pc[d] /\ job'[d] = job[d]
        BY <2>2 DEF ShutdownResolves, Await, Finish
      <4>4. QED
        BY <1>k, <4>1, <4>2, <4>3
    <3>3. QED
      BY <3>1, <3>2
  \* The call whose destroy settles marks the plugin LOADED or FAILED.
  <2>3. CASE DestroyResolves(c)
    <3>1. CASE job[c].name = p
      BY <1>0, <2>1, <2>3, <3>1 DEF DestroyResolves, BeginLoad
    <3>2. CASE job[c].name # p
      <4>1. initialized'[p] = initialized[p] /\ status'[p] = status[p]
        BY <1>0, <2>1, <2>3, <3>2 DEF DestroyResolves, RunDestroy, BeginLoad, Jobs
      <4>2. \A d \in Procs : d # c => pc'[d] = pc[d] /\ job'[d] = job[d]
        BY <2>1, <2>3 DEF DestroyResolves, BeginLoad, Await
      <4>3. QED
        BY <1>0, <3>2, <4>1, <4>2 DEF TornDown
    <3>3. QED
      BY <3>1, <3>2
  <2>4. CASE InitializeResolves(c)
    <3>1. CASE job[c].name = p
      BY <1>0, <2>4, <3>1 DEF InitializeResolves, RunInitialize
    <3>2. CASE job[c].name # p
      <4>0. job[c].name \in Plugins
        BY <2>1, <2>4 DEF InitializeResolves, Jobs
      <4>1. initialized'[p] = initialized[p] /\ status'[p] = status[p]
        <5>1. initialized'[p] = initialized[p]
          BY <1>0, <2>4, <3>2, <4>0 DEF InitializeResolves, RunInitialize
        <5>2. status' = [status EXCEPT ![job[c].name] = "INITIALIZED"]
          BY <2>4 DEF InitializeResolves, Enabled
        <5>3. QED
          BY <1>0, <3>2, <4>0, <5>1, <5>2
      <4>2. \A d \in Procs : pc[d] = "destroy" => pc'[d] = pc[d] /\ job'[d] = job[d]
        BY <2>4 DEF InitializeResolves, Await, Finish
      <4>3. QED
        BY <1>k, <4>1, <4>2
    <3>3. QED
      BY <3>1, <3>2
  <2>5. CASE BootstrapResolves(c)
    BY <1>k, <2>5 DEF BootstrapResolves, tables, plugin, Finish
  <2>6. CASE HookRejects(c)
    <3>1. CASE pc[c] = "destroy" /\ job[c].name = p
      BY <1>0, <2>1, <2>6, <3>1 DEF HookRejects
    <3>2. CASE ~(pc[c] = "destroy" /\ job[c].name = p)
      <4>1. initialized'[p] = initialized[p]
        BY <1>0, <2>1, <2>6, <3>2 DEF HookRejects, RunDestroy, Jobs
      <4>2. status'[p] = "INITIALIZED" => status[p] = "INITIALIZED"
        BY <1>0, <2>6 DEF HookRejects
      <4>3. \A d \in Procs : d # c => pc'[d] = pc[d] /\ job'[d] = job[d]
        BY <2>6 DEF HookRejects, Finish
      <4>4. TornDown(p) => TornDown(p)'
        BY <3>2, <4>3 DEF TornDown
      <4>5. QED
        BY <1>0, <4>1, <4>2, <4>4
    <3>3. QED
      BY <3>1, <3>2
  <2>7. QED
    BY <1>2, <2>2, <2>3, <2>4, <2>5, <2>6 DEF HookSettles
<1>3. ASSUME NEW c \in Calls, Request(c) PROVE Goal
  <2>0. ASSUME NEW d \in Procs, pc[d] = "destroy" PROVE pc'[d] = pc[d] /\ job'[d] = job[d]
    <3>1. d # c \/ UNCHANGED <<pc, job>>
      BY <1>3, <2>0 DEF Request, ReloadPlugin, UnloadPlugin, DisablePlugin, EnablePlugin, Ready
    <3>2. QED
      BY <1>3, <2>0, <3>1
         DEF Request, ReloadPlugin, UnloadPlugin, DisablePlugin, EnablePlugin, Begin, Await
  <2>1. ASSUME NEW q \in Plugins,
               \/ ReloadPlugin(c, q) \/ DisablePlugin(c, q)
               \/ \E force \in BOOLEAN : UnloadPlugin(c, q, force)
        PROVE  Goal
    <3>1. /\ initialized'[p] = initialized[p]
          /\ status'[p] = "INITIALIZED" => status[p] = "INITIALIZED"
      BY <1>0, <2>1 DEF ReloadPlugin, DisablePlugin, UnloadPlugin, tables, plugin
    <3>2. QED
      BY <1>k, <2>0, <3>1
  <2>2. ASSUME NEW q \in Plugins, NEW config \in BOOLEAN, EnablePlugin(c, q, config) PROVE Goal
    <3>1. initialized' = initialized
      BY <2>2 DEF EnablePlugin
    <3>2. status' = status \/ (p # q /\ status' = [status EXCEPT ![q] = "INITIALIZED"])
      BY <2>2 DEF EnablePlugin, Enabled
    <3>3. QED
      BY <1>0, <1>k, <2>0, <3>1, <3>2
  <2>3. QED
    BY <1>3, <2>1, <2>2 DEF Request
<1>4. CASE ClearRegistry \/ OnModuleDestroy \/ \E q \in Plugins : Register(q)
  BY <1>4 DEF ClearRegistry, OnModuleDestroy, Register
<1>5. CASE UNCHANGED vars
  BY <1>k, <1>5 DEF vars, tables, plugin
<1>6. QED
  BY <1>1, <1>2, <1>3, <1>4, <1>5 DEF Next

LEMMA InitRestInv == Init => RestInv
BY ConstantsAssumption DEF Init, RestInv, RestJobs, InitializedIsLive

\* With REST clients, a module or protected plugin is INITIALIZED only while
\* its last initialize has not been undone, or while a reload is undoing it
\* and will write the status, however calls overlap and hooks fail.
THEOREM Live == ASSUME RestOnly PROVE Spec => []InitializedIsLive
<1>1. TypeInv /\ RestInv /\ [Next]_vars => RestInv'
  BY RestOnly, NextRestJobs, NextLive DEF RestInv
<1>2. RestInv => InitializedIsLive
  BY DEF RestInv
<1>3. QED
  BY <1>1, <1>2, InitTypeInv, InitRestInv, NextTypeInv, PTL DEF Spec

-----------------------------------------------------------------------------
(* What a client that was told "disabled" can rely on.                      *)

InFlight(c) == pc[c] # "idle"

\* A plugin that is INITIALIZED although its disabling was the last news is
\* being reloaded, and the reload will be the next news.
Reloaded(c, p) == pc[c] = "bootstrap" /\ job[c].name = p /\ job[c].op = "reload"

\* Clients are told nothing before start-up is over; then only main.ts' own
\* call has been a "boot", and a protected plugin is not being disabled.
BootIsOver ==
  /\ InFlight(Main) => phase \in {"system", "feature"} /\ job[Main].op = "boot"
  /\ \A c \in Procs : InFlight(c) /\ job[c].op = "boot" => c = Main
  /\ \A c \in Procs : InFlight(c) /\ job[c].op = "disable" => job[c].name \notin ProtectedPlugins
  /\ \A c \in Calls : InFlight(c) => phase \notin {"system", "feature"}
  /\ \A p \in Plugins : told[p] = "disabled" =>
       p \notin ProtectedPlugins /\ phase \notin {"system", "feature"}

NewsIsTrue ==
  \A p \in Plugins : told[p] = "disabled" /\ status[p] = "INITIALIZED" =>
    \E c \in Procs : Reloaded(c, p)

\* With no call that carries a config, only a module plugin is enabled across
\* an await.
EnablesModules ==
  \A c \in Procs : InFlight(c) /\ job[c].op = "enable" => job[c].name \in ModulePlugins

\* What a call may have become in a step, by what BootIsOver says of calls.
LEMMA CallsOfPhase ==
  ASSUME TypeInv, BootIsOver, [Next]_vars, NEW d \in Procs, pc'[d] # "idle"
  PROVE  /\ d = Main => phase' \in {"system", "feature"} /\ job'[d].op = "boot"
         /\ d \in Calls => phase' \notin {"system", "feature"} /\ job'[d].op # "boot"
         /\ job'[d].op = "disable" => job'[d].name \notin ProtectedPlugins
<1> DEFINE Goal == /\ d = Main => phase' \in {"system", "feature"} /\ job'[d].op = "boot"
                   /\ d \in Calls => phase' \notin {"system", "feature"} /\ job'[d].op # "boot"
                   /\ job'[d].op = "disable" => job'[d].name \notin ProtectedPlugins
<1> USE ConstantsAssumption DEF TypeInv, TypeOK, Procs, Await, Finish, MayToggle
<1>0. ASSUME pc'[d] = pc[d], job'[d] = job[d],
             phase' = phase \/ (phase = "listening" /\ phase' = "closed")
      PROVE  Goal
  BY <1>0 DEF BootIsOver, InFlight
<1>1. CASE Boot
  <2>1. ASSUME NEW q \in Plugins, LoadSystemPlugin(q) \/ LoadFeaturePlugin(q) PROVE Goal
    <3>1. phase' = phase /\ phase \in {"system", "feature"} /\ pc[Main] = "idle"
          /\ (BootLoad(q) \/ UNCHANGED <<pc, job>>)
      BY <2>1 DEF LoadSystemPlugin, LoadFeaturePlugin
    <3>2. CASE UNCHANGED <<pc, job>>
      BY <1>0, <3>1, <3>2
    <3>3. CASE BootLoad(q) /\ d = Main /\ status[q] # "INITIALIZED"
      BY <3>1, <3>3 DEF BootLoad, BeginLoad, NewJob
    <3>4. CASE BootLoad(q) /\ ~(d = Main /\ status[q] # "INITIALIZED")
      <4>1. pc'[d] = pc[d] /\ job'[d] = job[d]
        BY <3>4 DEF BootLoad, BeginLoad
      <4>2. QED
        BY <1>0, <3>1, <4>1
    <3>5. QED
      BY <3>1, <3>2, <3>3, <3>4
  <2>2. CASE StartFeaturePass \/ Listen
    <3>1. pc' = pc /\ phase \in {"system", "feature"} /\ pc[Main] = "idle"
      BY <2>2 DEF StartFeaturePass, Listen
    <3>2. \A c \in Calls : pc[c] = "idle"
      BY <3>1 DEF BootIsOver, InFlight
    <3>3. QED
      BY <3>1, <3>2
  <2>3. QED
    BY <1>1, <2>1, <2>2 DEF Boot
<1>2. ASSUME NEW c \in Procs, HookSettles(c) PROVE Goal
  <2>1. phase' = phase
    BY <1>2 DEF HookSettles, ShutdownResolves, DestroyResolves, InitializeResolves,
                BootstrapResolves, HookRejects, boot
  <2>2. CASE d # c
    <3>1. pc'[d] = pc[d] /\ job'[d] = job[d]
      BY <1>2, <2>2 DEF HookSettles, ShutdownResolves, DestroyResolves, InitializeResolves,
                        BootstrapResolves, HookRejects, BeginLoad
    <3>2. QED
      BY <1>0, <2>1, <3>1
  <2>3. CASE d = c
    <3>1. pc[c] # "idle" /\ job'[c] = job[c]
      BY <1>2, <2>3 DEF HookSettles, ShutdownResolves, DestroyResolves, InitializeResolves,
                        BootstrapResolves, HookRejects, BeginLoad
    <3>2. QED
      BY <2>1, <2>3, <3>1 DEF BootIsOver, InFlight
  <2>4. QED
    BY <2>2, <2>3
<1>3. ASSUME NEW c \in Calls, Request(c) PROVE Goal
  <2>1. phase' = phase /\ phase = "listening"
    BY <1>3 DEF Request, ReloadPlugin, UnloadPlugin, DisablePlugin, EnablePlugin, Ready, boot
  <2>2. CASE d # c
    <3>1. pc'[d] = pc[d] /\ job'[d] = job[d]
      BY <1>3, <2>2 DEF Request, ReloadPlugin, UnloadPlugin, DisablePlugin, EnablePlugin, Begin
    <3>2. QED
      BY <1>0, <2>1, <3>1
  <2>3. CASE d = c
    <3>1. ASSUME NEW q \in Plugins, ReloadPlugin(c, q) PROVE Goal
      BY <2>1, <2>3, <3>1 DEF ReloadPlugin, Begin, NewJob
    <3>2. ASSUME NEW q \in Plugins, NEW force \in BOOLEAN, UnloadPlugin(c, q, force) PROVE Goal
      BY <2>1, <2>3, <3>2 DEF UnloadPlugin, Begin, NewJob
    <3>3. ASSUME NEW q \in Plugins, DisablePlugin(c, q) PROVE Goal
      BY <1>0, <2>1, <2>3, <3>3 DEF DisablePlugin, Begin, NewJob
    <3>4. ASSUME NEW q \in Plugins, NEW config \in BOOLEAN, EnablePlugin(c, q, config) PROVE Goal
      BY <1>0, <2>1, <2>3, <3>4 DEF EnablePlugin, Begin, NewJob
    <3>5. QED
      BY <1>3, <3>1, <3>2, <3>3, <3>4 DEF Request
  <2>4. QED
    BY <2>2, <2>3
<1>4. CASE ClearRegistry \/ OnModuleDestroy \/ UNCHANGED vars \/ \E q \in Plugins : Register(q)
  BY <1>0, <1>4 DEF ClearRegistry, OnModuleDestroy, Register, vars, boot
<1>5. QED
  BY <1>1, <1>2, <1>3, <1>4 DEF Next

LEMMA NextBootIsOver == TypeInv /\ BootIsOver /\ [Next]_vars => BootIsOver'
<1> SUFFICES ASSUME TypeInv, BootIsOver, [Next]_vars PROVE BootIsOver'
  OBVIOUS
<1> USE ConstantsAssumption DEF TypeInv, TypeOK, Procs, Tell, MayToggle, Disabled
<1>1. ASSUME NEW p \in Plugins, told'[p] = "disabled"
      PROVE  p \notin ProtectedPlugins /\ phase' \notin {"system", "feature"}
  <2> DEFINE Goal == p \notin ProtectedPlugins /\ phase' \notin {"system", "feature"}
  <2>0. ASSUME told'[p] = told[p], phase' = phase \/ phase' = "closed" PROVE Goal
    BY <1>1, <2>0 DEF BootIsOver
  <2>1. CASE Boot
    <3>1. told' = told /\ phase \in {"system", "feature"}
      BY <2>1 DEF Boot, StartFeaturePass, Listen, LoadSystemPlugin, LoadFeaturePlugin
    <3>2. QED
      BY <1>1, <3>1 DEF BootIsOver
  <2>2. ASSUME NEW c \in Procs, HookSettles(c) PROVE Goal
    <3>1. phase' = phase /\ pc[c] # "idle"
      BY <2>2 DEF HookSettles, ShutdownResolves, DestroyResolves, InitializeResolves,
                  BootstrapResolves, HookRejects, boot
    <3>2. CASE ShutdownResolves(c) /\ job[c].op = "disable" /\ p = job[c].name
      BY <3>1, <3>2 DEF BootIsOver, InFlight
    <3>3. CASE ~(ShutdownResolves(c) /\ job[c].op = "disable" /\ p = job[c].name)
      <4>1. told'[p] = told[p]
        BY <1>1, <2>2, <3>3 DEF HookSettles, ShutdownResolves, DestroyResolves,
             InitializeResolves, BootstrapResolves, HookRejects, Enabled
      <4>2. QED
        BY <2>0, <3>1, <4>1
    <3>4. QED
      BY <3>2, <3>3
  <2>3. ASSUME NEW c \in Calls, Request(c) PROVE Goal
    BY <1>1, <2>0, <2>3 DEF Request, ReloadPlugin, UnloadPlugin, DisablePlugin, EnablePlugin,
                            Enabled, Ready, boot
  <2>4. CASE ClearRegistry \/ OnModuleDestroy \/ UNCHANGED vars \/ \E q \in Plugins : Register(q)
    BY <2>0, <2>4 DEF ClearRegistry, OnModuleDestroy, Register, vars, boot
  <2>5. QED
    BY <2>1, <2>2, <2>3, <2>4 DEF Next
<1>2. QED
  BY <1>1, CallsOfPhase DEF BootIsOver, InFlight

\* A step that leaves a plugin's status and news alone, and whoever reloads
\* it, keeps the claim for that plugin.
LEMMA NewsKept ==
  ASSUME NewsIsTrue, NEW p \in Plugins, status'[p] = status[p], told'[p] = told[p],
         \A c \in Procs : Reloaded(c, p) => pc'[c] = pc[c] /\ job'[c] = job[c]
  PROVE  told'[p] = "disabled" /\ status'[p] = "INITIALIZED" => \E c \in Procs : Reloaded(c, p)'
<1> SUFFICES ASSUME told'[p] = "disabled", status'[p] = "INITIALIZED"
             PROVE  \E c \in Procs : Reloaded(c, p)'
  OBVIOUS
<1>1. told[p] = "disabled" /\ status[p] = "INITIALIZED"
  OBVIOUS
<1>2. PICK c \in Procs : Reloaded(c, p)
  BY <1>1, Zenon DEF NewsIsTrue
<1>3. pc'[c] = pc[c] /\ job'[c] = job[c]
  BY <1>2
<1>4. Reloaded(c, p)'
  BY <1>2, <1>3 DEF Reloaded
<1>5. QED
  BY <1>4

LEMMA NextNewsIsTrue == TypeInv /\ BootIsOver /\ NewsIsTrue /\ [Next]_vars => NewsIsTrue'
<1> SUFFICES ASSUME TypeInv, BootIsOver, NewsIsTrue, [Next]_vars, NEW p \in Plugins
             PROVE  told'[p] = "disabled" /\ status'[p] = "INITIALIZED" =>
                      \E c \in Procs : Reloaded(c, p)'
  BY DEF NewsIsTrue
<1> DEFINE Goal == told'[p] = "disabled" /\ status'[p] = "INITIALIZED" =>
                     \E c \in Procs : Reloaded(c, p)'
<1> USE ConstantsAssumption
        DEF TypeInv, TypeOK, UpdateStatus, Tell, MayToggle, Disabled, Catch
<1>1. CASE Boot
  <2>1. told' = told /\ phase \in {"system", "feature"}
    BY <1>1 DEF Boot, StartFeaturePass, Listen, LoadSystemPlugin, LoadFeaturePlugin
  <2>2. told'[p] # "disabled"
    BY <2>1 DEF BootIsOver
  <2>3. QED
    BY <2>2
<1>2. ASSUME NEW c \in Procs, HookSettles(c) PROVE Goal
  <2> DEFINE n == job[c].name
  <2>1. ASSUME NEW d \in Procs, d # c PROVE pc'[d] = pc[d] /\ job'[d] = job[d]
    BY <1>2, <2>1 DEF HookSettles, ShutdownResolves, DestroyResolves, InitializeResolves,
                      BootstrapResolves, HookRejects, Await, Finish, BeginLoad
  <2>2. ASSUME ~Reloaded(c, p), status'[p] = status[p], told'[p] = told[p] PROVE Goal
    BY <2>1, <2>2, NewsKept
  <2>3. CASE ShutdownResolves(c)
    <3>1. /\ ~Reloaded(c, p)
          /\ \/ status'[p] = "DISABLED"
             \/ /\ status'[p] = status[p]
                /\ told'[p] = told[p]
      BY <2>3 DEF ShutdownResolves, Reloaded
    <3>2. QED
      BY <2>2, <3>1
  <2>4. CASE DestroyResolves(c)
    <3>1. ~Reloaded(c, p) /\ told'[p] = told[p]
          /\ (status'[p] \in {"LOADED", "absent"} \/ status'[p] = status[p])
      BY <2>4 DEF DestroyResolves, BeginLoad, Unregister, Reloaded
    <3>2. QED
      BY <2>2, <3>1
  <2>5. CASE InitializeResolves(c) /\ p # n
    <3>1. ~Reloaded(c, p) /\ told'[p] = told[p] /\ status'[p] = status[p]
      BY <2>5 DEF InitializeResolves, Enabled, Reloaded
    <3>2. QED
      BY <2>2, <3>1
  <2>6. CASE InitializeResolves(c) /\ p = n
    <3>1. CASE job[c].op = "reload"
      <4>1. job' = job /\ pc' = [pc EXCEPT ![c] = "bootstrap"]
        BY <2>6, <3>1 DEF InitializeResolves, Await
      <4>2. Reloaded(c, p)'
        BY <2>6, <3>1, <4>1 DEF Reloaded
      <4>3. QED
        BY <4>2
    <3>2. CASE job[c].op = "enable"
      <4>1. told'[p] = "enabled"
        BY <2>6, <3>2 DEF InitializeResolves, Enabled
      <4>2. QED
        BY <4>1
    <3>3. CASE job[c].op = "boot"
      <4>1. c = Main /\ phase \in {"system", "feature"}
        BY <2>6, <3>3 DEF InitializeResolves, BootIsOver, InFlight
      <4>2. told'[p] = told[p] /\ told[p] # "disabled"
        BY <2>6, <3>3, <4>1 DEF InitializeResolves, BootIsOver
      <4>3. QED
        BY <4>2
    <3>4. QED
      BY <2>6, <3>1, <3>2, <3>3 DEF InitializeResolves
  <2>7. CASE BootstrapResolves(c) \/ HookRejects(c)
    <3>1. CASE Reloaded(c, p)
      <4>1. told'[p] = "reloaded"
        BY <2>7, <3>1 DEF BootstrapResolves, HookRejects, Reloaded
      <4>2. QED
        BY <4>1
    <3>2. CASE ~Reloaded(c, p)
      <4>1. /\ status'[p] \in {status[p], "FAILED"}
            /\ told'[p] \in {told[p], "reloaded"}
        BY <2>7 DEF BootstrapResolves, HookRejects, tables
      <4>2. QED
        BY <2>2, <3>2, <4>1
    <3>3. QED
      BY <3>1, <3>2
  <2>8. QED
    BY <1>2, <2>3, <2>4, <2>5, <2>6, <2>7 DEF HookSettles
<1>3. ASSUME NEW c \in Calls, Request(c) PROVE Goal
  <2>1. pc[c] = "idle"
    BY <1>3 DEF Request, ReloadPlugin, UnloadPlugin, DisablePlugin, EnablePlugin, Ready
  <2>2. ASSUME NEW d \in Procs, d # c PROVE pc'[d] = pc[d] /\ job'[d] = job[d]
    BY <1>3, <2>2 DEF Request, ReloadPlugin, UnloadPlugin, DisablePlugin, EnablePlugin, Begin, Await
  <2>3. ~Reloaded(c, p)
    BY <2>1 DEF Reloaded
  <2>4. \/ status'[p] = "DISABLED"
        \/ told'[p] = "enabled"
        \/ /\ status'[p] = status[p]
           /\ told'[p] = told[p]
    <3>1. ASSUME NEW q \in Plugins,
                 ReloadPlugin(c, q) \/ \E force \in BOOLEAN : UnloadPlugin(c, q, force)
          PROVE  status'[p] = status[p] /\ told'[p] = told[p]
      BY <3>1 DEF ReloadPlugin, UnloadPlugin, tables
    <3>2. ASSUME NEW q \in Plugins, DisablePlugin(c, q)
          PROVE  status'[p] = "DISABLED" \/ (status'[p] = status[p] /\ told'[p] = told[p])
      <4>1. \/ status' = status /\ told' = told
            \/ /\ status' = [status EXCEPT ![q] = "DISABLED"]
               /\ told' = [told EXCEPT ![q] = "disabled"]
        BY <3>2 DEF DisablePlugin, tables
      <4>2. QED
        BY <4>1
    <3>3. ASSUME NEW q \in Plugins, NEW config \in BOOLEAN, EnablePlugin(c, q, config)
          PROVE  told'[p] = "enabled" \/ (status'[p] = status[p] /\ told'[p] = told[p])
      <4>1. \/ told' = [told EXCEPT ![q] = "enabled"]
            \/ told' = told /\ status' = status
        BY <3>3 DEF EnablePlugin, Enabled
      <4>2. status' = status \/ status' = [status EXCEPT ![q] = "INITIALIZED"]
        BY <3>3 DEF EnablePlugin, Enabled
      <4>3. QED
        BY <4>1, <4>2
    <3>4. QED
      BY <1>3, <3>1, <3>2, <3>3 DEF Request
  <2>5. QED
    BY <2>2, <2>3, <2>4, NewsKept
<1>4. CASE ClearRegistry \/ \E q \in Plugins : Register(q)
  <2>1. UNCHANGED <<pc, job, told>> /\ status'[p] \in {status[p], "absent", "UNLOADED"}
    BY <1>4 DEF ClearRegistry, Register
  <2>2. QED
    BY <2>1, NewsKept
<1>5. CASE OnModuleDestroy \/ UNCHANGED vars
  BY <1>5, NewsKept DEF OnModuleDestroy, vars, tables
<1>6. QED
  BY <1>1, <1>2, <1>3, <1>4, <1>5 DEF Next

\* After a client was told that a plugin is disabled, and nothing else since,
\* the guard refuses the plugin's routes once no call on it is in flight,
\* whichever operations clients use and however they overlap.
THEOREM DisablesHonoured == Spec => []DisableHonoured
<1>1. Init => BootIsOver /\ NewsIsTrue
  BY DEF Init, BootIsOver, NewsIsTrue, InFlight, Procs
<1>2. TypeInv /\ BootIsOver /\ NewsIsTrue => DisableHonoured
  <2> SUFFICES ASSUME BootIsOver, NewsIsTrue, NEW p \in Plugins,
                      told[p] = "disabled", QuietOn(p)
               PROVE  ~GuardAllows(p)
    BY DEF DisableHonoured
  <2>1. p \notin ProtectedPlugins
    BY DEF BootIsOver
  <2>2. status[p] # "INITIALIZED"
    BY DEF NewsIsTrue, QuietOn, Reloaded
  <2>3. QED
    BY <2>1, <2>2 DEF GuardAllows
<1>3. QED
  BY <1>1, <1>2, InitTypeInv, NextTypeInv, NextBootIsOver, NextNewsIsTrue, PTL DEF Spec

-----------------------------------------------------------------------------
(* The plugins' own flags.                                                  *)

NoConfig == "enableWithConfig" \notin Ops

LEMMA NextEnablesModules ==
  ASSUME NoConfig PROVE TypeInv /\ EnablesModules /\ [Next]_vars => EnablesModules'
<1> SUFFICES ASSUME TypeInv, EnablesModules, [Next]_vars, NEW d \in Procs,
                    pc'[d] # "idle", job'[d].op = "enable"
             PROVE  job'[d].name \in ModulePlugins
  BY DEF EnablesModules, InFlight
<1> USE NoConfig, ConstantsAssumption DEF NoConfig, TypeInv, TypeOK, Procs, Await, Finish, MayToggle
<1>0. ASSUME pc[d] # "idle", job'[d] = job[d] PROVE job'[d].name \in ModulePlugins
  BY <1>0 DEF EnablesModules, InFlight
<1>1. CASE Boot
  <2>1. CASE UNCHANGED <<pc, job>>
    BY <1>0, <2>1
  <2>2. ASSUME NEW q \in Plugins, BootLoad(q) PROVE job'[d].name \in ModulePlugins
    <3>1. CASE d = Main /\ status[q] # "INITIALIZED"
      BY <2>2, <3>1 DEF BootLoad, BeginLoad, NewJob
    <3>2. CASE ~(d = Main /\ status[q] # "INITIALIZED")
      <4>1. pc'[d] = pc[d] /\ job'[d] = job[d]
        BY <2>2, <3>2 DEF BootLoad, BeginLoad
      <4>2. QED
        BY <1>0, <4>1
    <3>3. QED
      BY <3>1, <3>2
  <2>3. QED
    BY <1>1, <2>1, <2>2 DEF Boot, StartFeaturePass, Listen, LoadSystemPlugin, LoadFeaturePlugin
<1>2. ASSUME NEW c \in Procs, HookSettles(c) PROVE job'[d].name \in ModulePlugins
  <2>1. pc[d] # "idle" /\ job'[d] = job[d]
    BY <1>2 DEF HookSettles, ShutdownResolves, DestroyResolves, InitializeResolves,
                BootstrapResolves, HookRejects, BeginLoad
  <2>2. QED
    BY <1>0, <2>1
<1>3. ASSUME NEW c \in Calls, Request(c) PROVE job'[d].name \in ModulePlugins
  <2>1. CASE d # c
    <3>1. pc'[d] = pc[d] /\ job'[d] = job[d]
      BY <1>3, <2>1 DEF Request, ReloadPlugin, UnloadPlugin, DisablePlugin, EnablePlugin, Begin
    <3>2. QED
      BY <1>0, <3>1
  <2>2. CASE d = c
    <3>1. ASSUME NEW q \in Plugins,
                 \/ ReloadPlugin(c, q) \/ \E force \in BOOLEAN : UnloadPlugin(c, q, force)
          PROVE  job'[d].name \in ModulePlugins
      BY <2>2, <3>1 DEF ReloadPlugin, UnloadPlugin, Begin, NewJob
    <3>2. ASSUME NEW q \in Plugins, DisablePlugin(c, q)
          PROVE  job'[d].name \in ModulePlugins
      BY <1>0, <2>2, <3>2 DEF DisablePlugin, Begin, NewJob
    <3>3. ASSUME NEW q \in Plugins, NEW config \in BOOLEAN, EnablePlugin(c, q, config)
          PROVE  job'[d].name \in ModulePlugins
      BY <1>0, <2>2, <3>3 DEF EnablePlugin, Begin, NewJob, Ready
    <3>4. QED
      BY <1>3, <3>1, <3>2, <3>3 DEF Request
  <2>3. QED
    BY <2>1, <2>2
<1>4. CASE ClearRegistry \/ OnModuleDestroy \/ UNCHANGED vars \/ \E q \in Plugins : Register(q)
  BY <1>0, <1>4 DEF ClearRegistry, OnModuleDestroy, Register, vars
<1>5. QED
  BY <1>1, <1>2, <1>3, <1>4 DEF Next

LEMMA NextSoftDisabled ==
  TypeInv /\ EnablesModules /\ SoftDisabledIsRefused /\ [Next]_vars => SoftDisabledIsRefused'
<1> SUFFICES ASSUME TypeInv, EnablesModules, SoftDisabledIsRefused, [Next]_vars,
                    NEW p \in FlaggedPlugins
             PROVE  p \in flagOn' \/ status'[p] # "INITIALIZED"
  BY DEF SoftDisabledIsRefused
<1> DEFINE Goal == p \in flagOn' \/ status'[p] # "INITIALIZED"
<1> USE ConstantsAssumption DEF TypeInv, TypeOK, UpdateStatus, Disabled, Catch
<1>0. p \in Plugins /\ p \notin ModulePlugins /\ (p \in flagOn \/ status[p] # "INITIALIZED")
  BY DEF SoftDisabledIsRefused
<1>1. CASE Boot
  BY <1>0, <1>1 DEF Boot, StartFeaturePass, Listen, LoadSystemPlugin, LoadFeaturePlugin,
                    BootLoad, BeginLoad, tables, plugin
<1>2. ASSUME NEW c \in Procs, HookSettles(c) PROVE Goal
  <2>1. CASE InitializeResolves(c)
    <3>1. CASE job[c].op \in {"boot", "reload"}
      BY <1>0, <2>1, <3>1 DEF InitializeResolves, SoftEnable
    <3>2. CASE job[c].op = "enable"
      <4>1. job[c].name \in ModulePlugins
        BY <2>1, <3>2 DEF InitializeResolves, EnablesModules, InFlight
      <4>2. QED
        BY <1>0, <2>1, <3>2, <4>1 DEF InitializeResolves, Enabled
    <3>3. QED
      BY <2>1, <3>1, <3>2 DEF InitializeResolves
  <2>2. CASE ~InitializeResolves(c)
    BY <1>0, <1>2, <2>2 DEF HookSettles, ShutdownResolves, DestroyResolves, BootstrapResolves,
                            HookRejects, BeginLoad, Unregister, tables, plugin
  <2>3. QED
    BY <2>1, <2>2
<1>3. ASSUME NEW c \in Calls, Request(c) PROVE Goal
  BY <1>0, <1>3 DEF Request, ReloadPlugin, UnloadPlugin, DisablePlugin, EnablePlugin, SoftEnable,
                    Enabled, MayToggle, tables, plugin
<1>4. CASE ClearRegistry \/ OnModuleDestroy \/ UNCHANGED vars \/ \E q \in Plugins : Register(q)
  BY <1>0, <1>4 DEF ClearRegistry, OnModuleDestroy, Register, vars, tables, plugin
<1>5. QED
  BY <1>1, <1>2, <1>3, <1>4 DEF Next

\* Unless an enable carries a config, an object plugin that is switched off by
\* its flag is never INITIALIZED in the registry, however calls overlap.
THEOREM SoftDisabledRefused == ASSUME NoConfig PROVE Spec => []SoftDisabledIsRefused
<1>1. Init => EnablesModules /\ SoftDisabledIsRefused
  BY ConstantsAssumption DEF Init, EnablesModules, SoftDisabledIsRefused, InFlight
<1>2. TypeInv /\ EnablesModules /\ [Next]_vars => EnablesModules'
  BY NoConfig, NextEnablesModules
<1>3. QED
  BY <1>1, <1>2, InitTypeInv, NextTypeInv, NextSoftDisabled, PTL DEF Spec

-----------------------------------------------------------------------------
(* What an unload removes stays removed, when calls do not overlap.         *)

\* Of two calls that overlap the first may unload the plugin the second then
\* writes to the tables, and clear leaves the loader's table as it is: the
\* promise is for callers that wait, on a registry that nobody clears.
OneCall == \A c, d \in Calls : InFlight(c) /\ InFlight(d) => c = d

StepWithoutClear ==
  \/ Boot
  \/ \E c \in Procs : HookSettles(c)
  \/ \E c \in Calls : Request(c)
  \/ \E p \in Plugins : Register(p)
  \/ OnModuleDestroy

\* What is being worked on is registered, and start-up unregisters nothing.
NoOrphanInv ==
  /\ NoOrphanEntries
  /\ \A c \in Procs : InFlight(c) => job[c].name \in registered
  /\ phase \in {"system", "feature"} => registered = Plugins

\* A step that unregisters nothing and writes to the tables entries of
\* registered plugins only leaves no orphan.
LEMMA WritesToRegistered ==
  ASSUME NoOrphanEntries, registered \subseteq registered',
         \A p \in Plugins \ registered' : status'[p] = status[p] /\ states'[p] = states[p]
  PROVE  NoOrphanEntries'
BY DEF NoOrphanEntries

\* The call in flight is alone.
LEMMA Alone ==
  ASSUME OneCall, BootIsOver, NEW c \in Procs, NEW d \in Procs, InFlight(c), InFlight(d)
  PROVE  c = d
<1>1. CASE c \in Calls /\ d \in Calls
  BY <1>1 DEF OneCall
<1>2. CASE c = Main \/ d = Main
  BY <1>2 DEF BootIsOver, Procs
<1>3. QED
  BY <1>1, <1>2 DEF Procs

LEMMA NextNoOrphan ==
  OneCall /\ TypeInv /\ BootIsOver /\ NoOrphanInv /\ [StepWithoutClear]_vars => NoOrphanInv'
<1> SUFFICES ASSUME OneCall, TypeInv, BootIsOver, NoOrphanInv, [StepWithoutClear]_vars
             PROVE  NoOrphanInv'
  OBVIOUS
<1> USE DEF TypeInv, TypeOK
<1> DEFINE Worked == \A c \in Procs : InFlight(c)' => job'[c].name \in registered'
           Started == phase' \in {"system", "feature"} => registered' = Plugins
<1>0. NoOrphanEntries /\ (\A c \in Procs : InFlight(c) => job[c].name \in registered)
      /\ (phase \in {"system", "feature"} => registered = Plugins)
  BY DEF NoOrphanInv
<1>1. CASE Boot
  <2>1. registered' = registered /\ registered = Plugins
    BY <1>1, <1>0 DEF Boot, StartFeaturePass, Listen, LoadSystemPlugin, LoadFeaturePlugin, tables
  <2>2. NoOrphanEntries'
    BY <2>1 DEF NoOrphanEntries
  <2>3. ASSUME NEW c \in Procs, InFlight(c)' PROVE job'[c].name \in registered'
    <3>1. ASSUME NEW p \in Plugins, BootLoad(p), c = Main, status[p] # "INITIALIZED"
          PROVE  job'[c].name \in Plugins
      BY <2>3, <3>1 DEF BootLoad, NewJob, Procs
    <3>2. CASE pc'[c] = pc[c] /\ job'[c] = job[c]
      BY <2>1, <2>3, <3>2, <1>0 DEF InFlight
    <3>3. ASSUME NEW p \in Plugins, BootLoad(p), ~(c = Main /\ status[p] # "INITIALIZED")
          PROVE  pc'[c] = pc[c] /\ job'[c] = job[c]
      BY <3>3 DEF BootLoad, BeginLoad, Await, Procs
    <3>4. QED
      BY <1>1, <2>1, <3>1, <3>2, <3>3
         DEF Boot, StartFeaturePass, Listen, LoadSystemPlugin, LoadFeaturePlugin
  <2>4. QED
    BY <2>1, <2>2, <2>3 DEF NoOrphanInv
<1>2. ASSUME NEW c \in Procs, HookSettles(c) PROVE NoOrphanInv'
  <2> DEFINE p == job[c].name
  <2>1. InFlight(c) /\ p \in registered /\ phase' = phase
    BY <1>2, <1>0 DEF InFlight, HookSettles, ShutdownResolves, DestroyResolves,
                      InitializeResolves, BootstrapResolves, HookRejects, boot
  <2>2. \A d \in Procs \ {c} : ~InFlight(d)
    BY <2>1, Alone
  <2>3. \A d \in Procs \ {c} : ~InFlight(d)'
    BY <1>2, <2>2 DEF InFlight, HookSettles, ShutdownResolves, DestroyResolves, InitializeResolves,
                      BootstrapResolves, HookRejects, BeginLoad, Await, Finish
  <2>4. CASE DestroyResolves(c) /\ job[c].op = "unload"
    <3>1. Unregister(p) /\ Finish(c)
      BY <2>4 DEF DestroyResolves
    <3>2. /\ registered' = registered \ {p}
          /\ status' = [status EXCEPT ![p] = "absent"]
          /\ states' = [states EXCEPT ![p] = "absent"]
      BY <2>1, <3>1 DEF Unregister, UpdateStatus, SetState
    <3>3. NoOrphanEntries'
      BY <1>0, <3>2 DEF NoOrphanEntries
    <3>4. ~InFlight(c)'
      BY <3>1 DEF Finish, InFlight
    <3>5. phase \notin {"system", "feature"}
      BY <2>1, <2>4 DEF BootIsOver, InFlight, Procs
    <3>6. QED
      BY <2>1, <2>3, <3>3, <3>4, <3>5 DEF NoOrphanInv
  <2>5. CASE ~(DestroyResolves(c) /\ job[c].op = "unload")
    <3>1. registered' = registered
      BY <1>2, <2>5 DEF HookSettles, ShutdownResolves, DestroyResolves, InitializeResolves,
                        BootstrapResolves, HookRejects, tables
    <3>2. \A q \in Plugins \ registered : status'[q] = status[q] /\ states'[q] = states[q]
      BY <1>2, <2>1, <2>5 DEF HookSettles, ShutdownResolves, DestroyResolves, InitializeResolves,
           BootstrapResolves, HookRejects, tables, BeginLoad, Enabled, Disabled, Catch,
           UpdateStatus, SetState
    <3>3. NoOrphanEntries'
      BY <1>0, <3>1, <3>2, WritesToRegistered
    <3>4. job'[c] = job[c] \/ ~InFlight(c)'
      BY <1>2, <2>5 DEF HookSettles, ShutdownResolves, DestroyResolves, InitializeResolves,
                        BootstrapResolves, HookRejects, Finish, InFlight
    <3>5. QED
      BY <1>0, <2>1, <2>3, <3>1, <3>3, <3>4 DEF NoOrphanInv
  <2>6. QED
    BY <2>4, <2>5
<1>3. ASSUME NEW c \in Calls, Request(c) PROVE NoOrphanInv'
  <2>1. PICK p \in Plugins :
          \/ ReloadPlugin(c, p)
          \/ \E force \in BOOLEAN : UnloadPlugin(c, p, force)
          \/ DisablePlugin(c, p)
          \/ \E config \in BOOLEAN : EnablePlugin(c, p, config)
    BY <1>3 DEF Request
  <2>2. registered' = registered /\ p \in registered /\ phase' = phase
    BY <2>1 DEF ReloadPlugin, UnloadPlugin, DisablePlugin, EnablePlugin, MayToggle, tables, boot
  <2>3. \A q \in Plugins \ registered : status'[q] = status[q] /\ states'[q] = states[q]
    BY <2>1, <2>2 DEF ReloadPlugin, UnloadPlugin, DisablePlugin, EnablePlugin, Enabled, tables,
                      UpdateStatus, SetState
  <2>4. NoOrphanEntries'
    BY <1>0, <2>2, <2>3, WritesToRegistered
  <2>5. ASSUME NEW d \in Procs, InFlight(d)' PROVE job'[d].name \in registered'
    <3>1. CASE pc'[d] = pc[d] /\ job'[d] = job[d]
      BY <1>0, <2>2, <2>5, <3>1 DEF InFlight
    <3>2. CASE d = c /\ job'[d].name = p
      BY <2>2, <3>2
    <3>3. (pc'[d] = pc[d] /\ job'[d] = job[d]) \/ (d = c /\ job'[d].name = p)
      BY <2>1 DEF ReloadPlugin, UnloadPlugin, DisablePlugin, EnablePlugin, Begin, NewJob, Await, Procs
    <3>4. QED
      BY <3>1, <3>2, <3>3
  <2>6. QED
    BY <1>0, <2>2, <2>4, <2>5 DEF NoOrphanInv
<1>4. ASSUME NEW p \in Plugins, Register(p) PROVE NoOrphanInv'
  <2>1. registered' = registered \cup {p} /\ states' = states /\ pc' = pc /\ job' = job
        /\ phase' = "listening" /\ status' = [status EXCEPT ![p] = "UNLOADED"]
    BY <1>4 DEF Register, UpdateStatus, boot
  <2>2. NoOrphanEntries'
    BY <1>0, <2>1, WritesToRegistered
  <2>3. QED
    BY <1>0, <2>1, <2>2 DEF NoOrphanInv, InFlight
<1>5. CASE OnModuleDestroy \/ UNCHANGED vars
  <2>1. registered' = registered /\ status' = status /\ pc' = pc /\ job' = job
        /\ (states' = states \/ states' = [p \in Plugins |-> "absent"])
        /\ (phase' = phase \/ phase' = "closed")
    BY <1>5 DEF OnModuleDestroy, vars, tables, boot
  <2>2. NoOrphanEntries'
    BY <1>0, <2>1 DEF NoOrphanEntries
  <2>3. QED
    BY <1>0, <2>1, <2>2 DEF NoOrphanInv, InFlight
<1>6. QED
  BY <1>1, <1>2, <1>3, <1>4, <1>5 DEF StepWithoutClear

LEMMA InitNoOrphan == Init => NoOrphanInv /\ BootIsOver /\ OneCall
BY ConstantsAssumption DEF Init, NoOrphanInv, NoOrphanEntries, BootIsOver, InFlight, OneCall, Procs

\* While no two calls overlap and nothing clears the registry, the two maps
\* hold entries of registered plugins only: what unloadPlugin removes, no
\* reload, enable, failing hook or shutdown brings back
\* (plugin-registry.service.ts:148-156, plugin-loader.service.ts:330-331).
THEOREM UnloadedStayUnloaded ==
  Init /\ [][StepWithoutClear]_vars /\ []OneCall => []NoOrphanEntries
<1>1. NoOrphanInv => NoOrphanEntries
  BY DEF NoOrphanInv
<1>2. [StepWithoutClear]_vars => [Next]_vars
  BY DEF StepWithoutClear, Next
<1>3. TypeInv /\ BootIsOver /\ NoOrphanInv /\ OneCall /\ [StepWithoutClear]_vars
        => (TypeInv /\ BootIsOver /\ NoOrphanInv)'
  BY <1>2, NextNoOrphan, NextTypeInv, NextBootIsOver
<1>4. QED
  BY <1>1, <1>3, InitNoOrphan, InitTypeInv, PTL

-----------------------------------------------------------------------------
(* The use of the services with one call at a time.                        *)

OneSlot == \A c \in Calls : InFlight(c) => c = CHOOSE d \in Calls : TRUE

SingleInv == use = "single" => OneSlot /\ NoOrphanInv

LEMMA StepsOfUse ==
  [MCNext]_<<vars, use>> =>
    /\ use' = use /\ [Next]_vars
    /\ use = "single" => [StepWithoutClear]_vars /\ (OneSlot' \/ UNCHANGED vars)
<1>1. CASE UNCHANGED <<vars, use>>
  BY <1>1
<1>2. CASE MCNext
  BY <1>2 DEF MCNext, StepWithoutClear, Next, OneAtATime, OneSlot, InFlight
<1>3. QED
  BY <1>1, <1>2

\* NoOrphans, for any plugins and hooks: with one call at a time, what
\* unloadPlugin removes from the registry and from the loader's table no other
\* operation brings back, whatever hooks reject and whatever registers anew.
THEOREM NothingOrphaned == MCSpec => []NoOrphans
<1>1. MCInit => TypeInv /\ BootIsOver /\ SingleInv
  <2>1. Init => OneSlot
    BY ConstantsAssumption DEF Init, OneSlot, InFlight, Procs
  <2>2. QED
    BY <2>1, InitNoOrphan, InitTypeInv DEF MCInit, SingleInv
<1>2. TypeInv /\ BootIsOver /\ SingleInv /\ [MCNext]_<<vars, use>>
        => (TypeInv /\ BootIsOver /\ SingleInv)'
  <2> SUFFICES ASSUME TypeInv, BootIsOver, SingleInv, [MCNext]_<<vars, use>>
               PROVE  (TypeInv /\ BootIsOver /\ SingleInv)'
    OBVIOUS
  <2>1. TypeInv' /\ BootIsOver' /\ use' = use
    BY StepsOfUse, NextTypeInv, NextBootIsOver
  <2>2. CASE use = "single"
    <3>1. OneCall
      BY <2>2 DEF SingleInv, OneSlot, OneCall
    <3>2. NoOrphanInv'
      BY <2>2, <3>1, StepsOfUse, NextNoOrphan DEF SingleInv
    <3>3. OneSlot'
      <4>1. UNCHANGED vars => (OneSlot => OneSlot')
        BY DEF vars, plugin, tables, boot, OneSlot, InFlight
      <4>2. QED
        BY <2>2, <4>1, StepsOfUse DEF SingleInv
    <3>4. QED
      BY <2>1, <3>2, <3>3 DEF SingleInv
  <2>3. CASE use # "single"
    BY <2>1, <2>3 DEF SingleInv
  <2>4. QED
    BY <2>1, <2>2, <2>3
<1>3. SingleInv => NoOrphans
  BY DEF SingleInv, NoOrphanInv, NoOrphans
<1>4. QED
  BY <1>1, <1>2, <1>3, PTL DEF MCSpec
=============================================================================
