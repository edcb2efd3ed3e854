------------------------------ MODULE Shipped ------------------------------
(***************************************************************************)
(* The plugins main.ts registers, as the loader and the guard see them,    *)
(* and the table with which the guard finds the plugin of a route.  None   *)
(* of them has createModule or an isEnabled field, and their hooks catch   *)
(* what fails in them.                                                     *)
(***************************************************************************)
EXTENDS PluginLoader

(* A plugin's type, whether it is protected, its dependencies, and the     *)
(* first segments of the paths its api table declares.                     *)
AuthPlugin ==
  [type |-> "SYSTEM", isProtected |-> TRUE, dependencies |-> {}, api |-> {"auth"}]
TenantPlugin ==
  [type |-> "SYSTEM", isProtected |-> TRUE, dependencies |-> {}, api |-> {"tenants"}]
UserPlugin ==
  [type |-> "SYSTEM", isProtected |-> TRUE, dependencies |-> {}, api |-> {"users"}]
AuditPlugin ==
  [type |-> "SYSTEM", isProtected |-> TRUE, dependencies |-> {}, api |-> {"audit-logs"}]
OrganizationPlugin ==
  [type |-> "SYSTEM", isProtected |-> TRUE, dependencies |-> {}, api |-> {"organizations"}]
RolePlugin ==
  [type |-> "SYSTEM", isProtected |-> TRUE, dependencies |-> {}, api |-> {"roles", "permissions"}]
AnalyticsPlugin ==
  [type |-> "FEATURE", isProtected |-> FALSE, dependencies |-> {"user"}, api |-> {"analytics"}]
ReportingPlugin ==
  [type |-> "FEATURE", isProtected |-> FALSE, dependencies |-> {}, api |-> {"reporting"}]

(* bootstrap: the plugins by name.  It names no feature plugin, and the    *)
(* list of system plugins it does name is not looked at.                   *)
Registered ==
  [auth |-> AuthPlugin, tenant |-> TenantPlugin, user |-> UserPlugin, audit |-> AuditPlugin,
   organization |-> OrganizationPlugin, role |-> RolePlugin,
   analytics |-> AnalyticsPlugin, reporting |-> ReportingPlugin]

Names == DOMAIN Registered
SystemNames == {p \in Names : Registered[p].type = "SYSTEM"}
ProtectedNames == {p \in Names : Registered[p].isProtected}
Dependencies == [p \in Names |-> Registered[p].dependencies]

(* extractPluginName: paths that are not in the table belong to no plugin. *)
PluginMapping ==
  [auth |-> "auth", tenants |-> "tenant", users |-> "user", organizations |-> "organization",
   roles |-> "roles", permissions |-> "permissions", audit |-> "audit",
   analytics |-> "analytics", reporting |-> "reporting"]

(* What the guard lets through, on a route that is not public. *)
Admits(path) == path \in DOMAIN PluginMapping => GuardAllows(PluginMapping[path])

-----------------------------------------------------------------------------
(* The routes a protected plugin declares are served as soon as the        *)
(* application listens, and stay so (role.plugin.ts:89-114).               *)
RoutesServed ==
  phase = "listening" =>
    \A p \in ProtectedNames : \A path \in Registered[p].api : Admits(path)
=============================================================================
