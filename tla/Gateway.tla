------------------------------ MODULE Gateway ------------------------------
(***************************************************************************)
(* What a request to base-api passes before its handler: the middleware    *)
(* that gives it a context, PluginStatusGuard, AuthGuard, TenantGuard and  *)
(* the PermissionsGuard of the role plugin, in the order NestJS runs them, *)
(* with an await after each; and the handler, which asks RequestContext    *)
(* for its tenant.  Requests overlap at all of these awaits.               *)
(*                                                                         *)
(* Whether a plugin is served is PluginLoader's GuardAllows, whether a     *)
(* token holds is Tokens' matter; here both change behind the requests'    *)
(* backs.  The rate limit is RateLimit.                                    *)
(***************************************************************************)
EXTENDS Server

CONSTANTS
  Bearers,       \* signed access tokens
  TenantOf,      \* TenantOf[b]: the tenantId a token carries, or Nothing
  Paths,         \* what follows /api in the URL
  OpenPaths,     \* those whose handler or class is @Public
  PermitPaths,   \* those with @RequirePermissions
  PluginMapping, \* the table of extractPluginName; its other paths are free
  PluginNames

ASSUME MappingIsPartial ==
  /\ DOMAIN PluginMapping \subseteq Paths
  /\ OpenPaths \subseteq Paths /\ PermitPaths \subseteq Paths

VARIABLES
  at,         \* at[r]: the guard the request is before, or its handler
  asked,      \* asked[r]: its path and its token
  context,    \* the stores of AsyncLocalStorage, by request
  served,     \* the plugins whose routes the guard lets through
  withdrawn,  \* tokens on the blacklist
  late,       \* history variable: requests whose token was withdrawn before they came
  unasked     \* history variable: requests for which the blacklist gave no answer

gateVars == <<at, asked, context, served, withdrawn, late, unasked>>

Stages == {"idle", "plugin", "auth", "verify", "tenant", "permissions", "handler"}
NoRequest == [path |-> Nothing, bearer |-> Nothing]
Asked == [path: Paths, bearer: Bearers \cup {Nothing}]

(* IUser: the claims of the token; IRequestContext: a user once AuthGuard  *)
(* has set it.                                                             *)
Claims == [tenantId: {TenantOf[b] : b \in Bearers}, bearer: Bearers]
NoContext == [user |-> Nothing]
Contexts == [user: Claims \cup {Nothing}]

GateTypeOK ==
  /\ at \in [Requests -> Stages]
  /\ asked \in [Requests -> Asked \cup {NoRequest}]
  /\ context \in [Requests -> Contexts]
  /\ served \in SUBSET PluginNames
  /\ withdrawn \in SUBSET Bearers
  /\ late \in SUBSET Requests
  /\ unasked \in SUBSET Requests

GateInit ==
  /\ at = [r \in Requests |-> "idle"]
  /\ asked = [r \in Requests |-> NoRequest]
  /\ context = [r \in Requests |-> NoContext]
  /\ served \in SUBSET PluginNames
  /\ withdrawn = {}
  /\ late = {}
  /\ unasked = {}

-----------------------------------------------------------------------------
(* RequestContext: the store the static methods find is that of the        *)
(* request whose continuation runs.                                        *)
StoreOfAll(r) == CHOOSE s \in Requests : TRUE
StoreOf(r) == r

CurrentUser(r) == context[StoreOf(r)].user
CurrentTenantId(r) == IF CurrentUser(r) = Nothing THEN Nothing ELSE CurrentUser(r).tenantId
SetCurrentUser(r, user) == context' = [context EXCEPT ![StoreOf(r)].user = user]

IsPublic(r) == asked[r].path \in OpenPaths

(* A guard lets the request on to the next one, or it answers with an      *)
(* error and the request is over.                                          *)
Reaches(r, stage) == at' = [at EXCEPT ![r] = stage]

Leaves(r) ==
  /\ at' = [at EXCEPT ![r] = "idle"]
  /\ asked' = [asked EXCEPT ![r] = NoRequest]
  /\ context' = [context EXCEPT ![r] = NoContext]
  /\ late' = late \ {r}
  /\ unasked' = unasked \ {r}

Decides(r, lets, stage) ==
  IF lets THEN Reaches(r, stage) /\ UNCHANGED <<asked, context, late, unasked>> ELSE Leaves(r)

(* RequestContextMiddleware: a new context for the request. *)
Arrive(r, path, b) ==
  /\ at[r] = "idle"
  /\ asked' = [asked EXCEPT ![r] = [path |-> path, bearer |-> b]]
  /\ context' = [context EXCEPT ![StoreOf(r)] = NoContext]
  /\ late' = IF b \in withdrawn THEN late \cup {r} ELSE late
  /\ Reaches(r, "plugin")
  /\ UNCHANGED <<served, withdrawn, unasked>>

PluginStatusGuard(r) ==
  /\ at[r] = "plugin"
  /\ LET path == asked[r].path IN
       Decides(r, IsPublic(r) \/ path \notin DOMAIN PluginMapping \/ PluginMapping[path] \in served,
               "auth")
  /\ UNCHANGED <<served, withdrawn>>

(* AuthGuard asks the blacklist and goes on when that has answered.        *)
Asks(r) ==
  IF IsPublic(r)
    THEN Decides(r, TRUE, "tenant")
    ELSE Decides(r, asked[r].bearer # Nothing /\ asked[r].bearer \notin withdrawn, "verify")

(* There is no blacklist service, it has no connection, or Redis rejects   *)
(* the question: the token counts as not withdrawn.                        *)
CannotAsk(r) ==
  /\ ~IsPublic(r) /\ asked[r].bearer # Nothing
  /\ Reaches(r, "verify")
  /\ unasked' = unasked \cup {r}
  /\ UNCHANGED <<asked, context, late>>

AuthGuard(r) ==
  /\ at[r] = "auth"
  /\ Asks(r) \/ CannotAsk(r)
  /\ UNCHANGED <<served, withdrawn>>

Verify(r, valid) ==
  /\ at[r] = "verify"
  /\ IF valid
       THEN /\ SetCurrentUser(r, [tenantId |-> TenantOf[asked[r].bearer], bearer |-> asked[r].bearer])
            /\ Reaches(r, "tenant")
            /\ UNCHANGED <<asked, late, unasked>>
       ELSE Leaves(r)
  /\ UNCHANGED <<served, withdrawn>>

TenantGuard(r) ==
  /\ at[r] = "tenant"
  /\ Decides(r, IsPublic(r) \/ CurrentTenantId(r) # Nothing, "permissions")
  /\ UNCHANGED <<served, withdrawn>>

(* What @RequirePermissions stores is an object, and the guard iterates it *)
(* as an array: a route that has it answers 500 to everybody.              *)
PermissionsGuard(r) ==
  /\ at[r] = "permissions"
  /\ Decides(r, asked[r].path \notin PermitPaths, "handler")
  /\ UNCHANGED <<served, withdrawn>>

Answer(r) ==
  /\ at[r] = "handler"
  /\ Leaves(r)
  /\ UNCHANGED <<served, withdrawn>>

(* Elsewhere a plugin is enabled or disabled, a token withdrawn. *)
Toggle(p) ==
  /\ served' = IF p \in served THEN served \ {p} ELSE served \cup {p}
  /\ UNCHANGED <<at, asked, context, withdrawn, late, unasked>>

Withdraw(b) ==
  /\ withdrawn' = withdrawn \cup {b}
  /\ UNCHANGED <<at, asked, context, served, late, unasked>>

GateNext ==
  \/ \E r \in Requests :
       \/ \E path \in Paths, b \in Bearers \cup {Nothing} : Arrive(r, path, b)
       \/ PluginStatusGuard(r) \/ AuthGuard(r) \/ TenantGuard(r) \/ PermissionsGuard(r)
       \/ \E valid \in BOOLEAN : Verify(r, valid)
       \/ Answer(r)
  \/ \E p \in PluginNames : Toggle(p)
  \/ \E b \in Bearers : Withdraw(b)

GateSpec == GateInit /\ [][GateNext]_gateVars

-----------------------------------------------------------------------------
(* A handler that is not public works for the tenant of its own request's  *)
(* token, whatever other requests have passed the guards meanwhile, and    *)
(* that token was not withdrawn before the request came unless the         *)
(* blacklist could not be asked (request-context.service.ts:80-98,         *)
(* auth.guard.ts:39-44, jwt-blacklist.service.ts:103-114; the services of  *)
(* users ask at user.service.ts:39, 95, 146, 184).                         *)
TenantOfTheToken ==
  \A r \in Requests :
    at[r] = "handler" /\ ~IsPublic(r) =>
      /\ CurrentTenantId(r) # Nothing
      /\ CurrentTenantId(r) = TenantOf[asked[r].bearer]
      /\ r \in late => r \in unasked
=============================================================================
