# Verification of oksai-cc-api-server

oksai-cc-api-server is a NestJS monorepo in TypeScript. `apps/base-api` is an HTTP API whose features are plugins
(`libs/plugin` runs them, `libs/sys-plugins` holds them); `libs/mcp-server` runs MCP servers over stdio, HTTP or
WebSocket for `apps/mcp`; `apps/mcp-auth` is an OAuth server; `libs/core`, `libs/common`, `libs/config` and
`libs/bootstrap` are shared services.

This directory models the parts of it where order, overlap and failure decide what the program does: TLA+ modules, TLC
configurations that check them on small instances, and TLAPS proofs for every instance. Every definition is translated
from the source; `PROJECT.json` maps each one to its lines.

    tlc -config PluginLoaderRest.cfg MCPluginLoader      # one run; PROJECT.json lists module and cfg of each
    tlapm PluginLoaderProofs.tla                         # one module's proofs

Contents: [inventory](#inventory) · [modules and code](#modules-and-code) · [runs](#runs) ·
[fairness](#fairness) · [proofs](#proofs) · [disagreements found](#disagreements-found) ·
[what is not modelled](#what-is-not-modelled) · [plan](#plan)

## Inventory

### How concurrency arises

Node runs one callback at a time. A method runs without interruption up to its next `await` of something that is not yet
settled; whatever other requests, timers or callbacks do meanwhile is seen only through the shared objects. So every
model cuts an operation exactly at its awaits, and keeps in `job[c]` (`plan`, `todo`, `work`, `actor`, `client`, …) what
the call captured before the await and uses after it. No service of this repository holds a lock across an await, and no
caller waits for another. Only Redis, the database and the mail queue are shared by several processes.

With the database the rule has a form of its own, which `Accounts`, `Grants`, `Directory`, `Audit` and `Reports` share. A
request works on entities of its own entity manager: it reads, checks, assigns, and one `flush` writes the columns it has
assigned, in one transaction. So an operation is two steps, a read that plans a write and a `Flush…` that carries it out
on the rows there are by then; a statement of its own (`nativeUpdate`) is a step of its own. A flush may be refused.

### Components

| Component | State | Operations | Interacts through | Hard | Correct when |
|---|---|---|---|---|---|
| Plugin registry (`plugin-registry.service.ts`) | the maps of plugins and of statuses | `register`, `unregister`, `updateStatus`, `clear` | called by the loader, read by the guard | statuses written by continuations of older calls | entries are of registered plugins; statuses mean what they say |
| Plugin loader (`plugin-loader.service.ts`) | `pluginStates` | `loadPlugins`, `loadPlugin`, `enablePlugin`, `disablePlugin`, `reloadPlugin`, `unloadPlugin`, `checkConflicts`, `onModuleDestroy` | awaits the plugins' hooks; writes the registry | two tables for one fact; hooks that reject; overlapping toggles and reloads; a search for cycles | start-up ends; an INITIALIZED plugin is live, or a reload that tears it down says so when it is done; a toggle is honoured and can be undone; exactly the conflicts there are are found |
| Status guard, plugin controller | none; what clients were told | `canActivate`; enable, disable, reload | read the registry; call the loader | the answer and the guard must agree; the table of paths and the plugins' names are in different files | a disabled plugin is refused; a plugin's own routes are served |
| MCP server manager (`mcp-server-manager.ts`) | `servers`, `primaryServerId` | `start`, `stop`, `restart`, `removeServer`, `stopAll`, `cleanup`, `setPrimaryServer` | awaits the servers | check, await, write of the map; iteration over a live map | every running server is managed; cleanup leaves nothing; the primary exists |
| MCP server and transports (`mcp-server.ts`, `transports/`) | `isStarted`, `server`, `transport`, `sessionId`; ports | `start`, `stop`; `connect`, `close`; JSON-RPC | SDK, sockets, port | fields read again after an await; a port that is taken; one set of methods written per transport | what is open is held by a started server; one session at most; calls return; transports agree |
| MCP tools (`tool-registry.ts`, `mcp-server.ts`) | the tool map | register, unregister, clear, invoke | the SDK's server, once there is one | a registration before and after there is one; JSON-RPC before a server is attached and after it is gone | both transports answer alike |
| MCP sessions (`session/`) | a map, or keys in Redis with a time to live | create, find, update, delete, delete of a user's, clean up, clear | several processes share Redis | read, await, write; sweeps | a session that is gone stays gone; sweeps spare others |
| MCP authentication (`auth-manager.ts`) | `tokenData`, two in-progress flags | `login`, `logout`, `refreshToken` | the host's API client; shared by every server | the answer arrives after the user has changed | flags come down; the tokens are of one user when callers wait |
| MCP API client (`api-client.ts`) | `tokenData`, two in-progress flags | `login`, `logout`, `refreshToken`, requests, `testConnection` | axios | the status is read, then awaited on | a test tells the truth; one login at a time |
| MCP OAuth application (`apps/mcp-auth`) | keys; signed tokens are out in the world | sign, verify, pair, refresh, introspect | clients | tokens made from tokens | a chain of refreshes ends |
| Accounts (auth plugin) | users, OAuth accounts, login history | login, register, forgot, reset, change, bind, unbind, social login, callback | flushes | lost updates, check-then-insert, work half done by a statement outside the flush | one primary account; counters do not run ahead; no old password comes back |
| Tokens, JWT blacklist | tokens; keys in Redis | issue, refresh, logout, `add`, `isBlacklisted`, `remove`, `clear`, `AuthGuard` | Redis, which may be away | seconds rounded down, counted by two clocks | a key outlives its token |
| Roles, permissions, abilities (auth plugin) | roles, permissions, two join tables | create, update, delete, assign, revoke; rules | flushes | the order of rules is nobody's choice | the fixed rules hold |
| User, tenant, organization, role plugins | a table each, a join table | create, update, remove, activate, assign, … | flushes; the tenant of the request | a check before an await, a write by id after it | a tenant's users are its own; permissions are distinct |
| Audit plugin | log rows | create, clean up, queries by page | flushes, clients that page | pages are cut by offset while rows come and go | a reader skips nothing |
| Analytics plugin | metrics | trend charts; the rest see below | – | labels of time that coincide | a trend is in order |
| Reporting plugin | reports, files, write streams | generate, download, delete; restarts | flushes, the file system | a row first, a file later, a hash in between | COMPLETED means there is a file |
| Mail queue, processor, monitor | jobs; counts and times of the last alert | add, process, retry, monitor | Redis, SMTP, timers, crashes | SMTP takes a mail and its answer is lost; checks overlap | completed was sent, again only where the answer was lost; every mail settles; every check ends |
| Rate limit | a window and a count per key | `use`, clean up, clear | requests, a timer | the edge of the window | at most the limit in any interval of a window's length (it is not), and nobody refused without cause |
| Request context, guards | one context per request | set, read; four guards | every request | awaits between guards | a handler works for its own token's tenant, and the token was not withdrawn |
| Metrics, error tracking | bounded logs | record, clear, queries | – | limits | the newest are kept |
| Configuration | the defaults, the current one, a service's | `defineConfig`, `resetConfig`, `getConfig`, `ConfigService` | callers, who share objects | an await in the merge; a clone that is not one | a merge touches only what it makes |
| Bootstrap, environments, wiring, entities, templates, scripts | – | – | NestJS, MikroORM | – | not modelled, see below |

`PROJECT.json` lists all of them with their files and status, and the hazards of the code, each at its line and with the
properties that would catch it going wrong.

## Modules and code

| Module | Models | Checked in | Proofs |
|---|---|---|---|
| `PluginLoader` | registry, loader, guard, the controller's answers, `main.ts` from registration to `listen` | `plugin_rest`, `plugin_services` | `PluginLoaderProofs` |
| `Shipped` | the eight plugins `main.ts` registers, with the routes they declare and the guard's table of paths, on top of `PluginLoader` | `plugin_routes` | |
| `Conflicts` | `checkConflicts` with its search for cycles | `services` | `ServicesProofs` |
| `McpServerManager` | the manager with its servers and their transports, composed | `mcp_serial`, `mcp_overlap` | `McpServerManagerProofs` |
| `McpServer` | one server from inside: login, session, tools, JSON-RPC | `services` | `ServicesProofs` |
| `Sessions` | `SessionManager` over `MemoryStorage` or `RedisStorage` | `sessions_*` | `SessionsProofs` |
| `SessionLife` | the promise: a session is created once, lives, is gone | as a property of `sessions_*` | `SessionsProofs` |
| `AuthManager` | `AuthManager` with the requests it awaits | `services` | `AuthManagerProofs` |
| `ApiClient` | the API client of the MCP servers | `services` | `ServicesProofs` |
| `OAuthTokens` | `JwtService` and introspection of `apps/mcp-auth` | `services` | `AuthManagerProofs` |
| `Accounts` | users, OAuth accounts and logins under `AuthService` and the OAuth callbacks | `accounts` | `AccountsProofs` |
| `Tokens` | access and refresh tokens, `AuthGuard`, the blacklist | `accounts` | `AccountsProofs` |
| `Grants` | `PermissionsService` and `AbilityFactory` | `accounts` | `AccountsProofs` |
| `Directory` | the services of the user, tenant, organization and role plugins | `access` | `AccessProofs` |
| `Audit` | the audit log and a client that pages through it | `access` | `AccessProofs` |
| `Charts` | trend charts over metrics | `access` | `AccessProofs` |
| `Gateway` | request context and guards, in the order of `AppModule` | `access` | `AccessProofs` |
| `RateLimit` | the rate limit and its timer | `access`, `rate_sliding` | `AccessProofs` |
| `Reports` | reports, files, streams and restarts | `services` | `ServicesProofs` |
| `Mail` | mail queue, processor, monitor; BullMQ external | `services` | `ServicesProofs` |
| `Telemetry` | metrics and error tracking | `services` | `ServicesProofs` |
| `Config` | defaults, merge and clone of the configuration over shared objects | `services` | |
| `Server` | the constants the modules of base-api share | | |
| `Lemmas` | no code: sums, recursions, quotients and orders, for the proofs | | `Lemmas` |

`MC…` modules give a run its constants, its symmetry and, where several modules share a run, the union of their next-state
relations; `…Proofs` hold the theorems of the modules they extend. `AccountsProofs`, `AuthManagerProofs`, `AccessProofs`
and `ServicesProofs` prove about several modules that share no state, each with its own specification. `PluginLoaderProofs`
extends `MCPluginServices`, whose two uses `NoOrphans` is about.

How they compose: `McpServerManager` runs manager, servers and transports together; `Shipped` puts the shipped plugins and
their routes on the loader and the guard; `Tokens` runs the guard, the blacklist, `login`, `refresh` and `logout` together;
`Grants` runs tables and rules; `Sessions` implements `SessionLife` twice, under two mappings. `Gateway` does not
run `PluginLoader` and `Tokens` with it: a plugin that is served or not (`Toggle`) and a token that is withdrawn (`Withdraw`)
change behind a request's back at any time, and a blacklist that cannot be asked, without a service or without Redis, is a
step of `AuthGuard` (`CannotAsk`). What it leaves out of theirs is when these things happen, and that a token expires, which
`Verify` may answer at any time.

Definitions that no other definition uses and whose names say what goes wrong (`DisabledInRegistryOnly`,
`StartOverExisting`, `UpdateWritesAnyway`, `FlushLoginWholeRow`, `SendAlertUntilSent`, …) are faulty variants: each is what a
plausible bug would make of the definition after it, and shows that a property would notice.

### PluginLoader

`registered` and `status` are the registry's two maps, `states` the loader's. `flagOn` and `initialized` are the
plugins' side: the `isEnabled` of the plugins that have one, and whether `initialize` has resolved with no `destroy`
called since (it is cleared at the call of `destroy`, and again when that settles, whichever way). `phase` and `todo`
are where `main.ts` stands; `pc[c]` names the hook a call awaits, `job[c]` what it was asked and the entry it captured;
`told` is the last success answered to a client.

A request action (`EnablePlugin`, `DisablePlugin`, `ReloadPlugin`, `UnloadPlugin`) is the operation up to its first
await; `ShutdownResolves`, `DestroyResolves`, `InitializeResolves`, `BootstrapResolves` and `HookRejects` are the rest
of it, up to the next await or to the answer. Calls that a check refuses change nothing and are no steps. A reload
awaits `destroy` with the status still INITIALIZED, so meanwhile the guard lets requests through to a plugin that is
being torn down. A plugin that does not define a hook is one whose hook resolves at once, which TLC's interleavings
include. `checkConflicts` only reads, and refuses by throwing; it has no action of its own.

### McpServerManager

`servers` and `primary` are the manager's; `started`, `sdk` and `transport` the fields of each `McpServer` object;
`link` is what has become of each transport (`connecting`, `up`, `failed`, `down`), which is where the port is. Objects and
transports the program can no longer reach are used again (`FreeServers`, `FreeLinks`), so that a small pool stands for
the unbounded number that `new` can make. `Connect` … `StartSettles` are `McpServer.start` (a transport that connects,
then the authentication that is awaited and whose failure is only logged), `StopServer` … `StopReturns` are
`McpServer.stop` and what the manager does after it. The three transports differ where it matters: HTTP's `connect`
resolves whether or not the port can be had, WebSocket's rejects and its `close` waits for the clients, the SDK closes
stdio itself. `Serial` is an assumption on callers, not code: with it, a call on an id waits for the one before.

### Sessions

`store[id]` is the session under a key; only what decisions depend on is kept of it: its user, the time of its last
access, the names of its data fields. On the memory, `queue` keeps the order in which the continuations of the one
process run; on Redis every command is a step, in any order, since callers are in several processes. `Tick` is time; on
Redis it removes the keys whose time to live is over. `CommandFails` is a command that rejects at any point.
`FindSession` on Redis answers `rejected`: `JSON.parse` gives a number for `lastAccessedAt` and `getTime` is called on it.

### AuthManager

`tokenData` records of whom each of its parts is. `held[c]` is the request call `c` awaits with what it was asked. The
API client is the host's (`globalThis.apiClient`): it answers or fails, and `/user/me` answers for the owner of the access
token that it was called with.

### Shipped, Conflicts

`Shipped` adds no state: it gives `PluginLoader` its constants as `main.ts` and the plugins' classes have them, and
`Admits` is the guard's decision on a route, by `extractPluginName` and `GuardAllows`. `Conflicts` builds every catalogue of
plugins by `register` and `unregister` and compares `CheckConflicts`, the depth-first search with its `visited` and
`recursionStack`, with the transitive closure (`LeadsTo`).

### McpServer

A start is `StartServer` (the transport is asked to connect), `TransportConnects` or `TransportFails`, `InitializeAuth`, and
`InitializeSession` with what the storage answers; a stop is `StopServer`, `ServerStopped`. `liveSessions` is what the
storage holds of this server's. The registry is `tools`; `linked` and `attached` say that the registry and the transport
have been given the SDK's server, which has none of the methods they call on it. The JSON-RPC handlers are functions of a
request: `HandleJsonRpcRequest` of HTTP, `HandleRequest` of WebSocket.

### ApiClient, OAuthTokens

`client[c]` is where a call is. `login` keeps nothing, as axios answers with `data` (`Kept`); so nothing carries a token
and `refreshToken` ends at its second test. `TestConnection`, `HealthAnswers`, `HealthFails` and `TestLoginSettles` are
`testConnection`. In `OAuthTokens` a signed token stays in `signed` for ever, since nothing is kept of it and anybody may
present it again; `keys` is which of the two key variables are set.

### Accounts, Tokens, Grants

`Accounts`: a request begins with the method up to its flush (`Login`, `Register`, `ForgotPassword`, `ResetPassword`,
`ChangePassword`, `BindOAuthAccount`, `UnbindOAuthAccount`, `HandleOAuthCallback`, `ValidateOAuthLoginEmail`) and ends with
a `Flush…`; a social login goes on after its first flush with the entity it has made. `WithdrawPrimary` is the
`nativeUpdate` of a bind, outside its flush. `success` and `failure` are the login history, `raced` remembers whose binds
have overlapped.

`Tokens`: time in ticks, `PerSecond` of them to a second. `Arrive`, `CheckBlacklist`, `Verify` and `Serve` are `AuthGuard`
and the handler, `Logout` and `Add` compute and write the key, `RefreshToken`, `RefreshCheck` and `Reissue` are the refresh.
`Connection` is Redis going away and coming back, keeping its keys. `revoked` remembers which logouts Redis has confirmed.

`Grants`: every write of `PermissionsService` as a plan (`todo`) and a flush. `CreateForUser` is the set of rule lists that
`AbilityFactory` may build, one per order of rows; `Can` is the library's: the last rule that matches decides.

### Directory, Audit, Charts

`Directory` keeps one table per kind in `rows`, and `plan[r]` is the write a request will flush; `drawn` are the keys given
out, so that a key never names two rows. The tenant plugin, organization plugin and role plugin pass the tenants they do
in the code (`''` among them). The key of a permission is its type, action and resource; a resource may be blank (`''`,
`null`), and an update that blanks one is looked for under the old resource or not at all, and written (`LookedFor`,
`AssignedKey`). `Audit`: `FlushLog` may insert rows in another order than their `createdAt`; `FindAll` is one
page, `reader` the client between pages; `CleanupOldLogs` reads, `FlushCleanup` removes. `Charts` is the pure aggregation
over whatever metrics there are, on a regular calendar.

### Gateway, RateLimit

`at[r]` is the guard before which a request waits, in the order `RequestContextMiddleware`, `PluginStatusGuard`,
`AuthGuard` (two awaits), `TenantGuard`, `PermissionsGuard`, handler. `AuthGuard` asks the blacklist (`Asks`) or cannot and
lets the token pass (`CannotAsk`), which `unasked` remembers; `late` remembers the requests that came with a token withdrawn
before. `context` is `AsyncLocalStorage`: the store found by a
continuation is that of its own request, which is Node's promise (external). `RateLimit` is one step per arrival, since the
middleware does not await; the timer's sweep falls between any two.

### Reports, Mail, Telemetry, Config

`Reports`: `GenerateReport`, `FlushReport`, rendering (a stream of its own for PDF: `StreamWrites`, `StreamFails`,
`PdfEnds`), `ReadFile` with the hash, `SaveFile`, `FlushCompleted`; deletes and downloads between any two; `Restart`
drops what was in flight. `Mail`: `JobState` is BullMQ's life of a job with a state `accepted` for a mail that SMTP has
taken and nobody has noted yet: the job is completed, or `sendMail` rejects all the same (a timeout, a lost answer) and
the queue tries again, which `lost` counts; `Crash` puts the active jobs back and counts in `stalls`. A check of the
monitor is `MonitorQueue`, `GetMonitorStats`, `GetHealthStatus` or `StatsFail`, and one `SendAlert` per alert.
`Telemetry` compares the bounded logs with a history. `Config` gives every object an identity in `heap`, so that sharing
is part of the state.

## Runs

| Run | Question | Instance, and why it is enough |
|---|---|---|
| `plugin_rest` | Do the operations REST exposes keep the registry, `pluginStates` and the plugins consistent? | One plugin of each kind (protected system object, module, object with `isEnabled` that depends on the first), two calls beside start-up: every pair of operations overlaps at every await; a third call adds nothing that two writers do not do. Calls are symmetric |
| `plugin_services` | And with every other operation? | Two plugins, two uses: one call at a time without `clear` and close, where start-up and loads end and no orphan is left; two calls on one plugin with both. One call at a time because overlapping reloads and unloads do leave orphans (below) |
| `mcp_serial` | Is nothing lost when callers wait for each other, and does every call return? | HTTP (whose port may be missing unnoticed), two ids, three objects and transports: one managed under each id and one in the making |
| `mcp_overlap` | Does a server that is started listen, for any overlap? | WebSocket with clients that come and go, two ids on one port, two calls; everything symmetric |
| `sessions_memory` | Does the memory storage keep `SessionLife`? | Two sessions, two calls, a clock to 2 with a time to live of 1: a session can be idle, or refreshed just before |
| `sessions_redis` | Does a sweep over one user's sessions spare the others', and who brings a session back? | Two users, so that there is someone else; two calls, so that a delete overlaps an update; keys live 3 within a clock to 3 and expire during sweeps |
| `accounts` | The auth plugin: accounts, grants, and tokens twice | Two requests, which overlap at every flush. One user and one address (nothing joins two users but the unique columns, and a refused flush is a step), two passwords, identities and links, two logins. Tokens: lives of 2 s at 2 ticks a second within 5 ticks, so that a token is issued between two seconds and expires in the run; four tokens (a pair and its refresh) with one request at a time (`long`), two with two requests (`wide`) |
| `access` | What a request meets: rate limit, guards, tables, audit log, charts | Two requests and two tenants; two rows per table. Each table by itself, since they meet only in the join table of roles and permissions, which is a behaviour of its own with one request at a time. Permissions name one of two resources or a blank one, an update of one writes its key or its status, and a behaviour of that table ends once two of its writers have overlapped, of which nothing is claimed. Three logs read one per page, over three days; three metrics at hours in two years, of which some coincide in day, week or month; a window of 2 ticks with 2 requests over 4 ticks, so two windows meet |
| `services` | The services a request leaves work to | Each alone (`subject`), since they share no state. Two reports and requests; two mails with three attempts, one worker slot and one crash; the monitor's two checks with a cool-down of 2 in 6 minutes; three users and calls of the authentication manager; plugins `p`, `q`, `s` and a missing `x`, each naming up to two; tokens that live 2 s and 3 s in 4 s, so that chains reach their end; logs of 2 under 4 records, with two statuses and durations, so that some fail and some are slow; two calls of a server, one tool; two calls of the client; two merges |

Where one run holds several modules, `subject` (`use`) is drawn at the start and never changes: a behaviour of the run is a
behaviour of one of them, with the others at rest. It is a union, not a product, and costs the sum of their states.
`CHECK_DEADLOCK FALSE` is set in `plugin_services` (the application closes) and in `accounts`, `access` and `services`
(bounded clocks, keys and records run out). Every action of every module is taken in some run.

Violation runs, each a disagreement between what the repository says and does:
`sessions_resurrect`, `plugin_routes`, `rate_sliding` ([below](#disagreements-found)).

What the properties say, by part:

- Plugins. `InitializedIsLive`: a plugin that is INITIALIZED is initialized and not torn down, except while a reload
  awaits the `destroy` it has called; no overlap and no hook that rejects, half done or not, leaves INITIALIZED behind.
  `ModuleDisableReversible`: the two tables never disagree about a module plugin in the way that makes `enablePlugin`
  return early for a disabled one. `DisableHonoured`, `SoftDisabledIsRefused`: after "disabled" was the last answer the
  guard refuses; flag and registry agree. `LoadSettles`: no failure leaves LOADED. `BootFinishes`: one plugin that fails
  keeps neither the others nor `listen` from their turn. `NoOrphans`: what unload removes stays removed.
  `ConflictsExact`: the search finds exactly the missing dependencies and the cycles there are.
- MCP. `StartedIsManaged`, `OpenIsHeld`, `StartedListens`, `CleanupLeavesNothing`, `CallsReturn`: nothing
  that runs is out of reach, nothing that is held is dead, nothing waits for ever. `OneSession`: a server keeps at most one
  session unless two of its starts overlap. `TransportsAgree`: HTTP and WebSocket answer a request alike.
  `TestTellsTheTruth`: a connection test that logs in succeeds only when the client is authenticated or somebody's login is
  in flight, and two logins are never on the wire. `ImplementsLife`, `GoneStaysGone`, `OthersSurvive`: sessions do not come
  back, and sweeps take no one else's. `ImplementsHeldLife`: counting a session that an update in flight has read as still
  held, sessions on Redis live the same life; so that update is the only way back. `FlagsClear`: the flags come down,
  whichever way a request ends.
  `ChainsEnd`: what is active goes back to a pair of its subject and roles, no older than a refresh and an access token last
  together.
- Accounts. `LoginsCounted`: an increment may be lost, none is made up. `NoPasswordRevived`: a password changes by the
  flush of a reset or change of that user and of nothing else. `OnePrimary`: one primary account, for a user whose binds
  never overlapped. `RevokedToTheLastSecond`: the blacklist's key outlives its token to the last whole second.
  `FixedRulesHold`: whatever is granted, in whatever order it is loaded, a user who is no ADMIN reads users, tenants and
  plugins and never deletes a user.
- Tables. `PermissionsDistinct`: no two permissions of a tenant have one type, action and resource, unless the resource is
  blank or two writers overlapped. `UsersStayWithTheirTenant`: a tenant's users change by its own
  requests alone. `NothingSkipped`: a reader that pages misses no log that was there throughout, except one older than a
  cut-off or of the same `createdAt`. `TrendInOrder`: each metric is in one point, points do not overlap in time and come
  in its order.
- Requests. `TenantOfTheToken`: a handler works for the tenant of its own request's token, which was not withdrawn
  before the request came unless the blacklist could not be asked. `FixedWindowRate`: in any interval of a window's
  length fewer than twice the limit get through, and nobody is refused who has not had the limit in the last window's
  length.
- Work. `CompletedIsThere`: COMPLETED has a file, and a workbook is whole and is what was hashed. `CompletedWasSent`: a
  completed mail was accepted by SMTP, and any mail a second time only for an answer that was lost or a process that
  died. `MailSettles`: every mail ends sent or given up. `ChecksEnd`: every check of the monitor ends, though none of
  its alerts can be mailed. `KeptIsTheNewest`: at their limits the logs hold the newest, and the queries agree.
  `MergesACopy`: `defineConfig` makes the overlay of what there was, and no object with something in it that somebody
  else holds changes.

`PROJECT.json` names, for every property of a passing run, a faulty variant of a definition under which TLC finds the
property violated in that very run.

## Fairness

- `PluginLoader`: weak fairness of `Boot` (`main.ts` runs on) and of each call's `HookSettles`. The loader awaits hooks
  without a timeout (`IPluginLoadOptions.timeout` is never read), so `BootFinishes` and `LoadSettles` are about hooks that
  settle, either way. Nothing makes clients call.
- `McpServerManager`: weak fairness of each call's `Proceed`. Clients are not obliged to leave, which is why `CallsReturn`
  is checked for HTTP; with WebSocket a `close` waits for its clients, and the property would fail.
- `AuthManager`: weak fairness of each call's `Settles`: requests have a timeout (axios), so they are answered or fail.
- `Mail`: strong fairness of `TakeJob` (BullMQ serves its waiting jobs, and the one slot of the run is free again and again
  without staying free), weak fairness of the send, the completion and the end of a back-off, and of the steps of a check:
  the counts come or fail, and a mail is sent or times out. Crashes are bounded.
- All else is checked for safety only.

## Proofs

TLAPS proves, for every value of the constants that the named assumptions admit:

| Module | Theorem | Statement |
|---|---|---|
| `PluginLoaderProofs` | `TypeCorrect` | `Spec => []TypeOK` |
| | `LoadedTransient` | `Spec => []LoadedIsTransient` |
| | `DisableReversible` | `Spec => []ModuleDisableReversible` |
| | `Live` | `ASSUME RestOnly PROVE Spec => []InitializedIsLive` |
| | `DisablesHonoured` | `Spec => []DisableHonoured` |
| | `SoftDisabledRefused` | `ASSUME NoConfig PROVE Spec => []SoftDisabledIsRefused` |
| | `UnloadedStayUnloaded` | `Init /\ [][StepWithoutClear]_vars /\ []OneCall => []NoOrphanEntries` |
| | `NothingOrphaned` | `MCSpec => []NoOrphans` |
| `McpServerManagerProofs` | `TypeCorrect` | `Spec => []TypeOK` |
| | `Primary` | `Spec => []PrimaryManaged` |
| | `StartedServersListen` | `ASSUME Transport = "websocket" PROVE Spec => []StartedListens` |
| | `StartedStaysManaged` | `ASSUME Serial PROVE Spec => []StartedIsManaged` |
| | `OpenStaysHeld` | `ASSUME Serial PROVE Spec => []OpenIsHeld` |
| | `CleanupIsComplete` | `ASSUME Serial PROVE Spec => CleanupLeavesNothing` |
| `SessionsProofs` | `TypeCorrect` | `Spec => []TypeOK` |
| | `MemoryImplementsLife` | `ASSUME ~Redis PROVE Spec => ImplementsLife` |
| | `HeldImplementsLife` | `Spec => ImplementsHeldLife` |
| | `SweepsTakeTheirOwn` | `Spec => OthersSurvive` |
| `AuthManagerProofs` | `TypeCorrect` | `AuthSpec => []AuthTypeOK` |
| | `Exclusion` | `AuthSpec => []OneAtATime` |
| | `SerialTokens` | `ASSUME Serial PROVE AuthSpec => []TokensOfTheUser` |
| | `OAuthTypeCorrect` | `OAuthSpec => []OAuthTypeOK` |
| | `ChainsEndAlways` | `OAuthSpec => []ChainsEnd` |
| `AccountsProofs` | `AccountsTypeCorrect`, `GrantsTypeCorrect`, `TokensTypeCorrect` | `AccSpec => []AccTypeOK`, `GrantSpec => []GrantTypeOK`, `TokSpec => []TokTypeOK` |
| | `LoginsAreCounted` | `AccSpec => []LoginsCounted` |
| | `NoPasswordComesBack` | `AccSpec => NoPasswordRevived` |
| | `AtMostOnePrimary` | `AccSpec => []OnePrimary` |
| | `FixedRulesDecide` | `GrantSpec => []FixedRulesHold` |
| | `RevokedStaysRevoked` | `TokSpec => []RevokedToTheLastSecond` |
| `AccessProofs` | `GatewayTypeCorrect`, `ChartsTypeCorrect`, `LimitTypeCorrect` | `GateSpec => []GateTypeOK`, `ChaSpec => []ChaTypeOK`, `LimSpec => []LimTypeOK` |
| | `HandlersKnowTheirTenant` | `GateSpec => []TenantOfTheToken` |
| | `DirectoryTypeCorrect` | `DirSpec => []DirTypeOK` |
| | `UsersKeepTheirTenant` | `DirSpec => UsersStayWithTheirTenant` |
| | `PermissionsStayDistinct` | `DirSpec => []PermissionsDistinct` |
| | `AuditTypeCorrect` | `AudSpec => []AudTypeOK` |
| | `PagesSkipNothing` | `AudSpec => []NothingSkipped` |
| | `TrendsAreInOrder` | `ChaSpec => []TrendInOrder` |
| | `FixedWindowsKeepRate` | `LimSpec => []FixedWindowRate` |
| `ServicesProofs` | `ReportsTypeCorrect` | `RepSpec => []RepTypeOK` |
| | `CompletedReportsAreThere` | `RepSpec => []CompletedIsThere` |
| | `MailTypeCorrect` | `ASSUME IsFiniteSet(Mails) PROVE MailSpec => []MailTypeOK` |
| | `CompletedMailsWereSent` | `MailSpec => []CompletedWasSent` |
| | `ServerTypeCorrect` | `ServerSpec => []ServerTypeOK` |
| | `OneSessionAlive` | `ServerSpec => []OneSession` |
| | `BothTransportsAgree` | `ServerSpec => []TransportsAgree` |
| | `TestsTellTheTruth` | `ClientSpec => TestTellsTheTruth` |
| | `ClientTypeCorrect`, `TelemetryTypeCorrect` | `ClientSpec => []ClientTypeOK`, `TelSpec => []TelTypeOK` |
| | `WhatIsKeptAgrees` | `TelSpec => []KeptIsTheNewest` |
| | `ConflictsAreExact` | `ConSpec => []ConflictsExact` |

Each has one step per action, and rests on these strengthenings:

- `PluginLoader`. `TypeInv` adds to the types that a call that is not idle has a job, and which operations await which
  hooks. `LoadedIsTransient` is inductive with it: whoever leaves `initialize` writes the status, and who writes LOADED
  begins to await it. `ModuleDisableReversible` also: a module plugin's two entries are written in one step, or only one
  of them in the direction that keeps the implication. `InitializedIsLive` needs `RestInv`: with the operations of REST
  (`RestOnly`) no unload is in flight, so a `destroy` that is awaited is always a reload's. While it is, the plugin
  counts as torn down (`TornDown`); when it settles, the reload writes LOADED, or FAILED if it rejected, in the step
  that clears `initialized` once more, so what another call wrote meanwhile does not stand. An `unload` writes no status
  after its `destroy`, hence the assumption. `DisableHonoured` needs no assumption: `BootIsOver` says that nobody is
  told "disabled" while start-up still loads and that no other call does a start-up's work, `NewsIsTrue` that a plugin
  that is INITIALIZED although "disabled" was the last news has the call that reloaded it still in flight.
  `SoftDisabledIsRefused` rests on `EnablesModules`: without a config (`NoConfig`, as from REST) only module plugins are
  enabled across an await. `NoOrphanEntries` needs `NoOrphanInv`: what a call in flight works on is registered, and
  start-up unregisters nothing. An unload may break that for another call only, and `Alone` says that there is none when
  no two calls overlap. So the theorem is about the behaviours without a `clear` (`StepWithoutClear`) in which no two
  calls ever overlap (`OneCall`): overlapping unloads and reloads, and `clear`, do leave orphans. `NothingOrphaned` puts
  it on the use "single" of `MCPluginServices`, whose steps are of that kind.
- `McpServerManager`. `TypeInv` adds that a call that goes on works on an object and a link of the right kind.
  `PrimaryManaged` is then inductive: every write that removes an entry also withdraws the primary id, in one step.
  `StartedListens` rests on `ListenInv`: a started server either holds a transport that is up, which no other started
  server holds, or has a call that is closing it; and a transport that connects has one call that awaits it. It needs
  WebSocket, whose `connect` rejects when the port is taken; HTTP's does not. `SerialInv` carries the three theorems under
  `Serial`: calls in flight work on distinct ids and objects (`CallsApart`), two ids never map to one object
  (`ObjectsApart`), a call that stops works on the object its id maps to and one that starts on an object nothing maps to
  yet (`WorksOnItsOwn`), and what a call has asked to close stays closed (`ClosesItsOwn`). Without `Serial` two starts of
  one id make the first clause false and all three properties with it.
- `Sessions`. The refinement mapping takes an id to `unborn`, `live` or `gone` by `born` and `store`. The invariant is
  that a kept session was born. Every step is then a creation, a removal of kept sessions, or a stutter; the case that
  carries the proof is `UpdateWrites`, where `MemoryStorage.update` looks at the map before it writes. On Redis that look
  is missing, and `sessions_resurrect` is the counterexample. `HeldImplementsLife` is about both storages, under a mapping
  that calls a session live also while an update that has read it has not written yet (`Held`): the write is then a stutter
  and not a resurrection. It shows that nothing else brings a session back, since an update takes up only what it finds.
  `OthersSurvive` holds on both: a key, a session that was read
  to be updated and a session that is marked for deletion all say of an id whose it is, and `OneOwner` that they agree and
  speak of ids that were given out. A write-back that resurrects a session gives it back to the same user, so even then
  `deleteUserSessions` takes its own.
- `AuthManager`. `OneAtATime` is inductive: the flag is set in the step that tests it. `SerialInv` adds that at most one
  call is in flight and that the token a refresh was called with is the current one. The assumption is needed: without
  `Serial` the answer to a refresh goes into the `tokenData` of whoever has logged in meanwhile.
- `Accounts`. `CountInv` adds what a request in flight knows (`JobHolds`): the row it read is still there, since no
  operation removes a user, and the counter it read is at most the logins there have been, which never become fewer. So
  what it writes, one more together with one more row, is right, however old its copy. `NoPasswordRevived` then follows by
  columns: only two flushes assign `password`. `PrimaryInv` says of a user whose binds never overlapped that he has one
  bind in flight at most, and that between its `nativeUpdate` and its flush there is no primary account at all: which is
  exactly what an overlap breaks.
- `Grants`. The rules that a list ends with are the fixed ones, whatever comes before them, and the last rule that matches
  decides (`relevantRuleFor`). `GrantInv` adds that the permissions are finitely many, each having drawn an id: an order to
  load them in exists, so there is a list to speak of.
- `Tokens`. `RevokeInv`: of a pending `add`, that its seconds reach to within a second of the token's end from any moment
  it may be carried out (`SetexOutlives`), and the same of the keys that are there (`KeysOutlive`).
- `OAuthTokens`. `ChainInv` states where a token comes from for every token ever signed, active or not: whether it is
  active depends on the clock and the keys, where it comes from does not. A refresh adds an access token that ends at most
  an access token's life after a refresh token that was still active.
- `Gateway`. `GateInv`: from `AuthGuard` on, the context of a request that is not public holds the claims of that
  request's own bearer token (`HasClaims`), from `TenantGuard` on a tenant; and a request is late only while it is under
  way and has a token on the list, so `AuthGuard` has refused it or could not ask (`unasked`). Each guard's await may
  let others pass, but they write contexts of their own.
- `Directory`. `DirInv` says of each planned write (`PlanInv`) that it keeps the tenant of the row it names, a row that
  was there, and that a plan for users names rows of the tenant it was made for: rows change tenant by nobody, so the
  check before the await still holds at the flush. `DistinctInv`: unless two writers of permissions overlapped, the one
  writer in flight plans a key that no other row has, since nothing it read has changed, or one with a blank resource
  (`FreshKey`). An update that skips the check writes the key its row has, or a blank resource.
- `Audit`. `ReaderInv`: a log that the client was not shown yet, and that is not excused, comes after at least as many newer
  ones as the pages it has read can hold. `LogsInv` adds that the logs are finitely many and that a clean-up removes only
  what is older than a cut-off. New logs are newer, so they move the others down and raise the count; a clean-up that
  takes one of them leaves this log older than the cut-off too, and excused (`OthersGoOnReading`); a page shows what comes
  within it (`ShownOrLater`).
- `Charts`. `ChaInv` is the types and finitely many metrics. On a regular calendar two dates of one key lie in the same
  hour, day, day of the year or month (quotients of quotients, `PeriodOf`), so the metrics of one point are those of one
  stretch of time. The points are the labels in the order of their dates: a strict order on finitely many of them has an
  enumeration (`SortedExists`), which is what `InOrder` takes. The value of a point is a sum over its metrics
  (`SumIs`), and an average lies between the least and the greatest of what it averages (`AverageBetween`).
- `RateLimit`. `KeyInv`, of one key's history, window and clock: a window was opened by a request that got through, at a tick
  before which, in a window's length, less than the limit had (`LeavesRoom`); since then as many got through as it counts,
  up to the limit, and after its end none. So an interval meets the requests of one window and, of the one before, not the
  request that opened it; and a window that is over, swept or not, leaves room for the next (`OverIsFree`). A refusal
  counts, but its window began within the last window's length and has let the limit through (`KeyRefuses`). The history
  holds running totals, so that what got through an interval is a difference of two of them and no sum.
- `Reports`. `RepInv`: a report is generated by one request at most, nobody generates a COMPLETED one, a request that is
  about to note content has it on disk, and no stream writes a workbook.
- `Mail`. `QueueInv`: a mail whose job is accepted or completed has gone out, and at most once more than answers were
  lost and the process has died over it; any other mail at most as often as that (`GoneOut`). `MonitorInv`: a check that
  mails has an alert left. The counts are cardinalities, hence `IsFiniteSet(Mails)` for the types.
- `McpServer`. `ServerInv`: unless starts overlapped, one actor starts, no session but that of `sessionId` is alive, and the
  actor that is about to create one has found none.
  `BothTransportsAgree` is a case analysis of the two handlers over the states that `linked` and `attached` can be in.
- `ApiClient`. `ClientInv`: the flag is up while a login is on the wire, so there is one; and there is never a token
  (`LoginKeepsNothing`), so a test that answers success has found somebody else's login in flight.
- `Telemetry`. `TelInv` is the types with `NewestKept`; the lemmas say what `LastOf`, `Reverse`, `Front` and `Tail` do to a
  sequence that grows by one (`LastOfAppend`, `ReverseAppend`, `ReverseTail`). `KeysInv` adds that the keys are finitely
  many, so that they can be listed. Whatever the order of the list, a filter over all metrics keeps as many as the filters
  over each key do together, and what it keeps is there to be sorted (`SortedExists` gives `SlowestFirst` its order).
- `Conflicts`. `ConInv` keeps the catalogue finite, so `LeadsTo`, iterated as often as there are plugins, is the least set
  that holds a plugin's dependencies and theirs (`LeadsToReaches`). Of the search, by induction on the plugins that are not
  on the stack (`VisitsAnswer`): it begins at what everything on the stack leads to, and what was visited and has left the
  stack is `Black`, closed under dependencies and on no cycle. If it finds something, that is a cycle; if not, the plugin
  becomes black with all its dependencies (`BlackGrows`), and black plugins lead into no cycle. That the recursion is
  well defined, though `visited` is handed from one branch to the next, is `VisitsExist`.
- `Lemmas` holds what these share. The library states induction with an operator as a parameter, which the provers cannot
  instantiate; stated of the *set* of what a claim holds of, it needs no parameter: a set of naturals with 0 that is closed
  under successor is all of them (`NatSetInduction`), a set of subsets of a finite set likewise (`SubsetInduction`). From
  these follow that a function defined by recursion on a natural exists (`RecursionExists`), sums over finite sets
  (`SumExists`, `SumSteps`, `Distributes`), division (`Quotient`, `QuotientOfQuotient`) and enumerations in a strict order
  (`Enumerates`, `OrderedExists`, `SortedExists`).

Assumptions: each module's `ASSUME`s, which TLC evaluates in its runs. They bound the constants (`TimesAreNat`,
`ExpiriesAreNat`, `MaxLoginsIsNat`, `ConstantsAssumption`, …) or say that the model values that stand for `null` are no
values (`NothingIsNoValue`, `NothingIsNoRow`, …).

Conditions of theorems: `RestOnly`, `NoConfig`, `Serial`, `~Redis`, `Transport = "websocket"` each name a use or a
configuration of the code, and TLC runs with constants that satisfy them; without them the property is false, and the
models show how. `UnloadedStayUnloaded` names the behaviours it is about instead.

Proved only: the type invariants, which no run checks again, `PrimaryManaged`, `LoadedIsTransient`, `OneAtATime`, and
`TokensOfTheUser` of callers that wait.

Model-checked only:

- liveness, since the prover does not reason about fairness here: `BootFinishes`, `LoadSettles`, `CallsReturn`,
  `FlagsClear`, `MailSettles`, `ChecksEnd`;
- `MergesACopy`: merge and clone call themselves down trees of any depth (`RECURSIVE`), and the prover loses its
  arithmetic in a module that declares such an operator.

## Disagreements found

With a run that shows it:

1. `sessions_resurrect`: `RedisStorage.update` writes a session back that was deleted after it was read
   (`redis-storage.ts:154`).
2. `rate_sliding`: the rate limit counts in fixed windows (`rate-limit.middleware.ts:85`), so an interval of a window's
   length that meets two of them lets up to twice the limit less one through; `rate-limit.middleware.ts:31` calls it a
   sliding window (基于内存的滑动窗口限流实现) and `:10` says 时间窗口内最大请求数, the most requests in the window.
   `FixedWindowRate`, which `access` checks, is what does hold.
3. `plugin_routes`: the role plugin declares `/api/roles`, and the guard looks for a plugin named `roles`, which nobody
   registers: 404 (`plugin-status.guard.ts:78`). TLC stops at the first such route; there are more of them (below).

Noticed while modelling; the models show the behaviour, no run is spent on it:

- Plugins: `disablePlugin` leaves `pluginStates` of an object plugin enabled, so the next `enablePlugin` returns early
  with success and it stays DISABLED (`plugin-loader.service.ts:433`; `plugin.controller.ts:98-99` says otherwise); an
  `enablePlugin` with a config that awaits while a disable overlaps leaves an object plugin INITIALIZED with its flag
  off; `getDependents` returns the plugin's own dependencies, so unloading is refused for the wrong plugins; system
  plugins can be unloaded; the guard goes on letting requests through while a reload awaits `destroy`; `reloadPlugin`
  initializes a disabled plugin and answers success when its hook rejected; `unloadPlugin` runs `destroy` twice;
  overlapping reload and unload leave entries of an unregistered plugin, and `registry.clear` leaves `pluginStates`.
  Analytics and reporting are FEATURE plugins and `main.ts` passes no feature plugins, so they stay UNLOADED and answer
  403 though `main.ts:54-64` announces them; the path `permissions` maps to a name nobody registers; `audit-logs` maps
  to none and is never guarded; `loadSystemPlugins` ignores the names it is given; `checkConflicts` is called by nobody.
- MCP servers: two overlapping starts of one id leave a running server that the manager does not know
  (`mcp-server-manager.ts:64`); a restart that overlaps a stop may leave a transport open; `cleanup` that overlaps a start
  does not leave nothing; HTTP answers that it started when its port is taken; `getStats` reads a promise as a status.
  `start` hands the registry and the transports the SDK's low-level `Server`, which lacks the methods they call: a
  registration after the first start throws when the map has changed, and `tools/list` and `tools/call` answer errors, though
  `mcp-server.ts:224` says 使其可以被 AI 助手调用. `registerTool` overwrites where its comment says it throws.
- Sessions: on Redis `findSession` rejects for every session it finds; without Redis there is no fall-back to the memory;
  overlapping updates lose a field; `findSession` and the sweep may delete a session used since it was read; reading does
  not refresh.
- Authentication of the MCP side: the answer to a refresh is written into the token data of whoever has logged in
  meanwhile (`auth-manager.ts:195`), so a refresh beside two logins mixes two users' tokens; `/user/me` is asked with
  the access token of the previous login, so a user may be kept with another's tenant; nobody sets
  `globalThis.apiClient`; `ApiClient.login` looks for the token on axios' response and never keeps one. `apps/mcp-auth`
  with a private key and no public one verifies nothing it signs; introspection calls refresh tokens active; no end
  point generates a pair.
- Auth plugin: overlapping logins lose an increment, overlapping binds leave two primary accounts or none; a blacklist
  that cannot be asked lets tokens through; `AuthGuard` sets `req.user` to a payload without `id`, which the guarded
  routes other than `me` and `logout` ask for; `@RequirePermissions` stores an object that the guard of the role plugin
  iterates, so such a route answers 500.
- Permissions: an update with a blank resource skips the check for distinctness, or checks the old resource, and makes
  duplicates without any overlap (`permission.service.ts:225-241`).
- Reports: a PDF resolves at its document's `end`, before its file is finished, and may be hashed in part
  (`reporting.service.ts:211`); FAILED is never set, so a failure leaves GENERATING (`report.entity.ts:26`).
- Charts: `getWeekNumber` answers the day of the year (`visualization.service.ts:286`).
- Mail: the monitor moves `lastFailedCount` on during its cool-down, so a growth within it is never reported
  (`mail-queue-monitor.service.ts:71`); a check that ends late sets it back, so failures are reported twice;
  `getMonitorStats` uses up the cool-down and mails nothing; a mail whose answer from SMTP is lost is sent again
  (`mail-queue-processor.service.ts:83-86`).
- Configuration: `deepClone` returns an empty object as it is (`deep-clone.ts:15`), so what is merged into the empty
  `driver` of the defaults is written into the defaults, and `resetConfig` does not restore them (`config-loader.ts:57`);
  two overlapping `defineConfig` merge into one configuration and the first's values are lost; a `ConfigService` keeps the
  configuration of its construction.
- Elsewhere: summaries of metrics take the key `method:path` apart at every colon; `MAX_TRACES` is enforced by nobody; no
  query of metrics has an order; the controllers of organizations and roles pass an empty tenant.

## What is not modelled

- Types, decorators, metadata, entities, templates, constants, migrations, build tools: no protocol.
- Wiring of libraries: NestJS modules, Express, Swagger, OpenTelemetry, Passport strategies, the MCP SDK, BullMQ and
  Redis beyond what the code relies on (marked external in `PROJECT.json`).
- Code that nothing reaches: `libs/bootstrap` (nobody calls `bootstrap()`, which moreover does not await
  `configureExpress`), the tenant filter and tenant repository, the correlation middleware, core's `RoleGuard`,
  `audit-log.subscriber`, the interceptors of `libs/common`.
- Most of the analytics plugin: its service is typed against entities that its module does not register, and nothing
  writes the metrics it reads; charts drawn at random (`Math.random`) say nothing.
- Request tracing: fresh ids that only their own request reads.
- `verifyEmail`, which writes only columns that nothing else sets or reads; `updateRole`, which writes a name.
- The stdio transport and the stdio application: the SDK handles the messages, the process ends.
- Within the modelled parts: wording of answers and logs, what an e-mail, a template, a tool or a plugin's configuration
  contains, and operations that only read where no property is about what they answer.

## Plan

What is left:

1. `MergesACopy` as a theorem: the merge and the clone as recursive functions over trees of a given depth, with the
   invariant that below each root no object is met twice.
2. What `RedisStorage.update` would need (a `SET … XX`) for `GoneStaysGone` to hold on Redis, as a variant of `Sessions`.
3. Liveness, when the prover reasons about fairness.
