------------------------------ MODULE McpServer ------------------------------
(***************************************************************************)
(* One McpServer seen from inside: start, stop and getStatus with the      *)
(* login and the session a start brings, the ToolRegistry, and the         *)
(* JSON-RPC handlers of the HTTP and WebSocket transports.                 *)
(*                                                                         *)
(* start hands the registry and the transport an SDK Server, which has     *)
(* none of registerTool, listTools and invokeTool: calling one of them     *)
(* throws.  So a registration after the first start throws when it has     *)
(* already changed the registry, and tools/list and tools/call are         *)
(* answered with an error.                                                 *)
(***************************************************************************)
EXTENDS SequencesExt

CONSTANTS
  Actors,      \* bound: calls of the server in flight
  MaxSessions, \* bound: sessions made
  ToolNames,
  Params,      \* the parameters the schemas of the tools declare
  Blank        \* an empty tool name; also what is not there

ASSUME ServerAssumption == Blank \notin ToolNames /\ MaxSessions \in Nat

VARIABLES
  authEnabled,     \* config.authEnabled
  isStarted,
  linked,          \* the registry has been given an SDK Server
  attached,        \* the transport holds one
  sessionId,
  liveSessions,    \* what the session storage holds
  made,            \* how many sessions were created
  isLoggingIn,     \* the AuthManager has a login in flight
  actor,           \* where each call is
  overlapped,      \* history variable: two starts have been in flight at once
  tools            \* the registry: tools[n] is Blank or a tool of that name

lifeVars == <<authEnabled, isStarted, linked, attached, sessionId, liveSessions,
              made, isLoggingIn, actor, overlapped>>
serverVars == <<lifeVars, tools>>

(* 0 is the session the constructor was given. *)
SessionIds == 0 .. MaxSessions

Tool == [name: ToolNames \cup {Blank}, required: SUBSET Params]
Args == UNION {[known -> {"typed", "mistyped"}] : known \in SUBSET Params}
Request == [readable: BOOLEAN, version: BOOLEAN, id: {1, Blank},
            method: {"tools/list", "tools/call", "initialize", "other"}, params: BOOLEAN]
Place == [op: {"idle", "connect", "login", "close"}]
    \cup [op: {"find", "create"}, id: SessionIds]
    \cup [op: {"execute"}, tool: Tool, args: Args]

ServerTypeOK ==
  /\ {authEnabled, isStarted, linked, attached, isLoggingIn, overlapped} \subseteq BOOLEAN
  /\ sessionId \in SessionIds \cup {Blank}
  /\ liveSessions \subseteq SessionIds /\ made \in SessionIds
  /\ actor \in [Actors -> Place]
  /\ tools \in [ToolNames -> Tool \cup {Blank}]

ServerInit ==
  /\ authEnabled \in BOOLEAN
  /\ isStarted = FALSE /\ linked = FALSE /\ attached = FALSE
  /\ sessionId \in {0, Blank}
  /\ liveSessions \in SUBSET ({sessionId} \ {Blank})
  /\ made = 0
  /\ isLoggingIn = FALSE
  /\ actor = [a \in Actors |-> [op |-> "idle"]]
  /\ overlapped = FALSE
  /\ tools = [n \in ToolNames |-> Blank]

At(a, op) == actor[a].op = op
Move2(a, place) == actor' = [actor EXCEPT ![a] = place]
Done(a) == Move2(a, [op |-> "idle"])
Starting == {a \in Actors : actor[a].op \in {"connect", "login", "find", "create"}}

-----------------------------------------------------------------------------
(* On a server that runs it answers true and does nothing. *)
StartServer(a) ==
  /\ At(a, "idle")
  /\ ~isStarted
  /\ linked' = TRUE
  /\ Move2(a, [op |-> "connect"])
  /\ overlapped' = (overlapped \/ Starting # {})
  /\ UNCHANGED <<authEnabled, isStarted, attached, sessionId, liveSessions, made,
                 isLoggingIn, tools>>

(* What is left of start when authentication is dealt with. *)
ThenSession(a) ==
  IF sessionId = Blank THEN Done(a) ELSE Move2(a, [op |-> "find", id |-> sessionId])

(* The transport is up.  A login while one is in flight answers false.     *)
TransportConnects(a) ==
  /\ At(a, "connect")
  /\ isStarted' = TRUE /\ attached' = TRUE
  /\ IF authEnabled /\ ~isLoggingIn
       THEN isLoggingIn' = TRUE /\ Move2(a, [op |-> "login"])
       ELSE UNCHANGED isLoggingIn /\ ThenSession(a)
  /\ UNCHANGED <<authEnabled, linked, sessionId, liveSessions, made, overlapped, tools>>

TransportFails(a) ==
  /\ At(a, "connect")
  /\ Done(a)
  /\ UNCHANGED <<authEnabled, isStarted, linked, attached, sessionId, liveSessions, made,
                 isLoggingIn, overlapped, tools>>

(* initializeAuth goes on whether the login answers true or false. *)
InitializeAuth(a) ==
  /\ At(a, "login")
  /\ isLoggingIn' = FALSE
  /\ ThenSession(a)
  /\ UNCHANGED <<authEnabled, isStarted, linked, attached, sessionId, liveSessions, made,
                 overlapped, tools>>

(* The id of a new session is made before the storage is asked to keep it. *)
InitializeSession(a) ==
  /\ At(a, "find")
  /\ IF actor[a].id \in liveSessions
       THEN Done(a) /\ UNCHANGED made
       ELSE /\ made < MaxSessions
            /\ made' = made + 1
            /\ Move2(a, [op |-> "create", id |-> made'])
  /\ UNCHANGED <<authEnabled, isStarted, linked, attached, sessionId, liveSessions,
                 isLoggingIn, overlapped, tools>>

SessionForgotten(a) ==
  /\ At(a, "create")
  /\ liveSessions' = liveSessions \cup {actor[a].id}
  /\ Done(a)
  /\ UNCHANGED <<authEnabled, isStarted, linked, attached, sessionId, made, isLoggingIn,
                 overlapped, tools>>

SessionCreated(a) ==
  /\ At(a, "create")
  /\ liveSessions' = liveSessions \cup {actor[a].id}
  /\ sessionId' = actor[a].id
  /\ Done(a)
  /\ UNCHANGED <<authEnabled, isStarted, linked, attached, made, isLoggingIn, overlapped, tools>>

(* createSession rejects; initializeSession swallows it. *)
SessionFails(a) ==
  /\ At(a, "create")
  /\ Done(a)
  /\ UNCHANGED <<authEnabled, isStarted, linked, attached, sessionId, liveSessions, made,
                 isLoggingIn, overlapped, tools>>

StopServer(a) ==
  /\ At(a, "idle")
  /\ isStarted
  /\ Move2(a, [op |-> "close"])
  /\ UNCHANGED <<authEnabled, isStarted, linked, attached, sessionId, liveSessions, made,
                 isLoggingIn, overlapped, tools>>

ServerStopped(a) ==
  /\ At(a, "close")
  /\ isStarted' = FALSE /\ attached' = FALSE
  /\ Done(a)
  /\ UNCHANGED <<authEnabled, linked, sessionId, liveSessions, made, isLoggingIn, overlapped, tools>>

SessionExpires(s) ==
  /\ s \in liveSessions
  /\ liveSessions' = liveSessions \ {s}
  /\ UNCHANGED <<authEnabled, isStarted, linked, attached, sessionId, made, isLoggingIn, actor,
                 overlapped, tools>>

-----------------------------------------------------------------------------
(* registerTool for the next tool of a list: it throws for an empty name,  *)
(* and when there is an SDK Server to register with.                       *)
RegisterTool(done, t) ==
  IF done.threw \/ t.name = Blank THEN [done EXCEPT !.threw = TRUE]
  ELSE [tools |-> [done.tools EXCEPT ![t.name] = t], threw |-> linked]

RegisterTools(list) ==
  /\ tools' = FoldLeft(RegisterTool, [tools |-> tools, threw |-> FALSE], list).tools
  /\ UNCHANGED lifeVars

UnregisterTool(n) ==
  /\ tools' = [tools EXCEPT ![n] = Blank]
  /\ UNCHANGED lifeVars

ClearTools ==
  /\ tools' = [n \in ToolNames |-> Blank]
  /\ UNCHANGED lifeVars

(* Every required parameter is there, and none has another type than the   *)
(* schema of the tools gives it.                                           *)
ValidateTypes(args) ==
  \A k \in DOMAIN args : args[k] = "typed"

ValidateArgs(t, args) ==
  /\ t.required \subseteq DOMAIN args
  /\ ValidateTypes(args)

(* invokeTool throws for a name it does not know, and executeSafe answers  *)
(* with an error for arguments that do not fit.                            *)
InvokeTool(a, n, args) ==
  /\ At(a, "idle")
  /\ tools[n] # Blank
  /\ ValidateArgs(tools[n], args)
  /\ Move2(a, [op |-> "execute", tool |-> tools[n], args |-> args])
  /\ UNCHANGED <<authEnabled, isStarted, linked, attached, sessionId, liveSessions, made,
                 isLoggingIn, overlapped, tools>>

(* execute resolves or rejects; executeSafe answers either way. *)
ExecuteSettles(a) ==
  /\ At(a, "execute")
  /\ Done(a)
  /\ UNCHANGED <<authEnabled, isStarted, linked, attached, sessionId, liveSessions, made,
                 isLoggingIn, overlapped, tools>>

-----------------------------------------------------------------------------
Reply(id, what) == [id |-> id, what |-> what]

(* The HTTP transport.  initialize reads params.protocolVersion. *)
Initialize(r) == Reply(r.id, IF r.params THEN "result" ELSE "internal")
ListTools(r) == Reply(r.id, "internal")
CallTool(r) == Reply(r.id, "internal")

HttpMethod(r) ==
  CASE r.method = "tools/list" -> ListTools(r)
    [] r.method = "tools/call" -> CallTool(r)
    [] r.method = "initialize" -> Initialize(r)
    [] OTHER -> Reply(r.id, "internal")

HandleJsonRpcRequest(r) ==
  IF ~r.readable THEN Reply(Blank, "unreadable")
  ELSE IF ~r.version THEN Reply(r.id, "version")
  ELSE IF ~attached THEN Reply(r.id, "internal")
  ELSE HttpMethod(r)

(* The WebSocket transport. *)
WsMethod(r) ==
  IF r.method = "initialize" /\ r.params THEN Reply(r.id, "result") ELSE Reply(r.id, "internal")

HandleAnyVersion(r) ==
  IF ~attached THEN Reply(r.id, "internal") ELSE WsMethod(r)

HandleRequest(r) ==
  IF ~r.version THEN Reply(r.id, "version")
  ELSE IF ~attached THEN Reply(r.id, "internal")
  ELSE WsMethod(r)

(* A message that is no JSON, or is null, has no id to answer with. *)
OnMessage(r) == IF ~r.readable THEN Reply(Blank, "internal") ELSE HandleRequest(r)

ServerNext ==
  \/ \E a \in Actors :
       \/ StartServer(a) \/ TransportConnects(a) \/ TransportFails(a)
       \/ InitializeAuth(a) \/ InitializeSession(a) \/ SessionCreated(a) \/ SessionFails(a)
       \/ StopServer(a) \/ ServerStopped(a)
       \/ \E n \in ToolNames, args \in Args : InvokeTool(a, n, args)
       \/ ExecuteSettles(a)
  \/ \E s \in SessionIds : SessionExpires(s)
  \/ \E list \in SeqOf(Tool, 2) : RegisterTools(list)
  \/ \E n \in ToolNames : UnregisterTool(n)
  \/ ClearTools

ServerSpec == ServerInit /\ [][ServerNext]_serverVars

-----------------------------------------------------------------------------
(* Starting and stopping a server over and over leaves at most one session *)
(* of it alive, as long as no start begins while another is in flight: a   *)
(* start finds the session of the one before, unless it has expired.       *)
OneSession == ~overlapped => Cardinality(liveSessions) <= 1

(* The two transports, whose handlers were written twice, give a request   *)
(* that can be read the same answer, with its own id, before a server is   *)
(* attached, with one and after it is gone.                                *)
TransportsAgree ==
  \A r \in Request : r.readable =>
    /\ HandleJsonRpcRequest(r) = OnMessage(r)
    /\ HandleJsonRpcRequest(r).id = r.id
    /\ HandleJsonRpcRequest(r).what = "result" => attached
=============================================================================
