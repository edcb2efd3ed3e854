-------------------------- MODULE McpServerManager --------------------------
(***************************************************************************)
(* The life cycle of MCP servers: McpServerManager (the map of servers and *)
(* the primary id), McpServer.start and McpServer.stop, TransportFactory   *)
(* and the close of each transport.  A call is cut at its awaits: of the   *)
(* transport's connect, of the authentication that follows it, of          *)
(* shutdownTransport and of the close of the SDK's server.                 *)
(*                                                                         *)
(* The transport comes from the environment of the process, so every       *)
(* server has the same kind of it and, unless it is stdio, the same port.  *)
(***************************************************************************)
EXTENDS Naturals, FiniteSets

CONSTANTS
  Ids,        \* the server ids the callers use
  Servers,    \* bound: the McpServer objects alive at the same time
  Links,      \* bound: the transports (each with its SDK server) alive at the same time
  Calls,      \* bound: slots for calls in flight at the same time
  Transport,  \* the kind of transport
  Serial,     \* callers wait for the previous call on the same id
  NoId, NoServer, NoLink, NoJob

ASSUME ConstantsAssumption ==
  /\ Transport \in {"stdio", "http", "websocket"}
  /\ Serial \in BOOLEAN
  /\ NoId \notin Ids /\ NoServer \notin Servers /\ NoLink \notin Links

VARIABLES
  servers,    \* manager.servers: the object each id maps to
  primary,    \* manager.primaryServerId
  started,    \* isStarted of each object
  sdk,        \* the SDK server of each object, named by the link it was made with
  transport,  \* transport of each object
  link,       \* what has become of each transport
  clients,    \* the WebSocket transports with a client connected
  pc,         \* pc[c]: what call c awaits, or "idle"
  job         \* job[c]: what call c was asked and what it works on

manager == <<servers, primary>>
object  == <<started, sdk, transport>>
network == <<link, clients>>
calls   == <<pc, job>>
vars    == <<manager, object, network, calls>>

LinkStates == {"unused", "connecting", "up", "failed", "down"}

Jobs == [op : {"start", "stop", "restart", "stopAll", "cleanup"},
         id : Ids \cup {NoId}, obj : Servers \cup {NoServer}, link : Links \cup {NoLink}]

TypeOK ==
  /\ servers \in [Ids -> Servers \cup {NoServer}]
  /\ primary \in Ids \cup {NoId}
  /\ started \in [Servers -> BOOLEAN]
  /\ sdk \in [Servers -> Links \cup {NoLink}]
  /\ transport \in [Servers -> Links \cup {NoLink}]
  /\ link \in [Links -> LinkStates]
  /\ clients \subseteq Links
  /\ pc \in [Calls -> {"idle", "connecting", "settling", "shutting", "closing",
                       "stopped", "next", "clearing"}]
  /\ job \in [Calls -> Jobs \cup {NoJob}]

-----------------------------------------------------------------------------
Managed == {id \in Ids : servers[id] # NoServer}

InFlight == {c \in Calls : pc[c] # "idle"}

\* An object, or a transport, that the program cannot reach any more and
\* that does nothing: its name is used again.
FreeServers ==
  {o \in Servers : /\ ~started[o]
                   /\ \A id \in Ids : servers[id] # o
                   /\ \A c \in InFlight : job[c].obj # o}
FreeLinks ==
  {l \in Links : /\ link[l] # "up"
                 /\ \A o \in Servers \ FreeServers : sdk[o] # l /\ transport[o] # l
                 /\ \A c \in InFlight : job[c].link # l}

\* Bound: a call begins only if every call in flight could still make a
\* server and a transport.
Room ==
  /\ Cardinality(FreeServers) > Cardinality(InFlight)
  /\ Cardinality(FreeLinks) > Cardinality(InFlight)

\* HTTP and WebSocket servers listen on one port.
PortIsFree == \A l \in Links : link[l] # "up"

NewJob(op, id, o) == [op |-> op, id |-> id, obj |-> o, link |-> NoLink]

Goto(c, where) == pc' = [pc EXCEPT ![c] = where]

Finish(c) ==
  /\ Goto(c, "idle")
  /\ job' = [job EXCEPT ![c] = NoJob]

Init ==
  /\ servers = [id \in Ids |-> NoServer]
  /\ primary = NoId
  /\ started = [o \in Servers |-> FALSE]
  /\ sdk = [o \in Servers |-> NoLink]
  /\ transport = [o \in Servers |-> NoLink]
  /\ link = [l \in Links |-> "unused"]
  /\ clients = {}
  /\ pc = [c \in Calls |-> "idle"]
  /\ job = [c \in Calls |-> NoJob]

-----------------------------------------------------------------------------
(* McpServer.stop: j is the job of call c *)

\* close of the SDK's server: it closes the stdio transport it is connected
\* to; the other transports are not the SDK's.
CloseSdk(l) ==
  IF Transport = "stdio" THEN link' = [link EXCEPT ![l] = "down"] ELSE UNCHANGED link

\* stop, up to its first await.  The close of a transport frees the port at
\* once and resolves later.
StopServerLeavesTransport(c, j) ==
  LET o == j.obj IN
    /\ job' = [job EXCEPT ![c] = [j EXCEPT !.link = transport[o]]]
    /\ Goto(c, IF started[o] THEN "shutting" ELSE "stopped")
    /\ UNCHANGED <<link, started>>
StopServer(c, j) ==
  LET o == j.obj IN
    \/ /\ ~started[o]
       /\ job' = [job EXCEPT ![c] = j]
       /\ Goto(c, "stopped")
       /\ UNCHANGED <<link, started>>
    \/ /\ started[o] /\ transport[o] # NoLink
       /\ job' = [job EXCEPT ![c] = [j EXCEPT !.link = transport[o]]]
       /\ Goto(c, "shutting")
       /\ link' = [link EXCEPT ![transport[o]] = "down"]
       /\ UNCHANGED started
    \/ /\ started[o] /\ transport[o] = NoLink /\ sdk[o] # NoLink
       /\ job' = [job EXCEPT ![c] = j]
       /\ Goto(c, "closing")
       /\ CloseSdk(sdk[o])
       /\ UNCHANGED started
    \/ /\ started[o] /\ transport[o] = NoLink /\ sdk[o] = NoLink
       /\ job' = [job EXCEPT ![c] = j]
       /\ Goto(c, "stopped")
       /\ started' = [started EXCEPT ![o] = FALSE]
       /\ UNCHANGED link

\* shutdownTransport resolves: WebSocketServer.close waits until the last
\* client has left.
ShutdownResolves(c) ==
  /\ pc[c] = "shutting" /\ job[c].link \notin clients
  /\ LET o == job[c].obj IN
       /\ transport' = [transport EXCEPT ![o] = NoLink]
       /\ \/ /\ sdk[o] # NoLink
             /\ Goto(c, "closing")
             /\ CloseSdk(sdk[o])
             /\ UNCHANGED started
          \/ /\ sdk[o] = NoLink
             /\ Goto(c, "stopped")
             /\ started' = [started EXCEPT ![o] = FALSE]
             /\ UNCHANGED link
  /\ UNCHANGED <<manager, sdk, clients, job>>

\* close of the SDK's server resolves.
CloseResolves(c) ==
  /\ pc[c] = "closing"
  /\ sdk' = [sdk EXCEPT ![job[c].obj] = NoLink]
  /\ started' = [started EXCEPT ![job[c].obj] = FALSE]
  /\ Goto(c, "stopped")
  /\ UNCHANGED <<manager, transport, network, job>>

-----------------------------------------------------------------------------
(* McpServer.start *)

\* start of an object that is not started, up to the await of connect.
Connect(c, j) ==
  \E l \in FreeLinks :
    /\ sdk' = [sdk EXCEPT ![j.obj] = l]
    /\ link' = [link EXCEPT ![l] = "connecting"]
    /\ job' = [job EXCEPT ![c] = [j EXCEPT !.link = l]]
    /\ Goto(c, "connecting")

\* connect resolves.  HttpTransport.connect does not wait for its port: it
\* resolves whether or not the port can be had.
ConnectAwaitsPort(c) ==
  /\ pc[c] = "connecting"
  /\ LET o == job[c].obj
         l == job[c].link
     IN
       /\ Transport = "stdio" \/ PortIsFree
       /\ link' = [link EXCEPT ![l] = IF @ = "connecting" THEN "up" ELSE @]
       /\ transport' = [transport EXCEPT ![o] = l]
       /\ started' = [started EXCEPT ![o] = TRUE]
  /\ Goto(c, "settling")
  /\ UNCHANGED <<manager, sdk, clients, job>>
ConnectUnchecked(c) ==
  /\ pc[c] = "connecting"
  /\ LET o == job[c].obj
         l == job[c].link
     IN
       /\ link' = [link EXCEPT ![l] = IF @ = "connecting" /\ PortIsFree THEN "up" ELSE "failed"]
       /\ transport' = [transport EXCEPT ![o] = l]
       /\ started' = [started EXCEPT ![o] = TRUE]
  /\ Goto(c, "settling")
  /\ UNCHANGED <<manager, sdk, clients, job>>
ConnectResolves(c) ==
  /\ pc[c] = "connecting"
  /\ LET o == job[c].obj
         l == job[c].link
     IN
       /\ \E up \in BOOLEAN :
            /\ up => Transport = "stdio" \/ PortIsFree
            /\ ~up => Transport = "http"
            /\ link' = [link EXCEPT ![l] =
                          IF @ # "connecting" THEN @ ELSE IF up THEN "up" ELSE "failed"]
       /\ transport' = [transport EXCEPT ![o] = l]
       /\ started' = [started EXCEPT ![o] = TRUE]
  /\ Goto(c, "settling")
  /\ UNCHANGED <<manager, sdk, clients, job>>

\* connect rejects: start answers false, and so does the manager's call.  A
\* server that was to be restarted stays in the map.
ConnectRejects(c) ==
  /\ pc[c] = "connecting" /\ Transport # "http"
  /\ link' = [link EXCEPT ![job[c].link] = "failed"]
  /\ Finish(c)
  /\ UNCHANGED <<manager, object, clients>>

\* The authentication settles, either way: start answers true.
StartSettles(c) ==
  /\ pc[c] = "settling"
  /\ LET id == job[c].id IN
       \/ /\ job[c].op = "start"
          /\ servers' = [servers EXCEPT ![id] = job[c].obj]
          /\ primary' = IF primary = NoId THEN id ELSE primary
       \/ /\ job[c].op = "restart"
          /\ UNCHANGED manager
  /\ Finish(c)
  /\ UNCHANGED <<object, network>>

-----------------------------------------------------------------------------
(* McpServerManager *)

\* What stop and removeServer do to the map once the server has stopped:
\* the entry of the id goes, whatever object it maps to by now.
Forget(id) ==
  /\ servers' = [servers EXCEPT ![id] = NoServer]
  /\ primary' = IF primary = id THEN NoId ELSE primary

\* new McpServer, and its start.
NewServer(c, id) ==
  \E o \in FreeServers : \E l \in FreeLinks :
    /\ sdk' = [sdk EXCEPT ![o] = l]
    /\ transport' = [transport EXCEPT ![o] = NoLink]
    /\ link' = [link EXCEPT ![l] = "connecting"]
    /\ job' = [job EXCEPT ![c] = [NewJob("start", id, o) EXCEPT !.link = l]]
    /\ Goto(c, "connecting")
    /\ UNCHANGED started

MayCall(c, id) ==
  /\ pc[c] = "idle"
  /\ Serial => \A d \in InFlight : job[d].id # id /\ job[d].op \notin {"stopAll", "cleanup"}

MayCallAll(c) == pc[c] = "idle" /\ (Serial => InFlight = {})

\* An id that is taken has its server stopped first.
StartOverExisting(c, id) ==
  /\ MayCall(c, id) /\ Room
  /\ NewServer(c, id)
  /\ UNCHANGED <<manager, clients>>
Start(c, id) ==
  /\ MayCall(c, id) /\ Room
  /\ \/ /\ id \in Managed
        /\ StopServer(c, NewJob("start", id, servers[id]))
        /\ UNCHANGED <<sdk, transport>>
     \/ /\ id \notin Managed
        /\ NewServer(c, id)
  /\ UNCHANGED <<manager, clients>>

\* stop, and removeServer.
Stop(c, id) ==
  /\ MayCall(c, id) /\ id \in Managed
  /\ StopServer(c, NewJob("stop", id, servers[id]))
  /\ UNCHANGED <<manager, sdk, transport, clients>>

Restart(c, id) ==
  /\ MayCall(c, id) /\ id \in Managed /\ Room
  /\ StopServer(c, NewJob("restart", id, servers[id]))
  /\ UNCHANGED <<manager, sdk, transport, clients>>

\* The loop of stopAll over the live entries of the map: an id that is added
\* meanwhile is visited too.
StopNextClears(c, op) ==
  /\ job' = [job EXCEPT ![c] = NewJob("cleanup", NoId, NoServer)]
  /\ Goto(c, "clearing")
  /\ UNCHANGED <<link, started>>
StopNext(c, op) ==
  \/ \E id \in Managed : StopServer(c, NewJob(op, id, servers[id]))
  \/ /\ Managed = {}
     /\ \/ op = "stopAll" /\ Finish(c)
        \/ /\ op = "cleanup"
           /\ job' = [job EXCEPT ![c] = NewJob(op, NoId, NoServer)]
           /\ Goto(c, "clearing")
     /\ UNCHANGED <<link, started>>

StopAll(c, op) ==
  /\ MayCallAll(c)
  /\ StopNext(c, op)
  /\ UNCHANGED <<manager, sdk, transport, clients>>

StopAllGoesOn(c) ==
  /\ pc[c] = "next"
  /\ StopNext(c, job[c].op)
  /\ UNCHANGED <<manager, sdk, transport, clients>>

\* cleanup, after stopAll.
ClearServers(c) ==
  /\ pc[c] = "clearing"
  /\ servers' = [id \in Ids |-> NoServer]
  /\ primary' = NoId
  /\ Finish(c)
  /\ UNCHANGED <<object, network>>

\* McpServer.stop has returned to the call that awaits it.
StopReturns(c) ==
  /\ pc[c] = "stopped"
  /\ LET id == job[c].id
         o == job[c].obj
     IN
       \/ /\ job[c].op = "stop"
          /\ Forget(id)
          /\ Finish(c)
          /\ UNCHANGED <<object, link>>
       \/ /\ job[c].op = "start"
          /\ Forget(id)
          /\ NewServer(c, id)
       \/ /\ job[c].op \in {"stopAll", "cleanup"}
          /\ Forget(id)
          /\ Goto(c, "next")
          /\ UNCHANGED <<object, link, job>>
       \/ /\ job[c].op = "restart" /\ ~started[o]
          /\ Connect(c, job[c])
          /\ UNCHANGED <<manager, started, transport>>
       \/ /\ job[c].op = "restart" /\ started[o]
          /\ Finish(c)
          /\ UNCHANGED <<manager, object, link>>
  /\ UNCHANGED clients

SetPrimaryServer(id) ==
  /\ id \in Managed
  /\ primary' = id
  /\ UNCHANGED <<servers, object, network, calls>>

\* The clients of WebSocket transports come and go as they like.
ClientConnects(l) ==
  /\ Transport = "websocket" /\ link[l] = "up"
  /\ clients' = clients \cup {l}
  /\ UNCHANGED <<manager, object, link, calls>>

ClientLeaves(l) ==
  /\ clients' = clients \ {l}
  /\ UNCHANGED <<manager, object, link, calls>>

-----------------------------------------------------------------------------
Request(c) ==
  \/ \E id \in Ids : Start(c, id) \/ Stop(c, id) \/ Restart(c, id)
  \/ \E op \in {"stopAll", "cleanup"} : StopAll(c, op)

Proceed(c) ==
  \/ ShutdownResolves(c)
  \/ CloseResolves(c)
  \/ ConnectResolves(c)
  \/ ConnectRejects(c)
  \/ StartSettles(c)
  \/ StopReturns(c)
  \/ StopAllGoesOn(c)
  \/ ClearServers(c)

Next ==
  \/ \E c \in Calls : Request(c) \/ Proceed(c)
  \/ \E id \in Ids : SetPrimaryServer(id)
  \/ \E l \in Links : ClientConnects(l) \/ ClientLeaves(l)

\* What is awaited settles once it can; nothing makes callers call or
\* clients leave.
Fairness == \A c \in Calls : WF_vars(Proceed(c))

Spec == Init /\ [][Next]_vars /\ Fairness
-----------------------------------------------------------------------------
(* Properties *)

\* The primary id is always an id the manager has a server for, whatever
\* calls overlap, so getPrimaryServer and the calls without an id never miss
\* (mcp-server-manager.ts:87-90, 132-139, 391-400).
PrimaryManaged == primary # NoId => primary \in Managed

\* A server that is started is one that the manager can still stop, or one
\* that a call in flight is working on (mcp-server-manager.ts:60-148).
StartedIsManaged ==
  \A o \in Servers : started[o] =>
    \/ \E id \in Ids : servers[id] = o
    \/ \E c \in InFlight : job[c].obj = o

\* A transport that is open belongs to a server that says it runs and that
\* will close it (mcp-server.ts:154-166, 204-214).
OpenIsHeld ==
  \A l \in Links : link[l] = "up" => \E o \in Servers : started[o] /\ transport[o] = l

\* When cleanup returns and no other call is in flight, nothing runs and
\* nothing listens (mcp-server-manager.ts:472-487).
CleanupLeavesNothing ==
  [][\A c \in Calls :
       /\ pc[c] # "idle" /\ job[c].op = "cleanup" /\ pc'[c] = "idle"
       /\ \A d \in Calls : pc'[d] = "idle"
       => /\ \A o \in Servers : ~started'[o]
          /\ \A l \in Links : link'[l] # "up"]_vars

\* A call returns (mcp-server-manager.ts:60-198, 364-376, 481-487).
CallsReturn == \A c \in Calls : pc[c] # "idle" ~> pc[c] = "idle"

\* A WebSocket server that was reported started, and that no call is working
\* on, listens (mcp-server.ts:107-115, websocket-transport.ts:38-62).
StartedListens ==
  \A o \in Servers : started[o] /\ (\A c \in InFlight : job[c].obj # o) =>
    transport[o] # NoLink /\ link[transport[o]] = "up"
=============================================================================
