----------------------- MODULE McpServerManagerProofs -----------------------
(***************************************************************************)
(* Proofs about McpServerManager, for every set of ids, servers,           *)
(* transports and calls, every transport and any overlap of calls.         *)
(***************************************************************************)
EXTENDS McpServerManager, TLAPS

Places == {"idle", "connecting", "settling", "shutting", "closing", "stopped", "next", "clearing"}

\* Where a call stands, its job has what the continuations rely on.
Fits(where, j) ==
  /\ where \in {"connecting", "settling", "shutting", "closing", "stopped"} =>
       j \in Jobs /\ j.id \in Ids /\ j.obj \in Servers
  /\ where \in {"connecting", "settling"} => j.op \in {"start", "restart"} /\ j.link \in Links
  /\ where \in {"next", "clearing"} => j \in Jobs /\ j.op \in {"stopAll", "cleanup"}

JobsFit == \A c \in Calls : Fits(pc[c], job[c])

TypeInv == TypeOK /\ JobsFit

\* A call goes to a place with a job that fits it.
LEMMA CallGoes ==
  ASSUME TypeInv, NEW c \in Calls, NEW where \in Places, NEW j \in Jobs \cup {NoJob},
         Fits(where, j), pc' = [pc EXCEPT ![c] = where], job' = [job EXCEPT ![c] = j]
  PROVE  /\ pc' \in [Calls -> Places]
         /\ job' \in [Calls -> Jobs \cup {NoJob}]
         /\ JobsFit'
<1>1. pc \in [Calls -> Places] /\ job \in [Calls -> Jobs \cup {NoJob}]
  BY DEF TypeInv, TypeOK, Places
<1>2. pc' \in [Calls -> Places] /\ job' \in [Calls -> Jobs \cup {NoJob}]
  BY <1>1, Zenon
<1>3. \A d \in Calls : Fits(pc'[d], job'[d])
  <2> TAKE d \in Calls
  <2>1. CASE d = c
    <3>1. pc'[d] = where /\ job'[d] = j
      BY <1>1, <2>1, Zenon
    <3> QED
      BY <3>1, Zenon
  <2>2. CASE d # c
    <3>1. pc'[d] = pc[d] /\ job'[d] = job[d]
      BY <1>1, <2>2, Zenon
    <3> QED
      BY <3>1, Zenon DEF TypeInv, JobsFit
  <2> QED
    BY <2>1, <2>2
<1> QED
  BY <1>2, <1>3 DEF JobsFit

LEMMA CallFinishes ==
  ASSUME TypeInv, NEW c \in Calls, Finish(c)
  PROVE  /\ pc' \in [Calls -> Places]
         /\ job' \in [Calls -> Jobs \cup {NoJob}]
         /\ JobsFit'
<1>1. Fits("idle", NoJob)
  BY DEF Fits
<1> QED
  BY <1>1, CallGoes DEF Finish, Goto, Places

\* McpServer.stop, called for a job of an object.
LEMMA StopServerSteps ==
  ASSUME TypeInv, NEW c \in Calls, NEW j \in Jobs, j.id \in Ids, j.obj \in Servers,
         StopServer(c, j)
  PROVE  /\ link' \in [Links -> LinkStates]
         /\ started' \in [Servers -> BOOLEAN]
         /\ pc' \in [Calls -> Places]
         /\ job' \in [Calls -> Jobs \cup {NoJob}]
         /\ JobsFit'
<1> DEFINE o == j.obj
<1>0. TypeOK
  BY DEF TypeInv
<1>1. CASE ~started[o] \/ (started[o] /\ transport[o] = NoLink)
  <2>1. PICK where \in {"stopped", "closing"} :
          pc' = [pc EXCEPT ![c] = where] /\ job' = [job EXCEPT ![c] = j]
    BY <1>1, Zenon DEF StopServer, Goto
  <2>2. Fits(where, j)
    BY DEF Fits
  <2>3. link' \in [Links -> LinkStates] /\ started' \in [Servers -> BOOLEAN]
    BY <1>0, <1>1 DEF StopServer, TypeOK, CloseSdk, LinkStates
  <2> QED
    BY <2>1, <2>2, <2>3, CallGoes DEF Places
<1>2. CASE started[o] /\ transport[o] # NoLink
  <2> DEFINE k == [j EXCEPT !.link = transport[o]]
  <2>1. transport[o] \in Links
    BY <1>0, <1>2 DEF TypeOK
  <2>2. k \in Jobs /\ k.id = j.id /\ k.obj = j.obj
    BY <2>1 DEF Jobs
  <2>3. Fits("shutting", k)
    BY <2>2 DEF Fits
  <2>4. pc' = [pc EXCEPT ![c] = "shutting"] /\ job' = [job EXCEPT ![c] = k]
    BY <1>2, Zenon DEF StopServer, Goto
  <2>5. link' \in [Links -> LinkStates] /\ started' \in [Servers -> BOOLEAN]
    BY <1>0, <1>2, <2>1 DEF StopServer, TypeOK, LinkStates
  <2> HIDE DEF k
  <2> QED
    BY <2>2, <2>3, <2>4, <2>5, CallGoes DEF Places
<1> QED
  BY <1>1, <1>2

LEMMA NewServerSteps ==
  ASSUME TypeInv, NEW c \in Calls, NEW id \in Ids, NewServer(c, id)
  PROVE  /\ sdk' \in [Servers -> Links \cup {NoLink}]
         /\ transport' \in [Servers -> Links \cup {NoLink}]
         /\ link' \in [Links -> LinkStates]
         /\ started' \in [Servers -> BOOLEAN]
         /\ pc' \in [Calls -> Places]
         /\ job' \in [Calls -> Jobs \cup {NoJob}]
         /\ JobsFit'
<1>1. PICK o \in Servers, l \in Links :
        /\ sdk' = [sdk EXCEPT ![o] = l]
        /\ transport' = [transport EXCEPT ![o] = NoLink]
        /\ link' = [link EXCEPT ![l] = "connecting"]
        /\ job' = [job EXCEPT ![c] = [NewJob("start", id, o) EXCEPT !.link = l]]
        /\ pc' = [pc EXCEPT ![c] = "connecting"]
        /\ UNCHANGED started
  BY Zenon DEF NewServer, FreeServers, FreeLinks, Goto
<1> DEFINE k == [NewJob("start", id, o) EXCEPT !.link = l]
<1>2. k \in Jobs /\ k.id = id /\ k.obj = o /\ k.link = l /\ k.op = "start"
  BY DEF NewJob, Jobs
<1>3. Fits("connecting", k)
  BY <1>2 DEF Fits
<1>4. job' = [job EXCEPT ![c] = k]
  BY <1>1
<1> HIDE DEF k
<1>5. pc' \in [Calls -> Places] /\ job' \in [Calls -> Jobs \cup {NoJob}] /\ JobsFit'
  BY <1>1, <1>2, <1>3, <1>4, CallGoes DEF Places
<1> QED
  BY <1>1, <1>5 DEF TypeInv, TypeOK, LinkStates

LEMMA NewJobType ==
  ASSUME NEW op \in {"start", "stop", "restart", "stopAll", "cleanup"},
         NEW id \in Ids \cup {NoId}, NEW o \in Servers \cup {NoServer}
  PROVE  /\ NewJob(op, id, o) \in Jobs
         /\ NewJob(op, id, o).id = id /\ NewJob(op, id, o).obj = o /\ NewJob(op, id, o).op = op
BY DEF NewJob, Jobs

LEMMA InitTypeInv == Init => TypeInv
<1> SUFFICES ASSUME Init PROVE TypeInv
  OBVIOUS
<1>1. TypeOK
  BY DEF Init, TypeOK, LinkStates
<1>2. JobsFit
  BY DEF Init, JobsFit, Fits
<1> QED
  BY <1>1, <1>2 DEF TypeInv

\* A step of stopAll's loop.
LEMMA StopNextSteps ==
  ASSUME TypeInv, NEW c \in Calls, NEW op \in {"stopAll", "cleanup"}, StopNext(c, op)
  PROVE  /\ link' \in [Links -> LinkStates]
         /\ started' \in [Servers -> BOOLEAN]
         /\ pc' \in [Calls -> Places]
         /\ job' \in [Calls -> Jobs \cup {NoJob}]
         /\ JobsFit'
<1>1. ASSUME NEW id \in Managed, StopServer(c, NewJob(op, id, servers[id]))
      PROVE  /\ link' \in [Links -> LinkStates]
             /\ started' \in [Servers -> BOOLEAN]
             /\ pc' \in [Calls -> Places]
             /\ job' \in [Calls -> Jobs \cup {NoJob}]
             /\ JobsFit'
  <2>1. id \in Ids /\ servers[id] \in Servers
    BY DEF Managed, TypeInv, TypeOK
  <2> QED
    BY <1>1, <2>1, NewJobType, StopServerSteps
<1>2. CASE Finish(c) /\ UNCHANGED <<link, started>>
  BY <1>2, CallFinishes DEF TypeInv, TypeOK
<1>3. CASE /\ job' = [job EXCEPT ![c] = NewJob(op, NoId, NoServer)]
           /\ Goto(c, "clearing")
           /\ op = "cleanup"
           /\ UNCHANGED <<link, started>>
  <2>1. Fits("clearing", NewJob(op, NoId, NoServer)) /\ NewJob(op, NoId, NoServer) \in Jobs
    BY NewJobType DEF Fits
  <2> QED
    BY <1>3, <2>1, CallGoes DEF Goto, Places, TypeInv, TypeOK
<1> QED
  BY <1>1, <1>2, <1>3 DEF StopNext

\* The requests.
LEMMA RequestTypeInv ==
  ASSUME TypeInv, NEW c \in Calls, Request(c)
  PROVE  TypeInv'
<1>0. TypeOK
  BY DEF TypeInv
<1>1. ASSUME NEW id \in Ids, Start(c, id) PROVE TypeInv'
  <2>1. CASE id \in Managed
    <3>1. servers[id] \in Servers
      BY <1>0, <2>1 DEF Managed, TypeOK
    <3>2. StopServer(c, NewJob("start", id, servers[id])) /\ UNCHANGED <<manager, sdk, transport, clients>>
      BY <1>1, <2>1 DEF Start
    <3> QED
      BY <1>0, <3>1, <3>2, NewJobType, StopServerSteps DEF TypeInv, TypeOK, Places, manager
  <2>2. CASE id \notin Managed
    BY <1>0, <1>1, <2>2, NewServerSteps DEF Start, TypeInv, TypeOK, Places, manager
  <2> QED
    BY <2>1, <2>2
<1>2. ASSUME NEW id \in Ids, NEW op \in {"stop", "restart"}, id \in Managed,
             StopServer(c, NewJob(op, id, servers[id])),
             UNCHANGED <<manager, sdk, transport, clients>>
      PROVE  TypeInv'
  <2>1. servers[id] \in Servers
    BY <1>0, <1>2 DEF Managed, TypeOK
  <2>2. /\ NewJob(op, id, servers[id]) \in Jobs
        /\ NewJob(op, id, servers[id]).id \in Ids
        /\ NewJob(op, id, servers[id]).obj \in Servers
    BY <2>1, NewJobType
  <2>3. /\ link' \in [Links -> LinkStates]
        /\ started' \in [Servers -> BOOLEAN]
        /\ pc' \in [Calls -> Places]
        /\ job' \in [Calls -> Jobs \cup {NoJob}]
        /\ JobsFit'
    BY <1>2, <2>2, StopServerSteps
  <2> QED
    BY <1>0, <1>2, <2>3 DEF TypeInv, TypeOK, Places, manager
<1>3. ASSUME NEW op \in {"stopAll", "cleanup"}, StopAll(c, op) PROVE TypeInv'
  BY <1>0, <1>3, StopNextSteps DEF StopAll, TypeInv, TypeOK, Places, manager
<1> QED
  BY <1>1, <1>2, <1>3 DEF Request, Stop, Restart

\* The continuations.
LEMMA ProceedTypeInv ==
  ASSUME TypeInv, NEW c \in Calls, Proceed(c)
  PROVE  TypeInv'
<1>0. TypeOK /\ JobsFit /\ job[c] \in Jobs \cup {NoJob}
  BY DEF TypeInv, TypeOK
<1>a. pc[c] \in {"connecting", "settling", "shutting", "closing", "stopped"} =>
        job[c] \in Jobs /\ job[c].id \in Ids /\ job[c].obj \in Servers
  BY <1>0 DEF JobsFit, Fits
<1>b. pc[c] \in {"connecting", "settling"} => job[c].link \in Links
  BY <1>0 DEF JobsFit, Fits
<1>c. job = [job EXCEPT ![c] = job[c]]
  BY <1>0 DEF TypeOK
<1>1. CASE ShutdownResolves(c)
  <2>1. PICK where \in {"closing", "stopped"} : pc' = [pc EXCEPT ![c] = where]
    BY <1>1 DEF ShutdownResolves, Goto
  <2>2. Fits(where, job[c])
    BY <1>1, <1>a DEF ShutdownResolves, Fits
  <2>3. job' = [job EXCEPT ![c] = job[c]]
    BY <1>1, <1>c DEF ShutdownResolves
  <2>4. pc' \in [Calls -> Places] /\ job' \in [Calls -> Jobs \cup {NoJob}] /\ JobsFit'
    BY <1>0, <2>1, <2>2, <2>3, CallGoes DEF Places
  <2>5. /\ link' \in [Links -> LinkStates]
        /\ started' \in [Servers -> BOOLEAN]
        /\ transport' \in [Servers -> Links \cup {NoLink}]
    BY <1>0, <1>1 DEF ShutdownResolves, TypeOK, CloseSdk, LinkStates
  <2> QED
    BY <1>0, <1>1, <2>4, <2>5 DEF ShutdownResolves, TypeInv, TypeOK, Places, manager
<1>2. CASE CloseResolves(c)
  <2>1. Fits("stopped", job[c])
    BY <1>2, <1>a DEF CloseResolves, Fits
  <2>2. pc' \in [Calls -> Places] /\ job' \in [Calls -> Jobs \cup {NoJob}] /\ JobsFit'
    BY <1>0, <1>2, <1>c, <2>1, CallGoes DEF CloseResolves, Goto, Places
  <2> QED
    BY <1>0, <1>2, <2>2 DEF CloseResolves, TypeInv, TypeOK, Places, manager, network
<1>3. CASE ConnectResolves(c)
  <2>1. Fits("settling", job[c])
    BY <1>0, <1>3 DEF ConnectResolves, Fits, JobsFit
  <2>2. pc' \in [Calls -> Places] /\ job' \in [Calls -> Jobs \cup {NoJob}] /\ JobsFit'
    BY <1>0, <1>3, <1>c, <2>1, CallGoes DEF ConnectResolves, Goto, Places
  <2>3. PICK s \in LinkStates : link' = [link EXCEPT ![job[c].link] = s]
    <3>1. link[job[c].link] \in LinkStates
      BY <1>0, <1>3, <1>b DEF ConnectResolves, TypeOK
    <3> QED
      BY <1>3, <3>1 DEF ConnectResolves, LinkStates
  <2>4. link' \in [Links -> LinkStates]
    BY <1>0, <2>3 DEF TypeOK
  <2>5. transport' = [transport EXCEPT ![job[c].obj] = job[c].link] /\ job[c].link \in Links
    BY <1>3, <1>b DEF ConnectResolves
  <2> QED
    BY <1>0, <1>3, <2>2, <2>4, <2>5 DEF ConnectResolves, TypeInv, TypeOK, Places, manager
<1>4. CASE ConnectRejects(c)
  BY <1>0, <1>4, CallFinishes DEF ConnectRejects, TypeInv, TypeOK, Places, manager, object, LinkStates
<1>5. CASE StartSettles(c)
  <2>1. pc[c] = "settling"
    BY <1>5 DEF StartSettles
  <2> QED
    BY <1>0, <1>5, <1>a, <2>1, CallFinishes
    DEF StartSettles, TypeInv, TypeOK, Places, manager, object, network
<1>6. CASE StopReturns(c)
  <2>0. pc[c] = "stopped" /\ job[c] \in Jobs /\ job[c].id \in Ids /\ job[c].obj \in Servers
    BY <1>6, <1>a DEF StopReturns
  <2>1. CASE job[c].op = "stop"
    <3>1. Forget(job[c].id) /\ Finish(c) /\ UNCHANGED <<object, link, clients>>
      BY <1>6, <2>1 DEF StopReturns
    <3> QED
      BY <1>0, <2>0, <3>1, CallFinishes DEF Forget, TypeInv, TypeOK, Places, object
  <2>2. CASE job[c].op = "start"
    <3>1. Forget(job[c].id) /\ NewServer(c, job[c].id) /\ UNCHANGED clients
      BY <1>6, <2>2 DEF StopReturns
    <3> QED
      BY <1>0, <2>0, <3>1, NewServerSteps DEF Forget, TypeInv, TypeOK, Places
  <2>3. CASE job[c].op \in {"stopAll", "cleanup"}
    <3>1. Forget(job[c].id) /\ Goto(c, "next") /\ UNCHANGED <<object, link, job, clients>>
      BY <1>6, <2>3 DEF StopReturns
    <3>2. Fits("next", job[c])
      BY <2>0, <2>3 DEF Fits
    <3>3. pc' \in [Calls -> Places] /\ job' \in [Calls -> Jobs \cup {NoJob}] /\ JobsFit'
      BY <1>0, <1>c, <3>1, <3>2, CallGoes DEF Goto, Places
    <3> QED
      BY <1>0, <2>0, <3>1, <3>3 DEF Forget, TypeInv, TypeOK, Places, object
  <2>4. CASE job[c].op = "restart"
    <3>1. CASE Connect(c, job[c]) /\ UNCHANGED <<manager, started, transport, clients>>
      <4>1. PICK l \in Links :
              /\ sdk' = [sdk EXCEPT ![job[c].obj] = l]
              /\ link' = [link EXCEPT ![l] = "connecting"]
              /\ job' = [job EXCEPT ![c] = [job[c] EXCEPT !.link = l]]
              /\ pc' = [pc EXCEPT ![c] = "connecting"]
        BY <3>1, Zenon DEF Connect, FreeLinks, Goto
      <4> DEFINE k == [job[c] EXCEPT !.link = l]
      <4>2. k \in Jobs /\ k.id \in Ids /\ k.obj \in Servers /\ k.link \in Links /\ k.op = "restart"
        BY <2>0, <2>4 DEF Jobs
      <4>3. Fits("connecting", k)
        BY <4>2 DEF Fits
      <4>4. job' = [job EXCEPT ![c] = k]
        BY <4>1
      <4> HIDE DEF k
      <4>5. pc' \in [Calls -> Places] /\ job' \in [Calls -> Jobs \cup {NoJob}] /\ JobsFit'
        BY <4>1, <4>2, <4>3, <4>4, CallGoes DEF Places
      <4> QED
        BY <1>0, <3>1, <4>1, <4>5 DEF TypeInv, TypeOK, Places, manager, LinkStates
    <3>2. CASE Finish(c) /\ UNCHANGED <<manager, object, link, clients>>
      BY <1>0, <3>2, CallFinishes DEF TypeInv, TypeOK, Places, manager, object
    <3> QED
      BY <1>6, <2>4, <3>1, <3>2 DEF StopReturns
  <2> QED
    BY <2>0, <2>1, <2>2, <2>3, <2>4 DEF Jobs
<1>7. CASE StopAllGoesOn(c)
  <2>1. job[c].op \in {"stopAll", "cleanup"}
    BY <1>0, <1>7 DEF StopAllGoesOn, JobsFit, Fits
  <2> QED
    BY <1>0, <1>7, <2>1, StopNextSteps DEF StopAllGoesOn, TypeInv, TypeOK, Places, manager
<1>8. CASE ClearServers(c)
  BY <1>0, <1>8, CallFinishes DEF ClearServers, TypeInv, TypeOK, Places, object, network
<1> QED
  BY <1>1, <1>2, <1>3, <1>4, <1>5, <1>6, <1>7, <1>8 DEF Proceed

LEMMA NextTypeInv == TypeInv /\ [Next]_vars => TypeInv'
<1> SUFFICES ASSUME TypeInv, [Next]_vars PROVE TypeInv'
  OBVIOUS
<1>1. ASSUME NEW c \in Calls, Request(c) \/ Proceed(c) PROVE TypeInv'
  BY <1>1, RequestTypeInv, ProceedTypeInv
<1>2. ASSUME NEW id \in Ids, SetPrimaryServer(id) PROVE TypeInv'
  BY <1>2 DEF SetPrimaryServer, TypeInv, TypeOK, JobsFit, object, network, calls
<1>3. ASSUME NEW l \in Links, ClientConnects(l) \/ ClientLeaves(l) PROVE TypeInv'
  BY <1>3 DEF ClientConnects, ClientLeaves, TypeInv, TypeOK, JobsFit, manager, object, calls
<1>4. CASE UNCHANGED vars
  BY <1>4 DEF vars, TypeInv, TypeOK, JobsFit, manager, object, network, calls
<1> QED
  BY <1>1, <1>2, <1>3, <1>4 DEF Next

\* The variables keep their types, whatever overlaps.
THEOREM TypeCorrect == Spec => []TypeOK
<1>1. TypeInv => TypeOK
  BY DEF TypeInv
<1> QED
  BY <1>1, InitTypeInv, NextTypeInv, PTL DEF Spec

-----------------------------------------------------------------------------
\* The invariant is inductive with the types: the only steps that remove an
\* entry of the map look at the primary id in the same step.
LEMMA NextPrimary == TypeInv /\ PrimaryManaged /\ [Next]_vars => PrimaryManaged'
<1> SUFFICES ASSUME TypeInv, PrimaryManaged, [Next]_vars PROVE PrimaryManaged'
  OBVIOUS
<1>0. TypeOK /\ JobsFit
  BY DEF TypeInv
<1>1. CASE UNCHANGED manager
  BY <1>1 DEF PrimaryManaged, Managed, manager
<1>2. ASSUME NEW id \in Ids, SetPrimaryServer(id) PROVE PrimaryManaged'
  BY <1>2 DEF SetPrimaryServer, PrimaryManaged, Managed
<1>3. ASSUME NEW id \in Ids, Forget(id) PROVE PrimaryManaged'
  BY <1>0, <1>3 DEF Forget, PrimaryManaged, Managed, TypeOK
<1>4. ASSUME NEW c \in Calls, StartSettles(c) PROVE PrimaryManaged'
  <2>1. job[c].id \in Ids /\ job[c].obj \in Servers
    BY <1>0, <1>4 DEF StartSettles, JobsFit, Fits
  <2> QED
    BY <1>0, <1>4, <2>1, ConstantsAssumption DEF StartSettles, PrimaryManaged, Managed, TypeOK, manager
<1>5. ASSUME NEW c \in Calls, StopReturns(c) PROVE PrimaryManaged'
  <2>1. job[c].id \in Ids
    BY <1>0, <1>5 DEF StopReturns, JobsFit, Fits
  <2>2. Forget(job[c].id) \/ UNCHANGED manager
    BY <1>5 DEF StopReturns
  <2> QED
    BY <1>1, <1>3, <2>1, <2>2
<1>6. ASSUME NEW c \in Calls, ClearServers(c) PROVE PrimaryManaged'
  BY <1>6 DEF ClearServers, PrimaryManaged
<1>7. ASSUME NEW c \in Calls, Request(c) PROVE UNCHANGED manager
  BY <1>7 DEF Request, Start, Stop, Restart, StopAll, manager
<1>8. ASSUME NEW c \in Calls, Proceed(c) PROVE PrimaryManaged'
  <2>1. StartSettles(c) \/ StopReturns(c) \/ ClearServers(c) \/ UNCHANGED manager
    BY <1>8 DEF Proceed, ShutdownResolves, CloseResolves, ConnectResolves, ConnectRejects,
                StopAllGoesOn, manager
  <2> QED
    BY <1>1, <1>4, <1>5, <1>6, <2>1
<1>9. ASSUME NEW l \in Links, ClientConnects(l) \/ ClientLeaves(l) PROVE UNCHANGED manager
  BY <1>9 DEF ClientConnects, ClientLeaves
<1>10. CASE UNCHANGED vars
  BY <1>1, <1>10 DEF vars
<1> QED
  BY <1>1, <1>2, <1>7, <1>8, <1>9, <1>10 DEF Next

\* However calls overlap, the primary id always maps to a server, so the
\* calls that fall back on it find one.
THEOREM Primary == Spec => []PrimaryManaged
<1>1. Init => PrimaryManaged
  BY DEF Init, PrimaryManaged
<1> QED
  BY <1>1, InitTypeInv, NextTypeInv, NextPrimary, PTL DEF Spec

-----------------------------------------------------------------------------
\* A WebSocket server that is started listens, unless a call is stopping it.
\* A call that waits for connect waits for a transport of its own, which no
\* stop can have closed.
Listens(o) == transport[o] # NoLink /\ link[transport[o]] = "up"
Leaving(o) == \E c \in Calls : pc[c] \in {"shutting", "closing"} /\ job[c].obj = o

ListenInv ==
  /\ \A o \in Servers : started[o] =>
       /\ Listens(o) \/ Leaving(o)
       /\ transport[o] # NoLink => link[transport[o]] # "connecting"
       /\ \A p \in Servers : started[p] /\ transport[p] # NoLink /\ transport[p] = transport[o] => p = o
  /\ \A c \in Calls : pc[c] = "connecting" => link[job[c].link] = "connecting"
  /\ \A c, d \in Calls :
       pc[c] = "connecting" /\ pc[d] = "connecting" /\ job[c].link = job[d].link => c = d

\* A call that was neither connecting nor stopping anything stops an object.
LEMMA StopServerListens ==
  ASSUME TypeInv, ListenInv, NEW c \in Calls, pc[c] \in {"idle", "next"},
         NEW j \in Jobs, j.obj \in Servers, Transport = "websocket",
         StopServer(c, j), UNCHANGED <<sdk, transport>>
  PROVE  ListenInv'
<1> DEFINE o == j.obj
<1>0. TypeOK
  BY DEF TypeInv
<1>1. PICK where \in Places, k \in Jobs :
        /\ pc' = [pc EXCEPT ![c] = where] /\ job' = [job EXCEPT ![c] = k] /\ k.obj = o
        /\ where # "connecting"
        /\ started[o] => where \in {"shutting", "closing"} \/ ~started'[o]
        /\ \A p \in Servers \ {o} : started'[p] = started[p]
        /\ started'[o] => started[o]
        /\ \/ UNCHANGED link
           \/ /\ started[o] /\ transport[o] # NoLink
              /\ link' = [link EXCEPT ![transport[o]] = "down"]
              /\ UNCHANGED started /\ where = "shutting"
  <2>1. CASE ~(started[o] /\ transport[o] # NoLink)
    <3>1. job' = [job EXCEPT ![c] = j] /\ UNCHANGED link
      BY <2>1 DEF StopServer, CloseSdk
    <3>2. \E where \in {"stopped", "closing"} :
            /\ pc' = [pc EXCEPT ![c] = where]
            /\ started[o] => where = "closing" \/ ~started'[o]
            /\ \A p \in Servers \ {o} : started'[p] = started[p]
            /\ started'[o] => started[o]
      BY <1>0, <2>1 DEF StopServer, Goto, TypeOK
    <3> QED
      BY <3>1, <3>2 DEF Places
  <2>2. CASE started[o] /\ transport[o] # NoLink
    <3> DEFINE k == [j EXCEPT !.link = transport[o]]
    <3>1. k \in Jobs /\ k.obj = o
      BY <1>0, <2>2 DEF Jobs, TypeOK
    <3>2. /\ job' = [job EXCEPT ![c] = k] /\ pc' = [pc EXCEPT ![c] = "shutting"]
          /\ link' = [link EXCEPT ![transport[o]] = "down"] /\ UNCHANGED started
      BY <2>2 DEF StopServer, Goto
    <3> HIDE DEF k
    <3> QED
      BY <2>2, <3>1, <3>2 DEF Places
  <2> QED
    BY <2>1, <2>2
<1>2. /\ pc'[c] = where /\ job'[c] = k
      /\ \A d \in Calls \ {c} : pc'[d] = pc[d] /\ job'[d] = job[d]
  BY <1>0, <1>1 DEF TypeOK
<1>3. \A l \in Links : link'[l] = "connecting" <=> link[l] = "connecting"
  BY <1>0, <1>1 DEF TypeOK, ListenInv
<1>4. ASSUME NEW p \in Servers, started'[p]
      PROVE  /\ started[p]
             /\ Listens(p)' \/ Leaving(p)'
             /\ transport'[p] # NoLink => link'[transport'[p]] # "connecting"
  <2>1. started[p]
    BY <1>1, <1>4
  <2>2. Leaving(p) => Leaving(p)'
    BY <1>2 DEF Leaving
  <2>3. transport'[p] # NoLink => link'[transport'[p]] # "connecting"
    BY <1>0, <1>3, <2>1 DEF ListenInv, TypeOK
  <2>4. p = o => Leaving(p)'
    BY <1>1, <1>2, <1>4, <2>1 DEF Leaving
  <2>5. ASSUME p # o, Listens(p)
        PROVE  Listens(p)' \/ Leaving(p)'
    <3>1. CASE UNCHANGED link
      BY <2>5, <3>1 DEF Listens
    <3>2. CASE started[o] /\ transport[o] # NoLink
               /\ link' = [link EXCEPT ![transport[o]] = "down"]
      <4>1. transport[p] # transport[o]
        BY <2>1, <2>5, <3>2 DEF ListenInv, Listens
      <4> QED
        BY <1>0, <2>5, <3>2, <4>1 DEF Listens, TypeOK
    <3> QED
      BY <1>1, <3>1, <3>2
  <2> QED
    BY <2>1, <2>2, <2>3, <2>4, <2>5 DEF ListenInv
<1>5. ASSUME NEW d \in Calls, pc'[d] = "connecting"
      PROVE  d # c /\ pc[d] = "connecting" /\ job'[d] = job[d] /\ job[d].link \in Links
  BY <1>1, <1>2, <1>5 DEF TypeInv, JobsFit, Fits
<1> QED
  BY <1>3, <1>4, <1>5 DEF ListenInv

\* A call opens a transport nobody holds, for an object that is not started.
LEMMA OpensListens ==
  ASSUME TypeInv, ListenInv, NEW c \in Calls, pc[c] \in {"idle", "stopped"},
         NEW o \in Servers, ~started[o], NEW l \in FreeLinks, NEW k \in Jobs, k.link = l,
         pc' = [pc EXCEPT ![c] = "connecting"], job' = [job EXCEPT ![c] = k],
         link' = [link EXCEPT ![l] = "connecting"], UNCHANGED started,
         \/ UNCHANGED transport
         \/ transport' = [transport EXCEPT ![o] = NoLink]
  PROVE  ListenInv'
<1>0. TypeOK /\ l \in Links /\ link[l] # "up"
  BY DEF TypeInv, FreeLinks
<1>1. /\ pc'[c] = "connecting" /\ job'[c] = k
      /\ \A d \in Calls \ {c} : pc'[d] = pc[d] /\ job'[d] = job[d]
  BY <1>0 DEF TypeOK
<1>2. link'[l] = "connecting" /\ \A m \in Links \ {l} : link'[m] = link[m]
  BY <1>0 DEF TypeOK
<1>3. \A p \in Servers : started[p] => transport[p] # l
  BY DEF FreeLinks, FreeServers
<1>4. \A d \in Calls : pc[d] = "connecting" => job[d].link # l /\ job[d].link \in Links
  BY <1>0 DEF FreeLinks, InFlight, TypeInv, JobsFit, Fits
<1>5. ASSUME NEW p \in Servers, started'[p]
      PROVE  /\ Listens(p)' \/ Leaving(p)'
             /\ transport'[p] # NoLink => link'[transport'[p]] # "connecting"
             /\ \A q \in Servers :
                  started'[q] /\ transport'[q] # NoLink /\ transport'[q] = transport'[p] => q = p
  <2>1. \A q \in Servers : started'[q] => started[q] /\ transport'[q] = transport[q]
    BY <1>0 DEF TypeOK
  <2>2. Leaving(p) => Leaving(p)'
    BY <1>1 DEF Leaving
  <2>3. transport[p] # NoLink => link'[transport[p]] = link[transport[p]]
    BY <1>0, <1>2, <1>3, <1>5 DEF TypeOK
  <2>4. Listens(p) => Listens(p)'
    BY <1>5, <2>1, <2>3 DEF Listens
  <2> QED
    BY <1>5, <2>1, <2>2, <2>3, <2>4 DEF ListenInv
<1>6. ASSUME NEW d \in Calls, pc'[d] = "connecting"
      PROVE  /\ link'[job'[d].link] = "connecting"
             /\ \A e \in Calls :
                  pc'[e] = "connecting" /\ job'[e].link = job'[d].link => e = d
  BY <1>1, <1>2, <1>4, <1>6 DEF ListenInv
<1> QED
  BY <1>5, <1>6 DEF ListenInv

LEMMA NewServerListens ==
  ASSUME TypeInv, ListenInv, NEW c \in Calls, pc[c] \in {"idle", "stopped"},
         NEW id \in Ids, NewServer(c, id)
  PROVE  ListenInv'
<1>1. PICK o \in FreeServers, l \in FreeLinks :
        /\ transport' = [transport EXCEPT ![o] = NoLink]
        /\ link' = [link EXCEPT ![l] = "connecting"]
        /\ job' = [job EXCEPT ![c] = [NewJob("start", id, o) EXCEPT !.link = l]]
        /\ pc' = [pc EXCEPT ![c] = "connecting"]
        /\ UNCHANGED started
  BY Zenon DEF NewServer, Goto
<1>2. o \in Servers /\ ~started[o] /\ l \in Links
  BY DEF FreeServers, FreeLinks
<1> DEFINE k == [NewJob("start", id, o) EXCEPT !.link = l]
<1>3. k \in Jobs /\ k.link = l
  BY <1>2 DEF NewJob, Jobs
<1>4. job' = [job EXCEPT ![c] = k]
  BY <1>1
<1> HIDE DEF k
<1> QED
  BY <1>1, <1>2, <1>3, <1>4, OpensListens

\* connect resolves: the port was free and the transport still waiting for
\* it, so it listens.
LEMMA ConnectResolvesListens ==
  ASSUME TypeInv, ListenInv, Transport = "websocket", NEW c \in Calls, ConnectResolves(c)
  PROVE  ListenInv'
<1> DEFINE o == job[c].obj
           l == job[c].link
<1>0. TypeOK /\ pc[c] = "connecting" /\ o \in Servers /\ l \in Links /\ link[l] = "connecting"
  BY DEF ConnectResolves, TypeInv, JobsFit, Fits, ListenInv
<1>1. /\ link' = [link EXCEPT ![l] = "up"] /\ transport' = [transport EXCEPT ![o] = l]
      /\ started' = [started EXCEPT ![o] = TRUE] /\ pc' = [pc EXCEPT ![c] = "settling"]
      /\ UNCHANGED job
  BY <1>0 DEF ConnectResolves, Goto
<1> HIDE DEF o, l
<1>2. pc'[c] = "settling" /\ \A d \in Calls \ {c} : pc'[d] = pc[d]
  BY <1>0, <1>1 DEF TypeOK
<1>3. link'[l] = "up" /\ \A m \in Links \ {l} : link'[m] = link[m]
  BY <1>0, <1>1 DEF TypeOK
<1>4. /\ transport'[o] = l /\ started'[o]
      /\ \A p \in Servers \ {o} : transport'[p] = transport[p] /\ started'[p] = started[p]
  BY <1>0, <1>1 DEF TypeOK
<1>5. \A p \in Servers : started[p] => transport[p] # l
  BY <1>0, ConstantsAssumption DEF ListenInv
<1>6. ASSUME NEW p \in Servers, started'[p]
      PROVE  /\ Listens(p)' \/ Leaving(p)'
             /\ transport'[p] # NoLink => link'[transport'[p]] # "connecting"
             /\ \A q \in Servers :
                  started'[q] /\ transport'[q] # NoLink /\ transport'[q] = transport'[p] => q = p
  <2>1. CASE p = o
    BY <1>0, <1>3, <1>4, <1>5, <2>1, ConstantsAssumption DEF Listens
  <2>2. CASE p # o
    <3>1. started[p] /\ transport'[p] = transport[p] /\ transport[p] # l
      BY <1>4, <1>5, <1>6, <2>2
    <3>2. Leaving(p) => Leaving(p)'
      BY <1>0, <1>1, <1>2 DEF Leaving
    <3>3. transport[p] # NoLink => link'[transport[p]] = link[transport[p]]
      BY <1>0, <1>3, <3>1 DEF TypeOK
    <3>4. Listens(p) => Listens(p)'
      BY <3>1, <3>3 DEF Listens
    <3>5. \A q \in Servers :
            started'[q] /\ transport'[q] # NoLink /\ transport'[q] = transport'[p] => q = p
      BY <1>4, <3>1 DEF ListenInv
    <3> QED
      BY <3>1, <3>2, <3>3, <3>4, <3>5 DEF ListenInv
  <2> QED
    BY <2>1, <2>2
<1>7. ASSUME NEW d \in Calls, pc'[d] = "connecting"
      PROVE  /\ link'[job'[d].link] = "connecting"
             /\ \A e \in Calls :
                  pc'[e] = "connecting" /\ job'[e].link = job'[d].link => e = d
  <2>1. d # c /\ pc[d] = "connecting"
    BY <1>2, <1>7
  <2>2. job[d].link # l /\ job[d].link \in Links
    BY <1>0, <2>1 DEF ListenInv, TypeInv, JobsFit, Fits, l
  <2> QED
    BY <1>1, <1>2, <1>3, <2>1, <2>2 DEF ListenInv
<1> QED
  BY <1>6, <1>7 DEF ListenInv

LEMMA ConnectRejectsListens ==
  ASSUME TypeInv, ListenInv, NEW c \in Calls, ConnectRejects(c)
  PROVE  ListenInv'
<1> DEFINE l == job[c].link
<1>0. TypeOK /\ pc[c] = "connecting" /\ l \in Links /\ link[l] = "connecting"
  BY DEF ConnectRejects, TypeInv, JobsFit, Fits, ListenInv
<1>1. /\ link' = [link EXCEPT ![l] = "failed"] /\ UNCHANGED <<started, transport>>
      /\ pc' = [pc EXCEPT ![c] = "idle"] /\ job' = [job EXCEPT ![c] = NoJob]
  BY DEF ConnectRejects, Finish, Goto, object
<1> HIDE DEF l
<1>2. /\ pc'[c] = "idle"
      /\ \A d \in Calls \ {c} : pc'[d] = pc[d] /\ job'[d] = job[d]
  BY <1>0, <1>1 DEF TypeOK
<1>3. link'[l] = "failed" /\ \A m \in Links \ {l} : link'[m] = link[m]
  BY <1>0, <1>1 DEF TypeOK
<1>4. ASSUME NEW p \in Servers, started'[p]
      PROVE  /\ Listens(p)' \/ Leaving(p)'
             /\ transport'[p] # NoLink => link'[transport'[p]] # "connecting"
  <2>1. started[p] /\ transport'[p] = transport[p]
    BY <1>1, <1>4
  <2>2. Leaving(p) => Leaving(p)'
    BY <1>0, <1>2 DEF Leaving
  <2>3. transport[p] # NoLink => transport[p] # l /\ transport[p] \in Links
    BY <1>0, <2>1 DEF ListenInv, TypeOK
  <2>4. Listens(p) => Listens(p)'
    BY <1>3, <2>1, <2>3 DEF Listens
  <2> QED
    BY <1>3, <2>1, <2>2, <2>3, <2>4 DEF ListenInv
<1>5. ASSUME NEW d \in Calls, pc'[d] = "connecting"
      PROVE  d # c /\ pc[d] = "connecting" /\ job'[d] = job[d] /\ job[d].link \in Links
             /\ job[d].link # l
  BY <1>0, <1>2, <1>5 DEF TypeInv, JobsFit, Fits, ListenInv, l
<1> QED
  BY <1>1, <1>3, <1>4, <1>5 DEF ListenInv

\* A call goes on and opens and closes nothing; an object it gives up, or
\* whose transport it forgets, is not started any more, or is still being
\* stopped.
LEMMA GoesOnListens ==
  ASSUME TypeInv, ListenInv, NEW c \in Calls, NEW where \in Places \ {"connecting"},
         NEW k, pc' = [pc EXCEPT ![c] = where], job' = [job EXCEPT ![c] = k], UNCHANGED link,
         \A p \in Servers : started'[p] =>
           /\ started[p]
           /\ transport'[p] = transport[p] \/ (transport'[p] = NoLink /\ Leaving(p)')
           /\ pc[c] \in {"shutting", "closing"} /\ job[c].obj = p => Leaving(p)'
  PROVE  ListenInv'
<1>0. TypeOK
  BY DEF TypeInv
<1>1. /\ pc'[c] = where
      /\ \A d \in Calls \ {c} : pc'[d] = pc[d] /\ job'[d] = job[d]
  BY <1>0 DEF TypeOK
<1>2. ASSUME NEW p \in Servers, started'[p]
      PROVE  /\ Listens(p)' \/ Leaving(p)'
             /\ transport'[p] # NoLink => link'[transport'[p]] # "connecting"
             /\ \A q \in Servers :
                  started'[q] /\ transport'[q] # NoLink /\ transport'[q] = transport'[p] => q = p
  <2>1. Leaving(p) => Leaving(p)'
    BY <1>1, <1>2 DEF Leaving
  <2>2. Listens(p) => Listens(p)' \/ Leaving(p)'
    BY <1>2 DEF Listens
  <2>3. started[p] /\ (transport'[p] # NoLink => transport'[p] = transport[p])
    BY <1>2
  <2>4. \A q \in Servers : started'[q] /\ transport'[q] # NoLink =>
          started[q] /\ transport'[q] = transport[q]
    OBVIOUS
  <2> QED
    BY <2>1, <2>2, <2>3, <2>4 DEF ListenInv
<1>3. ASSUME NEW d \in Calls, pc'[d] = "connecting"
      PROVE  d # c /\ pc[d] = "connecting" /\ job'[d] = job[d]
  BY <1>1, <1>3
<1> QED
  BY <1>2, <1>3 DEF ListenInv

LEMMA StopNextListens ==
  ASSUME TypeInv, ListenInv, Transport = "websocket", NEW c \in Calls,
         pc[c] \in {"idle", "next"}, NEW op \in {"stopAll", "cleanup"}, StopNext(c, op),
         UNCHANGED <<sdk, transport>>
  PROVE  ListenInv'
<1>1. ASSUME NEW id \in Managed, StopServer(c, NewJob(op, id, servers[id]))
      PROVE  ListenInv'
  <2>1. id \in Ids /\ servers[id] \in Servers
    BY DEF Managed, TypeInv, TypeOK
  <2> QED
    BY <1>1, <2>1, NewJobType, StopServerListens
<1>2. CASE \E where \in {"idle", "clearing"} : \E k :
             /\ pc' = [pc EXCEPT ![c] = where] /\ job' = [job EXCEPT ![c] = k]
             /\ UNCHANGED <<link, started>>
  <2>1. PICK where \in {"idle", "clearing"} : \E k :
             /\ pc' = [pc EXCEPT ![c] = where] /\ job' = [job EXCEPT ![c] = k]
             /\ UNCHANGED <<link, started>>
    BY <1>2
  <2>2. where \in Places \ {"connecting"}
    BY DEF Places
  <2> QED
    BY <2>1, <2>2, GoesOnListens
<1>3. (\E id \in Managed : StopServer(c, NewJob(op, id, servers[id])))
        \/ \E where \in {"idle", "clearing"} : \E k :
             /\ pc' = [pc EXCEPT ![c] = where] /\ job' = [job EXCEPT ![c] = k]
             /\ UNCHANGED <<link, started>>
  BY DEF StopNext, Finish, Goto
<1> QED
  BY <1>1, <1>2, <1>3

LEMMA RequestListens ==
  ASSUME TypeInv, ListenInv, Transport = "websocket", NEW c \in Calls, Request(c)
  PROVE  ListenInv'
<1>0. pc[c] = "idle"
  BY DEF Request, Start, Stop, Restart, StopAll, MayCall, MayCallAll
<1>1. ASSUME NEW id \in Ids, id \in Managed, NEW op \in {"start", "stop", "restart"},
             StopServer(c, NewJob(op, id, servers[id])), UNCHANGED <<sdk, transport>>
      PROVE  ListenInv'
  <2>1. servers[id] \in Servers
    BY <1>1 DEF Managed, TypeInv, TypeOK
  <2>2. NewJob(op, id, servers[id]) \in Jobs /\ NewJob(op, id, servers[id]).obj \in Servers
    BY <2>1, NewJobType
  <2> QED
    BY <1>0, <1>1, <2>2, StopServerListens
<1>2. ASSUME NEW id \in Ids, NewServer(c, id)
      PROVE  ListenInv'
  BY <1>0, <1>2, NewServerListens
<1>3. ASSUME NEW op \in {"stopAll", "cleanup"}, StopAll(c, op)
      PROVE  ListenInv'
  BY <1>0, <1>3, StopNextListens DEF StopAll
<1> QED
  BY <1>1, <1>2, <1>3 DEF Request, Start, Stop, Restart

LEMMA ProceedListens ==
  ASSUME TypeInv, ListenInv, Transport = "websocket", NEW c \in Calls, Proceed(c)
  PROVE  ListenInv'
<1>0. TypeOK /\ JobsFit
  BY DEF TypeInv
<1>1. CASE ShutdownResolves(c)
  <2> DEFINE o == job[c].obj
  <2>1. /\ pc[c] = "shutting" /\ o \in Servers /\ transport' = [transport EXCEPT ![o] = NoLink]
        /\ UNCHANGED <<link, job>>
    BY <1>0, <1>1 DEF ShutdownResolves, CloseSdk, JobsFit, Fits
  <2>2. PICK where \in {"closing", "stopped"} :
          /\ pc' = [pc EXCEPT ![c] = where]
          /\ IF where = "closing" THEN UNCHANGED started
             ELSE started' = [started EXCEPT ![o] = FALSE]
    BY <1>1 DEF ShutdownResolves, Goto
  <2>3. where \in Places \ {"connecting"} /\ job' = [job EXCEPT ![c] = job[c]]
    BY <1>0, <2>1 DEF Places, TypeOK
  <2>4. \A p \in Servers : p = o /\ started'[p] => Leaving(p)'
    BY <1>0, <2>1, <2>2 DEF Leaving, TypeOK
  <2>5. \A p \in Servers : started'[p] =>
          started[p] /\ (p # o => transport'[p] = transport[p])
    BY <1>0, <2>1, <2>2 DEF TypeOK
  <2>6. transport'[o] = NoLink
    BY <1>0, <2>1 DEF TypeOK
  <2>7. \A p \in Servers : started'[p] =>
          /\ started[p]
          /\ transport'[p] = transport[p] \/ (transport'[p] = NoLink /\ Leaving(p)')
          /\ pc[c] \in {"shutting", "closing"} /\ job[c].obj = p => Leaving(p)'
    BY <2>4, <2>5, <2>6
  <2>8. UNCHANGED link /\ pc' = [pc EXCEPT ![c] = where]
    BY <2>1, <2>2
  <2> HIDE DEF o
  <2> QED
    BY <2>3, <2>7, <2>8, GoesOnListens
<1>2. CASE CloseResolves(c)
  <2> DEFINE o == job[c].obj
  <2>1. /\ pc[c] = "closing" /\ o \in Servers /\ UNCHANGED <<link, job, transport>>
        /\ started' = [started EXCEPT ![o] = FALSE] /\ pc' = [pc EXCEPT ![c] = "stopped"]
    BY <1>0, <1>2 DEF CloseResolves, network, Goto, JobsFit, Fits
  <2>2. job' = [job EXCEPT ![c] = job[c]] /\ "stopped" \in Places \ {"connecting"}
    BY <1>0, <2>1 DEF Places, TypeOK
  <2>3. \A p \in Servers : started'[p] => started[p] /\ p # o
    BY <1>0, <2>1 DEF TypeOK
  <2> QED
    BY <2>1, <2>2, <2>3, GoesOnListens
<1>3. CASE StartSettles(c) \/ ClearServers(c)
  <2>1. /\ pc' = [pc EXCEPT ![c] = "idle"] /\ job' = [job EXCEPT ![c] = NoJob]
        /\ UNCHANGED <<link, started, transport>> /\ pc[c] \in {"settling", "clearing"}
    BY <1>3 DEF StartSettles, ClearServers, Finish, Goto, object, network
  <2>2. "idle" \in Places \ {"connecting"}
    BY DEF Places
  <2> QED
    BY <2>1, <2>2, GoesOnListens
<1>4. CASE StopReturns(c)
  <2>0. pc[c] = "stopped" /\ job[c] \in Jobs /\ job[c].id \in Ids /\ job[c].obj \in Servers
    BY <1>0, <1>4 DEF StopReturns, JobsFit, Fits
  <2>1. CASE \E where \in {"idle", "next"} : \E k :
               /\ pc' = [pc EXCEPT ![c] = where] /\ job' = [job EXCEPT ![c] = k]
               /\ UNCHANGED <<link, started, transport>>
    <3>1. PICK where \in {"idle", "next"} : \E k :
               /\ pc' = [pc EXCEPT ![c] = where] /\ job' = [job EXCEPT ![c] = k]
               /\ UNCHANGED <<link, started, transport>>
      BY <2>1
    <3>2. where \in Places \ {"connecting"}
      BY DEF Places
    <3> QED
      BY <2>0, <3>1, <3>2, GoesOnListens
  <2>2. CASE NewServer(c, job[c].id)
    BY <2>0, <2>2, NewServerListens
  <2>3. CASE ~started[job[c].obj] /\ Connect(c, job[c]) /\ UNCHANGED <<started, transport>>
    <3>1. PICK l \in FreeLinks :
            /\ link' = [link EXCEPT ![l] = "connecting"]
            /\ job' = [job EXCEPT ![c] = [job[c] EXCEPT !.link = l]]
            /\ pc' = [pc EXCEPT ![c] = "connecting"]
      BY <2>3, Zenon DEF Connect, Goto
    <3> DEFINE k == [job[c] EXCEPT !.link = l]
    <3>2. k \in Jobs /\ k.link = l
      BY <2>0 DEF Jobs, FreeLinks
    <3>3. job' = [job EXCEPT ![c] = k]
      BY <3>1
    <3> HIDE DEF k
    <3> QED
      BY <2>0, <2>3, <3>1, <3>2, <3>3, OpensListens
  <2>4. job = [job EXCEPT ![c] = job[c]]
    BY <1>0 DEF TypeOK
  <2>5. CASE job[c].op = "stop"
    BY <1>4, <2>1, <2>5 DEF StopReturns, Finish, Goto, object
  <2>6. CASE job[c].op = "start"
    BY <1>4, <2>2, <2>6 DEF StopReturns
  <2>7. CASE job[c].op \in {"stopAll", "cleanup"}
    <3>1. /\ pc' = [pc EXCEPT ![c] = "next"] /\ job' = [job EXCEPT ![c] = job[c]]
          /\ UNCHANGED <<link, started, transport>>
      BY <1>4, <2>4, <2>7 DEF StopReturns, Goto, object
    <3> QED
      BY <2>1, <3>1
  <2>8. CASE job[c].op = "restart"
    BY <1>4, <2>1, <2>3, <2>8 DEF StopReturns, Finish, Goto, object
  <2> QED
    BY <2>0, <2>5, <2>6, <2>7, <2>8 DEF Jobs
<1>5. CASE StopAllGoesOn(c)
  <2>1. pc[c] = "next" /\ job[c].op \in {"stopAll", "cleanup"} /\ StopNext(c, job[c].op)
        /\ UNCHANGED <<sdk, transport>>
    BY <1>0, <1>5 DEF StopAllGoesOn, JobsFit, Fits
  <2> QED
    BY <2>1, StopNextListens
<1> QED
  BY <1>1, <1>2, <1>3, <1>4, <1>5, ConnectResolvesListens, ConnectRejectsListens DEF Proceed

LEMMA NextListens ==
  ASSUME Transport = "websocket"
  PROVE  TypeInv /\ ListenInv /\ [Next]_vars => ListenInv'
<1> SUFFICES ASSUME TypeInv, ListenInv, [Next]_vars PROVE ListenInv'
  OBVIOUS
<1>1. ASSUME UNCHANGED <<started, transport, link, pc, job>>
      PROVE  ListenInv'
  BY <1>1 DEF ListenInv, Listens, Leaving
<1>2. CASE (\E id \in Ids : SetPrimaryServer(id)) \/ UNCHANGED vars
           \/ \E l \in Links : ClientConnects(l) \/ ClientLeaves(l)
  BY <1>1, <1>2
  DEF SetPrimaryServer, ClientConnects, ClientLeaves, vars, object, network, calls
<1> QED
  BY <1>2, RequestListens, ProceedListens DEF Next

\* StartedListens, for any number of ids, servers and calls however they
\* overlap: a WebSocket server that is started, and that no call is working
\* on, listens.
THEOREM StartedServersListen ==
  ASSUME Transport = "websocket"
  PROVE  Spec => []StartedListens
<1>1. Init => ListenInv
  BY DEF Init, ListenInv
<1>2. ListenInv => StartedListens
  BY DEF ListenInv, StartedListens, Listens, Leaving, InFlight
<1> QED
  BY <1>1, <1>2, InitTypeInv, NextTypeInv, NextListens, PTL DEF Spec

-----------------------------------------------------------------------------
\* Callers that wait for the previous call on an id (Serial).  Then a call
\* that stops works on the object its id maps to, a call that starts on one
\* that no id maps to, and no two of them on the same.
All == {"stopAll", "cleanup"}
Stopping(c) == pc[c] \in {"shutting", "closing", "stopped"}
Opening(c) == pc[c] \in {"connecting", "settling"}

CallsApart ==
  \A c, d \in InFlight : c # d =>
    /\ job[c].id # job[d].id /\ job[c].op \notin All
    /\ (Stopping(c) \/ Opening(c)) /\ (Stopping(d) \/ Opening(d)) => job[c].obj # job[d].obj

ObjectsApart ==
  \A id, e \in Ids : servers[id] # NoServer /\ servers[id] = servers[e] => id = e

WorksOnItsOwn(c) ==
  /\ Stopping(c) => servers[job[c].id] = job[c].obj
  /\ Opening(c) =>
       IF job[c].op = "restart" THEN servers[job[c].id] = job[c].obj
       ELSE servers[job[c].id] = NoServer /\ \A id \in Ids : servers[id] # job[c].obj
  /\ pc[c] \in {"connecting", "stopped", "next"} =>
       \A o \in Servers : job[c].obj = o => ~started[o]
  /\ pc[c] = "clearing" => Managed = {} /\ job[c].obj = NoServer

\* What a call has asked to close stays closed until it is forgotten.
ClosesItsOwn(c) ==
  /\ pc[c] = "shutting" =>
       \A l \in Links : transport[job[c].obj] = l => link[l] \notin {"up", "connecting"}
  /\ pc[c] = "closing" => transport[job[c].obj] = NoLink

SerialInv ==
  /\ CallsApart /\ ObjectsApart
  /\ \A c \in Calls : WorksOnItsOwn(c) /\ ClosesItsOwn(c)
  /\ StartedIsManaged /\ OpenIsHeld

LEMMA InitSerialInv == Init => SerialInv
BY DEF Init, SerialInv, CallsApart, ObjectsApart, WorksOnItsOwn, ClosesItsOwn, Stopping, Opening,
       StartedIsManaged, OpenIsHeld, InFlight

\* What stop changes up to its first await.
LEMMA StopServerEffect ==
  ASSUME TypeInv, NEW c \in Calls, NEW j \in Jobs, j.id \in Ids, j.obj \in Servers,
         StopServer(c, j)
  PROVE  \E where \in {"shutting", "closing", "stopped"}, k \in Jobs :
           /\ pc' = [pc EXCEPT ![c] = where] /\ job' = [job EXCEPT ![c] = k]
           /\ k.id = j.id /\ k.obj = j.obj /\ k.op = j.op
           /\ where = "stopped" => ~started'[j.obj]
           /\ \A p \in Servers \ {j.obj} : started'[p] = started[p]
           /\ started'[j.obj] => started[j.obj]
           /\ started[j.obj] /\ ~started'[j.obj] => transport[j.obj] = NoLink
           /\ \A l \in Links : link'[l] = link[l] \/ link'[l] = "down"
           /\ where = "shutting" => transport[j.obj] \in Links /\ link'[transport[j.obj]] = "down"
           /\ where = "closing" => transport[j.obj] = NoLink
<1> DEFINE o == j.obj
<1>0. TypeOK
  BY DEF TypeInv
<1>1. CASE ~started[o]
  BY <1>0, <1>1 DEF StopServer, Goto, TypeOK
<1>2. CASE started[o] /\ transport[o] # NoLink
  <2> DEFINE k == [j EXCEPT !.link = transport[o]]
  <2>1. transport[o] \in Links
    BY <1>0, <1>2 DEF TypeOK
  <2>2. k \in Jobs /\ k.id = j.id /\ k.obj = j.obj /\ k.op = j.op
    BY <2>1 DEF Jobs
  <2>3. /\ pc' = [pc EXCEPT ![c] = "shutting"] /\ job' = [job EXCEPT ![c] = k]
        /\ link' = [link EXCEPT ![transport[o]] = "down"] /\ UNCHANGED started
    BY <1>2 DEF StopServer, Goto
  <2> HIDE DEF k
  <2> QED
    BY <1>0, <1>2, <2>1, <2>2, <2>3 DEF TypeOK
<1>3. CASE started[o] /\ transport[o] = NoLink /\ sdk[o] # NoLink
  <2>1. /\ pc' = [pc EXCEPT ![c] = "closing"] /\ job' = [job EXCEPT ![c] = j]
        /\ \A l \in Links : link'[l] = link[l] \/ link'[l] = "down"
        /\ UNCHANGED started
    BY <1>0, <1>3 DEF StopServer, Goto, CloseSdk, TypeOK
  <2> QED
    BY <1>3, <2>1
<1>4. CASE started[o] /\ transport[o] = NoLink /\ sdk[o] = NoLink
  <2>1. /\ pc' = [pc EXCEPT ![c] = "stopped"] /\ job' = [job EXCEPT ![c] = j]
        /\ UNCHANGED link /\ started' = [started EXCEPT ![o] = FALSE]
    BY <1>4 DEF StopServer, Goto
  <2>2. ~started'[o] /\ \A p \in Servers \ {o} : started'[p] = started[p]
    BY <1>0, <2>1 DEF TypeOK
  <2> QED
    BY <1>4, <2>1, <2>2
<1> QED
  BY <1>1, <1>2, <1>3, <1>4

\* What a call that is not concerned relies on.
LEMMA OthersGoOn ==
  ASSUME TypeInv, SerialInv, NEW d \in Calls, NEW changed \in SUBSET Ids,
         pc'[d] = pc[d], job'[d] = job[d], pc[d] # "clearing",
         \A id \in Ids \ changed : servers'[id] = servers[id],
         Stopping(d) \/ Opening(d) =>
           /\ job[d].id \notin changed /\ \A id \in changed : servers'[id] # job[d].obj
           /\ started'[job[d].obj] = started[job[d].obj]
           /\ transport'[job[d].obj] = transport[job[d].obj]
           /\ \A l \in Links : transport[job[d].obj] = l /\ link'[l] \in {"up", "connecting"} =>
                link[l] \in {"up", "connecting"},
         pc[d] = "next" => \A o \in Servers : started'[o] => started[o]
  PROVE  WorksOnItsOwn(d)' /\ ClosesItsOwn(d)'
<1>1. Stopping(d) \/ Opening(d) => job[d].id \in Ids /\ job[d].obj \in Servers
  BY DEF TypeInv, JobsFit, Fits, Stopping, Opening
<1>2. (Stopping(d)' <=> Stopping(d)) /\ (Opening(d)' <=> Opening(d))
  BY DEF Stopping, Opening
<1>3. WorksOnItsOwn(d) /\ ClosesItsOwn(d)
  BY DEF SerialInv
<1>4. ClosesItsOwn(d)'
  BY <1>3 DEF ClosesItsOwn, Stopping
<1>5. Stopping(d) => servers'[job'[d].id] = job'[d].obj
  BY <1>1, <1>3 DEF WorksOnItsOwn
<1>6. Opening(d) =>
        IF job'[d].op = "restart" THEN servers'[job'[d].id] = job'[d].obj
        ELSE servers'[job'[d].id] = NoServer /\ \A id \in Ids : servers'[id] # job'[d].obj
  BY <1>1, <1>3 DEF WorksOnItsOwn
<1>7. pc'[d] \in {"connecting", "stopped", "next"} =>
       \A o \in Servers : job'[d].obj = o => ~started'[o]
  BY <1>3 DEF WorksOnItsOwn, Stopping, Opening
<1> QED
  BY <1>2, <1>4, <1>5, <1>6, <1>7 DEF WorksOnItsOwn

\* A call that may be the next on its id, or that stands alone, stops what
\* the id maps to.
LEMMA StopServerSerial ==
  ASSUME TypeInv, SerialInv, NEW c \in Calls, pc[c] \in {"idle", "next"},
         NEW j \in Jobs, j.id \in Ids, j.obj \in Servers, servers[j.id] = j.obj,
         \A d \in InFlight \ {c} : job[d].id # j.id /\ job[d].op \notin All /\ j.op \notin All,
         StopServer(c, j), UNCHANGED <<manager, sdk, transport, clients>>
  PROVE  SerialInv'
<1> DEFINE o == j.obj
<1>0. TypeOK
  BY DEF TypeInv
<1>1. PICK where \in {"shutting", "closing", "stopped"}, k \in Jobs :
        /\ pc' = [pc EXCEPT ![c] = where] /\ job' = [job EXCEPT ![c] = k]
        /\ k.id = j.id /\ k.obj = o /\ k.op = j.op
        /\ where = "stopped" => ~started'[o]
        /\ \A p \in Servers \ {o} : started'[p] = started[p]
        /\ started'[o] => started[o]
        /\ started[o] /\ ~started'[o] => transport[o] = NoLink
        /\ \A l \in Links : link'[l] = link[l] \/ link'[l] = "down"
        /\ where = "shutting" => transport[o] \in Links /\ link'[transport[o]] = "down"
        /\ where = "closing" => transport[o] = NoLink
  BY StopServerEffect
<1> HIDE DEF o
<1>2. /\ pc'[c] = where /\ job'[c] = k
      /\ \A d \in Calls \ {c} : pc'[d] = pc[d] /\ job'[d] = job[d]
  BY <1>0, <1>1 DEF TypeOK
<1>3. \A d \in InFlight \ {c} : Stopping(d) \/ Opening(d) => job[d].obj # o
  <2> TAKE d \in InFlight \ {c}
  <2>1. job[d].id # j.id /\ job[d].op \notin All
    OBVIOUS
  <2>2. Stopping(d) \/ Opening(d) => job[d].id \in Ids /\ job[d].obj \in Servers
    BY DEF InFlight, TypeInv, JobsFit, Fits, Stopping, Opening
  <2>3. WorksOnItsOwn(d)
    BY DEF InFlight, SerialInv
  <2>4. CASE servers[job[d].id] = job[d].obj
    BY <2>1, <2>2, <2>4, ConstantsAssumption DEF SerialInv, ObjectsApart, o
  <2>5. CASE \A id \in Ids : servers[id] # job[d].obj
    BY <2>5 DEF o
  <2> QED
    BY <2>3, <2>4, <2>5 DEF WorksOnItsOwn
<1>4. CallsApart'
  BY <1>1, <1>2, <1>3 DEF CallsApart, SerialInv, InFlight, Stopping, Opening
<1>5. ObjectsApart'
  BY DEF SerialInv, ObjectsApart, manager
<1>6. ASSUME NEW d \in Calls \ {c}
      PROVE  WorksOnItsOwn(d)' /\ ClosesItsOwn(d)'
  <2>1. CASE pc[d] = "idle"
    BY <1>2, <2>1 DEF WorksOnItsOwn, ClosesItsOwn, Stopping, Opening
  <2>2. CASE pc[d] \in {"next", "clearing"}
    BY <2>2 DEF InFlight, TypeInv, JobsFit, Fits, All
  <2>3. CASE Stopping(d) \/ Opening(d)
    <3>1. d \in InFlight /\ job[d].obj \in Servers /\ job[d].obj # o
      BY <1>3, <2>3 DEF InFlight, TypeInv, JobsFit, Fits, Stopping, Opening
    <3>2. pc[d] \notin {"clearing", "next"} /\ \A id \in Ids \ {} : servers'[id] = servers[id]
      BY <2>3 DEF Stopping, Opening, manager
    <3>3. \A l \in Links : link'[l] \in {"up", "connecting"} => link[l] \in {"up", "connecting"}
      BY <1>1
    <3>4. /\ started'[job[d].obj] = started[job[d].obj]
          /\ transport'[job[d].obj] = transport[job[d].obj]
      BY <1>1, <3>1
    <3>5. {} \in SUBSET Ids /\ pc'[d] = pc[d] /\ job'[d] = job[d]
      BY <1>2
    <3> QED
      BY <3>2, <3>3, <3>4, <3>5, OthersGoOn
  <2> QED
    BY <1>0, <2>1, <2>2, <2>3 DEF TypeOK, Stopping, Opening
<1>7. WorksOnItsOwn(c)' /\ ClosesItsOwn(c)'
  BY <1>0, <1>1, <1>2 DEF WorksOnItsOwn, ClosesItsOwn, Stopping, Opening, manager, TypeOK, o
<1>8. StartedIsManaged'
  <2> SUFFICES ASSUME NEW p \in Servers, started'[p]
               PROVE  (\E id \in Ids : servers'[id] = p) \/ \E d \in InFlight' : job'[d].obj = p
    BY DEF StartedIsManaged
  <2>1. started[p]
    BY <1>1
  <2>2. pc[c] = "next" => \A q \in Servers : job[c].obj = q => ~started[q]
    BY DEF SerialInv, WorksOnItsOwn
  <2>3. (\E id \in Ids : servers[id] = p) \/ \E d \in InFlight \ {c} : job[d].obj = p
    BY <2>1, <2>2 DEF SerialInv, StartedIsManaged, InFlight
  <2> QED
    BY <1>2, <2>3 DEF InFlight, manager
<1>9. OpenIsHeld'
  <2> SUFFICES ASSUME NEW l \in Links, link'[l] = "up"
               PROVE  \E p \in Servers : started'[p] /\ transport'[p] = l
    BY DEF OpenIsHeld
  <2>1. PICK p \in Servers : started[p] /\ transport[p] = l
    BY <1>1 DEF SerialInv, OpenIsHeld
  <2>2. p = o => started'[p]
    BY <1>1, <2>1, ConstantsAssumption
  <2> QED
    BY <1>1, <2>1, <2>2
<1> QED
  BY <1>4, <1>5, <1>6, <1>7, <1>8, <1>9 DEF SerialInv

\* A call opens a transport nobody holds: for a new object once its id maps
\* to nothing, or for the object of a restart.
LEMMA OpensSerial ==
  ASSUME TypeInv, SerialInv, NEW c \in Calls, pc[c] \in {"idle", "stopped"},
         NEW k \in Jobs, k.id \in Ids, k.obj \in Servers, k.link \in FreeLinks,
         k.op \in {"start", "restart"}, ~started[k.obj],
         pc[c] = "stopped" => k.id = job[c].id,
         \A d \in InFlight \ {c} :
           /\ job[d].id # k.id /\ job[d].op \notin All
           /\ Stopping(d) \/ Opening(d) => job[d].obj # k.obj,
         \A id \in Ids \ {k.id} : servers'[id] = servers[id],
         IF k.op = "restart" THEN servers[k.id] = k.obj /\ servers'[k.id] = k.obj
         ELSE /\ servers'[k.id] = NoServer /\ \A id \in Ids : servers[id] # k.obj
              /\ pc[c] = "idle" => servers[k.id] = NoServer,
         pc' = [pc EXCEPT ![c] = "connecting"], job' = [job EXCEPT ![c] = k],
         link' = [link EXCEPT ![k.link] = "connecting"], UNCHANGED started,
         \A p \in Servers \ {k.obj} : transport'[p] = transport[p]
  PROVE  SerialInv'
<1> DEFINE o == k.obj
           l == k.link
<1>0. TypeOK /\ l \in Links /\ link[l] # "up" /\ o \in Servers
  BY DEF TypeInv, FreeLinks
<1>1. /\ pc'[c] = "connecting" /\ job'[c] = k
      /\ \A d \in Calls \ {c} : pc'[d] = pc[d] /\ job'[d] = job[d]
  BY <1>0 DEF TypeOK
<1>2. link'[l] = "connecting" /\ \A m \in Links \ {l} : link'[m] = link[m]
  BY <1>0 DEF TypeOK
<1>3. CallsApart'
  BY <1>1 DEF CallsApart, SerialInv, InFlight, Stopping, Opening, All
<1>4. ObjectsApart'
  BY DEF SerialInv, ObjectsApart
<1>5. ASSUME NEW d \in Calls \ {c}
      PROVE  WorksOnItsOwn(d)' /\ ClosesItsOwn(d)'
  <2>1. CASE pc[d] = "idle"
    BY <1>1, <2>1 DEF WorksOnItsOwn, ClosesItsOwn, Stopping, Opening
  <2>2. CASE pc[d] \in {"next", "clearing"}
    BY <2>2 DEF InFlight, TypeInv, JobsFit, Fits, All
  <2>3. CASE Stopping(d) \/ Opening(d)
    <3>1. /\ d \in InFlight /\ job[d].obj \in Servers /\ job[d].obj # o /\ job[d].id # k.id
          /\ pc[d] \notin {"clearing", "next"}
      BY <2>3 DEF InFlight, TypeInv, JobsFit, Fits, Stopping, Opening
    <3>2. /\ started'[job[d].obj] = started[job[d].obj]
          /\ transport'[job[d].obj] = transport[job[d].obj]
      BY <3>1
    <3>3. job[d].obj \notin FreeServers
      BY <3>1 DEF FreeServers
    <3>4. transport[job[d].obj] # l
      BY <3>1, <3>3 DEF FreeLinks
    <3>5. \A m \in Links : transport[job[d].obj] = m /\ link'[m] \in {"up", "connecting"} =>
            link[m] \in {"up", "connecting"}
      BY <1>2, <3>4
    <3>6. servers'[k.id] # job[d].obj
      BY <3>1, ConstantsAssumption
    <3>7. {k.id} \in SUBSET Ids /\ pc'[d] = pc[d] /\ job'[d] = job[d]
      BY <1>1
    <3> QED
      BY <3>1, <3>2, <3>5, <3>6, <3>7, OthersGoOn
  <2> QED
    BY <1>0, <2>1, <2>2, <2>3 DEF TypeOK, Stopping, Opening
<1>6. WorksOnItsOwn(c)' /\ ClosesItsOwn(c)'
  BY <1>0, <1>1, ConstantsAssumption DEF WorksOnItsOwn, ClosesItsOwn, Stopping, Opening
<1>7. StartedIsManaged'
  <2> SUFFICES ASSUME NEW p \in Servers, started[p]
               PROVE  (\E id \in Ids : servers'[id] = p) \/ \E d \in InFlight' : job'[d].obj = p
    BY DEF StartedIsManaged
  <2>1. pc[c] = "stopped" => job[c].obj # p /\ servers[k.id] = job[c].obj
    BY DEF SerialInv, WorksOnItsOwn, Stopping
  <2>2. (\E id \in Ids : servers[id] = p) \/ \E d \in InFlight \ {c} : job[d].obj = p
    BY <2>1 DEF SerialInv, StartedIsManaged, InFlight
  <2>3. ASSUME NEW id \in Ids, servers[id] = p
        PROVE  servers'[id] = p
    BY <2>1, <2>3, ConstantsAssumption
  <2> QED
    BY <1>1, <2>2, <2>3 DEF InFlight
<1>8. OpenIsHeld'
  <2> SUFFICES ASSUME NEW m \in Links, link'[m] = "up"
               PROVE  \E p \in Servers : started[p] /\ transport'[p] = m
    BY DEF OpenIsHeld
  <2>1. PICK p \in Servers : started[p] /\ transport[p] = m
    BY <1>2 DEF SerialInv, OpenIsHeld
  <2> QED
    BY <2>1
<1> QED
  BY <1>3, <1>4, <1>5, <1>6, <1>7, <1>8 DEF SerialInv

LEMMA NewServerSerial ==
  ASSUME TypeInv, SerialInv, NEW c \in Calls, pc[c] \in {"idle", "stopped"}, NEW id \in Ids,
         pc[c] = "stopped" => id = job[c].id,
         pc[c] = "idle" => servers[id] = NoServer,
         \A d \in InFlight \ {c} : job[d].id # id /\ job[d].op \notin All,
         servers'[id] = NoServer, \A e \in Ids \ {id} : servers'[e] = servers[e],
         NewServer(c, id)
  PROVE  SerialInv'
<1>1. PICK o \in FreeServers, l \in FreeLinks :
        /\ transport' = [transport EXCEPT ![o] = NoLink]
        /\ link' = [link EXCEPT ![l] = "connecting"]
        /\ job' = [job EXCEPT ![c] = [NewJob("start", id, o) EXCEPT !.link = l]]
        /\ pc' = [pc EXCEPT ![c] = "connecting"]
        /\ UNCHANGED started
  BY Zenon DEF NewServer, Goto
<1>2. /\ o \in Servers /\ ~started[o] /\ l \in Links
      /\ \A e \in Ids : servers[e] # o
      /\ \A d \in InFlight : job[d].obj # o
  BY DEF FreeServers, FreeLinks
<1> DEFINE k == [NewJob("start", id, o) EXCEPT !.link = l]
<1>3. k \in Jobs /\ k.link = l /\ k.obj = o /\ k.id = id /\ k.op = "start"
  BY <1>2 DEF NewJob, Jobs
<1>4. job' = [job EXCEPT ![c] = k]
  BY <1>1
<1>5. \A p \in Servers \ {o} : transport'[p] = transport[p]
  BY <1>1 DEF TypeInv, TypeOK
<1> HIDE DEF k
<1>6. /\ k.id \in Ids /\ k.obj \in Servers /\ k.link \in FreeLinks /\ ~started[k.obj]
      /\ pc[c] = "stopped" => k.id = job[c].id
      /\ \A d \in InFlight \ {c} : job[d].id # k.id /\ job[d].op \notin All /\ job[d].obj # k.obj
      /\ \A e \in Ids \ {k.id} : servers'[e] = servers[e]
      /\ servers'[k.id] = NoServer /\ \A e \in Ids : servers[e] # k.obj
      /\ pc[c] = "idle" => servers[k.id] = NoServer
      /\ link' = [link EXCEPT ![k.link] = "connecting"] /\ UNCHANGED started
      /\ \A p \in Servers \ {k.obj} : transport'[p] = transport[p]
  BY <1>1, <1>2, <1>3, <1>5
<1>7. IF k.op = "restart" THEN servers[k.id] = k.obj /\ servers'[k.id] = k.obj
      ELSE /\ servers'[k.id] = NoServer /\ \A e \in Ids : servers[e] # k.obj
           /\ pc[c] = "idle" => servers[k.id] = NoServer
  BY <1>3, <1>6
<1>8. k.op \in {"start", "restart"} /\ pc' = [pc EXCEPT ![c] = "connecting"]
  BY <1>1, <1>3
<1>9. \A d \in InFlight \ {c} :
        /\ job[d].id # k.id /\ job[d].op \notin All
        /\ Stopping(d) \/ Opening(d) => job[d].obj # k.obj
  BY <1>6
<1> QED
  BY <1>3, <1>4, <1>6, <1>7, <1>8, <1>9, OpensSerial

\* A call goes on with what it works on, or ends: what it changes concerns
\* its own id and its own object.
LEMMA GoesOnSerial ==
  ASSUME TypeInv, SerialInv, NEW c \in Calls, Stopping(c) \/ Opening(c),
         NEW where \in Places, NEW k, where = "idle" \/ k = job[c],
         pc' = [pc EXCEPT ![c] = where], job' = [job EXCEPT ![c] = k],
         \A id \in Ids \ {job[c].id} : servers'[id] = servers[id],
         servers'[job[c].id] \in {NoServer, job[c].obj},
         \A p \in Servers \ {job[c].obj} : started'[p] = started[p] /\ transport'[p] = transport[p],
         \A l \in Links : link'[l] \in {"up", "connecting"} => link[l] \in {"up", "connecting"}
  PROVE  /\ CallsApart' /\ ObjectsApart'
         /\ \A d \in Calls \ {c} : WorksOnItsOwn(d)' /\ ClosesItsOwn(d)'
<1>0. /\ TypeOK /\ c \in InFlight /\ job[c].id \in Ids /\ job[c].obj \in Servers
      /\ WorksOnItsOwn(c)
  BY DEF TypeInv, InFlight, Stopping, Opening, JobsFit, Fits, SerialInv
<1>1. /\ pc'[c] = where /\ job'[c] = k
      /\ \A d \in Calls \ {c} : pc'[d] = pc[d] /\ job'[d] = job[d]
  BY <1>0 DEF TypeOK
<1>2. CallsApart'
  BY <1>0, <1>1 DEF CallsApart, SerialInv, InFlight, Stopping, Opening
<1>3. ObjectsApart'
  <2>1. \A id \in Ids \ {job[c].id} : servers[id] # job[c].obj
    BY <1>0, ConstantsAssumption DEF WorksOnItsOwn, SerialInv, ObjectsApart
  <2> QED
    BY <2>1 DEF SerialInv, ObjectsApart
<1>4. ASSUME NEW d \in Calls \ {c}
      PROVE  WorksOnItsOwn(d)' /\ ClosesItsOwn(d)'
  <2>1. CASE pc[d] = "idle"
    BY <1>1, <2>1 DEF WorksOnItsOwn, ClosesItsOwn, Stopping, Opening
  <2>2. CASE pc[d] \in {"next", "clearing"}
    BY <1>0, <2>2 DEF SerialInv, CallsApart, InFlight, TypeInv, JobsFit, Fits, All
  <2>3. CASE Stopping(d) \/ Opening(d)
    <3>1. /\ d \in InFlight /\ job[d].obj \in Servers /\ pc[d] \notin {"clearing", "next"}
      BY <2>3 DEF InFlight, TypeInv, JobsFit, Fits, Stopping, Opening
    <3>2. job[d].obj # job[c].obj /\ job[d].id # job[c].id
      BY <1>0, <2>3, <3>1 DEF SerialInv, CallsApart
    <3>3. /\ started'[job[d].obj] = started[job[d].obj]
          /\ transport'[job[d].obj] = transport[job[d].obj]
      BY <3>1, <3>2
    <3>4. servers'[job[c].id] # job[d].obj
      BY <3>1, <3>2, ConstantsAssumption
    <3>5. {job[c].id} \in SUBSET Ids /\ pc'[d] = pc[d] /\ job'[d] = job[d]
      BY <1>0, <1>1
    <3> QED
      BY <3>1, <3>2, <3>3, <3>4, <3>5, OthersGoOn
  <2> QED
    BY <1>0, <2>1, <2>2, <2>3 DEF TypeOK, Stopping, Opening
<1> QED
  BY <1>2, <1>3, <1>4

LEMMA ShutdownResolvesSerial ==
  ASSUME TypeInv, SerialInv, NEW c \in Calls, ShutdownResolves(c)
  PROVE  SerialInv'
<1> DEFINE o == job[c].obj
<1>0. /\ TypeOK /\ pc[c] = "shutting" /\ o \in Servers /\ job[c].id \in Ids
      /\ transport' = [transport EXCEPT ![o] = NoLink] /\ UNCHANGED <<manager, job>>
      /\ servers[job[c].id] = o
  BY DEF ShutdownResolves, TypeInv, JobsFit, Fits, SerialInv, WorksOnItsOwn, Stopping
<1>1. PICK where \in {"closing", "stopped"} :
        /\ pc' = [pc EXCEPT ![c] = where]
        /\ IF where = "closing" THEN UNCHANGED started
           ELSE started' = [started EXCEPT ![o] = FALSE]
  BY DEF ShutdownResolves, Goto
<1>2. \A l \in Links : link'[l] = link[l] \/ link'[l] = "down"
  BY <1>0 DEF ShutdownResolves, CloseSdk, TypeOK
<1>3. /\ transport'[o] = NoLink /\ (where = "stopped" => ~started'[o])
      /\ (where = "closing" => started'[o] = started[o])
      /\ \A p \in Servers \ {o} : started'[p] = started[p] /\ transport'[p] = transport[p]
  BY <1>0, <1>1 DEF TypeOK
<1>4. job' = [job EXCEPT ![c] = job[c]] /\ where \in Places /\ UNCHANGED servers
  BY <1>0 DEF TypeOK, Places, manager
<1> HIDE DEF o
<1>5. /\ pc'[c] = where /\ job'[c] = job[c]
      /\ \A d \in Calls \ {c} : pc'[d] = pc[d] /\ job'[d] = job[d]
  BY <1>0, <1>1 DEF TypeOK
<1>6. /\ CallsApart' /\ ObjectsApart'
      /\ \A d \in Calls \ {c} : WorksOnItsOwn(d)' /\ ClosesItsOwn(d)'
  <2>1. /\ Stopping(c) /\ servers'[job[c].id] = job[c].obj
        /\ \A l \in Links : link'[l] \in {"up", "connecting"} => link[l] \in {"up", "connecting"}
        /\ \A p \in Servers \ {job[c].obj} :
             started'[p] = started[p] /\ transport'[p] = transport[p]
    BY <1>0, <1>2, <1>3, <1>4 DEF Stopping, o
  <2> QED
    BY <1>1, <1>4, <2>1, GoesOnSerial
<1>7. WorksOnItsOwn(c)' /\ ClosesItsOwn(c)'
  BY <1>0, <1>3, <1>4, <1>5 DEF WorksOnItsOwn, ClosesItsOwn, Stopping, Opening, o
<1>8. StartedIsManaged'
  <2> SUFFICES ASSUME NEW p \in Servers, started'[p]
               PROVE  (\E id \in Ids : servers'[id] = p) \/ \E d \in InFlight' : job'[d].obj = p
    BY DEF StartedIsManaged
  <2>1. started[p]
    BY <1>3
  <2> QED
    BY <1>0, <1>1, <1>4, <1>5, <2>1 DEF SerialInv, StartedIsManaged, InFlight
<1>9. OpenIsHeld'
  <2> SUFFICES ASSUME NEW l \in Links, link'[l] = "up"
               PROVE  \E p \in Servers : started'[p] /\ transport'[p] = l
    BY DEF OpenIsHeld
  <2>1. PICK p \in Servers : started[p] /\ transport[p] = l
    BY <1>2 DEF SerialInv, OpenIsHeld
  <2>2. p # o
    BY <1>0, <1>2, <2>1 DEF SerialInv, ClosesItsOwn, o
  <2> QED
    BY <1>3, <2>1, <2>2
<1> QED
  BY <1>6, <1>7, <1>8, <1>9 DEF SerialInv

LEMMA CloseResolvesSerial ==
  ASSUME TypeInv, SerialInv, NEW c \in Calls, CloseResolves(c)
  PROVE  SerialInv'
<1> DEFINE o == job[c].obj
<1>0. /\ TypeOK /\ pc[c] = "closing" /\ o \in Servers /\ job[c].id \in Ids
      /\ started' = [started EXCEPT ![o] = FALSE] /\ pc' = [pc EXCEPT ![c] = "stopped"]
      /\ UNCHANGED <<manager, transport, network, job>>
      /\ servers[job[c].id] = o /\ transport[o] = NoLink
  BY DEF CloseResolves, Goto, TypeInv, JobsFit, Fits, SerialInv, WorksOnItsOwn, ClosesItsOwn,
         Stopping
<1>1. ~started'[o] /\ \A p \in Servers \ {o} : started'[p] = started[p]
  BY <1>0 DEF TypeOK
<1>2. job' = [job EXCEPT ![c] = job[c]] /\ "stopped" \in Places
      /\ UNCHANGED <<servers, link, transport>>
  BY <1>0 DEF TypeOK, Places, manager, network
<1> HIDE DEF o
<1>3. /\ pc'[c] = "stopped" /\ job'[c] = job[c]
      /\ \A d \in Calls \ {c} : pc'[d] = pc[d] /\ job'[d] = job[d]
  BY <1>0 DEF TypeOK
<1>4. /\ CallsApart' /\ ObjectsApart'
      /\ \A d \in Calls \ {c} : WorksOnItsOwn(d)' /\ ClosesItsOwn(d)'
  <2>1. /\ Stopping(c) /\ servers'[job[c].id] = job[c].obj
        /\ \A p \in Servers \ {job[c].obj} :
             started'[p] = started[p] /\ transport'[p] = transport[p]
    BY <1>0, <1>1, <1>2 DEF Stopping, o
  <2> QED
    BY <1>0, <1>2, <2>1, GoesOnSerial
<1>5. WorksOnItsOwn(c)' /\ ClosesItsOwn(c)'
  BY <1>0, <1>1, <1>2, <1>3 DEF WorksOnItsOwn, ClosesItsOwn, Stopping, Opening, o
<1>6. StartedIsManaged'
  <2> SUFFICES ASSUME NEW p \in Servers, started'[p]
               PROVE  (\E id \in Ids : servers'[id] = p) \/ \E d \in InFlight' : job'[d].obj = p
    BY DEF StartedIsManaged
  <2>1. started[p] /\ p # o
    BY <1>1
  <2> QED
    BY <1>2, <1>3, <2>1 DEF SerialInv, StartedIsManaged, InFlight
<1>7. OpenIsHeld'
  <2> SUFFICES ASSUME NEW l \in Links, link[l] = "up"
               PROVE  \E p \in Servers : started'[p] /\ transport[p] = l
    BY <1>2 DEF OpenIsHeld
  <2>1. PICK p \in Servers : started[p] /\ transport[p] = l
    BY DEF SerialInv, OpenIsHeld
  <2> QED
    BY <1>0, <1>1, <2>1, ConstantsAssumption
<1> QED
  BY <1>4, <1>5, <1>6, <1>7 DEF SerialInv

LEMMA ConnectResolvesSerial ==
  ASSUME TypeInv, SerialInv, NEW c \in Calls, ConnectResolves(c)
  PROVE  SerialInv'
<1> DEFINE o == job[c].obj
           l == job[c].link
<1>0. /\ TypeOK /\ pc[c] = "connecting" /\ o \in Servers /\ job[c].id \in Ids /\ l \in Links
      /\ started' = [started EXCEPT ![o] = TRUE] /\ pc' = [pc EXCEPT ![c] = "settling"]
      /\ transport' = [transport EXCEPT ![o] = l] /\ UNCHANGED <<manager, job>>
      /\ ~started[o]
      /\ IF job[c].op = "restart" THEN servers[job[c].id] = o
         ELSE servers[job[c].id] = NoServer /\ \A id \in Ids : servers[id] # o
  BY DEF ConnectResolves, Goto, TypeInv, JobsFit, Fits, SerialInv, WorksOnItsOwn, Opening
<1>1. \A m \in Links :
        /\ m # l => link'[m] = link[m]
        /\ link'[m] # link[m] => link[m] = "connecting" /\ link'[m] \in {"up", "failed"}
  BY <1>0 DEF ConnectResolves, TypeOK
<1>2. /\ started'[o] /\ transport'[o] = l
      /\ \A p \in Servers \ {o} : started'[p] = started[p] /\ transport'[p] = transport[p]
  BY <1>0 DEF TypeOK
<1>3. job' = [job EXCEPT ![c] = job[c]] /\ "settling" \in Places /\ UNCHANGED servers
  BY <1>0 DEF TypeOK, Places, manager
<1> HIDE DEF o, l
<1>4. /\ pc'[c] = "settling" /\ job'[c] = job[c]
      /\ \A d \in Calls \ {c} : pc'[d] = pc[d] /\ job'[d] = job[d]
  BY <1>0 DEF TypeOK
<1>5. /\ CallsApart' /\ ObjectsApart'
      /\ \A d \in Calls \ {c} : WorksOnItsOwn(d)' /\ ClosesItsOwn(d)'
  <2>1. /\ Opening(c) /\ servers'[job[c].id] \in {NoServer, job[c].obj}
        /\ \A m \in Links : link'[m] \in {"up", "connecting"} => link[m] \in {"up", "connecting"}
        /\ \A p \in Servers \ {job[c].obj} :
             started'[p] = started[p] /\ transport'[p] = transport[p]
    BY <1>0, <1>1, <1>2, <1>3 DEF Opening, o
  <2> QED
    BY <1>0, <1>3, <2>1, GoesOnSerial
<1>6. WorksOnItsOwn(c)' /\ ClosesItsOwn(c)'
  BY <1>0, <1>3, <1>4 DEF WorksOnItsOwn, ClosesItsOwn, Stopping, Opening, o
<1>7. StartedIsManaged'
  <2> SUFFICES ASSUME NEW p \in Servers, started'[p]
               PROVE  (\E id \in Ids : servers'[id] = p) \/ \E d \in InFlight' : job'[d].obj = p
    BY DEF StartedIsManaged
  <2>1. CASE p = o
    BY <1>4, <2>1 DEF InFlight, o
  <2>2. CASE p # o
    BY <1>2, <1>3, <1>4, <2>2 DEF SerialInv, StartedIsManaged, InFlight
  <2> QED
    BY <2>1, <2>2
<1>8. OpenIsHeld'
  <2> SUFFICES ASSUME NEW m \in Links, link'[m] = "up"
               PROVE  \E p \in Servers : started'[p] /\ transport'[p] = m
    BY DEF OpenIsHeld
  <2>1. CASE link[m] = "up"
    <3>1. PICK p \in Servers : started[p] /\ transport[p] = m
      BY <2>1 DEF SerialInv, OpenIsHeld
    <3> QED
      BY <1>0, <1>2, <3>1
  <2>2. CASE link[m] # "up"
    BY <1>0, <1>1, <1>2, <2>2
  <2> QED
    BY <2>1, <2>2
<1> QED
  BY <1>5, <1>6, <1>7, <1>8 DEF SerialInv

\* A call ends: what it worked on is not started, or is in the map.
LEMMA EndsSerial ==
  ASSUME TypeInv, SerialInv, NEW c \in Calls, Stopping(c) \/ Opening(c), Finish(c),
         \A id \in Ids \ {job[c].id} : servers'[id] = servers[id],
         \/ servers'[job[c].id] = job[c].obj
         \/ /\ servers'[job[c].id] \in {NoServer, servers[job[c].id]}
            /\ ~started[job[c].obj],
         UNCHANGED <<started, transport>>,
         \A l \in Links : link'[l] = link[l] \/ link'[l] \in {"down", "failed"}
  PROVE  SerialInv'
<1>0. /\ TypeOK /\ job[c].id \in Ids /\ job[c].obj \in Servers /\ WorksOnItsOwn(c)
      /\ pc' = [pc EXCEPT ![c] = "idle"] /\ job' = [job EXCEPT ![c] = NoJob]
  BY DEF TypeInv, JobsFit, Fits, Stopping, Opening, SerialInv, Finish, Goto
<1>1. servers[job[c].id] \in {NoServer, job[c].obj}
  BY <1>0 DEF WorksOnItsOwn
<1>2. "idle" \in Places /\ servers'[job[c].id] \in {NoServer, job[c].obj}
  BY <1>1 DEF Places
<1>3. /\ pc'[c] = "idle"
      /\ \A d \in Calls \ {c} : pc'[d] = pc[d] /\ job'[d] = job[d]
  BY <1>0 DEF TypeOK
<1>4. /\ CallsApart' /\ ObjectsApart'
      /\ \A d \in Calls \ {c} : WorksOnItsOwn(d)' /\ ClosesItsOwn(d)'
  <2>1. /\ \A l \in Links : link'[l] \in {"up", "connecting"} => link[l] \in {"up", "connecting"}
        /\ \A p \in Servers \ {job[c].obj} :
             started'[p] = started[p] /\ transport'[p] = transport[p]
    OBVIOUS
  <2> QED
    BY <1>0, <1>2, <2>1, GoesOnSerial
<1>5. WorksOnItsOwn(c)' /\ ClosesItsOwn(c)'
  BY <1>3 DEF WorksOnItsOwn, ClosesItsOwn, Stopping, Opening
<1>6. StartedIsManaged'
  <2> SUFFICES ASSUME NEW p \in Servers, started[p]
               PROVE  (\E id \in Ids : servers'[id] = p) \/ \E d \in InFlight' : job'[d].obj = p
    BY DEF StartedIsManaged
  <2>1. CASE p = job[c].obj
    BY <1>0, <2>1
  <2>2. CASE p # job[c].obj
    <3>1. ASSUME NEW id \in Ids, servers[id] = p
          PROVE  servers'[id] = p
      BY <1>1, <2>2, <3>1, ConstantsAssumption
    <3> QED
      BY <1>3, <2>2, <3>1 DEF SerialInv, StartedIsManaged, InFlight
  <2> QED
    BY <2>1, <2>2
<1>7. OpenIsHeld'
  BY DEF SerialInv, OpenIsHeld
<1> QED
  BY <1>4, <1>5, <1>6, <1>7 DEF SerialInv

LEMMA ConnectRejectsSerial ==
  ASSUME TypeInv, SerialInv, NEW c \in Calls, ConnectRejects(c)
  PROVE  SerialInv'
<1>1. /\ TypeOK /\ pc[c] = "connecting" /\ job[c].obj \in Servers /\ Finish(c)
      /\ link' = [link EXCEPT ![job[c].link] = "failed"] /\ WorksOnItsOwn(c)
      /\ UNCHANGED <<servers, started, transport>>
  BY DEF ConnectRejects, TypeInv, JobsFit, Fits, SerialInv, manager, object
<1>2. \A l \in Links : link'[l] = link[l] \/ link'[l] \in {"down", "failed"}
  BY <1>1 DEF TypeOK
<1>3. Opening(c) /\ ~started[job[c].obj]
  BY <1>1 DEF Opening, WorksOnItsOwn
<1> QED
  BY <1>1, <1>2, <1>3, EndsSerial

LEMMA StartSettlesSerial ==
  ASSUME TypeInv, SerialInv, NEW c \in Calls, StartSettles(c)
  PROVE  SerialInv'
<1>1. /\ TypeOK /\ pc[c] = "settling" /\ job[c].obj \in Servers /\ job[c].id \in Ids
      /\ Finish(c) /\ Opening(c) /\ WorksOnItsOwn(c) /\ UNCHANGED <<started, transport, link>>
  BY DEF StartSettles, TypeInv, JobsFit, Fits, SerialInv, object, network, Opening
<1>2. /\ \A id \in Ids \ {job[c].id} : servers'[id] = servers[id]
      /\ servers'[job[c].id] = job[c].obj
  <2>1. CASE job[c].op = "start"
    BY <1>1, <2>1 DEF StartSettles, TypeOK
  <2>2. CASE job[c].op = "restart"
    BY <1>1, <2>2 DEF StartSettles, manager, WorksOnItsOwn
  <2> QED
    BY <2>1, <2>2 DEF StartSettles
<1> QED
  BY <1>1, <1>2, EndsSerial

LEMMA StopReturnsSerial ==
  ASSUME TypeInv, SerialInv, NEW c \in Calls, StopReturns(c)
  PROVE  SerialInv'
<1> DEFINE id == job[c].id
           o == job[c].obj
<1>0. /\ TypeOK /\ pc[c] = "stopped" /\ job[c] \in Jobs /\ o \in Servers /\ id \in Ids
      /\ Stopping(c) /\ WorksOnItsOwn(c) /\ c \in InFlight
  BY DEF StopReturns, TypeInv, JobsFit, Fits, SerialInv, Stopping, InFlight
<1>1. ~started[o] /\ servers[id] = o
  BY <1>0 DEF WorksOnItsOwn
<1>2. Forget(id) => servers'[id] = NoServer /\ \A e \in Ids \ {id} : servers'[e] = servers[e]
  BY <1>0 DEF Forget, TypeOK
<1>3. \A d \in InFlight \ {c} :
        /\ job[d].id # id /\ job[d].op \notin All
        /\ Stopping(d) \/ Opening(d) => job[d].obj # o
  BY <1>0 DEF SerialInv, CallsApart
<1>4. CASE job[c].op = "stop"
  <2>1. /\ Forget(id) /\ Finish(c) /\ UNCHANGED <<started, transport>>
        /\ \A l \in Links : link'[l] = link[l] \/ link'[l] \in {"down", "failed"}
    BY <1>4 DEF StopReturns, object
  <2>2. servers'[job[c].id] \in {NoServer, servers[job[c].id]} /\ ~started[job[c].obj]
        /\ \A e \in Ids \ {job[c].id} : servers'[e] = servers[e]
    BY <1>1, <1>2, <2>1
  <2> QED
    BY <1>0, <2>1, <2>2, EndsSerial
<1>5. CASE job[c].op = "start"
  <2>1. Forget(id) /\ NewServer(c, id)
    BY <1>5 DEF StopReturns
  <2> QED
    BY <1>0, <1>2, <1>3, <2>1, NewServerSerial
<1>6. CASE job[c].op \in All
  <2>1. /\ Forget(id) /\ pc' = [pc EXCEPT ![c] = "next"] /\ UNCHANGED <<started, transport, link, job>>
    BY <1>6 DEF StopReturns, Goto, object, All
  <2>2. job' = [job EXCEPT ![c] = job[c]] /\ "next" \in Places /\ pc'[c] = "next" /\ job'[c] = job[c]
        /\ \A d \in Calls \ {c} : pc'[d] = pc[d] /\ job'[d] = job[d]
    BY <1>0, <2>1 DEF TypeOK, Places
  <2>3. /\ \A e \in Ids \ {job[c].id} : servers'[e] = servers[e]
        /\ servers'[job[c].id] \in {NoServer, job[c].obj}
        /\ \A p \in Servers \ {job[c].obj} :
             started'[p] = started[p] /\ transport'[p] = transport[p]
        /\ \A l \in Links : link'[l] \in {"up", "connecting"} => link[l] \in {"up", "connecting"}
    BY <1>2, <2>1
  <2>4. /\ CallsApart' /\ ObjectsApart'
        /\ \A d \in Calls \ {c} : WorksOnItsOwn(d)' /\ ClosesItsOwn(d)'
    BY <1>0, <2>1, <2>2, <2>3, GoesOnSerial
  <2>5. WorksOnItsOwn(c)' /\ ClosesItsOwn(c)'
    BY <1>1, <2>1, <2>2 DEF WorksOnItsOwn, ClosesItsOwn, Stopping, Opening
  <2>6. StartedIsManaged'
    <3> SUFFICES ASSUME NEW p \in Servers, started[p]
                 PROVE  (\E e \in Ids : servers'[e] = p) \/ \E d \in InFlight' : job'[d].obj = p
      BY <2>1 DEF StartedIsManaged
    <3>1. p # o
      BY <1>1
    <3> QED
      BY <1>1, <1>2, <2>1, <2>2, <3>1 DEF SerialInv, StartedIsManaged, InFlight
  <2>7. OpenIsHeld'
    BY <2>1 DEF SerialInv, OpenIsHeld
  <2> QED
    BY <2>4, <2>5, <2>6, <2>7 DEF SerialInv
<1>7. CASE job[c].op = "restart"
  <2>1. Connect(c, job[c]) /\ UNCHANGED <<manager, started, transport>>
    BY <1>1, <1>7 DEF StopReturns
  <2>2. PICK l \in FreeLinks :
          /\ link' = [link EXCEPT ![l] = "connecting"]
          /\ job' = [job EXCEPT ![c] = [job[c] EXCEPT !.link = l]]
          /\ pc' = [pc EXCEPT ![c] = "connecting"]
    BY <2>1, Zenon DEF Connect, Goto
  <2> DEFINE k == [job[c] EXCEPT !.link = l]
  <2>3. k \in Jobs /\ k.link = l /\ k.id = id /\ k.obj = o /\ k.op = "restart"
    BY <1>0, <1>7 DEF Jobs, FreeLinks
  <2>4. job' = [job EXCEPT ![c] = k]
    BY <2>2
  <2> HIDE DEF k
  <2>5. /\ k.id \in Ids /\ k.obj \in Servers /\ k.link \in FreeLinks /\ ~started[k.obj]
        /\ pc[c] = "stopped" => k.id = job[c].id
        /\ \A e \in Ids \ {k.id} : servers'[e] = servers[e]
        /\ link' = [link EXCEPT ![k.link] = "connecting"] /\ UNCHANGED started
        /\ \A p \in Servers \ {k.obj} : transport'[p] = transport[p]
    BY <1>0, <1>1, <2>1, <2>2, <2>3 DEF manager
  <2>6. IF k.op = "restart" THEN servers[k.id] = k.obj /\ servers'[k.id] = k.obj
        ELSE /\ servers'[k.id] = NoServer /\ \A e \in Ids : servers[e] # k.obj
             /\ pc[c] = "idle" => servers[k.id] = NoServer
    BY <1>1, <2>1, <2>3 DEF manager
  <2>7. k.op \in {"start", "restart"} /\ pc[c] \in {"idle", "stopped"}
    BY <1>0, <2>3
  <2>8. \A d \in InFlight \ {c} :
          /\ job[d].id # k.id /\ job[d].op \notin All
          /\ Stopping(d) \/ Opening(d) => job[d].obj # k.obj
    BY <1>3, <2>3
  <2> QED
    BY <2>2, <2>3, <2>4, <2>5, <2>6, <2>7, <2>8, OpensSerial
<1> QED
  BY <1>0, <1>4, <1>5, <1>6, <1>7 DEF Jobs, All

\* A call that stands alone, and that has nothing left to stop, goes on.
LEMMA AloneGoesOn ==
  ASSUME TypeInv, SerialInv, NEW c \in Calls, InFlight \subseteq {c},
         pc[c] \in {"idle", "next", "clearing"}, Managed = {},
         NEW where \in {"idle", "clearing"}, NEW k,
         where = "clearing" => k.obj = NoServer,
         pc' = [pc EXCEPT ![c] = where], job' = [job EXCEPT ![c] = k],
         UNCHANGED <<servers, started, transport, link>>
  PROVE  SerialInv'
<1>1. /\ pc'[c] = where /\ job'[c] = k
      /\ \A d \in Calls \ {c} : pc'[d] = "idle"
  BY DEF TypeInv, TypeOK, InFlight
<1>2. InFlight' \subseteq {c}
  BY <1>1 DEF InFlight
<1>3. \A p \in Servers : ~started[p]
  <2> SUFFICES ASSUME NEW p \in Servers, started[p] PROVE FALSE
    OBVIOUS
  <2>1. \A id \in Ids : servers[id] # p
    BY ConstantsAssumption DEF Managed
  <2>2. c \in InFlight /\ job[c].obj = p
    BY <2>1 DEF SerialInv, StartedIsManaged
  <2> QED
    BY <2>2, ConstantsAssumption DEF SerialInv, WorksOnItsOwn, InFlight
<1>4. CallsApart' /\ ObjectsApart'
  BY <1>2 DEF CallsApart, SerialInv, ObjectsApart
<1>5. \A d \in Calls : WorksOnItsOwn(d)' /\ ClosesItsOwn(d)'
  BY <1>1 DEF WorksOnItsOwn, ClosesItsOwn, Stopping, Opening, Managed
<1>6. StartedIsManaged' /\ OpenIsHeld'
  BY <1>3 DEF StartedIsManaged, SerialInv, OpenIsHeld
<1> QED
  BY <1>4, <1>5, <1>6 DEF SerialInv

LEMMA StopNextSerial ==
  ASSUME TypeInv, SerialInv, NEW c \in Calls, pc[c] \in {"idle", "next"}, InFlight \subseteq {c},
         NEW op \in All, StopNext(c, op), UNCHANGED <<manager, sdk, transport, clients>>
  PROVE  SerialInv'
<1>1. ASSUME NEW id \in Managed, StopServer(c, NewJob(op, id, servers[id]))
      PROVE  SerialInv'
  <2>1. id \in Ids /\ servers[id] \in Servers
    BY DEF Managed, TypeInv, TypeOK
  <2>2. /\ NewJob(op, id, servers[id]) \in Jobs /\ NewJob(op, id, servers[id]).id = id
        /\ NewJob(op, id, servers[id]).obj = servers[id]
    BY <2>1, NewJobType DEF All
  <2> QED
    BY <1>1, <2>1, <2>2, StopServerSerial
<1>2. CASE Managed = {} /\ \E where \in {"idle", "clearing"}, k \in {NoJob, NewJob(op, NoId, NoServer)} :
             /\ pc' = [pc EXCEPT ![c] = where] /\ job' = [job EXCEPT ![c] = k]
             /\ where = "clearing" => k = NewJob(op, NoId, NoServer)
             /\ UNCHANGED <<link, started>>
  <2>1. NewJob(op, NoId, NoServer).obj = NoServer
    BY DEF NewJob
  <2>2. UNCHANGED <<servers, transport>>
    BY DEF manager
  <2> QED
    BY <1>2, <2>1, <2>2, AloneGoesOn
<1> QED
  BY <1>1, <1>2 DEF StopNext, Finish, Goto

LEMMA ClearServersSerial ==
  ASSUME TypeInv, SerialInv, NEW c \in Calls, ClearServers(c)
  PROVE  SerialInv' /\ (\A o \in Servers : ~started'[o]) /\ \A l \in Links : link'[l] # "up"
<1>0. /\ TypeOK /\ pc[c] = "clearing" /\ job[c].op \in All /\ WorksOnItsOwn(c)
      /\ UNCHANGED <<started, transport, link>>
      /\ pc' = [pc EXCEPT ![c] = "idle"] /\ job' = [job EXCEPT ![c] = NoJob]
      /\ servers' = [id \in Ids |-> NoServer]
  BY DEF ClearServers, TypeInv, JobsFit, Fits, SerialInv, All, object, network, Finish, Goto
<1>1. InFlight \subseteq {c} /\ c \in InFlight
  BY <1>0 DEF SerialInv, CallsApart, InFlight
<1>2. Managed = {} /\ job[c].obj = NoServer
  BY <1>0 DEF WorksOnItsOwn
<1>3. UNCHANGED servers
  BY <1>0, <1>2 DEF Managed, TypeOK
<1>4. SerialInv'
  BY <1>0, <1>1, <1>2, <1>3, AloneGoesOn
<1>5. \A o \in Servers : ~started[o]
  BY <1>1, <1>2, ConstantsAssumption DEF SerialInv, StartedIsManaged, Managed
<1> QED
  BY <1>0, <1>4, <1>5 DEF SerialInv, OpenIsHeld

LEMMA RequestSerial ==
  ASSUME TypeInv, SerialInv, Serial, NEW c \in Calls, Request(c)
  PROVE  SerialInv'
<1>0. pc[c] = "idle" /\ c \notin InFlight
  BY DEF Request, Start, Stop, Restart, StopAll, MayCall, MayCallAll, InFlight
<1>1. ASSUME NEW id \in Ids, MayCall(c, id)
      PROVE  \A d \in InFlight \ {c} : job[d].id # id /\ job[d].op \notin All
  BY <1>1 DEF MayCall, All
<1>2. ASSUME NEW id \in Ids, MayCall(c, id), id \in Managed,
             NEW op \in {"start", "stop", "restart"},
             StopServer(c, NewJob(op, id, servers[id])),
             UNCHANGED <<manager, sdk, transport, clients>>
      PROVE  SerialInv'
  <2>1. servers[id] \in Servers
    BY <1>2 DEF Managed, TypeInv, TypeOK
  <2>2. /\ NewJob(op, id, servers[id]) \in Jobs /\ NewJob(op, id, servers[id]).id = id
        /\ NewJob(op, id, servers[id]).obj = servers[id]
        /\ NewJob(op, id, servers[id]).op \notin All
    BY <2>1, NewJobType DEF All
  <2> QED
    BY <1>0, <1>1, <1>2, <2>1, <2>2, StopServerSerial
<1>3. ASSUME NEW id \in Ids, MayCall(c, id), id \notin Managed, NewServer(c, id),
             UNCHANGED manager
      PROVE  SerialInv'
  <2>1. servers[id] = NoServer /\ UNCHANGED servers
    BY <1>3 DEF Managed, manager
  <2> QED
    BY <1>0, <1>1, <1>3, <2>1, NewServerSerial
<1>4. ASSUME NEW op \in All, StopAll(c, op)
      PROVE  SerialInv'
  BY <1>0, <1>4, StopNextSerial DEF StopAll, MayCallAll
<1> QED
  BY <1>2, <1>3, <1>4 DEF Request, Start, Stop, Restart, All

LEMMA ProceedSerial ==
  ASSUME TypeInv, SerialInv, NEW c \in Calls, Proceed(c)
  PROVE  SerialInv'
<1>1. CASE StopAllGoesOn(c)
  <2>1. /\ pc[c] = "next" /\ job[c].op \in All /\ StopNext(c, job[c].op)
        /\ UNCHANGED <<manager, sdk, transport, clients>>
    BY <1>1 DEF StopAllGoesOn, TypeInv, JobsFit, Fits, All
  <2>2. InFlight \subseteq {c}
    BY <2>1 DEF SerialInv, CallsApart, InFlight
  <2> QED
    BY <2>1, <2>2, StopNextSerial
<1> QED
  BY <1>1, ShutdownResolvesSerial, CloseResolvesSerial, ConnectResolvesSerial,
     ConnectRejectsSerial, StartSettlesSerial, StopReturnsSerial, ClearServersSerial DEF Proceed

LEMMA NextSerial ==
  ASSUME Serial
  PROVE  TypeInv /\ SerialInv /\ [Next]_vars => SerialInv'
<1> SUFFICES ASSUME TypeInv, SerialInv, [Next]_vars PROVE SerialInv'
  OBVIOUS
<1>1. ASSUME UNCHANGED <<servers, started, transport, link, pc, job>>
      PROVE  SerialInv'
  BY <1>1 DEF SerialInv, CallsApart, ObjectsApart, WorksOnItsOwn, ClosesItsOwn, Stopping,
              Opening, Managed, StartedIsManaged, OpenIsHeld, InFlight
<1>2. CASE (\E id \in Ids : SetPrimaryServer(id)) \/ UNCHANGED vars
           \/ \E l \in Links : ClientConnects(l) \/ ClientLeaves(l)
  BY <1>1, <1>2
  DEF SetPrimaryServer, ClientConnects, ClientLeaves, vars, manager, object, network, calls
<1> QED
  BY <1>2, RequestSerial, ProceedSerial DEF Next

LEMMA SerialInvariant ==
  ASSUME Serial
  PROVE  Spec => [](TypeInv /\ SerialInv)
<1>1. Init => TypeInv /\ SerialInv
  BY InitTypeInv, InitSerialInv
<1>2. TypeInv /\ SerialInv /\ [Next]_vars => (TypeInv /\ SerialInv)'
  BY NextTypeInv, NextSerial
<1> QED
  BY <1>1, <1>2, PTL DEF Spec

\* StartedIsManaged, for every transport and any number of ids, servers and
\* calls: when callers wait for the previous call on an id, a started server
\* can still be stopped through the manager or is being worked on.
THEOREM StartedStaysManaged ==
  ASSUME Serial
  PROVE  Spec => []StartedIsManaged
<1>1. TypeInv /\ SerialInv => StartedIsManaged
  BY DEF SerialInv
<1> QED
  BY <1>1, SerialInvariant, PTL

\* OpenIsHeld, under the same condition: what listens belongs to a started
\* server, which closes it when it is stopped.
THEOREM OpenStaysHeld ==
  ASSUME Serial
  PROVE  Spec => []OpenIsHeld
<1>1. TypeInv /\ SerialInv => OpenIsHeld
  BY DEF SerialInv
<1> QED
  BY <1>1, SerialInvariant, PTL

\* A call moves only itself from place to place.
LEMMA MovesItself ==
  ASSUME TypeOK, NEW c \in Calls, Request(c) \/ Proceed(c)
  PROVE  \A d \in Calls \ {c} : pc'[d] = pc[d]
<1>1. CASE \E where : Goto(c, where)
  BY <1>1 DEF Goto, TypeOK
<1>2. ASSUME NEW j, StopServer(c, j) PROVE \E where : Goto(c, where)
  BY <1>2 DEF StopServer
<1>3. ASSUME NEW op, StopNext(c, op) PROVE \E where : Goto(c, where)
  BY <1>2, <1>3 DEF StopNext, Finish
<1>4. ASSUME NEW id, NewServer(c, id) PROVE \E where : Goto(c, where)
  BY <1>4 DEF NewServer
<1>5. Request(c) => \E where : Goto(c, where)
  BY <1>2, <1>3, <1>4 DEF Request, Start, Stop, Restart, StopAll
<1>6. Proceed(c) => \E where : Goto(c, where)
  BY <1>3, <1>4
  DEF Proceed, ShutdownResolves, CloseResolves, ConnectResolves, ConnectRejects, StartSettles,
      StopReturns, StopAllGoesOn, ClearServers, Finish, Connect
<1> QED
  BY <1>1, <1>5, <1>6

\* Only the step that clears the map ends a cleanup.
LEMMA CleanupEndsClearing ==
  ASSUME TypeInv, NEW c \in Calls, Proceed(c), job[c].op = "cleanup", pc'[c] = "idle"
  PROVE  ClearServers(c)
<1>0. TypeOK /\ JobsFit
  BY DEF TypeInv
<1>1. ASSUME NEW where, Goto(c, where) PROVE where = "idle"
  BY <1>0, <1>1 DEF Goto, TypeOK
<1>2. ASSUME NEW j PROVE ~StopServer(c, j)
  BY <1>1 DEF StopServer
<1>3. ~StopNext(c, "cleanup")
  BY <1>1, <1>2 DEF StopNext
<1>4. ~ShutdownResolves(c) /\ ~CloseResolves(c) /\ ~ConnectResolves(c) /\ ~StopAllGoesOn(c)
  BY <1>1, <1>3 DEF ShutdownResolves, CloseResolves, ConnectResolves, StopAllGoesOn
<1>5. ~ConnectRejects(c) /\ ~StartSettles(c)
  BY <1>0 DEF ConnectRejects, StartSettles, JobsFit, Fits
<1>6. ~StopReturns(c)
  BY <1>1 DEF StopReturns
<1> QED
  BY <1>4, <1>5, <1>6 DEF Proceed

\* CleanupLeavesNothing, under the same condition: when cleanup returns,
\* nothing is started and nothing listens.
THEOREM CleanupIsComplete ==
  ASSUME Serial
  PROVE  Spec => CleanupLeavesNothing
<1>1. TypeInv /\ [Next]_vars =>
        [\A c \in Calls :
           /\ pc[c] # "idle" /\ job[c].op = "cleanup" /\ pc'[c] = "idle"
           /\ \A d \in Calls : pc'[d] = "idle"
           => ClearServers(c)]_vars
  <2> SUFFICES ASSUME TypeInv, Next, NEW c \in Calls, pc[c] # "idle",
                      job[c].op = "cleanup", pc'[c] = "idle"
               PROVE  ClearServers(c)
    BY DEF vars
  <2>1. PICK d \in Calls : Request(d) \/ Proceed(d)
    BY DEF Next, SetPrimaryServer, ClientConnects, ClientLeaves, calls
  <2>2. d = c
    BY <2>1, MovesItself DEF TypeInv
  <2>3. ~Request(c)
    BY DEF Request, Start, Stop, Restart, StopAll, MayCall, MayCallAll
  <2> QED
    BY <2>1, <2>2, <2>3, CleanupEndsClearing
<1>2. TypeInv /\ SerialInv /\ [Next]_vars =>
        [\A c \in Calls :
           /\ pc[c] # "idle" /\ job[c].op = "cleanup" /\ pc'[c] = "idle"
           /\ \A d \in Calls : pc'[d] = "idle"
           => /\ \A o \in Servers : ~started'[o]
              /\ \A l \in Links : link'[l] # "up"]_vars
  BY <1>1, ClearServersSerial
<1> QED
  BY <1>2, SerialInvariant, PTL DEF Spec, CleanupLeavesNothing
=============================================================================
