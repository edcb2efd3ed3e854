------------------------------ MODULE Sessions ------------------------------
(***************************************************************************)
(* The sessions of an MCP server: SessionManager over MemoryStorage or     *)
(* RedisStorage.  A call on the memory is cut where the manager awaits it, *)
(* and the calls of the one process go on in the order they were made.  A  *)
(* call on Redis is cut at every command it awaits: a step executes the    *)
(* command and the code that runs when its reply arrives.  The calls come  *)
(* from any number of processes, so their commands are in any order.       *)
(***************************************************************************)
EXTENDS Naturals, Sequences

CONSTANTS
  Ids,       \* bound: the ids generateSessionId gives out, all distinct
  Users, Fields,
  Calls,     \* bound: slots for calls in flight at the same time
  Redis,     \* the storage is RedisStorage
  Ttl,       \* config.ttl of the manager
  StoreTtl,  \* redisConfig.ttl
  MaxTime,   \* bound on the clock
  Null, NoSession, NoJob

ASSUME ConstantsAssumption ==
  /\ Redis \in BOOLEAN
  /\ Ttl \in Nat \ {0} /\ StoreTtl \in Nat \ {0} /\ MaxTime \in Nat
  /\ Null \notin Ids \cup Users \cup Fields

VARIABLES
  now,
  client,    \* what has become of the connection of RedisStorage
  born,      \* ids given out so far
  store,     \* the session kept under each id
  job,       \* job[c]: the call c in flight, with what it has read
  queue,     \* the calls on the memory whose awaits are still to go on
  answer     \* the last call that answered, and with what

vars == <<now, client, born, store, job, queue, answer>>

Session == [user : Users \cup {Null}, accessed : 0..MaxTime, data : SUBSET Fields]

Jobs ==
       [op : {"find"}, id : Ids, seen : Session]
  \cup [op : {"update"}, id : Ids, seen : Session, field : Fields \cup {Null}]
  \cup [op : {"deleteUser"}, user : Users, keys : SUBSET Ids, doomed : Ids \cup {Null}]
  \cup [op : {"cleanup"}, start : 0..MaxTime, keys : SUBSET Ids, doomed : Ids \cup {Null}]
  \cup [op : {"clear"}, keys : SUBSET Ids]

ASSUME NothingIsNoValue == NoSession \notin Session /\ NoJob \notin Jobs

Answers ==
  [is : {"created", "refused", "found", "missing", "rejected", "updated", "failed", "swept"},
   id : Ids \cup {Null}]

TypeOK ==
  /\ now \in 0..MaxTime
  /\ client \in {"importing", "pinging", "up", "off"}
  /\ born \subseteq Ids
  /\ store \in [Ids -> Session \cup {NoSession}]
  /\ job \in [Calls -> Jobs \cup {NoJob}]
  /\ queue \in Seq(Calls)
  /\ answer \in Answers \cup {Null}

-----------------------------------------------------------------------------
Kept == {id \in Ids : store[id] # NoSession}

\* The client is used as soon as it is made, before its ping is answered.
Connected == Redis => client \in {"pinging", "up"}

Idle(s, at) == at - s.accessed > Ttl

Put(id, s)  == store' = [store EXCEPT ![id] = s]
RemoveAll(S) == store' = [id \in Ids |-> IF id \in S THEN NoSession ELSE store[id]]

Answer(what, id) == answer' = [is |-> what, id |-> id]

Begin(c, j) ==
  /\ job[c] = NoJob
  /\ job' = [job EXCEPT ![c] = j]
  /\ queue' = IF Redis THEN queue ELSE Append(queue, c)
  /\ UNCHANGED answer
Goto(c, j) == job' = [job EXCEPT ![c] = j] /\ UNCHANGED <<queue, answer>>
End(c, what, id) ==
  /\ job' = [job EXCEPT ![c] = NoJob]
  /\ queue' = IF Redis THEN queue ELSE Tail(queue)
  /\ Answer(what, id)

\* Call c, of one of the operations ops, is the next to go on.
Turn(c, ops) ==
  /\ job[c] # NoJob
  /\ job[c].op \in ops
  /\ ~Redis => queue # <<>> /\ Head(queue) = c

Init ==
  /\ now = 0
  /\ client = IF Redis THEN "importing" ELSE "off"
  /\ born = {}
  /\ store = [id \in Ids |-> NoSession]
  /\ job = [c \in Calls |-> NoJob]
  /\ queue = <<>>
  /\ answer = Null

-----------------------------------------------------------------------------
(* connectRedis, started by the constructor and awaited by nobody.         *)

\* REDIS_ENABLED is not true, or the import fails.
RedisOff ==
  /\ client = "importing"
  /\ client' = "off"
  /\ UNCHANGED <<now, born, store, job, queue, answer>>

MakeClient ==
  /\ client = "importing"
  /\ client' = "pinging"
  /\ UNCHANGED <<now, born, store, job, queue, answer>>

PingAnswered ==
  /\ client = "pinging"
  /\ client' = "up"
  /\ UNCHANGED <<now, born, store, job, queue, answer>>

PingFailed ==
  /\ client = "pinging"
  /\ client' = "off"
  /\ UNCHANGED <<now, born, store, job, queue, answer>>

-----------------------------------------------------------------------------
\* A key of Redis lives for StoreTtl after the setex that wrote it.
Tick ==
  /\ now < MaxTime
  /\ now' = now + 1
  /\ RemoveAll(IF Redis THEN {id \in Kept : now + 1 - store[id].accessed >= StoreTtl} ELSE {})
  /\ UNCHANGED <<client, born, job, queue, answer>>

\* Without a client RedisStorage.create answers false and createSession throws.
CreateSession(id, u) ==
  /\ id \notin born
  /\ IF Connected
       THEN /\ Put(id, [user |-> u, accessed |-> now, data |-> {}])
            /\ born' = born \cup {id}
            /\ Answer("created", id)
       ELSE UNCHANGED <<store, born>> /\ Answer("refused", Null)
  /\ UNCHANGED <<now, client, job, queue>>

\* findById.  Redis gives back what JSON.parse made, where lastAccessedAt is
\* a number: findSession calls getTime on it and rejects.
FindSession(c, id) ==
  /\ job[c] = NoJob
  /\ \/ /\ Connected => store[id] = NoSession
        /\ Answer("missing", id)
        /\ UNCHANGED <<job, queue>>
     \/ /\ Redis /\ Connected /\ store[id] # NoSession
        /\ Answer("rejected", id)
        /\ UNCHANGED <<job, queue>>
     \/ /\ ~Redis /\ store[id] # NoSession
        /\ Begin(c, [op |-> "find", id |-> id, seen |-> store[id]])
  /\ UNCHANGED <<now, client, born, store>>

\* The manager looks at what findById gave; an idle session is deleted.
FindAnswers(c) ==
  /\ Turn(c, {"find"})
  /\ LET id == job[c].id IN
     IF Idle(job[c].seen, now)
       THEN RemoveAll({id}) /\ End(c, "missing", id)
       ELSE UNCHANGED store /\ End(c, "found", id)
  /\ UNCHANGED <<now, client, born>>

UpdateBeginsAnyway(c, id, f) ==
  /\ job[c] = NoJob
  /\ LET s == IF store[id] # NoSession THEN store[id]
              ELSE [user |-> Null, accessed |-> now, data |-> {}] IN
     IF Connected
       THEN Begin(c, [op |-> "update", id |-> id, seen |-> s, field |-> f])
       ELSE Answer("failed", id) /\ UNCHANGED <<job, queue>>
  /\ UNCHANGED <<now, client, born, store>>

\* updateSession and setSessionData; f is the field set, or Null.  It does
\* not ask whether the session is idle.
UpdateSession(c, id, f) ==
  /\ job[c] = NoJob
  /\ IF Connected /\ store[id] # NoSession
       THEN Begin(c, [op |-> "update", id |-> id, seen |-> store[id], field |-> f])
       ELSE Answer("failed", id) /\ UNCHANGED <<job, queue>>
  /\ UNCHANGED <<now, client, born, store>>

Merged(j) ==
  [j.seen EXCEPT !.accessed = now, !.data = @ \cup ({j.field} \ {Null})]

UpdateWritesAnyway(c) ==
  /\ Turn(c, {"update"})
  /\ Put(job[c].id, Merged(job[c])) /\ End(c, "updated", job[c].id)
  /\ UNCHANGED <<now, client, born>>

\* MemoryStorage.update writes only over a session that is there;
\* RedisStorage.update is a setex.
UpdateWrites(c) ==
  /\ Turn(c, {"update"})
  /\ LET id == job[c].id IN
     IF Connected /\ (Redis \/ store[id] # NoSession)
       THEN Put(id, Merged(job[c])) /\ End(c, "updated", id)
       ELSE UNCHANGED store /\ End(c, "failed", id)
  /\ UNCHANGED <<now, client, born>>

DeleteSession(id) ==
  /\ IF Connected /\ store[id] # NoSession
       THEN RemoveAll({id}) /\ Answer("updated", id)
       ELSE UNCHANGED store /\ Answer("failed", id)
  /\ UNCHANGED <<now, client, born, job, queue>>

-----------------------------------------------------------------------------
(* deleteUserSessions, cleanupExpiredSessions and clearAllSessions: atomic *)
(* on the memory, one command after another on Redis.                      *)

SweepMemory(S) ==
  /\ ~Redis
  /\ RemoveAll(S)
  /\ Answer("swept", Null)
  /\ UNCHANGED <<now, client, born, job, queue>>

\* keys, or the answer at once when there is no client.
SweepRedis(c, j) ==
  /\ Redis
  /\ job[c] = NoJob
  /\ IF Connected THEN Begin(c, j) ELSE Answer("failed", Null) /\ UNCHANGED <<job, queue>>
  /\ UNCHANGED <<now, client, born, store>>

DeleteUserSessions(c, u) ==
  \/ SweepMemory({id \in Kept : store[id].user = u})
  \/ SweepRedis(c, [op |-> "deleteUser", user |-> u, keys |-> Kept, doomed |-> Null])

CleanupExpiredSessions(c) ==
  \/ SweepMemory({id \in Kept : Idle(store[id], now)})
  \/ SweepRedis(c, [op |-> "cleanup", start |-> now, keys |-> Kept, doomed |-> Null])

ClearAllSessions(c) ==
  \/ SweepMemory(Kept)
  \/ SweepRedis(c, [op |-> "clear", keys |-> Kept])

Sweeping(c) == Redis /\ Turn(c, {"deleteUser", "cleanup"})

Doomed(j, s) == IF j.op = "deleteUser" THEN s.user = j.user ELSE Idle(s, j.start)

SweepGetsUnowned(c, k) ==
  /\ Sweeping(c) /\ Connected
  /\ job[c].doomed = Null
  /\ k \in job[c].keys
  /\ Goto(c, [job[c] EXCEPT !.keys = @ \ {k}, !.doomed = IF store[k] # NoSession THEN k ELSE Null])
  /\ UNCHANGED <<now, client, born, store>>

\* get of the next key; the session it gives decides about the del.
SweepGets(c, k) ==
  /\ Sweeping(c) /\ Connected
  /\ job[c].doomed = Null
  /\ k \in job[c].keys
  /\ LET hit == store[k] # NoSession /\ Doomed(job[c], store[k]) IN
     Goto(c, [job[c] EXCEPT !.keys = @ \ {k}, !.doomed = IF hit THEN k ELSE Null])
  /\ UNCHANGED <<now, client, born, store>>

SweepDels(c) ==
  /\ Sweeping(c) /\ Connected
  /\ job[c].doomed # Null
  /\ RemoveAll({job[c].doomed})
  /\ Goto(c, [job[c] EXCEPT !.doomed = Null])
  /\ UNCHANGED <<now, client, born>>

SweepEnds(c) ==
  /\ Sweeping(c)
  /\ job[c].doomed = Null /\ job[c].keys = {}
  /\ End(c, "swept", Null)
  /\ UNCHANGED <<now, client, born, store>>

ClearDels(c) ==
  /\ Redis /\ Turn(c, {"clear"}) /\ Connected
  /\ RemoveAll(job[c].keys)
  /\ End(c, "swept", Null)
  /\ UNCHANGED <<now, client, born>>

\* A command rejects, or the client has become null meanwhile: every storage
\* operation catches it and answers false, null or 0.
CommandFails(c) ==
  /\ Redis
  /\ job[c] # NoJob
  /\ End(c, "failed", Null)
  /\ UNCHANGED <<now, client, born, store>>

-----------------------------------------------------------------------------
Continue(c) ==
  \/ FindAnswers(c)
  \/ UpdateWrites(c)
  \/ \E k \in Ids : SweepGets(c, k)
  \/ SweepDels(c)
  \/ SweepEnds(c)
  \/ ClearDels(c)
  \/ CommandFails(c)

Next ==
  \/ RedisOff \/ MakeClient \/ PingAnswered \/ PingFailed
  \/ Tick
  \/ \E id \in Ids :
       \/ \E u \in Users \cup {Null} : CreateSession(id, u)
       \/ DeleteSession(id)
  \/ \E c \in Calls :
       \/ \E id \in Ids :
            \/ FindSession(c, id)
            \/ \E f \in Fields \cup {Null} : UpdateSession(c, id, f)
       \/ \E u \in Users : DeleteUserSessions(c, u)
       \/ CleanupExpiredSessions(c)
       \/ ClearAllSessions(c)
       \/ Continue(c)

Spec == Init /\ [][Next]_vars

-----------------------------------------------------------------------------
(* Properties *)

\* A session is created once and never comes back: what every caller of
\* deleteSession, deleteUserSessions and clearAllSessions relies on.  It is
\* MemoryStorage.update's look at the map that keeps it, for an update that
\* read the session before it was removed.
Life == INSTANCE SessionLife
  WITH life <- [id \in Ids |-> IF id \notin born THEN "unborn"
                              ELSE IF store[id] # NoSession THEN "live" ELSE "gone"]
ImplementsLife == Life!Spec

\* What is left of that promise when the storage is Redis, where an update
\* writes back a session that was removed meanwhile: a session lives on as long
\* as some update that read it has not answered, and once no key and no such
\* update holds it, it is gone for good.  No update that begins afterwards, and
\* no sweep, expiry or failing command, brings it back.
BeingUpdated ==
  {id \in Ids : \E c \in Calls : job[c] # NoJob /\ job[c].op = "update" /\ job[c].id = id}

Held == Kept \cup BeingUpdated

HeldLife == INSTANCE SessionLife
  WITH life <- [id \in Ids |-> IF id \notin born THEN "unborn"
                              ELSE IF id \in Held THEN "live" ELSE "gone"]
ImplementsHeldLife == HeldLife!Spec

\* ImplementsLife of one session, as an action property.
GoneStaysGone ==
  [][\A id \in born : store[id] = NoSession => store'[id] = NoSession]_vars

\* deleteUserSessions on Redis reads a key and deletes it two commands later:
\* it never takes a session of someone else.
OthersSurvive ==
  [][\A c \in Calls, id \in Kept :
       (/\ job[c] # NoJob /\ job[c].op = "deleteUser"
        /\ job'[c] # job[c] /\ store'[id] = NoSession) => store[id].user = job[c].user]_vars
=============================================================================
