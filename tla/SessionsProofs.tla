--------------------------- MODULE SessionsProofs ---------------------------
(***************************************************************************)
(* Proofs about Sessions, for every set of ids, users, fields and calls,   *)
(* both storages and any times to live.                                    *)
(***************************************************************************)
EXTENDS Sessions, TLAPS

USE ConstantsAssumption, NothingIsNoValue

LEMMA PutTypes ==
  ASSUME TypeOK, NEW id \in Ids, NEW s \in Session, Put(id, s)
  PROVE  store' \in [Ids -> Session \cup {NoSession}]
BY Zenon DEF TypeOK, Put

LEMMA RemoveAllTypes ==
  ASSUME TypeOK, NEW S, RemoveAll(S)
  PROVE  store' \in [Ids -> Session \cup {NoSession}]
BY Zenon DEF TypeOK, RemoveAll

\* Begin, Goto and End keep the types of what they write.
LEMMA CallTypes ==
  ASSUME TypeOK, NEW c \in Calls, NEW j \in Jobs \cup {NoJob},
         job' = [job EXCEPT ![c] = j]
  PROVE  job' \in [Calls -> Jobs \cup {NoJob}]
BY Zenon DEF TypeOK

LEMMA BeginTypes ==
  ASSUME TypeOK, NEW c \in Calls, NEW j \in Jobs, Begin(c, j)
  PROVE  /\ job' \in [Calls -> Jobs \cup {NoJob}]
         /\ queue' \in Seq(Calls)
         /\ answer' \in Answers \cup {Null}
<1>1. job' \in [Calls -> Jobs \cup {NoJob}]
  BY CallTypes DEF Begin
<1>2. queue' \in Seq(Calls) /\ answer' \in Answers \cup {Null}
  BY DEF TypeOK, Begin
<1> QED
  BY <1>1, <1>2

LEMMA EndTypes ==
  ASSUME TypeOK, NEW c \in Calls, NEW what, NEW id, NEW ops,
         [is |-> what, id |-> id] \in Answers, Turn(c, ops), End(c, what, id)
  PROVE  /\ job' \in [Calls -> Jobs \cup {NoJob}]
         /\ queue' \in Seq(Calls)
         /\ answer' \in Answers \cup {Null}
<1>1. job' \in [Calls -> Jobs \cup {NoJob}]
  BY CallTypes DEF End
<1>2. queue' \in Seq(Calls)
  BY DEF TypeOK, End, Turn
<1>3. answer' \in Answers \cup {Null}
  BY DEF End, Answer
<1> QED
  BY <1>1, <1>2, <1>3

\* What a job holds, by the operation it is of.
LEMMA JobShape ==
  ASSUME NEW j \in Jobs
  PROVE  /\ j.op \in {"find", "update"} => j.id \in Ids /\ j.seen \in Session
         /\ j.op = "update" => j.field \in Fields \cup {Null}
         /\ j.op \in {"deleteUser", "cleanup"} =>
              /\ j.doomed \in Ids \cup {Null}
              /\ \A k, d : /\ k \in SUBSET Ids /\ d \in Ids \cup {Null} =>
                               [j EXCEPT !.keys = k, !.doomed = d] \in Jobs
              /\ [j EXCEPT !.doomed = Null] \in Jobs
              /\ j.keys \in SUBSET Ids
BY DEF Jobs

LEMMA MergedTypes ==
  ASSUME now \in 0..MaxTime, NEW j \in Jobs, j.op = "update"
  PROVE  Merged(j) \in Session
BY JobShape DEF Merged, Session

LEMMA TypeInit == Init => TypeOK
BY DEF Init, TypeOK

-----------------------------------------------------------------------------
LEMMA CreateTypes ==
  ASSUME TypeOK, NEW id \in Ids, NEW u \in Users \cup {Null}, CreateSession(id, u)
  PROVE  TypeOK'
<1>1. [user |-> u, accessed |-> now, data |-> {}] \in Session
  BY DEF TypeOK, Session
<1>2. store' \in [Ids -> Session \cup {NoSession}]
  BY <1>1, PutTypes DEF CreateSession, TypeOK
<1>3. born' \subseteq Ids /\ answer' \in Answers \cup {Null}
  BY DEF CreateSession, TypeOK, Answer, Answers
<1> QED
  BY <1>2, <1>3 DEF CreateSession, TypeOK

LEMMA FindTypes ==
  ASSUME TypeOK, NEW c \in Calls, NEW id \in Ids, FindSession(c, id)
  PROVE  TypeOK'
<1>1. CASE UNCHANGED <<job, queue>> /\ \E what \in {"missing", "rejected"} : Answer(what, id)
  <2>1. answer' \in Answers \cup {Null}
    BY <1>1 DEF Answer, Answers
  <2> QED
    BY <1>1, <2>1 DEF FindSession, TypeOK
<1>2. CASE /\ store[id] # NoSession
           /\ Begin(c, [op |-> "find", id |-> id, seen |-> store[id]])
  <2>1. [op |-> "find", id |-> id, seen |-> store[id]] \in Jobs
    BY <1>2 DEF TypeOK, Jobs
  <2>2. /\ job' \in [Calls -> Jobs \cup {NoJob}]
        /\ queue' \in Seq(Calls)
        /\ answer' \in Answers \cup {Null}
    BY <1>2, <2>1, BeginTypes
  <2> QED
    BY <2>2 DEF FindSession, TypeOK
<1> QED
  BY <1>1, <1>2 DEF FindSession

LEMMA FindAnswersTypes ==
  ASSUME TypeOK, NEW c \in Calls, FindAnswers(c)
  PROVE  TypeOK'
<1>1. job[c] \in Jobs /\ job[c].op = "find"
  BY DEF FindAnswers, Turn, TypeOK
<1>2. job[c].id \in Ids
  BY <1>1, JobShape
<1>3. store' \in [Ids -> Session \cup {NoSession}]
  BY RemoveAllTypes DEF FindAnswers, TypeOK
<1>4. \A what \in {"missing", "found"} : [is |-> what, id |-> job[c].id] \in Answers
  BY <1>2 DEF Answers
<1>5. PICK what \in {"missing", "found"} : End(c, what, job[c].id)
  BY DEF FindAnswers
<1>6. /\ job' \in [Calls -> Jobs \cup {NoJob}]
      /\ queue' \in Seq(Calls)
      /\ answer' \in Answers \cup {Null}
  BY <1>4, <1>5, EndTypes DEF FindAnswers
<1> QED
  BY <1>3, <1>6 DEF FindAnswers, TypeOK

LEMMA UpdateTypes ==
  ASSUME TypeOK, NEW c \in Calls, NEW id \in Ids, NEW f \in Fields \cup {Null},
         UpdateSession(c, id, f)
  PROVE  TypeOK'
<1>1. CASE Connected /\ store[id] # NoSession
  <2>1. [op |-> "update", id |-> id, seen |-> store[id], field |-> f] \in Jobs
    BY <1>1 DEF TypeOK, Jobs
  <2>2. /\ job' \in [Calls -> Jobs \cup {NoJob}]
        /\ queue' \in Seq(Calls)
        /\ answer' \in Answers \cup {Null}
    BY <1>1, <2>1, BeginTypes DEF UpdateSession
  <2> QED
    BY <2>2 DEF UpdateSession, TypeOK
<1>2. CASE ~(Connected /\ store[id] # NoSession)
  <2>1. answer' \in Answers \cup {Null}
    BY <1>2 DEF UpdateSession, Answer, Answers
  <2> QED
    BY <1>2, <2>1 DEF UpdateSession, TypeOK
<1> QED
  BY <1>1, <1>2

LEMMA UpdateWritesTypes ==
  ASSUME TypeOK, NEW c \in Calls, UpdateWrites(c)
  PROVE  TypeOK'
<1>1. job[c] \in Jobs /\ job[c].op = "update"
  BY DEF UpdateWrites, Turn, TypeOK
<1>2. job[c].id \in Ids
  BY <1>1, JobShape
<1>3. Merged(job[c]) \in Session
  BY <1>1, MergedTypes DEF TypeOK
<1>4. store' \in [Ids -> Session \cup {NoSession}]
  BY <1>2, <1>3, PutTypes DEF UpdateWrites, TypeOK
<1>5. PICK what \in {"updated", "failed"} : End(c, what, job[c].id)
  BY DEF UpdateWrites
<1>6. [is |-> what, id |-> job[c].id] \in Answers
  BY <1>2, <1>5 DEF Answers
<1>7. /\ job' \in [Calls -> Jobs \cup {NoJob}]
      /\ queue' \in Seq(Calls)
      /\ answer' \in Answers \cup {Null}
  BY <1>5, <1>6, EndTypes DEF UpdateWrites
<1> QED
  BY <1>4, <1>7 DEF UpdateWrites, TypeOK

LEMMA DeleteTypes ==
  ASSUME TypeOK, NEW id \in Ids, DeleteSession(id)
  PROVE  TypeOK'
<1>1. store' \in [Ids -> Session \cup {NoSession}]
  BY RemoveAllTypes DEF DeleteSession, TypeOK
<1>2. answer' \in Answers \cup {Null}
  BY DEF DeleteSession, Answer, Answers
<1> QED
  BY <1>1, <1>2 DEF DeleteSession, TypeOK

LEMMA SweepMemoryTypes ==
  ASSUME TypeOK, NEW S, SweepMemory(S)
  PROVE  TypeOK'
<1>1. store' \in [Ids -> Session \cup {NoSession}]
  BY RemoveAllTypes DEF SweepMemory
<1>2. answer' \in Answers \cup {Null}
  BY DEF SweepMemory, Answer, Answers
<1> QED
  BY <1>1, <1>2 DEF SweepMemory, TypeOK

LEMMA SweepRedisTypes ==
  ASSUME TypeOK, NEW c \in Calls, NEW j \in Jobs, SweepRedis(c, j)
  PROVE  TypeOK'
<1>1. CASE Connected
  <2>1. /\ job' \in [Calls -> Jobs \cup {NoJob}]
        /\ queue' \in Seq(Calls)
        /\ answer' \in Answers \cup {Null}
    BY <1>1, BeginTypes DEF SweepRedis
  <2> QED
    BY <2>1 DEF SweepRedis, TypeOK
<1>2. CASE ~Connected
  <2>1. answer' \in Answers \cup {Null}
    BY <1>2 DEF SweepRedis, Answer, Answers
  <2> QED
    BY <1>2, <2>1 DEF SweepRedis, TypeOK
<1> QED
  BY <1>1, <1>2

LEMMA SweepsTypes ==
  ASSUME TypeOK, NEW c \in Calls,
         \/ \E u \in Users : DeleteUserSessions(c, u)
         \/ CleanupExpiredSessions(c)
         \/ ClearAllSessions(c)
  PROVE  TypeOK'
<1>1. Kept \subseteq Ids /\ now \in 0..MaxTime
  BY DEF Kept, TypeOK
<1>2. [op |-> "clear", keys |-> Kept] \in Jobs
  BY <1>1 DEF Jobs
<1>3. [op |-> "cleanup", start |-> now, keys |-> Kept, doomed |-> Null] \in Jobs
  BY <1>1 DEF Jobs
<1>4. \A u \in Users : [op |-> "deleteUser", user |-> u, keys |-> Kept, doomed |-> Null] \in Jobs
  BY <1>1 DEF Jobs
<1>5. CASE \E u \in Users : DeleteUserSessions(c, u)
  BY <1>4, <1>5, SweepMemoryTypes, SweepRedisTypes DEF DeleteUserSessions
<1>6. CASE CleanupExpiredSessions(c)
  BY <1>3, <1>6, SweepMemoryTypes, SweepRedisTypes DEF CleanupExpiredSessions
<1>7. CASE ClearAllSessions(c)
  BY <1>2, <1>7, SweepMemoryTypes, SweepRedisTypes DEF ClearAllSessions
<1> QED
  BY <1>5, <1>6, <1>7

LEMMA SweepGetsTypes ==
  ASSUME TypeOK, NEW c \in Calls, NEW k \in Ids, SweepGets(c, k)
  PROVE  TypeOK'
<1> DEFINE hit == store[k] # NoSession /\ Doomed(job[c], store[k])
           d == IF hit THEN k ELSE Null
           rest == job[c].keys \ {k}
           j == [job[c] EXCEPT !.keys = rest, !.doomed = d]
<1>1. job[c] \in Jobs /\ job[c].op \in {"deleteUser", "cleanup"}
  BY DEF SweepGets, Sweeping, Turn, TypeOK
<1>2. d \in Ids \cup {Null} /\ rest \in SUBSET Ids
  <2>1. job[c].keys \in SUBSET Ids
    BY <1>1, JobShape
  <2> QED
    BY <2>1
<1>3. j \in Jobs
  <2> HIDE DEF rest, d
  <2> QED
    BY <1>1, <1>2, JobShape
<1>4. job' = [job EXCEPT ![c] = j] /\ UNCHANGED <<queue, answer>>
  BY DEF SweepGets, Goto
<1>5. job' \in [Calls -> Jobs \cup {NoJob}]
  <2> HIDE DEF j
  <2> QED
    BY <1>3, <1>4, CallTypes
<1> QED
  BY <1>4, <1>5 DEF SweepGets, TypeOK

LEMMA SweepDelsTypes ==
  ASSUME TypeOK, NEW c \in Calls, SweepDels(c)
  PROVE  TypeOK'
<1> DEFINE j == [job[c] EXCEPT !.doomed = Null]
<1>1. job[c] \in Jobs /\ job[c].op \in {"deleteUser", "cleanup"}
  BY DEF SweepDels, Sweeping, Turn, TypeOK
<1>2. j \in Jobs
  BY <1>1, JobShape
<1>3. job' = [job EXCEPT ![c] = j] /\ UNCHANGED <<queue, answer>>
  BY DEF SweepDels, Goto
<1>4. job' \in [Calls -> Jobs \cup {NoJob}]
  <2> HIDE DEF j
  <2> QED
    BY <1>2, <1>3, CallTypes
<1>5. store' \in [Ids -> Session \cup {NoSession}]
  BY RemoveAllTypes DEF SweepDels
<1> QED
  BY <1>3, <1>4, <1>5 DEF SweepDels, TypeOK

LEMMA CallEndsTypes ==
  ASSUME TypeOK, NEW c \in Calls, SweepEnds(c) \/ ClearDels(c) \/ CommandFails(c)
  PROVE  TypeOK'
<1>1. PICK what \in {"swept", "failed"} : End(c, what, Null)
  BY DEF SweepEnds, ClearDels, CommandFails
<1>2. Redis
  BY DEF SweepEnds, Sweeping, ClearDels, CommandFails
<1>3. job' \in [Calls -> Jobs \cup {NoJob}]
  BY <1>1, CallTypes DEF End
<1>4. queue' \in Seq(Calls) /\ answer' \in Answers \cup {Null}
  BY <1>1, <1>2 DEF End, Answer, Answers, TypeOK
<1>5. store' \in [Ids -> Session \cup {NoSession}]
  BY RemoveAllTypes DEF SweepEnds, ClearDels, CommandFails, TypeOK
<1> QED
  BY <1>3, <1>4, <1>5 DEF SweepEnds, ClearDels, CommandFails, TypeOK

LEMMA TickTypes ==
  ASSUME TypeOK, Tick
  PROVE  TypeOK'
<1>1. store' \in [Ids -> Session \cup {NoSession}]
  BY RemoveAllTypes DEF Tick
<1>2. now' \in 0..MaxTime
  BY DEF Tick, TypeOK
<1> QED
  BY <1>1, <1>2 DEF Tick, TypeOK

LEMMA TypeNext == TypeOK /\ [Next]_vars => TypeOK'
<1> SUFFICES ASSUME TypeOK, [Next]_vars
             PROVE  TypeOK'
  OBVIOUS
<1>1. CASE RedisOff \/ MakeClient \/ PingAnswered \/ PingFailed
  BY <1>1 DEF RedisOff, MakeClient, PingAnswered, PingFailed, TypeOK
<1>2. CASE Tick
  BY <1>2, TickTypes
<1>3. CASE \E id \in Ids : \/ \E u \in Users \cup {Null} : CreateSession(id, u)
                          \/ DeleteSession(id)
  BY <1>3, CreateTypes, DeleteTypes
<1>4. ASSUME NEW c \in Calls, NEW id \in Ids,
             FindSession(c, id) \/ \E f \in Fields \cup {Null} : UpdateSession(c, id, f)
      PROVE  TypeOK'
  BY <1>4, FindTypes, UpdateTypes
<1>5. ASSUME NEW c \in Calls,
             \/ \E u \in Users : DeleteUserSessions(c, u)
             \/ CleanupExpiredSessions(c)
             \/ ClearAllSessions(c)
      PROVE  TypeOK'
  BY <1>5, SweepsTypes
<1>6. ASSUME NEW c \in Calls, Continue(c)
      PROVE  TypeOK'
  BY <1>6, FindAnswersTypes, UpdateWritesTypes, SweepGetsTypes, SweepDelsTypes, CallEndsTypes
     DEF Continue
<1>7. CASE UNCHANGED vars
  BY <1>7 DEF vars, TypeOK
<1> QED
  BY <1>1, <1>2, <1>3, <1>4, <1>5, <1>6, <1>7 DEF Next

\* Every variable of the sessions keeps its type, on both storages.
THEOREM TypeCorrect == Spec => []TypeOK
<1>1. Init => TypeOK
  BY TypeInit
<1>2. TypeOK /\ [Next]_vars => TypeOK'
  BY TypeNext
<1> QED
  BY <1>1, <1>2, PTL DEF Spec

-----------------------------------------------------------------------------
(* MemoryStorage implements SessionLife.                                   *)

\* What is kept has been given out.
KeptIsBorn == \A id \in Ids : store[id] # NoSession => id \in born

LifeOf(b, s) == [id \in Ids |-> IF id \notin b THEN "unborn"
                              ELSE IF s[id] # NoSession THEN "live" ELSE "gone"]

LEMMA RemoveSteps ==
  ASSUME TypeOK, KeptIsBorn, NEW S \in SUBSET Kept, RemoveAll(S), born' = born
  PROVE  KeptIsBorn' /\ Life!Next
<1>1. \A id \in Ids : store'[id] = IF id \in S THEN NoSession ELSE store[id]
  BY DEF RemoveAll
<1>2. KeptIsBorn'
  BY <1>1 DEF KeptIsBorn
<1>3. S \in SUBSET Ids /\ \A id \in S : LifeOf(born, store)[id] = "live"
  BY DEF Kept, KeptIsBorn, LifeOf
<1>4. LifeOf(born', store') = [id \in Ids |-> IF id \in S THEN "gone" ELSE LifeOf(born, store)[id]]
  <2>1. \A id \in Ids : LifeOf(born', store')[id]
                      = IF id \in S THEN "gone" ELSE LifeOf(born, store)[id]
    BY <1>1, <1>3 DEF LifeOf, Kept, KeptIsBorn
  <2> QED
    BY <2>1 DEF LifeOf
<1>5. Life!Remove(S)
  BY <1>3, <1>4 DEF Life!Remove, LifeOf
<1> QED
  BY <1>2, <1>3, <1>5 DEF Life!Next

LEMMA KeepSteps ==
  ASSUME KeptIsBorn, born' = born,
         \A id \in Ids : store'[id] = NoSession <=> store[id] = NoSession
  PROVE  KeptIsBorn' /\ LifeOf(born', store') = LifeOf(born, store)
BY DEF KeptIsBorn, LifeOf

LEMMA CreateSteps ==
  ASSUME TypeOK, KeptIsBorn, ~Redis, NEW id \in Ids, NEW u \in Users \cup {Null},
         CreateSession(id, u)
  PROVE  KeptIsBorn' /\ Life!Next
<1> DEFINE s == [user |-> u, accessed |-> now, data |-> {}]
<1>1. s \in Session /\ s # NoSession
  BY DEF TypeOK, Session
<1>2. id \notin born /\ born' = born \cup {id} /\ store' = [store EXCEPT ![id] = s]
  BY DEF CreateSession, Connected, Put
<1> HIDE DEF s
<1>3. \A i \in Ids : store'[i] = IF i = id THEN s ELSE store[i]
  BY <1>2 DEF TypeOK
<1>4. KeptIsBorn'
  BY <1>2, <1>3 DEF KeptIsBorn
<1>5. LifeOf(born, store)[id] = "unborn"
  BY <1>2 DEF LifeOf
<1>6. LifeOf(born', store') = [LifeOf(born, store) EXCEPT ![id] = "live"]
  <2>1. \A i \in Ids : LifeOf(born', store')[i] = [LifeOf(born, store) EXCEPT ![id] = "live"][i]
    BY <1>1, <1>2, <1>3 DEF LifeOf
  <2> QED
    BY <2>1 DEF LifeOf
<1>7. Life!Create(id)
  BY <1>5, <1>6 DEF Life!Create, LifeOf
<1> QED
  BY <1>4, <1>7 DEF Life!Next

LEMMA UpdateWritesSteps ==
  ASSUME TypeOK, KeptIsBorn, ~Redis, NEW c \in Calls, UpdateWrites(c)
  PROVE  KeptIsBorn' /\ LifeOf(born', store') = LifeOf(born, store)
<1>1. job[c] \in Jobs /\ job[c].op = "update" /\ born' = born
  BY DEF UpdateWrites, Turn, TypeOK
<1>2. job[c].id \in Ids
  BY <1>1, JobShape
<1>3. CASE store[job[c].id] # NoSession
  <2>1. Merged(job[c]) \in Session /\ Merged(job[c]) # NoSession
    BY <1>1, MergedTypes DEF TypeOK
  <2>2. store' = [store EXCEPT ![job[c].id] = Merged(job[c])]
    BY <1>3 DEF UpdateWrites, Connected, Put
  <2>3. \A id \in Ids : store'[id] = NoSession <=> store[id] = NoSession
    BY <1>2, <1>3, <2>1, <2>2 DEF TypeOK
  <2> QED
    BY <1>1, <2>3, KeepSteps
<1>4. CASE store[job[c].id] = NoSession
  BY <1>1, <1>4, KeepSteps DEF UpdateWrites
<1> QED
  BY <1>3, <1>4

LEMMA FindAnswersSteps ==
  ASSUME TypeOK, KeptIsBorn, ~Redis, NEW c \in Calls, FindAnswers(c)
  PROVE  KeptIsBorn' /\ (Life!Next \/ LifeOf(born', store') = LifeOf(born, store))
<1>1. job[c] \in Jobs /\ job[c].op = "find" /\ born' = born
  BY DEF FindAnswers, Turn, TypeOK
<1>2. job[c].id \in Ids
  BY <1>1, JobShape
<1>3. CASE UNCHANGED store
  BY <1>1, <1>3, KeepSteps
<1>4. CASE RemoveAll({job[c].id}) /\ store[job[c].id] # NoSession
  BY <1>1, <1>2, <1>4, RemoveSteps DEF Kept
<1>5. CASE RemoveAll({job[c].id}) /\ store[job[c].id] = NoSession
  <2>1. \A id \in Ids : store'[id] = NoSession <=> store[id] = NoSession
    BY <1>5 DEF RemoveAll
  <2> QED
    BY <1>1, <2>1, KeepSteps
<1> QED
  BY <1>3, <1>4, <1>5 DEF FindAnswers

LEMMA SweepSteps ==
  ASSUME TypeOK, KeptIsBorn, ~Redis, NEW c \in Calls,
         \/ \E u \in Users : DeleteUserSessions(c, u)
         \/ CleanupExpiredSessions(c)
         \/ ClearAllSessions(c)
  PROVE  KeptIsBorn' /\ Life!Next
<1>1. PICK S \in SUBSET Kept : SweepMemory(S)
  BY DEF DeleteUserSessions, CleanupExpiredSessions, ClearAllSessions, SweepRedis
<1> QED
  BY <1>1, RemoveSteps DEF SweepMemory

LEMMA DeleteSteps ==
  ASSUME TypeOK, KeptIsBorn, ~Redis, NEW id \in Ids, DeleteSession(id)
  PROVE  KeptIsBorn' /\ (Life!Next \/ LifeOf(born', store') = LifeOf(born, store))
<1>1. CASE store[id] # NoSession
  BY <1>1, RemoveSteps DEF DeleteSession, Connected, Kept
<1>2. CASE store[id] = NoSession
  BY <1>2, KeepSteps DEF DeleteSession
<1> QED
  BY <1>1, <1>2

LEMMA MemorySteps ==
  ASSUME ~Redis, TypeOK, KeptIsBorn, [Next]_vars
  PROVE  KeptIsBorn' /\ (Life!Next \/ LifeOf(born', store') = LifeOf(born, store))
<1>1. CASE UNCHANGED <<born, store>>
  BY <1>1, KeepSteps
<1>2. CASE Tick
  <2>1. \A id \in Ids : store'[id] = store[id]
    BY <1>2 DEF Tick, RemoveAll
  <2> QED
    BY <1>2, <2>1, KeepSteps DEF Tick
<1>3. CASE \E id \in Ids : \/ \E u \in Users \cup {Null} : CreateSession(id, u)
                          \/ DeleteSession(id)
  BY <1>3, CreateSteps, DeleteSteps
<1>4. ASSUME NEW c \in Calls,
             \/ \E u \in Users : DeleteUserSessions(c, u)
             \/ CleanupExpiredSessions(c)
             \/ ClearAllSessions(c)
      PROVE  KeptIsBorn' /\ (Life!Next \/ LifeOf(born', store') = LifeOf(born, store))
  BY <1>4, SweepSteps
<1>5. ASSUME NEW c \in Calls, NEW id \in Ids,
             FindSession(c, id) \/ \E f \in Fields \cup {Null} : UpdateSession(c, id, f)
      PROVE  UNCHANGED <<born, store>>
  BY <1>5 DEF FindSession, UpdateSession
<1>6. ASSUME NEW c \in Calls, Continue(c)
      PROVE  KeptIsBorn' /\ (Life!Next \/ LifeOf(born', store') = LifeOf(born, store))
  BY <1>6, FindAnswersSteps, UpdateWritesSteps
     DEF Continue, SweepGets, SweepDels, SweepEnds, Sweeping, ClearDels, CommandFails
<1>7. RedisOff \/ MakeClient \/ PingAnswered \/ PingFailed \/ UNCHANGED vars
        => UNCHANGED <<born, store>>
  BY DEF RedisOff, MakeClient, PingAnswered, PingFailed, vars
<1> QED
  BY <1>1, <1>2, <1>3, <1>4, <1>5, <1>6, <1>7 DEF Next

\* Whatever calls overlap on the memory storage, a session is created once,
\* lives, and never comes back: it is the look MemoryStorage.update takes at
\* the map that makes it so.
THEOREM MemoryImplementsLife == ASSUME ~Redis PROVE Spec => ImplementsLife
<1>1. Init => KeptIsBorn /\ Life!Init
  BY DEF Init, KeptIsBorn, Life!Init
<1>2. TypeOK /\ KeptIsBorn /\ [Next]_vars
        => KeptIsBorn' /\ (Life!Next \/ LifeOf(born', store') = LifeOf(born, store))
  BY MemorySteps
<1>3. TypeOK /\ KeptIsBorn /\ [Next]_vars => [Life!Next]_(LifeOf(born, store))
  BY <1>2
<1>4. TypeOK /\ KeptIsBorn /\ [Next]_vars => KeptIsBorn'
  BY <1>2
<1> QED
  BY <1>1, <1>3, <1>4, TypeCorrect, PTL DEF Spec, ImplementsLife, Life!Spec, LifeOf

-----------------------------------------------------------------------------
(* A sweep of one user's sessions takes no session of someone else.        *)

\* Who an id belongs to is written in the session, in the copy an update has
\* read and will write back, and in the decision of a sweep that is about to
\* delete it.
JobSays(j, id, u) ==
  /\ j # NoJob
  /\ \/ j.op = "update" /\ j.id = id /\ j.seen.user = u
     \/ j.op = "deleteUser" /\ j.doomed = id /\ j.user = u

Owns(id, u) ==
  \/ id \in Kept /\ store[id].user = u
  \/ \E c \in Calls : JobSays(job[c], id, u)

\* They all agree, and speak of ids given out only: an id is given out once
\* and its session is always written back with the user it was read with.
OneOwner ==
  \A id \in Ids, u, v \in Users \cup {Null} :
    /\ Owns(id, u) /\ Owns(id, v) => u = v
    /\ Owns(id, u) => id \in born

LEMMA OwnersStay ==
  ASSUME OneOwner, born \subseteq born',
         \A id \in Ids, u \in Users \cup {Null} : Owns(id, u)' => Owns(id, u)
  PROVE  OneOwner'
BY DEF OneOwner

\* Sessions go or stay as they are, and a call goes on with what it, or the
\* table, has said before.
LEMMA CallGoesOn ==
  ASSUME TypeOK, OneOwner, born \subseteq born',
         \A id \in Ids : store'[id] \in {store[id], NoSession},
         NEW c \in Calls, NEW j, job' = [job EXCEPT ![c] = j],
         \A id \in Ids, u \in Users \cup {Null} : JobSays(j, id, u) => Owns(id, u)
  PROVE  OneOwner'
<1>1. ASSUME NEW id \in Ids, NEW u \in Users \cup {Null}, Owns(id, u)'
      PROVE  Owns(id, u)
  <2>1. CASE id \in Kept' /\ store'[id].user = u
    BY <2>1 DEF Owns, Kept
  <2>2. CASE \E d \in Calls : JobSays(job'[d], id, u)
    <3>1. PICK d \in Calls : JobSays(job'[d], id, u)
      BY <2>2
    <3>2. CASE d = c
      <4>1. job'[d] = j
        BY <3>2 DEF TypeOK
      <4> QED
        BY <3>1, <4>1
    <3>3. CASE d # c
      <4>1. job'[d] = job[d]
        BY <3>3 DEF TypeOK
      <4> QED
        BY <3>1, <4>1 DEF Owns
    <3> QED
      BY <3>2, <3>3
  <2> QED
    BY <1>1, <2>1, <2>2 DEF Owns, JobSays
<1> QED
  BY <1>1, OwnersStay

LEMMA SessionsGo ==
  ASSUME TypeOK, OneOwner, born \subseteq born',
         \A id \in Ids : store'[id] \in {store[id], NoSession}, UNCHANGED job
  PROVE  OneOwner'
<1>1. ASSUME NEW id \in Ids, NEW u \in Users \cup {Null}, Owns(id, u)'
      PROVE  Owns(id, u)
  BY <1>1 DEF Owns, Kept, JobSays
<1> QED
  BY <1>1, OwnersStay

LEMMA RemovedGo ==
  ASSUME NEW S, RemoveAll(S)
  PROVE  \A id \in Ids : store'[id] \in {store[id], NoSession}
BY DEF RemoveAll

LEMMA CreateOwner ==
  ASSUME TypeOK, OneOwner, NEW id \in Ids, NEW u \in Users \cup {Null}, CreateSession(id, u)
  PROVE  OneOwner'
<1>1. CASE ~Connected
  BY <1>1, SessionsGo DEF CreateSession
<1>2. CASE Connected
  <2> DEFINE s == [user |-> u, accessed |-> now, data |-> {}]
  <2>1. id \notin born /\ born' = born \cup {id} /\ store' = [store EXCEPT ![id] = s] /\ job' = job
    BY <1>2 DEF CreateSession, Put
  <2>2. s.user = u
    OBVIOUS
  <2> HIDE DEF s
  <2>3. \A i \in Ids : store'[i] = IF i = id THEN s ELSE store[i]
    BY <2>1 DEF TypeOK
  <2>4. \A i \in Ids \ {id}, v \in Users \cup {Null} : Owns(i, v)' => Owns(i, v)
    BY <2>1, <2>3 DEF Owns, Kept, JobSays
  <2>5. \A v \in Users \cup {Null} : Owns(id, v)' => v = u
    <3> SUFFICES ASSUME NEW v \in Users \cup {Null}, Owns(id, v)' PROVE v = u
      OBVIOUS
    <3>1. ~ \E c \in Calls : JobSays(job[c], id, v)
      BY <2>1 DEF OneOwner, Owns
    <3> QED
      BY <2>1, <2>2, <2>3, <3>1 DEF Owns, JobSays
  <2> QED
    BY <2>1, <2>4, <2>5 DEF OneOwner
<1> QED
  BY <1>1, <1>2

LEMMA UpdateWritesOwner ==
  ASSUME TypeOK, OneOwner, NEW c \in Calls, UpdateWrites(c)
  PROVE  OneOwner'
<1> DEFINE j == job[c]
<1>1. /\ j \in Jobs /\ j # NoJob /\ j.op = "update" /\ j.id \in Ids /\ j.seen \in Session
      /\ job' = [job EXCEPT ![c] = NoJob] /\ born' = born
  BY JobShape DEF UpdateWrites, Turn, End, TypeOK
<1>2. CASE UNCHANGED store
  BY <1>1, <1>2, CallGoesOn DEF JobSays
<1>3. CASE Put(j.id, Merged(j))
  <2>1. Merged(j).user = j.seen.user
    BY <1>1 DEF Merged, Session
  <2>2. \A id \in Ids : store'[id] = IF id = j.id THEN Merged(j) ELSE store[id]
    BY <1>3 DEF Put, TypeOK
  <2>3. ASSUME NEW id \in Ids, NEW u \in Users \cup {Null}, Owns(id, u)'
        PROVE  Owns(id, u)
    <3>1. CASE id \in Kept' /\ store'[id].user = u
      <4>1. CASE id = j.id
        BY <1>1, <2>1, <2>2, <3>1, <4>1 DEF Owns, JobSays
      <4>2. CASE id # j.id
        BY <2>2, <3>1, <4>2 DEF Owns, Kept
      <4> QED
        BY <4>1, <4>2
    <3>2. CASE \E d \in Calls : JobSays(job'[d], id, u)
      <4>1. PICK d \in Calls : JobSays(job'[d], id, u)
        BY <3>2
      <4>2. d # c
        BY <1>1, <4>1 DEF JobSays, TypeOK
      <4>3. job'[d] = job[d]
        BY <1>1, <4>2 DEF TypeOK
      <4> QED
        BY <4>1, <4>3 DEF Owns
    <3> QED
      BY <2>3, <3>1, <3>2 DEF Owns, JobSays
  <2> QED
    BY <1>1, <2>3, OwnersStay
<1> QED
  BY <1>2, <1>3 DEF UpdateWrites

LEMMA BeginOwner ==
  ASSUME TypeOK, OneOwner, NEW c \in Calls, UNCHANGED <<born, store>>,
         \/ \E id \in Ids : FindSession(c, id)
         \/ \E id \in Ids, f \in Fields \cup {Null} : UpdateSession(c, id, f)
         \/ \E u \in Users : DeleteUserSessions(c, u)
         \/ CleanupExpiredSessions(c)
         \/ ClearAllSessions(c)
  PROVE  OneOwner'
<1>1. CASE UNCHANGED job
  BY <1>1, SessionsGo
<1>2. ASSUME NEW j, Begin(c, j),
             \A id \in Ids, u \in Users \cup {Null} : JobSays(j, id, u) => Owns(id, u)
      PROVE  OneOwner'
  BY <1>2, CallGoesOn DEF Begin
<1>3. ASSUME NEW id \in Ids, FindSession(c, id) PROVE OneOwner'
  BY <1>1, <1>2, <1>3 DEF FindSession, JobSays
<1>4. ASSUME NEW id \in Ids, NEW f \in Fields \cup {Null}, UpdateSession(c, id, f) PROVE OneOwner'
  BY <1>1, <1>2, <1>4 DEF UpdateSession, JobSays, Owns, Kept
<1>5. ASSUME NEW j, SweepRedis(c, j), j.op = "deleteUser" => j.doomed = Null, j.op # "update"
      PROVE  OneOwner'
  BY <1>1, <1>2, <1>5 DEF SweepRedis, JobSays
<1>6. ASSUME NEW S, SweepMemory(S) PROVE OneOwner'
  BY <1>1, <1>6 DEF SweepMemory
<1> QED
  BY <1>3, <1>4, <1>5, <1>6 DEF DeleteUserSessions, CleanupExpiredSessions, ClearAllSessions

LEMMA SweepOwner ==
  ASSUME TypeOK, OneOwner, NEW c \in Calls,
         (\E k \in Ids : SweepGets(c, k)) \/ SweepDels(c)
  PROVE  OneOwner'
<1>1. job[c] \in Jobs /\ job[c].op \in {"deleteUser", "cleanup"} /\ born' = born
  BY DEF SweepGets, SweepDels, Sweeping, Turn, TypeOK
<1>2. job[c] \in   [op : {"deleteUser"}, user : Users, keys : SUBSET Ids, doomed : Ids \cup {Null}]
              \cup [op : {"cleanup"}, start : 0..MaxTime, keys : SUBSET Ids, doomed : Ids \cup {Null}]
  BY <1>1 DEF Jobs
<1>3. ASSUME NEW k \in Ids, SweepGets(c, k) PROVE OneOwner'
  <2> DEFINE hit == store[k] # NoSession /\ Doomed(job[c], store[k])
             d == IF hit THEN k ELSE Null
             rest == job[c].keys \ {k}
             j == [job[c] EXCEPT !.keys = rest, !.doomed = d]
  <2>1. job' = [job EXCEPT ![c] = j] /\ store' = store
    BY <1>3 DEF SweepGets, Goto
  <2>2. d \in Ids => d = k /\ k \in Kept /\ Doomed(job[c], store[k])
    BY DEF Kept
  <2> HIDE DEF d, rest
  <2>3. j.op = job[c].op /\ j.doomed = d /\ (j.op = "deleteUser" => j.user = job[c].user)
    BY <1>2
  <2> HIDE DEF j
  <2>4. \A id \in Ids, u \in Users \cup {Null} : JobSays(j, id, u) => Owns(id, u)
    BY <1>1, <2>2, <2>3 DEF JobSays, Owns, Doomed
  <2> QED
    BY <1>1, <2>1, <2>4, CallGoesOn
<1>4. CASE SweepDels(c)
  <2> DEFINE j == [job[c] EXCEPT !.doomed = Null]
  <2>1. job' = [job EXCEPT ![c] = j] /\ \A id \in Ids : store'[id] \in {store[id], NoSession}
    BY <1>4, RemovedGo DEF SweepDels, Goto
  <2>2. j.op = job[c].op /\ j.doomed = Null
    BY <1>2
  <2> HIDE DEF j
  <2> QED
    BY <1>1, <2>1, <2>2, CallGoesOn DEF JobSays
<1> QED
  BY <1>3, <1>4

LEMMA OneOwnerNext == TypeOK /\ OneOwner /\ [Next]_vars => OneOwner'
<1> SUFFICES ASSUME TypeOK, OneOwner, [Next]_vars
             PROVE  OneOwner'
  OBVIOUS
<1>1. CASE UNCHANGED vars \/ RedisOff \/ MakeClient \/ PingAnswered \/ PingFailed
  BY <1>1, SessionsGo DEF vars, RedisOff, MakeClient, PingAnswered, PingFailed
<1>2. CASE Tick
  BY <1>2, RemovedGo, SessionsGo DEF Tick
<1>3. ASSUME NEW id \in Ids, DeleteSession(id) PROVE OneOwner'
  BY <1>3, RemovedGo, SessionsGo DEF DeleteSession
<1>4. ASSUME NEW c \in Calls,
             \/ \E id \in Ids : FindSession(c, id)
             \/ \E id \in Ids, f \in Fields \cup {Null} : UpdateSession(c, id, f)
             \/ \E u \in Users : DeleteUserSessions(c, u)
             \/ CleanupExpiredSessions(c)
             \/ ClearAllSessions(c)
      PROVE  OneOwner'
  <2>1. CASE \E S : SweepMemory(S)
    BY <2>1, RemovedGo, SessionsGo DEF SweepMemory
  <2>2. CASE ~ \E S : SweepMemory(S)
    <3>1. UNCHANGED <<born, store>>
      BY <1>4, <2>2
      DEF FindSession, UpdateSession, DeleteUserSessions, CleanupExpiredSessions,
          ClearAllSessions, SweepRedis
    <3> QED
      BY <1>4, <3>1, BeginOwner
  <2> QED
    BY <2>1, <2>2
<1>5. ASSUME NEW c \in Calls, FindAnswers(c) \/ SweepEnds(c) \/ ClearDels(c) \/ CommandFails(c)
      PROVE  OneOwner'
  <2>1. job' = [job EXCEPT ![c] = NoJob] /\ born' = born
    BY <1>5 DEF FindAnswers, SweepEnds, ClearDels, CommandFails, End
  <2>2. \A id \in Ids : store'[id] \in {store[id], NoSession}
    BY <1>5, RemovedGo DEF FindAnswers, SweepEnds, ClearDels, CommandFails
  <2> QED
    BY <2>1, <2>2, CallGoesOn DEF JobSays
<1> QED
  BY <1>1, <1>2, <1>3, <1>4, <1>5, CreateOwner, UpdateWritesOwner, SweepOwner DEF Next, Continue

LEMMA OwnersAgree == Spec => [](TypeOK /\ OneOwner)
<1>1. Init => TypeOK /\ OneOwner
  BY TypeInit DEF Init, OneOwner, Owns, Kept, JobSays
<1>2. TypeOK /\ OneOwner /\ [Next]_vars => (TypeOK /\ OneOwner)'
  BY TypeNext, OneOwnerNext
<1> QED
  BY <1>1, <1>2, PTL DEF Spec

\* Only its own steps move a call that is in flight.
LEMMA MovesItself ==
  ASSUME TypeOK, NEW c \in Calls, job[c] # NoJob, Next, job'[c] # job[c]
  PROVE  Continue(c)
<1>1. ASSUME NEW d \in Calls, NEW j, Begin(d, j) PROVE FALSE
  BY <1>1 DEF Begin, TypeOK
<1>2. ASSUME NEW d \in Calls, Continue(d) PROVE d = c
  <2>1. \E j : job' = [job EXCEPT ![d] = j]
    BY <1>2
    DEF Continue, FindAnswers, UpdateWrites, SweepGets, SweepDels, SweepEnds, ClearDels,
        CommandFails, Goto, End
  <2> QED
    BY <2>1 DEF TypeOK
<1>3. ASSUME NEW d \in Calls,
             \/ \E id \in Ids :
                  \/ FindSession(d, id)
                  \/ \E f \in Fields \cup {Null} : UpdateSession(d, id, f)
             \/ \E u \in Users : DeleteUserSessions(d, u)
             \/ CleanupExpiredSessions(d)
             \/ ClearAllSessions(d)
      PROVE  FALSE
  BY <1>1, <1>3
  DEF FindSession, UpdateSession, DeleteUserSessions, CleanupExpiredSessions, ClearAllSessions,
      SweepMemory, SweepRedis
<1> QED
  BY <1>2, <1>3
  DEF Next, RedisOff, MakeClient, PingAnswered, PingFailed, Tick, CreateSession, DeleteSession

\* OthersSurvive, for either storage and any number of sessions, users and
\* commands in flight: between the get and the del of a sweep the session it
\* has decided about can only have been written back for the same user.
THEOREM SweepsTakeTheirOwn == Spec => OthersSurvive
<1>1. TypeOK /\ OneOwner /\ [Next]_vars =>
        [\A c \in Calls, id \in Kept :
           (/\ job[c] # NoJob /\ job[c].op = "deleteUser"
            /\ job'[c] # job[c] /\ store'[id] = NoSession) => store[id].user = job[c].user]_vars
  <2> SUFFICES ASSUME TypeOK, OneOwner, Next, NEW c \in Calls, NEW id \in Kept,
                      job[c] # NoJob, job[c].op = "deleteUser", job'[c] # job[c],
                      store'[id] = NoSession
               PROVE  store[id].user = job[c].user
    BY DEF vars
  <2>1. Continue(c)
    BY MovesItself
  <2>2. SweepDels(c)
    BY <2>1
    DEF Continue, FindAnswers, UpdateWrites, SweepGets, SweepEnds, ClearDels, CommandFails, Turn,
        Kept
  <2>3. id = job[c].doomed /\ id \in Ids
    BY <2>2 DEF SweepDels, RemoveAll, Kept
  <2>4. job[c].user \in Users \cup {Null} /\ store[id].user \in Users \cup {Null}
    <3>1. job[c] \in Jobs /\ store[id] \in Session
      BY DEF TypeOK, Kept
    <3> QED
      BY <3>1 DEF Jobs, Session
  <2>5. Owns(id, job[c].user) /\ Owns(id, store[id].user)
    BY <2>3 DEF Owns, JobSays
  <2> QED
    BY <2>3, <2>4, <2>5 DEF OneOwner
<1> QED
  BY <1>1, OwnersAgree, PTL DEF Spec, OthersSurvive

-----------------------------------------------------------------------------
(* Either storage implements SessionLife for the sessions that are kept or *)
(* that an update in flight has read.                                      *)

HeldIsBorn == \A id \in Ids : id \in Held => id \in born

HeldLifeNow == [id \in Ids |-> IF id \notin born THEN "unborn"
                              ELSE IF id \in Held THEN "live" ELSE "gone"]

Updates(j, id) == j # NoJob /\ j.op = "update" /\ j.id = id

\* A step that gives out no id and takes hold of no session is a removal.
LEMMA HoldsEnd ==
  ASSUME HeldIsBorn, born' = born, \A id \in Ids : id \in Held' => id \in Held
  PROVE  HeldIsBorn' /\ HeldLife!Next
<1>0. PICK S : S = {id \in Ids : id \in Held /\ id \notin Held'}
  OBVIOUS
<1>1. HeldIsBorn'
  BY DEF HeldIsBorn
<1>2. S \in SUBSET Ids /\ \A id \in S : HeldLifeNow[id] = "live"
  BY <1>0 DEF HeldIsBorn, HeldLifeNow
<1>3. HeldLifeNow' = [id \in Ids |-> IF id \in S THEN "gone" ELSE HeldLifeNow[id]]
  <2>1. \A id \in Ids : HeldLifeNow'[id] = IF id \in S THEN "gone" ELSE HeldLifeNow[id]
    BY <1>0 DEF HeldIsBorn, HeldLifeNow
  <2> QED
    BY <2>1 DEF HeldLifeNow
<1>4. HeldLife!Remove(S)
  BY <1>2, <1>3 DEF HeldLife!Remove, HeldLifeNow
<1>5. HeldLife!Next
  BY <1>2, <1>4 DEF HeldLife!Next
<1> QED
  BY <1>1, <1>5

LEMMA CreateHolds ==
  ASSUME TypeOK, HeldIsBorn, NEW id \in Ids, NEW u \in Users \cup {Null}, CreateSession(id, u)
  PROVE  HeldIsBorn' /\ HeldLife!Next
<1>1. CASE ~Connected
  BY <1>1, HoldsEnd DEF CreateSession, Held, Kept, BeingUpdated
<1>2. CASE Connected
  <2> DEFINE s == [user |-> u, accessed |-> now, data |-> {}]
  <2>1. s \in Session /\ s # NoSession
    BY DEF TypeOK, Session
  <2>2. id \notin born /\ born' = born \cup {id} /\ store' = [store EXCEPT ![id] = s] /\ job' = job
    BY <1>2 DEF CreateSession, Put
  <2> HIDE DEF s
  <2>3. \A i \in Ids : store'[i] = IF i = id THEN s ELSE store[i]
    BY <2>2 DEF TypeOK
  <2>4. \A i \in Ids : i \in BeingUpdated' <=> i \in BeingUpdated
    BY <2>2 DEF BeingUpdated
  <2>5. \A i \in Ids : i \in Held' <=> (i = id \/ i \in Held)
    BY <2>1, <2>3, <2>4 DEF Held, Kept
  <2>6. HeldIsBorn'
    BY <2>2, <2>5 DEF HeldIsBorn
  <2>7. HeldLifeNow[id] = "unborn"
    BY <2>2 DEF HeldLifeNow
  <2>8. HeldLifeNow' = [HeldLifeNow EXCEPT ![id] = "live"]
    <3>1. \A i \in Ids : HeldLifeNow'[i] = [HeldLifeNow EXCEPT ![id] = "live"][i]
      BY <2>2, <2>5 DEF HeldLifeNow
    <3> QED
      BY <3>1 DEF HeldLifeNow
  <2>9. HeldLife!Create(id)
    BY <2>7, <2>8 DEF HeldLife!Create, HeldLifeNow
  <2> QED
    BY <2>6, <2>9 DEF HeldLife!Next
<1> QED
  BY <1>1, <1>2

\* A call that moves on to j holds no more than before when j is no update,
\* and neither does a store that only loses sessions.
LEMMA CallHolds ==
  ASSUME TypeOK, NEW c \in Calls, NEW j, job' = [job EXCEPT ![c] = j],
         \A id \in Ids : Updates(j, id) => id \in Held,
         \A id \in Ids : store'[id] # NoSession => id \in Held
  PROVE  \A id \in Ids : id \in Held' => id \in Held
<1> SUFFICES ASSUME NEW id \in Ids, NEW d \in Calls, Updates(job'[d], id)
             PROVE  id \in Held
  BY DEF Held, Kept, BeingUpdated, Updates
<1>1. CASE d = c
  BY <1>1 DEF TypeOK
<1>2. CASE d # c
  <2>1. job'[d] = job[d]
    BY <1>2 DEF TypeOK
  <2> QED
    BY <2>1 DEF Held, Kept, BeingUpdated, Updates
<1> QED
  BY <1>1, <1>2

LEMMA SessionsEnd ==
  ASSUME HeldIsBorn, born' = born, UNCHANGED job,
         \A id \in Ids : store'[id] \in {store[id], NoSession}
  PROVE  HeldIsBorn' /\ HeldLife!Next
<1>1. \A id \in Ids : id \in Held' => id \in Held
  BY DEF Held, Kept, BeingUpdated
<1> QED
  BY <1>1, HoldsEnd

\* Where a call on the storage begins: an update has just read the session.
LEMMA BeginHolds ==
  ASSUME TypeOK, HeldIsBorn, NEW c \in Calls, UNCHANGED <<born, store>>,
         \/ \E id \in Ids : FindSession(c, id)
         \/ \E id \in Ids, f \in Fields \cup {Null} : UpdateSession(c, id, f)
         \/ \E u \in Users : DeleteUserSessions(c, u)
         \/ CleanupExpiredSessions(c)
         \/ ClearAllSessions(c)
  PROVE  HeldIsBorn' /\ HeldLife!Next
<1>1. CASE UNCHANGED job
  BY <1>1, SessionsEnd
<1>2. ASSUME NEW j, Begin(c, j), \A id \in Ids : Updates(j, id) => store[id] # NoSession
      PROVE  HeldIsBorn' /\ HeldLife!Next
  <2>1. \A id \in Ids : store'[id] # NoSession => id \in Held
    BY DEF Held, Kept
  <2>2. \A id \in Ids : Updates(j, id) => id \in Held
    BY <1>2 DEF Held, Kept
  <2> QED
    BY <1>2, <2>1, <2>2, CallHolds, HoldsEnd DEF Begin
<1>3. ASSUME NEW id \in Ids, FindSession(c, id) PROVE HeldIsBorn' /\ HeldLife!Next
  BY <1>1, <1>2, <1>3 DEF FindSession, Updates
<1>4. ASSUME NEW id \in Ids, NEW f \in Fields \cup {Null}, UpdateSession(c, id, f)
      PROVE  HeldIsBorn' /\ HeldLife!Next
  BY <1>1, <1>2, <1>4 DEF UpdateSession, Updates
<1>5. ASSUME NEW j, SweepRedis(c, j), j.op # "update" PROVE HeldIsBorn' /\ HeldLife!Next
  BY <1>1, <1>2, <1>5 DEF SweepRedis, Updates
<1>6. ASSUME NEW S, SweepMemory(S) PROVE HeldIsBorn' /\ HeldLife!Next
  BY <1>1, <1>6 DEF SweepMemory
<1> QED
  BY <1>3, <1>4, <1>5, <1>6 DEF DeleteUserSessions, CleanupExpiredSessions, ClearAllSessions

\* Where it goes on: an update writes what it has read, the others only remove.
LEMMA ContinueHolds ==
  ASSUME TypeOK, HeldIsBorn, NEW c \in Calls, Continue(c)
  PROVE  HeldIsBorn' /\ HeldLife!Next
<1>1. CASE UpdateWrites(c)
  <2>1. Updates(job[c], job[c].id) /\ job[c].id \in Ids
        /\ job' = [job EXCEPT ![c] = NoJob] /\ born' = born
    BY <1>1, JobShape DEF UpdateWrites, Turn, End, TypeOK, Updates
  <2>2. \A id \in Ids : id # job[c].id => store'[id] = store[id]
    BY <1>1 DEF UpdateWrites, Put, TypeOK
  <2>3. \A id \in Ids : store'[id] # NoSession => id \in Held
    BY <2>1, <2>2 DEF Held, Kept, BeingUpdated, Updates
  <2> QED
    BY <2>1, <2>3, CallHolds, HoldsEnd DEF Updates
<1>2. CASE FindAnswers(c) \/ SweepEnds(c) \/ ClearDels(c) \/ CommandFails(c)
  <2>1. job' = [job EXCEPT ![c] = NoJob] /\ born' = born
    BY <1>2 DEF FindAnswers, SweepEnds, ClearDels, CommandFails, End
  <2>2. \A id \in Ids : store'[id] \in {store[id], NoSession}
    BY <1>2, RemovedGo DEF FindAnswers, SweepEnds, ClearDels, CommandFails
  <2>3. \A id \in Ids : store'[id] # NoSession => id \in Held
    BY <2>2 DEF Held, Kept
  <2> QED
    BY <2>1, <2>3, CallHolds, HoldsEnd DEF Updates
<1>3. CASE (\E k \in Ids : SweepGets(c, k)) \/ SweepDels(c)
  <2>1. job[c] \in Jobs /\ job[c].op \in {"deleteUser", "cleanup"} /\ born' = born
    BY <1>3 DEF SweepGets, SweepDels, Sweeping, Turn, TypeOK
  <2>2. PICK j : job' = [job EXCEPT ![c] = j] /\ j.op = job[c].op
    <3>1. CASE SweepDels(c)
      <4>1. [job[c] EXCEPT !.doomed = Null].op = job[c].op
        BY <2>1 DEF Jobs
      <4> QED
        BY <3>1, <4>1 DEF SweepDels, Goto
    <3>2. ASSUME NEW k \in Ids, SweepGets(c, k)
          PROVE  \E j : job' = [job EXCEPT ![c] = j] /\ j.op = job[c].op
      <4> DEFINE rest == job[c].keys \ {k}
                 hit == store[k] # NoSession /\ Doomed(job[c], store[k])
                 d == IF hit THEN k ELSE Null
                 j == [job[c] EXCEPT !.keys = rest, !.doomed = d]
      <4>1. job' = [job EXCEPT ![c] = j]
        BY <3>2 DEF SweepGets, Goto
      <4>2. j.op = job[c].op
        <5> HIDE DEF rest, d
        <5> QED
          BY <2>1 DEF Jobs
      <4> HIDE DEF j
      <4> QED
        BY <4>1, <4>2
    <3> QED
      BY <1>3, <3>1, <3>2
  <2>3. \A id \in Ids : store'[id] \in {store[id], NoSession}
    BY <1>3, RemovedGo DEF SweepGets, SweepDels
  <2>4. \A id \in Ids : store'[id] # NoSession => id \in Held
    BY <2>3 DEF Held, Kept
  <2> QED
    BY <2>1, <2>2, <2>4, CallHolds, HoldsEnd DEF Updates
<1> QED
  BY <1>1, <1>2, <1>3 DEF Continue

LEMMA HeldNext == TypeOK /\ HeldIsBorn /\ [Next]_vars => HeldIsBorn' /\ [HeldLife!Next]_HeldLifeNow
<1> SUFFICES ASSUME TypeOK, HeldIsBorn, [Next]_vars
             PROVE  HeldIsBorn' /\ HeldLife!Next
  OBVIOUS
<1>1. CASE UNCHANGED vars \/ RedisOff \/ MakeClient \/ PingAnswered \/ PingFailed
  BY <1>1, SessionsEnd DEF vars, RedisOff, MakeClient, PingAnswered, PingFailed
<1>2. CASE Tick
  BY <1>2, RemovedGo, SessionsEnd DEF Tick
<1>3. ASSUME NEW id \in Ids, DeleteSession(id) PROVE HeldIsBorn' /\ HeldLife!Next
  BY <1>3, RemovedGo, SessionsEnd DEF DeleteSession
<1>4. ASSUME NEW c \in Calls,
             \/ \E id \in Ids : FindSession(c, id)
             \/ \E id \in Ids, f \in Fields \cup {Null} : UpdateSession(c, id, f)
             \/ \E u \in Users : DeleteUserSessions(c, u)
             \/ CleanupExpiredSessions(c)
             \/ ClearAllSessions(c)
      PROVE  HeldIsBorn' /\ HeldLife!Next
  <2>1. CASE \E S : SweepMemory(S)
    BY <2>1, RemovedGo, SessionsEnd DEF SweepMemory
  <2>2. CASE ~ \E S : SweepMemory(S)
    <3>1. UNCHANGED <<born, store>>
      BY <1>4, <2>2
      DEF FindSession, UpdateSession, DeleteUserSessions, CleanupExpiredSessions,
          ClearAllSessions, SweepRedis
    <3> QED
      BY <1>4, <3>1, BeginHolds
  <2> QED
    BY <2>1, <2>2
<1> QED
  BY <1>1, <1>2, <1>3, <1>4, CreateHolds, ContinueHolds DEF Next

\* ImplementsHeldLife, for either storage: an update that had read a session is
\* all that can bring it back once it was removed, and only until it answers.
THEOREM HeldImplementsLife == Spec => ImplementsHeldLife
<1>1. Init => TypeOK /\ HeldIsBorn /\ HeldLife!Init
  <2> SUFFICES ASSUME Init PROVE HeldIsBorn /\ HeldLife!Init
    BY TypeInit
  <2>1. \A id \in Ids : id \notin Held /\ id \notin born
    BY DEF Init, Held, Kept, BeingUpdated
  <2> QED
    BY <2>1 DEF HeldIsBorn, HeldLife!Init
<1>2. TypeOK /\ HeldIsBorn /\ [Next]_vars => (TypeOK /\ HeldIsBorn)' /\ [HeldLife!Next]_HeldLifeNow
  BY TypeNext, HeldNext
<1> QED
  BY <1>1, <1>2, PTL DEF Spec, ImplementsHeldLife, HeldLife!Spec, HeldLifeNow
=============================================================================
