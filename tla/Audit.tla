------------------------------- MODULE Audit -------------------------------
(***************************************************************************)
(* The audit plugin: the table audit_logs under AuditService, and a client *)
(* that reads it page by page while logs are written and cleaned up.       *)
(*                                                                         *)
(* A log gets its createdAt when the entity is made and its row when it is *)
(* flushed, so rows do not arrive in the order they are listed in.         *)
(***************************************************************************)
EXTENDS Server, Naturals, FiniteSets, Sequences

CONSTANTS
  LogIds,        \* primary keys, each drawn once
  LogTenants, LogUsers,
  GivenLogs,     \* bound: the dto's of the logs that are written
  PageLimit,     \* the client's limit
  MaxDays,       \* bound: daysToKeep
  LastDay        \* bound: the clock

AuditLogAction ==
  {"CREATE", "UPDATE", "DELETE", "LOGIN", "LOGOUT", "REGISTER",
   "PASSWORD_CHANGE", "PASSWORD_RESET", "EMAIL_VERIFY"}
AuditLogEntityType == {"USER", "TENANT", "ORGANIZATION", "ROLE", "PERMISSION"}
LogLevel == {"DEBUG", "INFO", "WARN", "ERROR", "CRITICAL"}

CreateAuditLogDto ==
  [tenantId: LogTenants, userId: LogUsers \cup {Nothing}, entityType: AuditLogEntityType,
   action: AuditLogAction, logLevel: LogLevel \cup {Nothing}]

ASSUME GivenLogsAreKnown == GivenLogs \subseteq CreateAuditLogDto
ASSUME PagesAreNat ==
  PageLimit \in Nat \ {0} /\ MaxDays \in Nat /\ LastDay \in Nat

VARIABLES
  log,      \* the table
  used,     \* primary keys given out
  trail,    \* where each request is
  today,    \* the clock
  reader,   \* the client that pages
  cutoff    \* history variable: the latest cut-off date of any clean-up

auditVars == <<log, used, trail, today, reader, cutoff>>

AuditLog ==
  [tenantId: LogTenants, userId: LogUsers \cup {Nothing}, entityType: AuditLogEntityType,
   action: AuditLogAction, logLevel: LogLevel, createdAt: 0 .. LastDay]

(* Nothing is a filter that is not set. *)
QueryAuditLogDto ==
  [tenantId: LogTenants \cup {Nothing}, userId: LogUsers \cup {Nothing},
   entityType: AuditLogEntityType \cup {Nothing}, action: AuditLogAction \cup {Nothing},
   logLevel: LogLevel \cup {Nothing},
   startDate: 0 .. LastDay \cup {Nothing}, endDate: 0 .. LastDay \cup {Nothing}]

AnyLog ==
  [f \in {"tenantId", "userId", "entityType", "action", "logLevel", "startDate", "endDate"} |-> Nothing]

Trail ==
  {Idle}
    \cup [op: {"insert"}, row: AuditLog]
    \cup [op: {"cleanup"}, old: SUBSET LogIds]

Reader ==
  {Idle}
    \cup [op: {"read", "done"}, query: QueryAuditLogDto, page: Nat,
          there: SUBSET LogIds, seen: SUBSET LogIds]

AudTypeOK ==
  /\ log \in [LogIds -> AuditLog \cup {Nothing}]
  /\ used \in SUBSET LogIds
  /\ trail \in [Requests -> Trail]
  /\ today \in 0 .. LastDay /\ cutoff \in 0 .. LastDay
  /\ reader \in Reader

AudInit ==
  /\ log = [i \in LogIds |-> Nothing]
  /\ used = {}
  /\ trail = [r \in Requests |-> Idle]
  /\ today = 0 /\ cutoff = 0
  /\ reader = Idle

Logs == {i \in LogIds : log[i] # Nothing}

-----------------------------------------------------------------------------
CreateLog(r, dto) ==
  /\ trail[r] = Idle
  /\ trail' = [trail EXCEPT ![r] =
       [op |-> "insert",
        row |-> [tenantId |-> dto.tenantId, userId |-> dto.userId, entityType |-> dto.entityType,
                 action |-> dto.action, createdAt |-> today,
                 logLevel |-> IF dto.logLevel = Nothing THEN "INFO" ELSE dto.logLevel]]]
  /\ UNCHANGED <<log, used, today, reader, cutoff>>

FlushLog(r, i) ==
  /\ trail[r].op = "insert"
  /\ i \notin used
  /\ log' = [log EXCEPT ![i] = trail[r].row]
  /\ used' = used \cup {i}
  /\ trail' = [trail EXCEPT ![r] = Idle]
  /\ UNCHANGED <<today, reader, cutoff>>

(* cleanupOldLogs reads the rows before the cut-off and removes, after an  *)
(* await, those it has read.                                               *)
CleanupOldLogs(r, daysToKeep) ==
  /\ trail[r] = Idle
  /\ daysToKeep <= today
  /\ LET cutoffDate == today - daysToKeep IN
       /\ trail' = [trail EXCEPT ![r] =
            [op |-> "cleanup", old |-> {i \in Logs : log[i].createdAt < cutoffDate}]]
       /\ cutoff' = IF cutoffDate > cutoff THEN cutoffDate ELSE cutoff
  /\ UNCHANGED <<log, used, today, reader>>

FlushCleanup(r) ==
  /\ trail[r].op = "cleanup"
  /\ log' = [i \in LogIds |-> IF i \in trail[r].old THEN Nothing ELSE log[i]]
  /\ trail' = [trail EXCEPT ![r] = Idle]
  /\ UNCHANGED <<used, today, reader, cutoff>>

LogFlushFails(r) ==
  /\ trail[r] # Idle
  /\ trail' = [trail EXCEPT ![r] = Idle]
  /\ UNCHANGED <<log, used, today, reader, cutoff>>

NextDay ==
  /\ today < LastDay
  /\ today' = today + 1
  /\ UNCHANGED <<log, used, trail, reader, cutoff>>

-----------------------------------------------------------------------------
(* findAll: the filters, then the newest first, then one page of them.     *)
(* Rows of the same createdAt come in any order.                           *)
Where(query) ==
  {i \in Logs :
    /\ \A f \in {"tenantId", "userId", "entityType", "action", "logLevel"} :
         query[f] = Nothing \/ log[i][f] = query[f]
    /\ query.startDate = Nothing \/ log[i].createdAt >= query.startDate
    /\ query.endDate = Nothing \/ log[i].createdAt <= query.endDate}

ListingsOldestFirst(S) ==
  {s \in [1 .. Cardinality(S) -> S] :
     \A m, n \in DOMAIN s : m < n =>
       s[m] # s[n] /\ log[s[m]].createdAt <= log[s[n]].createdAt}
Listings(S) ==
  {s \in [1 .. Cardinality(S) -> S] :
     \A m, n \in DOMAIN s : m < n =>
       s[m] # s[n] /\ log[s[m]].createdAt >= log[s[n]].createdAt}

Page(listing, page, limit) ==
  LET offset == (page - 1) * limit IN {listing[n] : n \in DOMAIN listing \cap (offset + 1 .. offset + limit)}

FindByTenantId(tenantId, query) == Where([query EXCEPT !.tenantId = tenantId])
FindByUserId(userId, query) == Where([query EXCEPT !.userId = userId])

(* getAuditStats: how many logs of the tenant there are of each kind.      *)
GetAuditStats(tenantId, query) ==
  LET logs == FindByTenantId(tenantId, query)
      count(field, values) == [v \in values |-> Cardinality({i \in logs : log[i][field] = v})]
  IN [totalLogs |-> Cardinality(logs),
      actionCounts |-> count("action", AuditLogAction),
      entityTypeCounts |-> count("entityType", AuditLogEntityType),
      userActivityCounts |-> count("userId", LogUsers),
      logLevelCounts |-> count("logLevel", LogLevel)]

(* The client asks for one page after the other until a page reaches the   *)
(* total it was told.                                                      *)
StartReading(query) ==
  /\ reader = Idle
  /\ reader' = [op |-> "read", query |-> query, page |-> 1, there |-> Where(query), seen |-> {}]
  /\ UNCHANGED <<log, used, trail, today, cutoff>>

FindAll ==
  /\ reader.op = "read"
  /\ LET found == Where(reader.query) IN
       \E listing \in Listings(found) :
         reader' = [reader EXCEPT
           !.seen = @ \cup Page(listing, reader.page, PageLimit),
           !.page = @ + 1,
           !.op = IF reader.page * PageLimit >= Cardinality(found) THEN "done" ELSE "read"]
  /\ UNCHANGED <<log, used, trail, today, cutoff>>

(* AuditController: findAll, findByUserId and findByTenantId. *)
Queries ==
  {AnyLog}
    \cup {[AnyLog EXCEPT !.userId = u] : u \in LogUsers}
    \cup {[AnyLog EXCEPT !.tenantId = t] : t \in LogTenants}

AuditController ==
  \/ \E r \in Requests, dto \in GivenLogs : CreateLog(r, dto)
  \/ \E r \in Requests, days \in 0 .. MaxDays : CleanupOldLogs(r, days)
  \/ \E query \in Queries : StartReading(query)
  \/ FindAll

AudNext ==
  \/ AuditController
  \/ \E r \in Requests :
       \/ \E i \in LogIds : FlushLog(r, i)
       \/ FlushCleanup(r) \/ LogFlushFails(r)
  \/ NextDay

AudSpec == AudInit /\ [][AudNext]_auditVars

-----------------------------------------------------------------------------
(* A client that pages through the logs misses none that was there when it *)
(* began and is there when it ends, though logs are written and cleaned up *)
(* between its pages: the new ones move the others down and the clean-up   *)
(* takes the last ones.  A log older than a cut-off, or as old to the      *)
(* millisecond as another, is not promised.                                *)
NothingSkipped ==
  reader.op = "done" =>
    \A i \in (reader.there \cap Logs) \ reader.seen :
      \/ log[i].createdAt < cutoff
      \/ \E k \in Where(reader.query) \ {i} : log[k].createdAt = log[i].createdAt
=============================================================================
