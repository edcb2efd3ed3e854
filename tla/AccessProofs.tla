---------------------------- MODULE AccessProofs ----------------------------
(***************************************************************************)
(* Proofs about what a request to base-api may see and change: whether it  *)
(* gets through (RateLimit), the tenant its handler works for (Gateway),   *)
(* the rows its flush writes (Directory), the logs it is shown (Audit) and *)
(* the charts it is drawn (Charts), for any requests, tokens, paths,       *)
(* tenants, keys, limits and metrics, however the requests overlap.        *)
(***************************************************************************)
EXTENDS Gateway, Directory, Audit, Charts, RateLimit, Lemmas

(* What a request that is not public carries once AuthGuard has let it on: *)
(* a token that was not withdrawn before it came, if the blacklist could   *)
(* tell, ...                                                               *)
HoldsToken(r) == asked[r].bearer \in Bearers /\ (r \in late => r \in unasked)

(* ... from Verify on, in its context, the claims of that token, ...       *)
HasClaims(r) ==
  context[r].user = [tenantId |-> TenantOf[asked[r].bearer], bearer |-> asked[r].bearer]

(* ... and from TenantGuard on a tenant.                                   *)
HasTenant(r) == CurrentTenantId(r) # Nothing

GateInv ==
  /\ GateTypeOK
  /\ \A r \in Requests :
       /\ r \in late => at[r] # "idle" /\ asked[r].bearer \in withdrawn
       /\ at[r] # "idle" => asked[r] \in Asked
       /\ at[r] = "verify" => HoldsToken(r)
       /\ at[r] \in {"tenant", "permissions", "handler"} /\ ~IsPublic(r) =>
            HoldsToken(r) /\ HasClaims(r)
       /\ at[r] \in {"permissions", "handler"} /\ ~IsPublic(r) => HasTenant(r)

LEMMA GateInitInv == GateInit => GateInv
BY DEF GateInit, GateInv, GateTypeOK, Stages, NoContext, Contexts

(* A request that is refused or answered is over.                          *)
LEMMA LeavesInv ==
  ASSUME GateInv, NEW r \in Requests, Leaves(r), UNCHANGED <<served, withdrawn>>
  PROVE  GateInv'
BY DEF GateInv, GateTypeOK, Leaves, Stages, NoContext, Contexts, NoRequest, HoldsToken, HasClaims,
       HasTenant, IsPublic, CurrentTenantId, CurrentUser, StoreOf

(* A request goes on to a stage with what is asked of it there.            *)
LEMMA ReachesInv ==
  ASSUME GateInv, NEW r \in Requests, NEW stage \in Stages \ {"idle"},
         at[r] # "idle", Reaches(r, stage),
         UNCHANGED <<asked, context, late, unasked, served, withdrawn>>,
         stage = "verify" => HoldsToken(r),
         stage \in {"tenant", "permissions", "handler"} /\ ~IsPublic(r) =>
           HoldsToken(r) /\ HasClaims(r),
         stage \in {"permissions", "handler"} /\ ~IsPublic(r) => HasTenant(r)
  PROVE  GateInv'
BY DEF GateInv, GateTypeOK, Reaches, Stages, Contexts, HoldsToken, HasClaims, HasTenant,
       IsPublic, CurrentTenantId, CurrentUser, StoreOf

(* A guard that decides: both ways at once.                                *)
LEMMA DecidesInv ==
  ASSUME GateInv, NEW r \in Requests, NEW stage \in Stages \ {"idle"}, NEW lets \in BOOLEAN,
         at[r] # "idle", Decides(r, lets, stage), UNCHANGED <<served, withdrawn>>,
         lets /\ stage = "verify" => HoldsToken(r),
         lets /\ stage \in {"tenant", "permissions", "handler"} /\ ~IsPublic(r) =>
           HoldsToken(r) /\ HasClaims(r),
         lets /\ stage \in {"permissions", "handler"} /\ ~IsPublic(r) => HasTenant(r)
  PROVE  GateInv'
<1>1. CASE lets
  BY <1>1, ReachesInv DEF Decides
<1>2. CASE ~lets
  BY <1>2, LeavesInv DEF Decides
<1> QED
  BY <1>1, <1>2

LEMMA ArriveInv ==
  ASSUME GateInv, NEW r \in Requests, NEW path \in Paths, NEW b \in Bearers \cup {Nothing},
         Arrive(r, path, b)
  PROVE  GateInv'
BY DEF GateInv, GateTypeOK, Arrive, Reaches, Asked, Stages, NoContext, Contexts, HoldsToken,
       HasClaims, HasTenant, IsPublic, CurrentTenantId, CurrentUser, StoreOf

LEMMA PluginStatusGuardInv ==
  ASSUME GateInv, NEW r \in Requests, PluginStatusGuard(r)
  PROVE  GateInv'
<1> DEFINE path == asked[r].path
           lets == IsPublic(r) \/ path \notin DOMAIN PluginMapping \/ PluginMapping[path] \in served
<1>1. at[r] = "plugin" /\ Decides(r, lets, "auth") /\ UNCHANGED <<served, withdrawn>>
  BY DEF PluginStatusGuard
<1>2. lets \in BOOLEAN /\ "auth" \in Stages \ {"idle"}
  BY DEF Stages, IsPublic
<1> HIDE DEF lets
<1> QED
  BY <1>1, <1>2, DecidesInv

(* The blacklist is asked after the request came, and only grows; or it    *)
(* gives no answer, and that is noted.                                     *)
LEMMA AuthGuardInv ==
  ASSUME GateInv, NEW r \in Requests, AuthGuard(r)
  PROVE  GateInv'
<1>1. at[r] = "auth" /\ UNCHANGED <<served, withdrawn>>
  BY DEF AuthGuard
<1>2. CASE Asks(r) /\ IsPublic(r)
  <2>1. Decides(r, TRUE, "tenant")
    BY <1>2 DEF Asks
  <2> QED
    BY <1>1, <1>2, <2>1, DecidesInv DEF Stages
<1>3. CASE Asks(r) /\ ~IsPublic(r)
  <2> DEFINE lets == asked[r].bearer # Nothing /\ asked[r].bearer \notin withdrawn
  <2>1. Decides(r, lets, "verify")
    BY <1>3 DEF Asks
  <2>2. lets => HoldsToken(r)
    BY <1>1 DEF GateInv, HoldsToken, Asked
  <2>3. lets \in BOOLEAN
    OBVIOUS
  <2> HIDE DEF lets
  <2> QED
    BY <1>1, <2>1, <2>2, <2>3, DecidesInv DEF Stages
<1>4. CASE CannotAsk(r)
  <2>1. /\ asked[r].bearer \in Bearers
        /\ unasked' = unasked \cup {r} /\ UNCHANGED <<asked, context, late>>
        /\ at' = [at EXCEPT ![r] = "verify"]
    BY <1>1, <1>4 DEF CannotAsk, Reaches, GateInv, Asked
  <2> QED
    BY <1>1, <2>1
    DEF GateInv, GateTypeOK, Stages, Contexts, HoldsToken, HasClaims, HasTenant, IsPublic,
        CurrentTenantId, CurrentUser, StoreOf
<1> QED
  BY <1>2, <1>3, <1>4 DEF AuthGuard

LEMMA VerifyInv ==
  ASSUME GateInv, NEW r \in Requests, NEW valid \in BOOLEAN, Verify(r, valid)
  PROVE  GateInv'
<1>1. at[r] = "verify" /\ UNCHANGED <<served, withdrawn>>
  BY DEF Verify
<1>2. CASE valid
  <2>1. [tenantId |-> TenantOf[asked[r].bearer], bearer |-> asked[r].bearer] \in Claims
    BY <1>1 DEF GateInv, HoldsToken, Claims
  <2> QED
    BY <1>1, <1>2, <2>1
    DEF Verify, SetCurrentUser, Reaches, GateInv, GateTypeOK, Stages, Contexts, HoldsToken,
        HasClaims, HasTenant, IsPublic, CurrentTenantId, CurrentUser, StoreOf
<1>3. CASE ~valid
  BY <1>1, <1>3, LeavesInv DEF Verify
<1> QED
  BY <1>2, <1>3

LEMMA TenantGuardInv ==
  ASSUME GateInv, NEW r \in Requests, TenantGuard(r)
  PROVE  GateInv'
<1> DEFINE lets == IsPublic(r) \/ CurrentTenantId(r) # Nothing
<1>1. at[r] = "tenant" /\ Decides(r, lets, "permissions") /\ UNCHANGED <<served, withdrawn>>
  BY DEF TenantGuard
<1>2. lets \in BOOLEAN /\ "permissions" \in Stages \ {"idle"}
  BY DEF Stages, IsPublic
<1>3. ~IsPublic(r) => HoldsToken(r) /\ HasClaims(r)
  BY <1>1 DEF GateInv
<1>4. lets /\ ~IsPublic(r) => HasTenant(r)
  BY DEF HasTenant
<1> HIDE DEF lets
<1> QED
  BY <1>1, <1>2, <1>3, <1>4, DecidesInv

LEMMA PermissionsGuardInv ==
  ASSUME GateInv, NEW r \in Requests, PermissionsGuard(r)
  PROVE  GateInv'
<1> DEFINE lets == asked[r].path \notin PermitPaths
<1>1. at[r] = "permissions" /\ Decides(r, lets, "handler") /\ UNCHANGED <<served, withdrawn>>
  BY DEF PermissionsGuard
<1>2. lets \in BOOLEAN /\ "handler" \in Stages \ {"idle"}
  BY DEF Stages
<1>3. ~IsPublic(r) => HoldsToken(r) /\ HasClaims(r) /\ HasTenant(r)
  BY <1>1 DEF GateInv
<1> HIDE DEF lets
<1> QED
  BY <1>1, <1>2, <1>3, DecidesInv

LEMMA GateNextInv == GateInv /\ [GateNext]_gateVars => GateInv'
<1> SUFFICES ASSUME GateInv, [GateNext]_gateVars PROVE GateInv'
  OBVIOUS
<1>1. ASSUME NEW r \in Requests, Answer(r) PROVE GateInv'
  BY <1>1, LeavesInv DEF Answer
<1>2. ASSUME NEW p \in PluginNames, Toggle(p) PROVE GateInv'
  BY <1>2 DEF Toggle, GateInv, GateTypeOK, HoldsToken, HasClaims, HasTenant, IsPublic,
              CurrentTenantId, CurrentUser, StoreOf
<1>3. ASSUME NEW b \in Bearers, Withdraw(b) PROVE GateInv'
  BY <1>3 DEF Withdraw, GateInv, GateTypeOK, HoldsToken, HasClaims, HasTenant, IsPublic,
              CurrentTenantId, CurrentUser, StoreOf
<1>4. CASE UNCHANGED gateVars
  BY <1>4 DEF gateVars, GateInv, GateTypeOK, HoldsToken, HasClaims, HasTenant, IsPublic,
              CurrentTenantId, CurrentUser, StoreOf
<1> QED
  BY <1>1, <1>2, <1>3, <1>4, ArriveInv, PluginStatusGuardInv, AuthGuardInv, VerifyInv,
     TenantGuardInv, PermissionsGuardInv DEF GateNext

(* The requests, their contexts and the tokens keep their types, at every  *)
(* guard (auth.guard.ts, tenant.guard.ts, permissions.guard.ts).           *)
THEOREM GatewayTypeCorrect == GateSpec => []GateTypeOK
<1>1. GateInv => GateTypeOK
  BY DEF GateInv
<1> QED
  BY <1>1, GateInitInv, GateNextInv, PTL DEF GateSpec

(* A handler works for the tenant of the token its own request came with,  *)
(* however many requests pass the guards at the same time, and that token  *)
(* was withdrawn before only if the blacklist gave no answer               *)
(* (request-context.service.ts, auth.guard.ts, tenant.guard.ts).           *)
THEOREM HandlersKnowTheirTenant == GateSpec => []TenantOfTheToken
<1>1. ASSUME GateInv, NEW r \in Requests, at[r] = "handler", ~IsPublic(r)
      PROVE  /\ CurrentTenantId(r) # Nothing
             /\ CurrentTenantId(r) = TenantOf[asked[r].bearer]
             /\ r \in late => r \in unasked
  <2>1. HoldsToken(r) /\ HasClaims(r) /\ HasTenant(r)
    BY <1>1 DEF GateInv
  <2>2. CurrentUser(r) # Nothing
    BY <2>1 DEF HasTenant, CurrentTenantId
  <2>3. CurrentUser(r).tenantId = TenantOf[asked[r].bearer]
    BY <2>1 DEF HasClaims, CurrentUser, StoreOf
  <2> QED
    BY <2>1, <2>2, <2>3 DEF HoldsToken, HasTenant, CurrentTenantId
<1>2. GateInv => TenantOfTheToken
  BY <1>1 DEF TenantOfTheToken
<1> QED
  BY <1>2, GateInitInv, GateNextInv, PTL DEF GateSpec

-----------------------------------------------------------------------------
(* Directory.  What a request plans is right when it plans it, and stays   *)
(* right until its flush, because a key is drawn once and no update writes *)
(* the tenant: a row keeps the tenant the request has seen, or is gone.    *)
KeepsTenant(p) ==
  /\ p.id \in drawn[p.kind]
  /\ p.op = "update" =>
       /\ "tenant" \notin p.cols
       /\ p.row \in RowsOf(p.kind)
       /\ Row(p.kind, p.id) # Nothing => Row(p.kind, p.id).tenant = p.row.tenant

(* A request for users writes rows of the tenant it was made for.          *)
OwnUsers(p) ==
  /\ p.op \in {"insert", "update"} => p.row.tenant = p.by
  /\ p.op = "delete" => (Row("user", p.id) # Nothing => Row("user", p.id).tenant = p.by)

PlanInv(p) ==
  /\ p.op = "insert" => p.row \in RowsOf(p.kind)
  /\ p.op \in {"update", "delete"} => KeepsTenant(p)
  /\ p.op \in {"insert", "update", "delete"} /\ p.kind = "user" => OwnUsers(p)

DirInv ==
  /\ DirTypeOK
  /\ rows \in [Kinds -> [Ids -> Rows \cup {Nothing}]]
  /\ \A kind \in Kinds : In(kind) \subseteq drawn[kind]
  /\ \A r \in Requests : PlanInv(plan[r])

LEMMA DirInitInv == DirInit => DirInv
<1> SUFFICES ASSUME DirInit PROVE DirInv
  OBVIOUS
<1>1. DirTypeOK
  BY DEF DirInit, DirTypeOK, Plans, Idle
<1>2. rows \in [Kinds -> [Ids -> Rows \cup {Nothing}]]
  BY DEF DirInit
<1>3. \A kind \in Kinds : In(kind) \subseteq drawn[kind]
  BY DEF DirInit, In
<1>4. \A r \in Requests : PlanInv(plan[r])
  BY DEF DirInit, PlanInv, Idle
<1> QED
  BY <1>1, <1>2, <1>3, <1>4 DEF DirInv

(* The five kinds have rows of their own, with the same columns.           *)
LEMMA RowTypes ==
  ASSUME NEW kind \in Kinds
  PROVE  /\ RowsOf(kind) \subseteq Rows
         /\ kind = "user" => RowsOf(kind) = Users
         /\ kind = "tenant" => RowsOf(kind) = TenantRows
         /\ kind = "organization" => RowsOf(kind) = Organizations
         /\ kind = "role" => RowsOf(kind) = Roles
         /\ kind = "permission" => RowsOf(kind) = Permissions
BY DEF Kinds, RowsOf, Rows

(* A request plans, for the rows of a kind or for the join table.          *)
Planned(r, kind) ==
  \E p \in Plans :
    /\ PlanInv(p)
    /\ Plan(r, p)
    /\ p.op \in {"insert", "update"} => p.kind = kind

(* To plan writes nothing, so what holds of the plans of others still does.*)
LEMMA PlanStep ==
  ASSUME DirInv, NEW r \in Requests, NEW kind, Planned(r, kind), raced' \in BOOLEAN
  PROVE  DirInv'
<1>1. PICK p \in Plans : PlanInv(p) /\ Plan(r, p)
  BY DEF Planned
<1>2. plan' = [plan EXCEPT ![r] = p] /\ UNCHANGED <<rows, drawn, granted>>
  BY <1>1 DEF Plan
<1>3. DirTypeOK'
  BY <1>2 DEF DirInv, DirTypeOK
<1>4. \A q : PlanInv(q) <=> PlanInv(q)'
  BY <1>2 DEF PlanInv, KeepsTenant, OwnUsers, Row
<1>5. \A s \in Requests : PlanInv(plan'[s])
  BY <1>1, <1>2 DEF DirInv, DirTypeOK
<1>6. \A k \in Kinds : (In(k) \subseteq drawn[k])'
  BY <1>2 DEF DirInv, In
<1> QED
  BY <1>2, <1>3, <1>4, <1>5, <1>6 DEF DirInv

LEMMA InsertStep ==
  ASSUME DirInv, NEW r \in Requests, NEW by \in Owners, NEW kind \in Kinds, NEW row \in RowsOf(kind),
         Insert(r, by, kind, row), kind = "user" => row.tenant = by
  PROVE  Planned(r, kind)
<1> DEFINE p == [op |-> "insert", by |-> by, kind |-> kind, row |-> row]
<1>1. p \in Plans
  BY RowTypes DEF Plans
<1>2. PlanInv(p)
  BY DEF PlanInv, OwnUsers
<1>3. Plan(r, p)
  BY DEF Insert
<1>4. p.op \in {"insert", "update"} => p.kind = kind
  OBVIOUS
<1> HIDE DEF p
<1> QED
  BY <1>1, <1>2, <1>3, <1>4 DEF Planned

LEMMA UpdateStep ==
  ASSUME DirInv, NEW r \in Requests, NEW by \in Owners, NEW kind \in Kinds, NEW id \in In(kind),
         NEW row \in RowsOf(kind), NEW cols \in SUBSET (Columns \ {"tenant"}),
         Update(r, by, kind, id, row, cols), row.tenant = Row(kind, id).tenant,
         kind = "user" => row.tenant = by
  PROVE  Planned(r, kind)
<1> DEFINE p == [op |-> "update", by |-> by, kind |-> kind, id |-> id, row |-> row, cols |-> cols]
<1>1. id \in Ids /\ id \in drawn[kind]
  BY DEF In, DirInv
<1>2. p \in Plans
  BY <1>1, RowTypes DEF Plans
<1>3. PlanInv(p)
  BY <1>1 DEF PlanInv, KeepsTenant, OwnUsers
<1>4. Plan(r, p)
  BY DEF Update
<1>5. p.op \in {"insert", "update"} => p.kind = kind
  OBVIOUS
<1> HIDE DEF p
<1> QED
  BY <1>2, <1>3, <1>4, <1>5 DEF Planned

LEMMA DeleteStep ==
  ASSUME DirInv, NEW r \in Requests, NEW by \in Owners, NEW kind \in Kinds, NEW id \in In(kind),
         Delete(r, by, kind, id), kind = "user" => Row(kind, id).tenant = by
  PROVE  Planned(r, kind)
<1> DEFINE p == [op |-> "delete", by |-> by, kind |-> kind, id |-> id]
<1>1. id \in Ids /\ id \in drawn[kind]
  BY DEF In, DirInv
<1>2. p \in Plans
  BY <1>1 DEF Plans
<1>3. PlanInv(p)
  BY <1>1 DEF PlanInv, KeepsTenant, OwnUsers
<1>4. Plan(r, p)
  BY DEF Delete
<1>5. p.op \in {"insert", "update"} => p.kind = kind
  OBVIOUS
<1> HIDE DEF p
<1> QED
  BY <1>2, <1>3, <1>4, <1>5 DEF Planned

(* A row that is there is of its table's type.                             *)
LEMMA RowThere ==
  ASSUME DirInv, NEW kind \in Kinds, NEW id \in In(kind)
  PROVE  Row(kind, id) \in RowsOf(kind)
BY DEF DirInv, DirTypeOK, In, Row

(* What a DTO gives or leaves is of the column's type; no DTO names the     *)
(* tenant of a row.                                                        *)
LEMMA GivenType ==
  ASSUME NEW S, NEW value \in S \cup {Nothing}, NEW old \in S
  PROVE  Given(value, old) \in S
BY DEF Given

LEMMA AssignedType ==
  ASSUME NEW columns \in SUBSET {"key", "rest", "active"}, NEW dto
  PROVE  Assigned(columns, dto) \in SUBSET (Columns \ {"tenant"})
BY DEF Assigned, Columns

LEMMA UserControllerPlans ==
  ASSUME DirInv, NEW r \in Requests, NEW t \in Tenants, UserController(r, t)
  PROVE  Planned(r, "user")
<1>0. t \in Owners /\ "user" \in Kinds /\ RowsOf("user") = Users
  BY RowTypes DEF Owners, Kinds
<1>1. ASSUME NEW dto \in CreateUserDto, UserCreate(r, t, dto) PROVE Planned(r, "user")
  <2>1. [tenant |-> t, key |-> dto.key, rest |-> dto.rest, active |-> TRUE] \in Users
    BY DEF CreateUserDto, Users
  <2> QED
    BY <1>0, <1>1, <2>1, InsertStep DEF UserCreate
<1>2. ASSUME NEW id \in Ids, UserFindOne(t, id)
      PROVE  id \in In("user") /\ Row("user", id) \in Users /\ Row("user", id).tenant = t
  BY <1>0, <1>2, RowThere DEF UserFindOne
<1>3. ASSUME NEW id \in Ids, NEW dto \in UpdateUserDto, UserUpdate(r, t, id, dto) PROVE Planned(r, "user")
  <2> DEFINE old == Row("user", id)
             new == [old EXCEPT !.key = Given(dto.key, @), !.rest = Given(dto.rest, @),
                                !.active = Given(dto.active, @)]
             cols == Assigned({"key", "rest", "active"}, dto)
  <2>1. id \in In("user") /\ old \in Users /\ old.tenant = t
    BY <1>2, <1>3 DEF UserUpdate
  <2>2. /\ Given(dto.key, old.key) \in Keys
        /\ Given(dto.rest, old.rest) \in Contents
        /\ Given(dto.active, old.active) \in BOOLEAN
    BY <2>1, GivenType DEF Users, UpdateUserDto
  <2>3. new \in Users /\ new.tenant = t
    BY <2>1, <2>2 DEF Users
  <2>4. cols \in SUBSET (Columns \ {"tenant"})
    BY AssignedType
  <2>5. Update(r, t, "user", id, new, cols)
    BY <1>3 DEF UserUpdate
  <2> HIDE DEF new, cols
  <2> QED
    BY <1>0, <2>1, <2>3, <2>4, <2>5, UpdateStep
<1>4. ASSUME NEW id \in Ids, UserRemove(r, t, id) PROVE Planned(r, "user")
  BY <1>0, <1>2, <1>4, DeleteStep DEF UserRemove
<1>5. ASSUME NEW id \in Ids, UserFindOne(t, id), NEW c \in Contents,
             Update(r, t, "user", id, [Row("user", id) EXCEPT !.rest = c], {"rest"})
      PROVE  Planned(r, "user")
  <2> DEFINE new == [Row("user", id) EXCEPT !.rest = c]
  <2>1. id \in In("user") /\ new \in Users /\ new.tenant = t /\ Row("user", id).tenant = t
    BY <1>2, <1>5 DEF Users
  <2>2. {"rest"} \in SUBSET (Columns \ {"tenant"})
    BY DEF Columns
  <2> HIDE DEF new
  <2> QED
    BY <1>0, <1>5, <2>1, <2>2, UpdateStep DEF new
<1>6. ASSUME NEW id \in Ids, NEW active \in BOOLEAN, UserSetActive(r, t, id, active) PROVE Planned(r, "user")
  <2> DEFINE new == [Row("user", id) EXCEPT !.active = active]
  <2>1. id \in In("user") /\ new \in Users /\ new.tenant = t /\ Row("user", id).tenant = t
    BY <1>2, <1>6 DEF Users, UserSetActive
  <2>2. {"active"} \in SUBSET (Columns \ {"tenant"})
    BY DEF Columns
  <2>3. Update(r, t, "user", id, new, {"active"})
    BY <1>6 DEF UserSetActive
  <2> HIDE DEF new
  <2> QED
    BY <1>0, <2>1, <2>2, <2>3, UpdateStep
<1>7. ASSUME NEW id \in Ids, NEW c \in Contents, UserUpdateAvatar(r, t, id, c) PROVE Planned(r, "user")
  BY <1>5, <1>7 DEF UserUpdateAvatar
<1>8. ASSUME NEW id \in Ids, NEW c \in Contents, NEW d \in Contents, UserUpdatePassword(r, t, id, c, d)
      PROVE  Planned(r, "user")
  BY <1>5, <1>8 DEF UserUpdatePassword
<1> QED
  BY <1>1, <1>3, <1>4, <1>6, <1>7, <1>8 DEF UserController

LEMMA TenantControllerPlans ==
  ASSUME DirInv, NEW r \in Requests, TenantController(r)
  PROVE  Planned(r, "tenant")
<1>0. /\ NoTenant \in Owners /\ "tenant" \in Kinds /\ RowsOf("tenant") = TenantRows
     
  BY RowTypes DEF Owners, Kinds
<1>1. ASSUME NEW dto \in CreateTenantDto, TenantCreate(r, dto) PROVE Planned(r, "tenant")
  <2>1. [tenant |-> NoTenant, key |-> dto.key, rest |-> dto.rest, active |-> dto.active] \in TenantRows
    BY DEF CreateTenantDto, TenantRows
  <2> QED
    BY <1>0, <1>1, <2>1, InsertStep DEF TenantCreate
<1>2. ASSUME NEW id \in In("tenant") PROVE Row("tenant", id) \in TenantRows
  BY <1>0, RowThere
<1>3. ASSUME NEW id \in Ids, NEW dto \in UpdateTenantDto, TenantUpdate(r, id, dto) PROVE Planned(r, "tenant")
  <2> DEFINE old == Row("tenant", id)
             new == [old EXCEPT !.key = Given(dto.key, @), !.rest = Given(dto.rest, @),
                                !.active = Given(dto.active, @)]
             cols == Assigned({"key", "rest", "active"}, dto)
  <2>1. id \in In("tenant") /\ old \in TenantRows
    BY <1>2, <1>3 DEF TenantUpdate
  <2>2. /\ Given(dto.key, old.key) \in Keys
        /\ Given(dto.rest, old.rest) \in Contents
        /\ Given(dto.active, old.active) \in BOOLEAN
    BY <2>1, GivenType DEF TenantRows, UpdateTenantDto
  <2>3. new \in TenantRows /\ new.tenant = old.tenant
    BY <2>1, <2>2 DEF TenantRows
  <2>4. cols \in SUBSET (Columns \ {"tenant"})
    BY AssignedType
  <2>5. Update(r, NoTenant, "tenant", id, new, cols)
    BY <1>3 DEF TenantUpdate
  <2> HIDE DEF new, cols
  <2> QED
    BY <1>0, <2>1, <2>3, <2>4, <2>5, UpdateStep
<1>4. ASSUME NEW id \in Ids, TenantRemove(r, id) PROVE Planned(r, "tenant")
  BY <1>0, <1>4, DeleteStep DEF TenantRemove
<1>5. ASSUME NEW id \in Ids, NEW active \in BOOLEAN, id \in In("tenant"),
             Update(r, NoTenant, "tenant", id, [Row("tenant", id) EXCEPT !.active = active], {"active"})
      PROVE  Planned(r, "tenant")
  <2> DEFINE new == [Row("tenant", id) EXCEPT !.active = active]
  <2>1. new \in TenantRows /\ new.tenant = Row("tenant", id).tenant
    BY <1>2, <1>5 DEF TenantRows
  <2>2. {"active"} \in SUBSET (Columns \ {"tenant"})
    BY DEF Columns
  <2> HIDE DEF new
  <2> QED
    BY <1>0, <1>5, <2>1, <2>2, UpdateStep DEF new
<1>6. ASSUME NEW id \in Ids, TenantSuspend(r, id) \/ TenantActivate(r, id) PROVE Planned(r, "tenant")
  BY <1>5, <1>6 DEF TenantSuspend, TenantActivate
<1> QED
  BY <1>1, <1>3, <1>4, <1>6 DEF TenantController

LEMMA OrganizationControllerPlans ==
  ASSUME DirInv, NEW r \in Requests, OrganizationController(r)
  PROVE  Planned(r, "organization")
<1>0. /\ NoTenant \in Owners /\ "organization" \in Kinds /\ RowsOf("organization") = Organizations
     
  BY RowTypes DEF Owners, Kinds
<1>1. ASSUME NEW dto \in CreateOrganizationDto, OrganizationCreate(r, dto, NoTenant) PROVE Planned(r, "organization")
  <2>1. [tenant |-> NoTenant, key |-> dto.key, rest |-> dto.rest, active |-> dto.active] \in Organizations
    BY DEF CreateOrganizationDto, Organizations
  <2> QED
    BY <1>0, <1>1, <2>1, InsertStep DEF OrganizationCreate
<1>2. ASSUME NEW id \in In("organization") PROVE Row("organization", id) \in Organizations
  BY <1>0, RowThere
<1>3. ASSUME NEW id \in Ids, NEW dto \in UpdateOrganizationDto, OrganizationUpdate(r, id, dto)
      PROVE  Planned(r, "organization")
  <2> DEFINE old == Row("organization", id)
             new == [old EXCEPT !.key = Given(dto.key, @), !.rest = Given(dto.rest, @),
                                !.active = Given(dto.active, @)]
             cols == Assigned({"key", "rest", "active"}, dto)
  <2>1. id \in In("organization") /\ old \in Organizations
    BY <1>2, <1>3 DEF OrganizationUpdate
  <2>2. /\ Given(dto.key, old.key) \in Keys
        /\ Given(dto.rest, old.rest) \in Contents
        /\ Given(dto.active, old.active) \in BOOLEAN
    BY <2>1, GivenType DEF Organizations, UpdateOrganizationDto
  <2>3. new \in Organizations /\ new.tenant = old.tenant
    BY <2>1, <2>2 DEF Organizations
  <2>4. cols \in SUBSET (Columns \ {"tenant"})
    BY AssignedType
  <2>5. Update(r, NoTenant, "organization", id, new, cols)
    BY <1>3 DEF OrganizationUpdate
  <2> HIDE DEF new, cols
  <2> QED
    BY <1>0, <2>1, <2>3, <2>4, <2>5, UpdateStep
<1>4. ASSUME NEW id \in Ids, OrganizationRemove(r, id) PROVE Planned(r, "organization")
  BY <1>0, <1>4, DeleteStep DEF OrganizationRemove
<1>5. ASSUME NEW id \in Ids, NEW active \in BOOLEAN, OrganizationSetStatus(r, id, active) PROVE Planned(r, "organization")
  <2> DEFINE new == [Row("organization", id) EXCEPT !.active = active]
  <2>1. id \in In("organization") /\ Update(r, NoTenant, "organization", id, new, {"active"})
    BY <1>5 DEF OrganizationSetStatus
  <2>2. new \in Organizations /\ new.tenant = Row("organization", id).tenant
    BY <1>2, <2>1 DEF Organizations
  <2>3. {"active"} \in SUBSET (Columns \ {"tenant"})
    BY DEF Columns
  <2> HIDE DEF new
  <2> QED
    BY <1>0, <2>1, <2>2, <2>3, UpdateStep
<1> QED
  BY <1>1, <1>3, <1>4, <1>5 DEF OrganizationController

LEMMA RoleControllerPlans ==
  ASSUME DirInv, NEW r \in Requests, RoleController(r)
  PROVE  Planned(r, "role")
<1>0. /\ NoTenant \in Owners /\ "role" \in Kinds /\ RowsOf("role") = Roles
     
  BY RowTypes DEF Owners, Kinds
<1>1. ASSUME NEW dto \in CreateRoleDto, RoleCreate(r, dto, dto.tenant) PROVE Planned(r, "role")
  <2>1. dto.tenant \in Owners
        /\ [tenant |-> dto.tenant, key |-> dto.key, rest |-> dto.rest, active |-> TRUE] \in Roles
    BY DEF CreateRoleDto, Roles
  <2> QED
    BY <1>0, <1>1, <2>1, InsertStep DEF RoleCreate
<1>2. ASSUME NEW id \in In("role") PROVE Row("role", id) \in Roles
  BY <1>0, RowThere
<1>3. ASSUME NEW id \in Ids, NEW dto \in UpdateRoleDto, RoleUpdate(r, id, dto) PROVE Planned(r, "role")
  <2> DEFINE old == Row("role", id)
             new == [old EXCEPT !.key = Given(dto.key, @), !.rest = Given(dto.rest, @)]
             cols == Assigned({"key", "rest"}, dto)
  <2>1. id \in In("role") /\ old \in Roles
    BY <1>2, <1>3 DEF RoleUpdate
  <2>2. Given(dto.key, old.key) \in Keys /\ Given(dto.rest, old.rest) \in Contents
    BY <2>1, GivenType DEF Roles, UpdateRoleDto
  <2>3. new \in Roles /\ new.tenant = old.tenant
    BY <2>1, <2>2 DEF Roles
  <2>4. cols \in SUBSET (Columns \ {"tenant"})
    BY AssignedType
  <2>5. Update(r, NoTenant, "role", id, new, cols)
    BY <1>3 DEF RoleUpdate
  <2> HIDE DEF new, cols
  <2> QED
    BY <1>0, <2>1, <2>3, <2>4, <2>5, UpdateStep
<1>4. ASSUME NEW id \in Ids, RoleRemove(r, id) PROVE Planned(r, "role")
  BY <1>0, <1>4, DeleteStep DEF RoleRemove
<1>5. ASSUME NEW id \in Ids, NEW active \in BOOLEAN, id \in In("role"),
             Update(r, NoTenant, "role", id, [Row("role", id) EXCEPT !.active = active], {"active"})
      PROVE  Planned(r, "role")
  <2> DEFINE new == [Row("role", id) EXCEPT !.active = active]
  <2>1. new \in Roles /\ new.tenant = Row("role", id).tenant
    BY <1>2, <1>5 DEF Roles
  <2>2. {"active"} \in SUBSET (Columns \ {"tenant"})
    BY DEF Columns
  <2> HIDE DEF new
  <2> QED
    BY <1>0, <1>5, <2>1, <2>2, UpdateStep DEF new
<1>6. ASSUME NEW id \in Ids, RoleEnable(r, id) \/ RoleDisable(r, id) PROVE Planned(r, "role")
  BY <1>5, <1>6 DEF RoleEnable, RoleDisable
<1>7. ASSUME NEW op \in {"grant", "revoke"}, NEW id \in Ids, NEW ps \in SUBSET Ids,
             Plan(r, [op |-> op, role |-> id, permissions |-> ps])
      PROVE  Planned(r, "role")
  <2> DEFINE p == [op |-> op, role |-> id, permissions |-> ps]
  <2>1. p \in Plans
    BY DEF Plans
  <2>2. PlanInv(p)
    BY DEF PlanInv
  <2> HIDE DEF p
  <2> QED
    BY <1>0, <1>7, <2>1, <2>2 DEF p, Planned
<1>8. ASSUME NEW id \in Ids, NEW ps \in SUBSET Ids,
             AssignPermissions(r, id, ps) \/ RevokePermissions(r, id, ps)
      PROVE  Planned(r, "role")
  BY <1>7, <1>8 DEF AssignPermissions, RevokePermissions
<1> QED
  BY <1>1, <1>3, <1>4, <1>6, <1>8 DEF RoleController

(* The operations that give a permission its key are those that mark an    *)
(* overlap; the others leave the key alone.                                *)
LEMMA PermissionEdits ==
  ASSUME DirInv, NEW id \in In("permission"), NEW dto \in UpdatePermissionDto
  PROVE  LET old == Row("permission", id)
             new == [old EXCEPT !.key = AssignedKey(@, dto), !.rest = Given(dto.rest, @),
                                !.active = Given(dto.active, @)]
         IN  /\ old \in Permissions /\ new \in Permissions
             /\ new.tenant = old.tenant /\ new.key = AssignedKey(old.key, dto)
<1> DEFINE old == Row("permission", id)
           key == AssignedKey(old.key, dto)
           rest == Given(dto.rest, old.rest)
           active == Given(dto.active, old.active)
           new == [old EXCEPT !.key = key, !.rest = rest, !.active = active]
<1>1. old \in Permissions
  BY RowThere, RowTypes DEF Kinds
<1>2. old.key.type \in Types /\ old.key.action \in Actions /\ old.key.resource \in Resources \cup Blanks
  BY <1>1 DEF Permissions, PermissionKeys
<1>3. /\ dto.type \in Types \cup {Nothing} /\ dto.action \in Actions \cup {Nothing}
      /\ dto.resource \in (Resources \cup Blanks) \cup {Nothing}
  BY DEF UpdatePermissionDto
<1>4. key \in PermissionKeys
  <2>1. Given(dto.type, old.key.type) \in Types
    BY <1>2, <1>3, GivenType
  <2>2. Given(dto.action, old.key.action) \in Actions
    BY <1>2, <1>3, GivenType
  <2>3. Given(dto.resource, old.key.resource) \in Resources \cup Blanks
    BY <1>2, <1>3, GivenType
  <2> QED
    BY <2>1, <2>2, <2>3 DEF PermissionKeys, AssignedKey
<1>5. rest \in Contents /\ active \in BOOLEAN
  BY <1>1, GivenType DEF Permissions, UpdatePermissionDto
<1>6. new \in Permissions /\ new.tenant = old.tenant /\ new.key = key
  <2> HIDE DEF key, rest, active, old
  <2> QED
    BY <1>1, <1>4, <1>5 DEF Permissions
<1> HIDE DEF new
<1> QED
  BY <1>1, <1>6 DEF new

LEMMA PermissionControllerPlans ==
  ASSUME DirInv, NEW r \in Requests, PermissionController(r)
  PROVE  Planned(r, "permission") /\ raced' \in BOOLEAN
<1>0. /\ NoTenant \in Owners /\ "permission" \in Kinds /\ RowsOf("permission") = Permissions
  BY RowTypes DEF Owners, Kinds
<1>1. raced' \in BOOLEAN
  BY DEF PermissionController, PermissionCreate, PermissionUpdate, Marks, DirInv, DirTypeOK
<1>2. ASSUME NEW dto \in CreatePermissionDto, PermissionCreate(r, dto) PROVE Planned(r, "permission")
  <2> DEFINE row == [tenant |-> dto.tenantId,
                     key |-> [type |-> dto.type, action |-> dto.action, resource |-> dto.resource],
                     rest |-> dto.rest, active |-> TRUE]
  <2>1. row \in Permissions
    BY DEF CreatePermissionDto, Permissions, PermissionKeys
  <2>2. Insert(r, NoTenant, "permission", row)
    BY <1>2 DEF PermissionCreate
  <2> HIDE DEF row
  <2> QED
    BY <1>0, <2>1, <2>2, InsertStep
<1>3. ASSUME NEW id \in Ids, NEW dto \in UpdatePermissionDto, PermissionUpdate(r, id, dto)
      PROVE  Planned(r, "permission")
  <2> DEFINE old == Row("permission", id)
             given == Truthy(dto.type) \/ Truthy(dto.action) \/ Truthy(dto.resource)
             new == [old EXCEPT !.key = AssignedKey(@, dto), !.rest = Given(dto.rest, @),
                                !.active = Given(dto.active, @)]
             cols == Assigned({"rest", "active"}, dto)
                       \cup IF given \/ dto.resource # Nothing THEN {"key"} ELSE {}
  <2>1. id \in In("permission") /\ Update(r, NoTenant, "permission", id, new, cols)
    BY <1>3 DEF PermissionUpdate
  <2>2. new \in Permissions /\ new.tenant = old.tenant
    BY <2>1, PermissionEdits
  <2>3. cols \in SUBSET (Columns \ {"tenant"})
    BY DEF Assigned, Columns
  <2> HIDE DEF new, cols
  <2> QED
    BY <1>0, <2>1, <2>2, <2>3, UpdateStep
<1>4. ASSUME NEW id \in Ids, PermissionRemove(r, id) PROVE Planned(r, "permission")
  BY <1>0, <1>4, DeleteStep DEF PermissionRemove
<1>5. ASSUME NEW id \in Ids, NEW active \in BOOLEAN, id \in In("permission"),
             Update(r, NoTenant, "permission", id, [Row("permission", id) EXCEPT !.active = active],
                    {"active"})
      PROVE  Planned(r, "permission")
  <2> DEFINE new == [Row("permission", id) EXCEPT !.active = active]
  <2>1. new \in Permissions /\ new.tenant = Row("permission", id).tenant
    <3>1. Row("permission", id) \in Permissions
      BY <1>0, <1>5, RowThere
    <3> QED
      BY <3>1 DEF Permissions
  <2>2. {"active"} \in SUBSET (Columns \ {"tenant"})
    BY DEF Columns
  <2> HIDE DEF new
  <2> QED
    BY <1>0, <1>5, <2>1, <2>2, UpdateStep DEF new
<1>6. ASSUME NEW id \in Ids, PermissionEnable(r, id) \/ PermissionDisable(r, id)
      PROVE  Planned(r, "permission")
  BY <1>5, <1>6 DEF PermissionEnable, PermissionDisable
<1> QED
  BY <1>1, <1>2, <1>3, <1>4, <1>6 DEF PermissionController

-----------------------------------------------------------------------------
(* The flush of a plan.                                                    *)

(* A plan that is carried out, or dropped, is no plan any more.            *)
LEMMA EndsKeeps ==
  ASSUME DirInv, NEW r \in Requests, Ends(r)
  PROVE  /\ plan' \in [Requests -> Plans] /\ raced' \in BOOLEAN
         /\ plan'[r] = Idle /\ \A s \in Requests \ {r} : plan'[s] = plan[s]
BY DEF DirInv, DirTypeOK, Ends, Plans

(* What is right of a plan stays right while keys are drawn, rows go and   *)
(* rows that stay keep their tenants.                                      *)
LEMMA PlansStayRight ==
  ASSUME DirInv, NEW r \in Requests, Ends(r),
         \A kind \in Kinds : drawn[kind] \subseteq drawn'[kind],
         \A kind \in Kinds : \A id \in drawn[kind] :
           rows'[kind][id] # Nothing =>
             rows[kind][id] # Nothing /\ rows'[kind][id].tenant = rows[kind][id].tenant
  PROVE  \A s \in Requests : PlanInv(plan[s])'
<1> SUFFICES ASSUME NEW s \in Requests PROVE PlanInv(plan[s])'
  OBVIOUS
<1>1. CASE s = r
  BY <1>1, EndsKeeps DEF PlanInv, Idle
<1>2. CASE s # r
  <2>1. plan'[s] = plan[s] /\ PlanInv(plan[s]) /\ plan[s] \in Plans
    BY <1>2, EndsKeeps DEF DirInv, DirTypeOK
  <2>2. plan[s].op \in {"update", "delete"} => plan[s].kind \in Kinds
    BY <2>1 DEF Plans, Idle
  <2>3. plan[s].op \in {"insert"} => plan[s].kind \in Kinds
    BY <2>1 DEF Plans, Idle
  <2>4. plan[s].op \in {"update", "delete"} => KeepsTenant(plan[s])'
    BY <2>1, <2>2 DEF PlanInv, KeepsTenant, Row
  <2>5. plan[s].op \in {"insert", "update", "delete"} /\ plan[s].kind = "user" => OwnUsers(plan[s])'
    BY <2>1, <2>2 DEF PlanInv, KeepsTenant, OwnUsers, Row, Kinds
  <2> QED
    BY <2>1, <2>4, <2>5 DEF PlanInv
<1> QED
  BY <1>1, <1>2

(* A row that is written by an update keeps its tenant and its type.       *)
LEMMA UpdatedRow ==
  ASSUME NEW kind \in Kinds, NEW old \in RowsOf(kind), NEW row \in RowsOf(kind),
         NEW cols \in SUBSET (Columns \ {"tenant"})
  PROVE  LET new == [c \in Columns |-> IF c \in cols THEN row[c] ELSE old[c]]
         IN  /\ new \in RowsOf(kind)
             /\ new.tenant = old.tenant
             /\ new.key = IF "key" \in cols THEN row.key ELSE old.key
<1> DEFINE new == [c \in Columns |-> IF c \in cols THEN row[c] ELSE old[c]]
<1>1. /\ new.tenant = old.tenant
      /\ new.key = IF "key" \in cols THEN row.key ELSE old.key
      /\ new.rest = IF "rest" \in cols THEN row.rest ELSE old.rest
      /\ new.active = IF "active" \in cols THEN row.active ELSE old.active
  BY DEF Columns
<1>2. new = [tenant |-> new.tenant, key |-> new.key, rest |-> new.rest, active |-> new.active]
  BY DEF Columns
<1> HIDE DEF new
<1>3. ASSUME NEW T, NEW K, RowsOf(kind) = [tenant: T, key: K, rest: Contents, active: BOOLEAN]
      PROVE  new \in RowsOf(kind)
  <2>1. new.tenant \in T /\ new.key \in K /\ new.rest \in Contents /\ new.active \in BOOLEAN
    BY <1>1, <1>3
  <2> QED
    BY <1>2, <1>3, <2>1
<1>4. new \in RowsOf(kind)
  BY <1>3, RowTypes DEF Kinds, Users, TenantRows, Organizations, Roles, Permissions
<1> QED
  BY <1>1, <1>4 DEF new

(* What each flush does to the rows and to the keys that are drawn.        *)
LEMMA FlushInsertInv ==
  ASSUME DirInv, NEW r \in Requests, NEW id \in Ids, FlushInsert(r, id)
  PROVE  DirInv'
<1> DEFINE p == plan[r]
<1>1. p \in Plans /\ p.op = "insert" /\ PlanInv(p)
  BY DEF DirInv, DirTypeOK, FlushInsert
<1>2. p.kind \in Kinds /\ p.row \in RowsOf(p.kind) /\ p.row \in Rows
  BY <1>1 DEF Plans, PlanInv, Idle
<1>3. /\ id \notin drawn[p.kind]
      /\ rows' = [rows EXCEPT ![p.kind][id] = p.row]
      /\ drawn' = [drawn EXCEPT ![p.kind] = @ \cup {id}]
      /\ Ends(r) /\ UNCHANGED granted
  BY DEF FlushInsert
<1> HIDE DEF p
<1>4. rows' \in [Kinds -> [Ids -> Rows \cup {Nothing}]]
  BY <1>2, <1>3 DEF DirInv
<1>5. \A kind \in Kinds : rows'[kind] \in [Ids -> RowsOf(kind) \cup {Nothing}]
  BY <1>2, <1>3 DEF DirInv, DirTypeOK
<1>6. drawn' \in [Kinds -> SUBSET Ids]
  BY <1>2, <1>3 DEF DirInv, DirTypeOK
<1>7. \A kind \in Kinds : (In(kind) \subseteq drawn[kind])'
  BY <1>2, <1>3 DEF DirInv, DirTypeOK, In
<1>8. \A s \in Requests : PlanInv(plan[s])'
  <2>1. \A kind \in Kinds : drawn[kind] \subseteq drawn'[kind]
    BY <1>2, <1>3 DEF DirInv, DirTypeOK
  <2>2. \A kind \in Kinds : \A i \in drawn[kind] : rows'[kind][i] = rows[kind][i]
    BY <1>2, <1>3 DEF DirInv, DirTypeOK
  <2> QED
    BY <1>3, <2>1, <2>2, PlansStayRight
<1> QED
  BY <1>3, <1>4, <1>5, <1>6, <1>7, <1>8, EndsKeeps DEF DirInv, DirTypeOK

(* The row of an update: gone, or with its tenant.                         *)
LEMMA FlushUpdateRows ==
  ASSUME DirInv, NEW r \in Requests, FlushUpdate(r)
  PROVE  /\ plan[r].kind \in Kinds /\ plan[r].id \in Ids
         /\ rows' \in [Kinds -> [Ids -> Rows \cup {Nothing}]]
         /\ rows'[plan[r].kind][plan[r].id] \in RowsOf(plan[r].kind) \cup {Nothing}
         /\ rows'[plan[r].kind][plan[r].id] # Nothing =>
              /\ rows[plan[r].kind][plan[r].id] # Nothing
              /\ rows'[plan[r].kind][plan[r].id].tenant = rows[plan[r].kind][plan[r].id].tenant
              /\ rows'[plan[r].kind][plan[r].id].key =
                   IF "key" \in plan[r].cols THEN plan[r].row.key
                   ELSE rows[plan[r].kind][plan[r].id].key
         /\ \A kind \in Kinds, id \in Ids :
              <<kind, id>> # <<plan[r].kind, plan[r].id>> => rows'[kind][id] = rows[kind][id]
<1> DEFINE p == plan[r]
           old == rows[p.kind][p.id]
           new == [c \in Columns |-> IF c \in p.cols THEN p.row[c] ELSE old[c]]
<1>1. p \in Plans /\ p.op = "update" /\ PlanInv(p)
  BY DEF DirInv, DirTypeOK, FlushUpdate
<1>2. /\ p.kind \in Kinds /\ p.id \in Ids /\ p.row \in RowsOf(p.kind)
      /\ p.cols \in SUBSET (Columns \ {"tenant"})
  BY <1>1 DEF Plans, PlanInv, KeepsTenant, Idle
<1>3. old \in RowsOf(p.kind) \cup {Nothing}
  BY <1>2 DEF DirInv, DirTypeOK
<1>4. CASE old = Nothing
  <2>1. rows' = rows
    <3>1. p.id \notin In(p.kind)
      BY <1>4 DEF In
    <3> QED
      BY <3>1, Zenon DEF FlushUpdate
  <2>2. rows'[p.kind][p.id] = Nothing
    BY <1>4, <2>1
  <2>3. rows' \in [Kinds -> [Ids -> Rows \cup {Nothing}]]
    BY <2>1 DEF DirInv
  <2> HIDE DEF p
  <2>4. \A kind \in Kinds, id \in Ids : <<kind, id>> # <<p.kind, p.id>> => rows'[kind][id] = rows[kind][id]
    BY <2>1
  <2> QED
    BY <1>2, <2>2, <2>3, <2>4, Zenon DEF p
<1>5. CASE old # Nothing
  <2>1. rows' = [rows EXCEPT ![p.kind][p.id] = new]
    BY <1>2, <1>5 DEF FlushUpdate, In
  <2>2. /\ new \in RowsOf(p.kind)
        /\ new.tenant = old.tenant
        /\ new.key = IF "key" \in p.cols THEN p.row.key ELSE old.key
    <3>1. old \in RowsOf(p.kind)
      BY <1>3, <1>5
    <3> HIDE DEF p, old
    <3> QED
      BY <1>2, <3>1, UpdatedRow
  <2>3. RowsOf(p.kind) \subseteq Rows
    BY <1>2, RowTypes
  <2> HIDE DEF new
  <2>4. rows'[p.kind][p.id] = new
    BY <1>2, <2>1 DEF DirInv
  <2> HIDE DEF p
  <2>5. rows' \in [Kinds -> [Ids -> Rows \cup {Nothing}]]
    BY <1>2, <2>1, <2>2, <2>3 DEF DirInv
  <2>6. \A kind \in Kinds, id \in Ids : <<kind, id>> # <<p.kind, p.id>> => rows'[kind][id] = rows[kind][id]
    BY <1>2, <2>1 DEF DirInv
  <2> QED
    BY <1>2, <1>5, <2>2, <2>4, <2>5, <2>6 DEF p, old
<1> QED
  BY <1>4, <1>5

LEMMA FlushUpdateInv ==
  ASSUME DirInv, NEW r \in Requests, FlushUpdate(r)
  PROVE  DirInv'
<1> DEFINE k == plan[r].kind
           i == plan[r].id
<1>1. Ends(r) /\ UNCHANGED <<drawn, granted>>
  BY DEF FlushUpdate
<1>2. /\ k \in Kinds /\ i \in Ids
      /\ rows' \in [Kinds -> [Ids -> Rows \cup {Nothing}]]
      /\ rows'[k][i] \in RowsOf(k) \cup {Nothing}
      /\ rows'[k][i] # Nothing => rows[k][i] # Nothing /\ rows'[k][i].tenant = rows[k][i].tenant
      /\ \A kind \in Kinds, id \in Ids : <<kind, id>> # <<k, i>> => rows'[kind][id] = rows[kind][id]
  BY FlushUpdateRows
<1> HIDE DEF k, i
<1>3. \A kind \in Kinds, id \in Ids :
        /\ rows'[kind][id] \in RowsOf(kind) \cup {Nothing}
        /\ rows'[kind][id] # Nothing =>
             rows[kind][id] # Nothing /\ rows'[kind][id].tenant = rows[kind][id].tenant
  <2> TAKE kind \in Kinds, id \in Ids
  <2>1. CASE <<kind, id>> = <<k, i>>
    BY <1>2, <2>1
  <2>2. CASE <<kind, id>> # <<k, i>>
    BY <1>2, <2>2 DEF DirInv, DirTypeOK
  <2> QED
    BY <2>1, <2>2
<1>4. \A kind \in Kinds : rows'[kind] \in [Ids -> RowsOf(kind) \cup {Nothing}]
  BY <1>2, <1>3
<1>5. \A kind \in Kinds : (In(kind) \subseteq drawn[kind])'
  BY <1>1, <1>3 DEF DirInv, In
<1>6. \A s \in Requests : PlanInv(plan[s])'
  BY <1>1, <1>3, PlansStayRight DEF DirInv, DirTypeOK
<1> QED
  BY <1>1, <1>2, <1>4, <1>5, <1>6, EndsKeeps DEF DirInv, DirTypeOK

LEMMA FlushDeleteInv ==
  ASSUME DirInv, NEW r \in Requests, FlushDelete(r)
  PROVE  DirInv'
<1> DEFINE p == plan[r]
<1>1. p \in Plans /\ p.op = "delete" /\ PlanInv(p)
  BY DEF DirInv, DirTypeOK, FlushDelete
<1>2. p.kind \in Kinds /\ p.id \in Ids
  BY <1>1 DEF Plans, Idle
<1>3. /\ rows' = [rows EXCEPT ![p.kind][p.id] = Nothing]
      /\ Ends(r) /\ UNCHANGED drawn
      /\ granted' \subseteq granted
  BY DEF FlushDelete
<1> HIDE DEF p
<1>4. rows' \in [Kinds -> [Ids -> Rows \cup {Nothing}]]
  BY <1>2, <1>3 DEF DirInv
<1>5. \A kind \in Kinds : rows'[kind] \in [Ids -> RowsOf(kind) \cup {Nothing}]
  BY <1>2, <1>3 DEF DirInv, DirTypeOK
<1>6. \A kind \in Kinds, id \in Ids : rows'[kind][id] # Nothing => rows'[kind][id] = rows[kind][id]
  BY <1>2, <1>3 DEF DirInv
<1>7. \A kind \in Kinds : (In(kind) \subseteq drawn[kind])'
  BY <1>3, <1>6 DEF DirInv, In
<1>8. \A s \in Requests : PlanInv(plan[s])'
  BY <1>3, <1>6, PlansStayRight DEF DirInv, DirTypeOK
<1> QED
  BY <1>3, <1>4, <1>5, <1>7, <1>8, EndsKeeps DEF DirInv, DirTypeOK

(* The other flushes leave the rows alone.                                 *)
LEMMA FlushRestInv ==
  ASSUME DirInv, NEW r \in Requests, FlushGrant(r) \/ FlushRevoke(r) \/ FlushFails(r)
  PROVE  DirInv' /\ UNCHANGED <<rows, drawn>> /\ Ends(r)
<1>1. Ends(r) /\ UNCHANGED <<rows, drawn>>
  BY DEF FlushGrant, FlushRevoke, FlushFails
<1>2. granted' \in SUBSET (Ids \X Ids)
  <2>1. CASE FlushGrant(r)
    <3>1. plan[r] \in Plans /\ plan[r].op = "grant"
      BY <2>1 DEF FlushGrant, DirInv, DirTypeOK
    <3>2. plan[r].role \in Ids /\ plan[r].permissions \in SUBSET Ids
      BY <3>1 DEF Plans, Idle
    <3> QED
      BY <2>1, <3>2 DEF FlushGrant, DirInv, DirTypeOK
  <2>2. CASE FlushRevoke(r) \/ FlushFails(r)
    BY <2>2 DEF FlushRevoke, FlushFails, DirInv, DirTypeOK
  <2> QED
    BY <2>1, <2>2
<1>3. \A s \in Requests : PlanInv(plan[s])'
  BY <1>1, PlansStayRight
<1>4. \A kind \in Kinds : (In(kind) \subseteq drawn[kind])'
  BY <1>1 DEF DirInv, In
<1> QED
  BY <1>1, <1>2, <1>3, <1>4, EndsKeeps DEF DirInv, DirTypeOK

LEMMA DirNextInv == DirInv /\ [DirNext]_dirVars => DirInv'
<1> SUFFICES ASSUME DirInv, [DirNext]_dirVars PROVE DirInv'
  OBVIOUS
<1>1. ASSUME NEW r \in Requests, Controllers(r) PROVE DirInv'
  <2>1. raced' \in BOOLEAN
    BY <1>1, PermissionControllerPlans DEF Controllers, DirInv, DirTypeOK
  <2>2. \E kind : Planned(r, kind)
    BY <1>1, UserControllerPlans, TenantControllerPlans, OrganizationControllerPlans,
       RoleControllerPlans, PermissionControllerPlans DEF Controllers
  <2> QED
    BY <2>1, <2>2, PlanStep
<1>2. ASSUME NEW r \in Requests, Flush(r) PROVE DirInv'
  BY <1>2, FlushInsertInv, FlushUpdateInv, FlushDeleteInv, FlushRestInv DEF Flush
<1>3. CASE UNCHANGED dirVars
  <2>1. UNCHANGED <<rows, drawn, granted, plan, raced>>
    BY <1>3 DEF dirVars
  <2>2. DirTypeOK'
    BY <2>1 DEF DirInv, DirTypeOK
  <2>3. \A q : PlanInv(q) <=> PlanInv(q)'
    BY <2>1 DEF PlanInv, KeepsTenant, OwnUsers, Row
  <2> QED
    BY <2>1, <2>2, <2>3 DEF DirInv, In
<1> QED
  BY <1>1, <1>2, <1>3 DEF DirNext

(* The tables hold rows of their types and the plans of requests what the  *)
(* flushes rely on, whatever interleaves.                                  *)
THEOREM DirectoryTypeCorrect == DirSpec => []DirTypeOK
<1>1. DirInv => DirTypeOK
  BY DEF DirInv
<1> QED
  BY <1>1, DirInitInv, DirNextInv, PTL DEF DirSpec

-----------------------------------------------------------------------------
(* One tenant, one step: the users of t are as they were, or a request made*)
(* for t has ended.                                                        *)
UsersOf(t) ==
  \/ /\ UserFindAll(t)' = UserFindAll(t)
     /\ \A id \in UserFindAll(t) : rows'["user"][id] = rows["user"][id]
  \/ \E r \in Requests : plan[r] # Idle /\ plan'[r] = Idle /\ plan[r].by = t

(* A flush that touches one row of the users, which is or becomes one of   *)
(* the tenant the request was made for, or goes.                           *)
LEMMA OneUserTouched ==
  ASSUME DirInv, NEW r \in Requests, NEW t \in Tenants, NEW i \in Ids,
         plan[r] # Idle, plan'[r] = Idle,
         rows["user"][i] # Nothing => rows["user"][i].tenant = plan[r].by,
         rows'["user"][i] # Nothing => rows'["user"][i].tenant = plan[r].by,
         \A id \in Ids \ {i} : rows'["user"][id] = rows["user"][id]
  PROVE  UsersOf(t)
<1>1. CASE plan[r].by = t
  BY <1>1 DEF UsersOf
<1>2. CASE plan[r].by # t
  <2>1. i \notin UserFindAll(t) /\ i \notin UserFindAll(t)'
    BY <1>2 DEF UserFindAll, In, Row
  <2>2. \A id \in Ids \ {i} : id \in UserFindAll(t)' <=> id \in UserFindAll(t)
    BY DEF UserFindAll, In, Row
  <2>3. UserFindAll(t) \subseteq Ids /\ UserFindAll(t)' \subseteq Ids
    BY DEF UserFindAll, In
  <2>4. \A id : id \in UserFindAll(t)' <=> id \in UserFindAll(t)
    BY <2>1, <2>2, <2>3, Zenon
  <2>5. UserFindAll(t)' = UserFindAll(t)
    BY <2>4, Zenon
  <2>6. \A id \in UserFindAll(t) : rows'["user"][id] = rows["user"][id]
    BY <2>1, <2>3, Zenon
  <2> QED
    BY <2>5, <2>6, Zenon DEF UsersOf
<1> QED
  BY <1>1, <1>2

LEMMA OthersUntouched ==
  ASSUME NEW t \in Tenants, rows'["user"] = rows["user"]
  PROVE  UsersOf(t)
BY DEF UsersOf, UserFindAll, In, Row

LEMMA NextUsersOf ==
  ASSUME DirInv, [DirNext]_dirVars, NEW t \in Tenants
  PROVE  UsersOf(t)
<1>1. ASSUME NEW r \in Requests, Controllers(r) PROVE UNCHANGED rows
  <2>1. PICK kind : Planned(r, kind)
    BY <1>1, UserControllerPlans, TenantControllerPlans, OrganizationControllerPlans,
       RoleControllerPlans, PermissionControllerPlans DEF Controllers
  <2> QED
    BY <2>1 DEF Planned, Plan
<1>2. ASSUME NEW r \in Requests, NEW id \in Ids, FlushInsert(r, id) PROVE UsersOf(t)
  <2>1. plan[r] \in Plans /\ plan[r].op = "insert" /\ PlanInv(plan[r]) /\ id \notin drawn[plan[r].kind]
    BY <1>2 DEF DirInv, DirTypeOK, FlushInsert
  <2>2. plan[r] # Idle /\ plan[r].kind \in Kinds
    BY <2>1 DEF Plans, Idle
  <2>3. rows' = [rows EXCEPT ![plan[r].kind][id] = plan[r].row] /\ plan'[r] = Idle
    BY <1>2, EndsKeeps DEF FlushInsert
  <2>4. CASE plan[r].kind = "user"
    <3>1. rows["user"][id] = Nothing
      BY <2>1, <2>4 DEF DirInv, In, Kinds
    <3>2. rows'["user"][id] = plan[r].row /\ plan[r].row.tenant = plan[r].by
      BY <2>1, <2>2, <2>3, <2>4 DEF DirInv, PlanInv, OwnUsers
    <3>3. \A j \in Ids \ {id} : rows'["user"][j] = rows["user"][j]
      BY <2>2, <2>3, <2>4 DEF DirInv
    <3> QED
      BY <2>2, <2>3, <3>1, <3>2, <3>3, OneUserTouched
  <2>5. CASE plan[r].kind # "user"
    BY <2>2, <2>3, <2>5, OthersUntouched DEF DirInv, Kinds
  <2> QED
    BY <2>4, <2>5
<1>3. ASSUME NEW r \in Requests, FlushUpdate(r) PROVE UsersOf(t)
  <2> DEFINE k == plan[r].kind
             i == plan[r].id
  <2>1. plan[r] \in Plans /\ plan[r].op = "update" /\ PlanInv(plan[r]) /\ plan'[r] = Idle
    BY <1>3, EndsKeeps DEF DirInv, DirTypeOK, FlushUpdate
  <2>2. plan[r] # Idle
    BY <2>1 DEF Idle
  <2>3. /\ k \in Kinds /\ i \in Ids
        /\ rows' \in [Kinds -> [Ids -> Rows \cup {Nothing}]]
        /\ rows'[k][i] # Nothing => rows[k][i] # Nothing /\ rows'[k][i].tenant = rows[k][i].tenant
        /\ \A kind \in Kinds, id \in Ids : <<kind, id>> # <<k, i>> => rows'[kind][id] = rows[kind][id]
    BY <1>3, FlushUpdateRows
  <2>4. CASE k = "user"
    <3>1. rows[k][i] # Nothing => rows[k][i].tenant = plan[r].by
      BY <2>1, <2>4 DEF PlanInv, KeepsTenant, OwnUsers, Row
    <3>2. \A id \in Ids \ {i} : rows'["user"][id] = rows["user"][id]
      BY <2>3, <2>4
    <3> QED
      BY <2>1, <2>2, <2>3, <2>4, <3>1, <3>2, OneUserTouched
  <2>5. CASE k # "user"
    <3>1. \A id \in Ids : rows'["user"][id] = rows["user"][id]
      BY <2>3, <2>5 DEF Kinds
    <3>2. rows'["user"] = rows["user"]
      BY <2>3, <3>1 DEF DirInv, Kinds
    <3> QED
      BY <3>2, OthersUntouched
  <2> QED
    BY <2>4, <2>5
<1>4. ASSUME NEW r \in Requests, FlushDelete(r) PROVE UsersOf(t)
  <2>1. plan[r] \in Plans /\ plan[r].op = "delete" /\ PlanInv(plan[r]) /\ plan'[r] = Idle
    BY <1>4, EndsKeeps DEF DirInv, DirTypeOK, FlushDelete
  <2>2. plan[r] # Idle /\ plan[r].kind \in Kinds /\ plan[r].id \in Ids
    BY <2>1 DEF Plans, Idle
  <2>3. rows' = [rows EXCEPT ![plan[r].kind][plan[r].id] = Nothing]
    BY <1>4 DEF FlushDelete
  <2>4. CASE plan[r].kind = "user"
    <3>1. rows["user"][plan[r].id] # Nothing => rows["user"][plan[r].id].tenant = plan[r].by
      BY <2>1, <2>4 DEF PlanInv, OwnUsers, Row
    <3>2. rows'["user"][plan[r].id] = Nothing
      BY <2>2, <2>3, <2>4 DEF DirInv
    <3>3. \A j \in Ids \ {plan[r].id} : rows'["user"][j] = rows["user"][j]
      BY <2>2, <2>3, <2>4 DEF DirInv
    <3> QED
      BY <2>1, <2>2, <3>1, <3>2, <3>3, OneUserTouched
  <2>5. CASE plan[r].kind # "user"
    BY <2>2, <2>3, <2>5, OthersUntouched DEF DirInv, Kinds
  <2> QED
    BY <2>4, <2>5
<1>5. ASSUME NEW r \in Requests, Flush(r) PROVE UsersOf(t)
  <2>1. CASE FlushGrant(r) \/ FlushRevoke(r) \/ FlushFails(r)
    BY <2>1, FlushRestInv, OthersUntouched
  <2> QED
    BY <1>2, <1>3, <1>4, <1>5, <2>1 DEF Flush
<1> QED
  BY <1>1, <1>5, OthersUntouched DEF DirNext, dirVars

(* The users of a tenant change only when a request made for that tenant   *)
(* ends, although a request checks the tenant of a row before an await and *)
(* writes by its id after it (user.service.ts).                            *)
THEOREM UsersKeepTheirTenant == DirSpec => UsersStayWithTheirTenant
<1>1. ASSUME DirInv, [DirNext]_dirVars
      PROVE  \A t \in Tenants :
               \/ /\ UserFindAll(t)' = UserFindAll(t)
                  /\ \A id \in UserFindAll(t) : rows'["user"][id] = rows["user"][id]
               \/ \E r \in Requests : plan[r] # Idle /\ plan'[r] = Idle /\ plan[r].by = t
  BY <1>1, NextUsersOf DEF UsersOf
<1> QED
  BY <1>1, DirInitInv, DirNextInv, PTL DEF DirSpec, UsersStayWithTheirTenant

-----------------------------------------------------------------------------
(* Permissions that name a resource are distinct: as long as nothing has   *)
(* raced, at most one request is about to write a key, and what it writes  *)
(* is still free or blanks the resource.                                   *)
KeyWriter(p) ==
  /\ p.op \in {"insert", "update"} /\ p.kind = "permission"
  /\ p.op = "update" => "key" \in p.cols

FreshKey(p) ==
  \/ p.row.key.resource \in Blanks
  \/ /\ p.op = "insert" => ~Has("permission", p.row.tenant, p.row.key)
     /\ p.op = "update" => ~HasOther("permission", p.row.tenant, p.row.key, p.id)

SameKey(i, j) ==
  /\ Row("permission", i).tenant = Row("permission", j).tenant
  /\ Row("permission", i).key = Row("permission", j).key
  /\ Row("permission", i).key.resource \notin Blanks

DistinctInv ==
  raced \/ /\ \A i, j \in In("permission") : SameKey(i, j) => i = j
           /\ \A r \in Requests : KeyWriter(plan[r]) =>
                /\ FreshKey(plan[r])
                /\ \A s \in Requests \ {r} : ~KeyWriter(plan[s])

LEMMA PlansNoKey ==
  ASSUME DirInv, DistinctInv, NEW r \in Requests, NEW p, ~KeyWriter(p), Plan(r, p), UNCHANGED raced
  PROVE  DistinctInv'
<1>1. plan' = [plan EXCEPT ![r] = p] /\ UNCHANGED <<rows, drawn, granted, raced>>
  BY DEF Plan
<1>2. \A q : FreshKey(q) <=> FreshKey(q)'
  BY <1>1 DEF FreshKey, Has, HasOther, In, Row
<1>3. \A i, j : SameKey(i, j) <=> SameKey(i, j)'
  BY <1>1 DEF SameKey, Row
<1>4. In("permission")' = In("permission")
  BY <1>1 DEF In
<1>5. \A s \in Requests : KeyWriter(plan'[s]) => s # r /\ plan'[s] = plan[s]
  BY <1>1 DEF DirInv, DirTypeOK
<1>6. \A s \in Requests : KeyWriter(plan[s])' <=> KeyWriter(plan'[s])
  BY DEF KeyWriter
<1> QED
  BY <1>1, <1>2, <1>3, <1>4, <1>5, <1>6 DEF DistinctInv

LEMMA PlansFreshKey ==
  ASSUME DirInv, DistinctInv, NEW r \in Requests, NEW p, FreshKey(p), Plan(r, p), Marks(r)
  PROVE  DistinctInv'
<1> SUFFICES ASSUME ~raced' PROVE DistinctInv'
  BY DEF DistinctInv
<1>1. plan' = [plan EXCEPT ![r] = p] /\ UNCHANGED <<rows, drawn, granted>>
  BY DEF Plan
<1>2. \A q : FreshKey(q) <=> FreshKey(q)'
  BY <1>1 DEF FreshKey, Has, HasOther, In, Row
<1>3. \A i, j : SameKey(i, j) <=> SameKey(i, j)'
  BY <1>1 DEF SameKey, Row
<1>4. In("permission")' = In("permission")
  BY <1>1 DEF In
<1>5. ~raced /\ \A s \in Requests \ {r} : ~KeyWriter(plan[s])
  BY DEF Marks, WritesPermission, KeyWriter
<1>6. plan'[r] = p /\ \A s \in Requests \ {r} : plan'[s] = plan[s]
  BY <1>1 DEF DirInv, DirTypeOK
<1>7. \A s \in Requests \ {r} : ~KeyWriter(plan[s])'
  BY <1>5, <1>6 DEF KeyWriter
<1>8. FreshKey(plan[r])'
  BY <1>2, <1>6
<1> QED
  BY <1>3, <1>4, <1>5, <1>7, <1>8 DEF DistinctInv

(* The operations of PermissionService.                                    *)
LEMMA PermissionControllerDistinct ==
  ASSUME DirInv, DistinctInv, NEW r \in Requests, PermissionController(r)
  PROVE  DistinctInv'
<1>1. ASSUME NEW dto \in CreatePermissionDto, PermissionCreate(r, dto) PROVE DistinctInv'
  <2> DEFINE key == [type |-> dto.type, action |-> dto.action, resource |-> dto.resource]
             p == [op |-> "insert", by |-> NoTenant, kind |-> "permission",
                   row |-> [tenant |-> dto.tenantId, key |-> key, rest |-> dto.rest, active |-> TRUE]]
  <2>1. ~Has("permission", dto.tenantId, key) /\ Plan(r, p) /\ Marks(r)
    BY <1>1 DEF PermissionCreate, Insert
  <2> HIDE DEF key
  <2>2. FreshKey(p)
    BY <2>1 DEF FreshKey
  <2> HIDE DEF p
  <2> QED
    BY <2>1, <2>2, PlansFreshKey
<1>2. ASSUME NEW id \in Ids, NEW dto \in UpdatePermissionDto, PermissionUpdate(r, id, dto)
      PROVE  DistinctInv'
  <2> DEFINE old == Row("permission", id)
             given == Truthy(dto.type) \/ Truthy(dto.action) \/ Truthy(dto.resource)
             differs == \/ old.key.type # dto.type \/ old.key.action # dto.action
                        \/ old.key.resource # dto.resource
             key == AssignedKey(old.key, dto)
             new == [old EXCEPT !.key = AssignedKey(@, dto), !.rest = Given(dto.rest, @),
                                !.active = Given(dto.active, @)]
             cols == Assigned({"rest", "active"}, dto)
                       \cup IF given \/ dto.resource # Nothing THEN {"key"} ELSE {}
             p == [op |-> "update", by |-> NoTenant, kind |-> "permission", id |-> id,
                   row |-> new, cols |-> cols]
  <2>1. /\ id \in In("permission") /\ Plan(r, p) /\ Marks(r)
        /\ given /\ differs => ~HasOther("permission", old.tenant, LookedFor(old.key, dto), id)
    BY <1>2 DEF PermissionUpdate, Update
  <2>2. /\ old \in Permissions
        /\ new.tenant = old.tenant /\ new.key = key
    BY <2>1, PermissionEdits
  <2>3. old.key \in PermissionKeys
    BY <2>2 DEF Permissions
  \* A key that names a resource after the update is the one looked for.
  <2>4. key.resource \notin Blanks => LookedFor(old.key, dto) = key
    <3>1. key = [type |-> Given(dto.type, old.key.type), action |-> Given(dto.action, old.key.action),
                 resource |-> Given(dto.resource, old.key.resource)]
      BY DEF AssignedKey
    <3>2. CASE Truthy(dto.resource)
      BY <3>1, <3>2 DEF LookedFor, AssignedKey
    <3>3. CASE ~Truthy(dto.resource) /\ Given(dto.resource, old.key.resource) \notin Blanks
      <4>1. Given(dto.resource, old.key.resource) = old.key.resource
        BY <3>3 DEF Truthy, Given
      <4> QED
        BY <3>1, <3>3, <4>1 DEF LookedFor, AssignedKey
    <3> QED
      BY <3>1, <3>2, <3>3
  <2>5. ~differs => key = old.key
    BY <2>3 DEF Given, PermissionKeys, AssignedKey
  <2>6. p.op = "update" /\ p.kind = "permission" /\ p.row = new /\ p.id = id /\ p.cols = cols
    OBVIOUS
  <2>7. "key" \in cols <=> given \/ dto.resource # Nothing
    BY DEF Assigned
  <2>8. ~given /\ dto.resource # Nothing => key.resource \in Blanks
    BY DEF Truthy, AssignedKey, Given
  <2> HIDE DEF given, differs, key, new, cols, p
  <2>9. UNCHANGED raced \/ raced' = TRUE
    BY <2>1 DEF Marks, DirInv, DirTypeOK
  <2>10. CASE key.resource \in Blanks
    <3>1. FreshKey(p)
      BY <2>2, <2>6, <2>10 DEF FreshKey
    <3> QED
      BY <2>1, <3>1, PlansFreshKey
  <2>11. CASE key.resource \notin Blanks /\ given /\ differs
    <3>1. FreshKey(p)
      BY <2>1, <2>2, <2>4, <2>6, <2>11 DEF FreshKey
    <3> QED
      BY <2>1, <3>1, PlansFreshKey
  <2>12. CASE key.resource \notin Blanks /\ given /\ ~differs /\ ~raced
    <3>1. \A i, j \in In("permission") : SameKey(i, j) => i = j
      BY <2>12 DEF DistinctInv
    <3>2. ~HasOther("permission", old.tenant, old.key, id)
      BY <2>1, <2>5, <2>12, <3>1 DEF HasOther, SameKey
    <3>3. FreshKey(p)
      BY <2>2, <2>5, <2>6, <2>12, <3>2 DEF FreshKey
    <3> QED
      BY <2>1, <3>3, PlansFreshKey
  <2>13. CASE ~given /\ dto.resource = Nothing
    <3>1. ~KeyWriter(p)
      BY <2>6, <2>7, <2>13 DEF KeyWriter
    <3> QED
      BY <2>1, <2>9, <3>1, PlansNoKey DEF DistinctInv
  <2>14. CASE raced
    BY <2>1, <2>14 DEF Marks, DistinctInv
  <2> QED
    BY <2>8, <2>10, <2>11, <2>12, <2>13, <2>14
<1>3. ASSUME NEW id \in Ids, UNCHANGED raced,
             PermissionRemove(r, id) \/ PermissionEnable(r, id) \/ PermissionDisable(r, id)
      PROVE  DistinctInv'
  <2>1. CASE PermissionRemove(r, id)
    BY <1>3, <2>1, PlansNoKey DEF PermissionRemove, Delete, KeyWriter
  <2>2. CASE PermissionEnable(r, id) \/ PermissionDisable(r, id)
    <3> DEFINE p(a) == [op |-> "update", by |-> NoTenant, kind |-> "permission", id |-> id,
                        row |-> [Row("permission", id) EXCEPT !.active = a], cols |-> {"active"}]
    <3>1. PICK a \in BOOLEAN : Plan(r, p(a))
      BY <2>2 DEF PermissionEnable, PermissionDisable, Update
    <3>2. p(a).op = "update" /\ "key" \notin p(a).cols
      OBVIOUS
    <3> HIDE DEF p
    <3> QED
      BY <1>3, <3>1, <3>2, PlansNoKey DEF KeyWriter
  <2> QED
    BY <1>3, <2>1, <2>2
<1> QED
  BY <1>1, <1>2, <1>3 DEF PermissionController

(* A flush that brings no new key: every permission afterwards was there   *)
(* before, with its key.                                                   *)
LEMMA NoNewKey ==
  ASSUME DirInv, DistinctInv, NEW r \in Requests, Ends(r),
         \A i \in In("permission")' :
           /\ i \in In("permission")
           /\ rows'["permission"][i].tenant = rows["permission"][i].tenant
           /\ rows'["permission"][i].key = rows["permission"][i].key
  PROVE  DistinctInv'
<1> SUFFICES ASSUME ~raced' PROVE DistinctInv'
  BY DEF DistinctInv
<1>1. ~raced /\ plan'[r] = Idle /\ \A s \in Requests \ {r} : plan'[s] = plan[s]
  BY EndsKeeps DEF Ends
<1>2. \A i, j \in In("permission")' : SameKey(i, j)' => i = j
  BY <1>1 DEF DistinctInv, SameKey, Row
<1>3. \A q : FreshKey(q) => FreshKey(q)'
  BY DEF FreshKey, Has, HasOther, Row
<1>4. \A s \in Requests : KeyWriter(plan[s])' => s # r /\ KeyWriter(plan[s]) /\ plan'[s] = plan[s]
  BY <1>1 DEF KeyWriter, Idle
<1>5. \A s \in Requests : KeyWriter(plan[s])' => FreshKey(plan[s])'
  BY <1>1, <1>3, <1>4 DEF DistinctInv, FreshKey
<1>6. \A s, q \in Requests : KeyWriter(plan[s])' /\ KeyWriter(plan[q])' => s = q
  BY <1>1, <1>4 DEF DistinctInv
<1> QED
  BY <1>2, <1>5, <1>6 DEF DistinctInv

(* The flush of the one request that writes a key: what it writes is new   *)
(* among the permissions, and no other plan is about a key.                *)
LEMMA OneNewKey ==
  ASSUME DirInv, DistinctInv, NEW r \in Requests, Ends(r), KeyWriter(plan[r]), NEW id \in Ids,
         \A i \in In("permission")' \ {id} :
           i \in In("permission") /\ rows'["permission"][i] = rows["permission"][i],
         id \in In("permission")' =>
           /\ rows'["permission"][id].tenant = plan[r].row.tenant
           /\ rows'["permission"][id].key = plan[r].row.key,
         ~raced => \/ plan[r].row.key.resource \in Blanks
                   \/ ~HasOther("permission", plan[r].row.tenant, plan[r].row.key, id)
  PROVE  DistinctInv'
<1> SUFFICES ASSUME ~raced' PROVE DistinctInv'
  BY DEF DistinctInv
<1>1. ~raced /\ plan'[r] = Idle /\ \A s \in Requests \ {r} : plan'[s] = plan[s]
  BY EndsKeeps DEF Ends
<1>2. \A s \in Requests : ~KeyWriter(plan[s])'
  BY <1>1 DEF DistinctInv, KeyWriter, Idle
<1>3. \A j \in In("permission")' \ {id} :
        ~(/\ rows'["permission"][j].tenant = plan[r].row.tenant
          /\ rows'["permission"][j].key = plan[r].row.key
          /\ plan[r].row.key.resource \notin Blanks)
  BY <1>1 DEF HasOther, Row
<1>4. \A i, j \in In("permission")' : SameKey(i, j)' => i = j
  BY <1>1, <1>3 DEF DistinctInv, SameKey, Row
<1> QED
  BY <1>2, <1>4 DEF DistinctInv

LEMMA FlushDistinct ==
  ASSUME DirInv, DistinctInv, NEW r \in Requests, Flush(r)
  PROVE  DistinctInv'
<1>1. ASSUME NEW id \in Ids, FlushInsert(r, id) PROVE DistinctInv'
  <2>1. /\ plan[r] \in Plans /\ plan[r].op = "insert" /\ Ends(r)
        /\ id \notin drawn[plan[r].kind]
        /\ rows' = [rows EXCEPT ![plan[r].kind][id] = plan[r].row]
    BY <1>1 DEF DirInv, DirTypeOK, FlushInsert
  <2>2. plan[r].kind \in Kinds
    BY <2>1 DEF Plans, Idle
  <2>3. CASE plan[r].kind = "permission"
    <3>1. KeyWriter(plan[r])
      BY <2>1, <2>3 DEF KeyWriter
    <3>2. ~raced => \/ plan[r].row.key.resource \in Blanks
                    \/ ~HasOther("permission", plan[r].row.tenant, plan[r].row.key, id)
      BY <2>1, <3>1 DEF DistinctInv, FreshKey, Has, HasOther
    <3>3. rows'["permission"][id] = plan[r].row
      BY <2>1, <2>2, <2>3 DEF DirInv
    <3>4. \A i \in Ids \ {id} : rows'["permission"][i] = rows["permission"][i]
      BY <2>1, <2>2, <2>3 DEF DirInv
    <3>5. \A i \in In("permission")' \ {id} :
            i \in In("permission") /\ rows'["permission"][i] = rows["permission"][i]
      BY <3>4 DEF In
    <3> QED
      BY <2>1, <3>1, <3>2, <3>3, <3>5, OneNewKey
  <2>4. CASE plan[r].kind # "permission"
    <3>1. rows'["permission"] = rows["permission"]
      BY <2>1, <2>2, <2>4 DEF DirInv, Kinds
    <3> QED
      BY <2>1, <3>1, NoNewKey DEF In
  <2> QED
    BY <2>3, <2>4
<1>2. CASE FlushUpdate(r)
  <2> DEFINE k == plan[r].kind
             i == plan[r].id
  <2>1. /\ plan[r] \in Plans /\ plan[r].op = "update" /\ PlanInv(plan[r]) /\ Ends(r)
    BY <1>2 DEF DirInv, DirTypeOK, FlushUpdate
  <2>2. /\ k \in Kinds /\ i \in Ids
        /\ rows'[k][i] # Nothing =>
             /\ rows[k][i] # Nothing
             /\ rows'[k][i].tenant = rows[k][i].tenant
             /\ rows'[k][i].key = IF "key" \in plan[r].cols THEN plan[r].row.key ELSE rows[k][i].key
        /\ \A kind \in Kinds, id \in Ids : <<kind, id>> # <<k, i>> => rows'[kind][id] = rows[kind][id]
    BY <1>2, FlushUpdateRows
  <2>3. CASE k = "permission" /\ "key" \in plan[r].cols
    <3>1. KeyWriter(plan[r])
      BY <2>1, <2>3 DEF KeyWriter
    <3>2. ~raced => \/ plan[r].row.key.resource \in Blanks
                    \/ ~HasOther("permission", plan[r].row.tenant, plan[r].row.key, i)
      BY <2>1, <3>1 DEF DistinctInv, FreshKey
    <3>3. \A j \in In("permission")' \ {i} :
            j \in In("permission") /\ rows'["permission"][j] = rows["permission"][j]
      BY <2>2, <2>3 DEF In, Kinds
    <3>4. i \in In("permission")' =>
            /\ rows'["permission"][i].tenant = plan[r].row.tenant
            /\ rows'["permission"][i].key = plan[r].row.key
      BY <2>1, <2>2, <2>3 DEF In, PlanInv, KeepsTenant, Row
    <3> QED
      BY <2>1, <2>2, <3>1, <3>2, <3>3, <3>4, OneNewKey
  <2>4. CASE ~(k = "permission" /\ "key" \in plan[r].cols)
    <3>1. \A j \in In("permission")' :
            /\ j \in In("permission")
            /\ rows'["permission"][j].tenant = rows["permission"][j].tenant
            /\ rows'["permission"][j].key = rows["permission"][j].key
      BY <2>2, <2>4 DEF In, Kinds
    <3> QED
      BY <2>1, <3>1, NoNewKey
  <2> QED
    BY <2>3, <2>4
<1>3. CASE FlushDelete(r)
  <2>1. /\ plan[r] \in Plans /\ plan[r].op = "delete" /\ Ends(r)
        /\ rows' = [rows EXCEPT ![plan[r].kind][plan[r].id] = Nothing]
    BY <1>3 DEF DirInv, DirTypeOK, FlushDelete
  <2>2. plan[r].kind \in Kinds /\ plan[r].id \in Ids
    BY <2>1 DEF Plans, Idle
  <2>3. \A j \in Ids : rows'["permission"][j] # Nothing => rows'["permission"][j] = rows["permission"][j]
    BY <2>1, <2>2 DEF DirInv, Kinds
  <2> QED
    BY <2>1, <2>3, NoNewKey DEF In
<1>4. CASE FlushGrant(r) \/ FlushRevoke(r) \/ FlushFails(r)
  BY <1>4, FlushRestInv, NoNewKey DEF In
<1> QED
  BY <1>1, <1>2, <1>3, <1>4 DEF Flush

LEMMA DirNextDistinct == DirInv /\ DistinctInv /\ [DirNext]_dirVars => DistinctInv'
<1> SUFFICES ASSUME DirInv, DistinctInv, [DirNext]_dirVars PROVE DistinctInv'
  OBVIOUS
<1>1. ASSUME NEW r \in Requests, NEW kind \in Kinds \ {"permission"}, Planned(r, kind), UNCHANGED raced
      PROVE  DistinctInv'
  <2>1. PICK p \in Plans : Plan(r, p) /\ (p.op \in {"insert", "update"} => p.kind = kind)
    BY <1>1 DEF Planned
  <2>2. ~KeyWriter(p)
    BY <2>1 DEF KeyWriter
  <2> QED
    BY <1>1, <2>1, <2>2, PlansNoKey
<1>2. ASSUME NEW r \in Requests, Controllers(r) PROVE DistinctInv'
  <2>1. CASE PermissionController(r)
    BY <2>1, PermissionControllerDistinct
  <2>2. CASE ~PermissionController(r)
    <3>1. UNCHANGED raced
      BY <1>2, <2>2 DEF Controllers
    <3>2. \E kind \in Kinds \ {"permission"} : Planned(r, kind)
      BY <1>2, <2>2, UserControllerPlans, TenantControllerPlans, OrganizationControllerPlans,
         RoleControllerPlans DEF Controllers, Kinds
    <3> QED
      BY <1>1, <3>1, <3>2
  <2> QED
    BY <2>1, <2>2
<1>3. CASE UNCHANGED dirVars
  <2>1. UNCHANGED <<rows, plan, raced>>
    BY <1>3 DEF dirVars
  <2>2. \A q : (FreshKey(q) <=> FreshKey(q)') /\ (KeyWriter(q) <=> KeyWriter(q)')
    BY <2>1 DEF FreshKey, KeyWriter, Has, HasOther, In, Row
  <2>3. \A i, j : SameKey(i, j) <=> SameKey(i, j)'
    BY <2>1 DEF SameKey, Row
  <2> QED
    BY <2>1, <2>2, <2>3 DEF DistinctInv, In
<1> QED
  BY <1>2, <1>3, FlushDistinct DEF DirNext

(* PermissionService keeps the permissions of a tenant that name a         *)
(* resource distinct by what it reads, through any sequence of operations  *)
(* in which no two that write permissions overlap (permission.service.ts;  *)
(* no column is unique).                                                   *)
THEOREM PermissionsStayDistinct == DirSpec => []PermissionsDistinct
<1>1. DirInit => DistinctInv
  BY DEF DirInit, DistinctInv, In, KeyWriter, Idle, Kinds
<1>2. DistinctInv => PermissionsDistinct
  BY DEF DistinctInv, PermissionsDistinct, SameKey
<1> QED
  BY <1>1, <1>2, DirInitInv, DirNextInv, DirNextDistinct, PTL DEF DirSpec

-----------------------------------------------------------------------------
(* The audit log (Audit), types first.                                     *)
LEMMA TrailShape ==
  ASSUME NEW t \in Trail
  PROVE  /\ t.op = "insert" => t.row \in AuditLog
         /\ t.op = "cleanup" => t.old \in SUBSET LogIds
BY DEF Trail, Idle

LEMMA IdleAudit == Idle \in Trail /\ Idle \in Reader /\ Idle.op = "idle"
BY DEF Trail, Reader, Idle

LEMMA ReaderShape ==
  ASSUME NEW x \in Reader, x.op \in {"read", "done"}
  PROVE  /\ x = [op |-> x.op, query |-> x.query, page |-> x.page, there |-> x.there, seen |-> x.seen]
         /\ x.query \in QueryAuditLogDto /\ x.page \in Nat
         /\ x.there \in SUBSET LogIds /\ x.seen \in SUBSET LogIds
BY DEF Reader, Idle

LEMMA ReaderMoves ==
  ASSUME NEW x \in Reader, x.op \in {"read", "done"},
         NEW P \in SUBSET LogIds, NEW n \in Nat, NEW op \in {"read", "done"}
  PROVE  [x EXCEPT !.seen = @ \cup P, !.page = n, !.op = op] \in Reader
<1>1. x \in [op: {"read", "done"}, query: QueryAuditLogDto, page: Nat,
             there: SUBSET LogIds, seen: SUBSET LogIds]
  BY DEF Reader, Idle
<1>2. [x EXCEPT !.seen = @ \cup P, !.page = n, !.op = op]
        \in [op: {"read", "done"}, query: QueryAuditLogDto, page: Nat,
             there: SUBSET LogIds, seen: SUBSET LogIds]
  BY <1>1
<1> QED
  BY <1>2 DEF Reader

LEMMA QueriesAreQueries == Queries \subseteq QueryAuditLogDto
<1>1. AnyLog \in QueryAuditLogDto
  BY DEF AnyLog, QueryAuditLogDto
<1>2. ASSUME NEW u \in LogUsers PROVE [AnyLog EXCEPT !.userId = u] \in QueryAuditLogDto
  BY <1>1 DEF QueryAuditLogDto
<1>3. ASSUME NEW t \in LogTenants PROVE [AnyLog EXCEPT !.tenantId = t] \in QueryAuditLogDto
  BY <1>1 DEF QueryAuditLogDto
<1> QED
  BY <1>1, <1>2, <1>3 DEF Queries

LEMMA FoundAreLogs ==
  ASSUME NEW query
  PROVE  Where(query) \subseteq Logs
BY DEF Where

LEMMA CreateLogType ==
  ASSUME AudTypeOK, NEW r \in Requests, NEW dto \in GivenLogs, CreateLog(r, dto)
  PROVE  AudTypeOK'
<1> DEFINE row == [tenantId |-> dto.tenantId, userId |-> dto.userId, entityType |-> dto.entityType,
                   action |-> dto.action, createdAt |-> today,
                   logLevel |-> IF dto.logLevel = Nothing THEN "INFO" ELSE dto.logLevel]
<1>1. row \in AuditLog
  BY GivenLogsAreKnown DEF CreateAuditLogDto, AuditLog, AudTypeOK, LogLevel
<1>2. [op |-> "insert", row |-> row] \in Trail
  BY <1>1 DEF Trail
<1>3. trail' \in [Requests -> Trail]
  BY <1>2 DEF CreateLog, AudTypeOK
<1> QED
  BY <1>3 DEF CreateLog, AudTypeOK, AuditLog

LEMMA CleanupType ==
  ASSUME AudTypeOK, NEW r \in Requests, NEW days \in 0 .. MaxDays, CleanupOldLogs(r, days)
  PROVE  AudTypeOK'
<1> DEFINE old == {i \in Logs : log[i].createdAt < today - days}
<1>1. [op |-> "cleanup", old |-> old] \in Trail
  BY DEF Trail, Logs
<1>2. trail' \in [Requests -> Trail]
  BY <1>1 DEF CleanupOldLogs, AudTypeOK
<1>3. today - days \in 0 .. LastDay
  BY PagesAreNat DEF CleanupOldLogs, AudTypeOK
<1> QED
  BY <1>2, <1>3 DEF CleanupOldLogs, AudTypeOK

LEMMA ReadingType ==
  ASSUME AudTypeOK, FindAll \/ \E query \in Queries : StartReading(query)
  PROVE  AudTypeOK'
<1>1. ASSUME NEW query \in Queries, StartReading(query) PROVE reader' \in Reader
  BY <1>1, QueriesAreQueries, FoundAreLogs DEF StartReading, Reader, Logs
<1>2. CASE FindAll
  <2>1. PICK listing \in Listings(Where(reader.query)) :
          reader' = [reader EXCEPT
            !.seen = @ \cup Page(listing, reader.page, PageLimit),
            !.page = @ + 1,
            !.op = IF reader.page * PageLimit >= Cardinality(Where(reader.query)) THEN "done" ELSE "read"]
    BY <1>2 DEF FindAll
  <2>2. Page(listing, reader.page, PageLimit) \subseteq LogIds
    BY FoundAreLogs DEF Listings, Page, Logs
  <2>3. reader \in Reader /\ reader.op \in {"read", "done"}
    BY <1>2 DEF FindAll, AudTypeOK
  <2> DEFINE P == Page(listing, reader.page, PageLimit)
             n == reader.page + 1
             op == IF reader.page * PageLimit >= Cardinality(Where(reader.query)) THEN "done" ELSE "read"
  <2>4. P \in SUBSET LogIds /\ n \in Nat /\ op \in {"read", "done"}
    BY <2>2, <2>3, ReaderShape
  <2>5. reader' = [reader EXCEPT !.seen = @ \cup P, !.page = n, !.op = op]
    BY <2>1
  <2> HIDE DEF P, n, op
  <2>6. reader' \in Reader
    BY <2>3, <2>4, <2>5, ReaderMoves
  <2> QED
    BY <1>2, <2>6 DEF FindAll, AudTypeOK
<1> QED
  BY <1>1, <1>2 DEF FindAll, StartReading, AudTypeOK

LEMMA AudNextType == AudTypeOK /\ [AudNext]_auditVars => AudTypeOK'
<1> SUFFICES ASSUME AudTypeOK, [AudNext]_auditVars PROVE AudTypeOK'
  OBVIOUS
<1>1. ASSUME NEW r \in Requests, NEW i \in LogIds, FlushLog(r, i) PROVE AudTypeOK'
  <2>1. trail[r].row \in AuditLog
    BY <1>1, TrailShape DEF FlushLog, AudTypeOK
  <2> QED
    BY <1>1, <2>1, IdleAudit DEF FlushLog, AudTypeOK
<1>2. ASSUME NEW r \in Requests, FlushCleanup(r) \/ LogFlushFails(r) PROVE AudTypeOK'
  BY <1>2, IdleAudit DEF FlushCleanup, LogFlushFails, AudTypeOK
<1>3. CASE NextDay
  BY <1>3, PagesAreNat DEF NextDay, AudTypeOK
<1>4. CASE UNCHANGED auditVars
  BY <1>4 DEF auditVars, AudTypeOK
<1> QED
  BY <1>1, <1>2, <1>3, <1>4, CreateLogType, CleanupType, ReadingType DEF AudNext, AuditController

(* The types of the audit log and of what a client reads of it.            *)
THEOREM AuditTypeCorrect == AudSpec => []AudTypeOK
<1>1. AudInit => AudTypeOK
  BY IdleAudit, PagesAreNat DEF AudInit, AudTypeOK
<1> QED
  BY <1>1, AudNextType, PTL DEF AudSpec

(* What a clean-up is about to remove is older than a cut-off, and the     *)
(* logs are finitely many, because each has drawn a key.                   *)
LogsInv ==
  /\ IsFiniteSet(used) /\ Logs \subseteq used
  /\ \A r \in Requests : trail[r].op = "cleanup" =>
       /\ trail[r].old \subseteq used
       /\ \A i \in trail[r].old \cap Logs : log[i].createdAt < cutoff

(* A log is written once and not changed any more, so what a query finds   *)
(* of the old logs stays the same.                                         *)
LogsStay == \A i \in used : log'[i] \in {log[i], Nothing}

LEMMA StayingLogs ==
  ASSUME LogsInv, LogsStay, NEW i \in used, i \in Logs'
  PROVE  i \in Logs /\ log'[i] = log[i]
BY DEF LogsStay, Logs

LEMMA AudNextLogs ==
  ASSUME AudTypeOK, LogsInv, [AudNext]_auditVars
  PROVE  /\ LogsInv' /\ LogsStay
         /\ used \subseteq used' /\ cutoff <= cutoff' /\ cutoff' \in Int
<1>0. AudTypeOK'
  BY AudNextType
<1>1. ASSUME UNCHANGED <<log, used, trail, cutoff>>
      PROVE  LogsInv' /\ LogsStay /\ used \subseteq used' /\ cutoff <= cutoff'
  BY <1>1 DEF LogsInv, Logs, LogsStay, AudTypeOK
<1>2. ASSUME NEW r \in Requests, NEW t \in Trail, t.op # "cleanup",
             trail' = [trail EXCEPT ![r] = t], UNCHANGED <<log, used, cutoff>>
      PROVE  LogsInv' /\ LogsStay /\ used \subseteq used' /\ cutoff <= cutoff'
  BY <1>2 DEF LogsInv, Logs, LogsStay, AudTypeOK
<1>3. ASSUME NEW r \in Requests, NEW dto \in GivenLogs, CreateLog(r, dto)
      PROVE  LogsInv' /\ LogsStay /\ used \subseteq used' /\ cutoff <= cutoff'
  <2>1. trail'[r] \in Trail /\ trail'[r].op # "cleanup"
    BY <1>0, <1>3 DEF CreateLog, AudTypeOK
  <2>2. trail' = [trail EXCEPT ![r] = trail'[r]]
    BY <1>3 DEF CreateLog, AudTypeOK
  <2> QED
    BY <1>2, <1>3, <2>1, <2>2 DEF CreateLog
<1>4. ASSUME NEW r \in Requests, LogFlushFails(r)
      PROVE  LogsInv' /\ LogsStay /\ used \subseteq used' /\ cutoff <= cutoff'
  BY <1>2, <1>4, IdleAudit DEF LogFlushFails
<1>5. ASSUME NEW r \in Requests, NEW days \in 0 .. MaxDays, CleanupOldLogs(r, days)
      PROVE  LogsInv' /\ LogsStay /\ used \subseteq used' /\ cutoff <= cutoff'
  <2> DEFINE old == {i \in Logs : log[i].createdAt < today - days}
  <2>1. /\ trail' = [trail EXCEPT ![r] = [op |-> "cleanup", old |-> old]]
        /\ cutoff' = IF today - days > cutoff THEN today - days ELSE cutoff
        /\ UNCHANGED <<log, used>>
    BY <1>5 DEF CleanupOldLogs
  <2>2. today - days \in Int /\ cutoff \in Int
    BY PagesAreNat DEF AudTypeOK
  <2>3. cutoff <= cutoff' /\ today - days <= cutoff'
    BY <2>1, <2>2
  <2>4. \A i \in Logs : log[i].createdAt \in Int
    BY PagesAreNat DEF Logs, AudTypeOK, AuditLog
  <2>5. old \subseteq used /\ \A i \in old \cap Logs : log[i].createdAt < cutoff'
    BY <2>2, <2>3, <2>4, <1>0 DEF LogsInv, AudTypeOK
  <2>6. ASSUME NEW d \in Requests, trail'[d].op = "cleanup"
        PROVE  /\ trail'[d].old \subseteq used
               /\ \A i \in trail'[d].old \cap Logs : log[i].createdAt < cutoff'
    <3>1. CASE d = r
      <4>1. trail'[d].old = old
        BY <2>1, <3>1 DEF AudTypeOK
      <4> QED
        BY <2>5, <4>1
    <3>2. CASE d # r
      <4>1. trail'[d] = trail[d]
        BY <2>1, <3>2 DEF AudTypeOK
      <4> QED
        BY <2>2, <2>3, <2>4, <2>6, <4>1, <1>0 DEF LogsInv, AudTypeOK
    <3> QED
      BY <3>1, <3>2
  <2> QED
    BY <2>1, <2>3, <2>6 DEF LogsInv, LogsStay, Logs
<1>6. ASSUME NEW r \in Requests, NEW i \in LogIds, FlushLog(r, i)
      PROVE  LogsInv' /\ LogsStay /\ used \subseteq used' /\ cutoff <= cutoff'
  <2>1. IsFiniteSet(used') /\ used \subseteq used' /\ i \in used'
    BY <1>6, FS_AddElement DEF FlushLog, LogsInv
  <2>2. LogsStay /\ cutoff <= cutoff' /\ \A j \in used : log'[j] = log[j]
    BY <1>6 DEF FlushLog, LogsStay, AudTypeOK
  <2>3. Logs' \subseteq used'
    BY <1>6, <2>1 DEF FlushLog, LogsInv, Logs, AudTypeOK
  <2>4. ASSUME NEW d \in Requests, trail'[d].op = "cleanup"
        PROVE  trail'[d] = trail[d]
    BY <1>6, <2>4, IdleAudit DEF FlushLog, AudTypeOK
  <2>5. ASSUME NEW d \in Requests, trail'[d].op = "cleanup"
        PROVE  /\ trail'[d].old \subseteq used'
               /\ \A j \in trail'[d].old \cap Logs' : log'[j].createdAt < cutoff'
    BY <1>6, <2>1, <2>2, <2>4, <2>5 DEF FlushLog, LogsInv, Logs
  <2> QED
    BY <2>1, <2>2, <2>3, <2>5 DEF LogsInv
<1>7. ASSUME NEW r \in Requests, FlushCleanup(r)
      PROVE  LogsInv' /\ LogsStay /\ used \subseteq used' /\ cutoff <= cutoff'
  <2>1. LogsStay /\ UNCHANGED <<used, cutoff>> /\ cutoff <= cutoff'
    BY <1>7 DEF FlushCleanup, LogsStay, AudTypeOK
  <2>2. Logs' \subseteq Logs /\ \A j \in Logs' : log'[j] = log[j]
    BY <1>7 DEF FlushCleanup, Logs
  <2>3. ASSUME NEW d \in Requests, trail'[d].op = "cleanup"
        PROVE  trail'[d] = trail[d]
    BY <1>7, <2>3, IdleAudit DEF FlushCleanup, AudTypeOK
  <2> QED
    BY <2>1, <2>2, <2>3 DEF LogsInv
<1>8. LogsInv' /\ LogsStay /\ used \subseteq used' /\ cutoff <= cutoff'
  BY <1>1, <1>3, <1>4, <1>5, <1>6, <1>7
  DEF AudNext, AuditController, StartReading, FindAll, NextDay, auditVars
<1> QED
  BY <1>0, <1>8 DEF AudTypeOK

(* Where a log stands in a listing: after exactly those that are newer.    *)
LEMMA Placed ==
  ASSUME AudTypeOK, NEW S \in SUBSET Logs, IsFiniteSet(S), NEW s \in Listings(S), NEW i \in S,
         \A k \in S \ {i} : log[k].createdAt # log[i].createdAt
  PROVE  \E n \in 1 .. Cardinality(S) :
           /\ s[n] = i
           /\ Cardinality({k \in S : log[k].createdAt > log[i].createdAt}) = n - 1
<1> DEFINE N == Cardinality(S)
           age(k) == log[k].createdAt
           T == {k \in S : age(k) > age(i)}
<1>0. N \in Nat
  BY FS_CardinalityType
<1>1. /\ s \in [1 .. N -> S]
      /\ \A m, n \in 1 .. N : m < n => s[m] # s[n] /\ age(s[m]) >= age(s[n])
  BY DEF Listings
<1>2. \A k \in S : age(k) \in Int
  BY PagesAreNat DEF Logs, AudTypeOK, AuditLog
<1> HIDE DEF N, age
<1>3. s \in Injection(1 .. N, S)
  BY <1>0, <1>1 DEF Injection, IsInjective
<1>4. s \in Surjection(1 .. N, S)
  BY <1>0, <1>3, FS_Injection, FS_Interval DEF N
<1>5. PICK n \in 1 .. N : s[n] = i
  BY <1>4 DEF Surjection
<1>6. \A m \in 1 .. N : s[m] \in T <=> m < n
  <2> SUFFICES ASSUME NEW m \in 1 .. N PROVE s[m] \in T <=> m < n
    OBVIOUS
  <2>1. CASE m < n
    BY <1>0, <1>1, <1>2, <1>5, <2>1 DEF age
  <2>2. CASE m = n
    BY <1>1, <1>2, <1>5, <2>2
  <2>3. CASE m > n
    BY <1>0, <1>1, <1>2, <1>5, <2>3
  <2> QED
    BY <1>0, <2>1, <2>2, <2>3
<1>7. \A k \in T : \E m \in 1 .. n - 1 : s[m] = k
  <2> SUFFICES ASSUME NEW k \in T PROVE \E m \in 1 .. n - 1 : s[m] = k
    OBVIOUS
  <2>1. PICK m \in 1 .. N : s[m] = k
    BY <1>4 DEF Surjection
  <2> QED
    BY <1>0, <1>6, <2>1
<1> HIDE DEF T
<1> DEFINE f == [m \in 1 .. n - 1 |-> s[m]]
<1>8. f \in Bijection(1 .. n - 1, T)
  <2>1. f \in [1 .. n - 1 -> T]
    BY <1>0, <1>6
  <2>2. \A a, b \in 1 .. n - 1 : f[a] = f[b] => a = b
    BY <1>0, <1>1
  <2>3. \A k \in T : \E m \in 1 .. n - 1 : f[m] = k
    BY <1>7
  <2> QED
    BY <2>1, <2>2, <2>3 DEF Bijection, Injection, IsInjective, Surjection
<1>9. Cardinality(T) = n - 1
  BY <1>0, <1>8, FS_CountingElements DEF ExistsBijection
<1> QED
  BY <1>5, <1>9 DEF N, T, age

(* Of a log that the client still waits for: the ones it comes after, ...  *)
Newer(i) == {k \in Where(reader.query) : log[k].createdAt > log[i].createdAt}

(* ... and when it is not promised to the client at all.                   *)
Excused(i) ==
  \/ log[i].createdAt < cutoff
  \/ \E k \in Where(reader.query) \ {i} : log[k].createdAt = log[i].createdAt

(* A log that the client was not shown yet comes after as many newer ones  *)
(* as the pages it has read can hold.                                      *)
ReaderInv ==
  reader.op \in {"read", "done"} =>
    /\ reader.there \subseteq used /\ reader.page >= 1
    /\ reader.there \cap Logs \subseteq Where(reader.query)
    /\ \A i \in (reader.there \cap Logs) \ reader.seen :
         \/ Excused(i)
         \/ reader.op = "read" /\ (reader.page - 1) * PageLimit <= Cardinality(Newer(i))

(* What a log has to be for a query, apart from being there.               *)
Meets(row, query) ==
  /\ \A f \in {"tenantId", "userId", "entityType", "action", "logLevel"} :
       query[f] = Nothing \/ row[f] = query[f]
  /\ query.startDate = Nothing \/ row.createdAt >= query.startDate
  /\ query.endDate = Nothing \/ row.createdAt <= query.endDate

LEMMA WhereMeets ==
  ASSUME NEW query
  PROVE  Where(query) = {i \in Logs : Meets(log[i], query)}
BY DEF Where, Meets

LEMMA FoundStay ==
  ASSUME LogsInv, LogsStay, UNCHANGED reader, NEW i \in used, i \in Logs'
  PROVE  i \in Where(reader.query)' <=> i \in Where(reader.query)
<1>1. i \in Logs /\ log'[i] = log[i]
  BY StayingLogs
<1>2. Where(reader.query) = {k \in Logs : Meets(log[k], reader.query)}
  BY WhereMeets
<1>3. Where(reader.query)' = {k \in Logs' : Meets(log'[k], reader.query)}
  BY DEF Where, Meets
<1> QED
  BY <1>1, <1>2, <1>3

LEMMA FoundIsFinite ==
  ASSUME LogsInv, NEW query, NEW T \in SUBSET Where(query)
  PROVE  IsFiniteSet(T) /\ Cardinality(T) \in Nat
<1>1. T \in SUBSET used
  BY FoundAreLogs DEF LogsInv
<1> QED
  BY <1>1, FS_Subset, FS_CardinalityType DEF LogsInv

(* A log that goes was older than a cut-off.                               *)
LEMMA LostAreOld ==
  ASSUME AudTypeOK, LogsInv, [AudNext]_auditVars, NEW k \in Logs, k \notin Logs'
  PROVE  log[k].createdAt < cutoff
<1>1. PICK r \in Requests : FlushCleanup(r)
  <2>1. ASSUME NEW r \in Requests, NEW i \in LogIds, FlushLog(r, i) PROVE FALSE
    BY <2>1 DEF FlushLog, LogsInv, Logs, AudTypeOK
  <2> QED
    BY <2>1
    DEF AudNext, AuditController, CreateLog, CleanupOldLogs, StartReading, FindAll, LogFlushFails,
        NextDay, auditVars, Logs
<1> QED
  BY <1>1 DEF FlushCleanup, LogsInv, Logs

LEMMA OthersGoOnReading ==
  ASSUME AudTypeOK, LogsInv, ReaderInv, [AudNext]_auditVars, UNCHANGED reader
  PROVE  ReaderInv'
<1> SUFFICES ASSUME reader.op \in {"read", "done"}
             PROVE  ReaderInv'
  BY DEF ReaderInv
<1>0. /\ LogsInv' /\ LogsStay /\ used \subseteq used' /\ cutoff <= cutoff'
      /\ cutoff \in Int /\ cutoff' \in Int
      /\ \A k \in Logs : log[k].createdAt \in Int
  BY AudNextLogs, PagesAreNat DEF AudTypeOK, AuditLog, Logs
<1>1. /\ reader.there \subseteq used /\ reader.page >= 1
      /\ reader.there \cap Logs \subseteq Where(reader.query)
  BY DEF ReaderInv
<1>2. reader.there \cap Logs' \subseteq Where(reader.query)'
  BY <1>0, <1>1, StayingLogs, FoundStay
<1>3. ASSUME NEW i \in (reader.there \cap Logs') \ reader.seen
      PROVE  \/ Excused(i)'
             \/ reader.op = "read" /\ (reader.page - 1) * PageLimit <= Cardinality(Newer(i)')
  <2>1. i \in (reader.there \cap Logs) \ reader.seen /\ i \in Logs /\ log'[i] = log[i]
    BY <1>0, <1>1, StayingLogs
  <2>2. \A k \in Where(reader.query) :
          \/ k \in Where(reader.query)' /\ log'[k] = log[k]
          \/ log[k].createdAt < cutoff
    <3> SUFFICES ASSUME NEW k \in Where(reader.query), ~(log[k].createdAt < cutoff)
                 PROVE  k \in Where(reader.query)' /\ log'[k] = log[k]
      OBVIOUS
    <3>1. k \in Logs /\ k \in used
      BY FoundAreLogs DEF LogsInv
    <3>2. k \in Logs'
      BY <3>1, LostAreOld
    <3> QED
      BY <1>0, <3>1, <3>2, StayingLogs, FoundStay
  <2>3. CASE log[i].createdAt < cutoff
    BY <1>0, <2>1, <2>3 DEF Excused
  <2>4. CASE ~(log[i].createdAt < cutoff)
    <3>1. ASSUME NEW k \in Where(reader.query), log[k].createdAt >= log[i].createdAt
          PROVE  k \in Where(reader.query)' /\ log'[k] = log[k]
      <4>1. log[k].createdAt \in Int /\ log[i].createdAt \in Int
        BY <1>0, <2>1, FoundAreLogs
      <4> QED
        BY <1>0, <2>2, <2>4, <3>1, <4>1
    <3>2. CASE \E k \in Where(reader.query) \ {i} : log[k].createdAt = log[i].createdAt
      <4>1. PICK k \in Where(reader.query) \ {i} : log[k].createdAt = log[i].createdAt
        BY <3>2
      <4>2. log[k].createdAt \in Int
        BY <1>0, FoundAreLogs
      <4> QED
        BY <2>1, <3>1, <4>1, <4>2 DEF Excused
    <3>3. CASE /\ reader.op = "read"
               /\ (reader.page - 1) * PageLimit <= Cardinality(Newer(i))
      <4>1. Newer(i) \subseteq Newer(i)'
        <5> SUFFICES ASSUME NEW k \in Newer(i) PROVE k \in Newer(i)'
          OBVIOUS
        <5>1. k \in Where(reader.query) /\ log[k].createdAt > log[i].createdAt
          BY DEF Newer
        <5>2. log[k].createdAt \in Int /\ log[i].createdAt \in Int
          BY <1>0, <2>1, <5>1, FoundAreLogs
        <5>3. k \in Where(reader.query)' /\ log'[k] = log[k]
          BY <3>1, <5>1, <5>2
        <5> QED
          BY <2>1, <5>1, <5>3 DEF Newer
      <4>2. Newer(i)' \subseteq Logs'
        BY DEF Newer, Where
      <4>3. IsFiniteSet(Newer(i)') /\ Cardinality(Newer(i)') \in Nat
        BY <1>0, <4>2, FS_Subset, FS_CardinalityType DEF LogsInv
      <4>4. Cardinality(Newer(i)) <= Cardinality(Newer(i)') /\ Cardinality(Newer(i)) \in Nat
        BY <4>1, <4>3, FS_Subset, FS_CardinalityType
      <4> DEFINE shown == (reader.page - 1) * PageLimit
      <4>5. shown \in Int
        BY ReaderShape, PagesAreNat DEF AudTypeOK
      <4> HIDE DEF shown
      <4>6. shown <= Cardinality(Newer(i)')
        BY <3>3, <4>3, <4>4, <4>5 DEF shown
      <4> QED
        BY <3>3, <4>6 DEF shown
    <3>4. \/ Excused(i)
          \/ reader.op = "read" /\ (reader.page - 1) * PageLimit <= Cardinality(Newer(i))
      BY <2>1 DEF ReaderInv
    <3> QED
      BY <2>4, <3>2, <3>3, <3>4 DEF Excused
  <2> QED
    BY <2>3, <2>4
<1>4. reader'.there \subseteq used' /\ reader'.page >= 1
  BY <1>0, <1>1
<1>5. (reader.there \cap Logs \subseteq Where(reader.query))'
  BY <1>2
<1>6. ASSUME NEW i \in ((reader.there \cap Logs) \ reader.seen)'
      PROVE  (\/ Excused(i)
              \/ reader.op = "read" /\ (reader.page - 1) * PageLimit <= Cardinality(Newer(i)))'
  BY <1>3
<1>7. (\A i \in (reader.there \cap Logs) \ reader.seen :
         \/ Excused(i)
         \/ reader.op = "read" /\ (reader.page - 1) * PageLimit <= Cardinality(Newer(i)))'
  BY <1>6
<1> QED
  BY <1>4, <1>5, <1>7, Zenon DEF ReaderInv

LEMMA ReadingStarts ==
  ASSUME AudTypeOK, LogsInv, NEW query \in Queries, StartReading(query)
  PROVE  ReaderInv'
<1>1. /\ reader'.op = "read" /\ reader'.query = query /\ reader'.page = 1
      /\ reader'.there = Where(query) /\ reader'.seen = {}
      /\ UNCHANGED <<log, used>>
  BY DEF StartReading
<1>2. Where(reader.query)' = Where(query)
  BY <1>1 DEF Where, Logs
<1>3. Logs' = Logs /\ Where(query) \subseteq used
  BY <1>1, FoundAreLogs DEF Logs, LogsInv
<1>4. ASSUME NEW i \in Logs
      PROVE  (reader'.page - 1) * PageLimit <= Cardinality(Newer(i)')
  <2>1. Newer(i)' \in SUBSET Where(query)
    BY <1>2 DEF Newer
  <2>2. Cardinality(Newer(i)') \in Nat
    BY <2>1, FoundIsFinite
  <2> QED
    BY <1>1, <2>2, PagesAreNat
<1> QED
  BY <1>1, <1>2, <1>3, <1>4 DEF ReaderInv

(* A log of which no tie is there is shown, or comes after this page too.  *)
LEMMA ShownOrLater ==
  ASSUME AudTypeOK, LogsInv, ReaderInv, reader.op = "read",
         NEW listing \in Listings(Where(reader.query)),
         NEW i \in (reader.there \cap Logs) \ reader.seen, ~Excused(i)
  PROVE  \/ i \in Page(listing, reader.page, PageLimit)
         \/ /\ reader.page * PageLimit <= Cardinality(Newer(i))
            /\ reader.page * PageLimit < Cardinality(Where(reader.query))
<1> DEFINE S == Where(reader.query)
           N == Cardinality(S)
           p == reader.page
           shown == (p - 1) * PageLimit
<1>1. S \in SUBSET Logs /\ IsFiniteSet(S) /\ N \in Nat /\ i \in S
  BY FoundAreLogs, FoundIsFinite DEF ReaderInv
<1>2. \A k \in S \ {i} : log[k].createdAt # log[i].createdAt
  BY DEF Excused
<1>3. PICK n \in 1 .. N : listing[n] = i /\ Cardinality(Newer(i)) = n - 1
  BY <1>1, <1>2, Placed DEF Newer
<1>4. shown <= n - 1
  BY <1>3 DEF ReaderInv
<1>5. p \in Nat /\ p >= 1 /\ PageLimit \in Nat
  BY ReaderShape, PagesAreNat DEF AudTypeOK, ReaderInv
<1>6. shown \in Int /\ p * PageLimit = shown + PageLimit
  BY <1>5
<1>7. DOMAIN listing = 1 .. N
  BY DEF Listings
<1>8. i \in Page(listing, reader.page, PageLimit) \/ n > shown + PageLimit
  <2>1. Page(listing, reader.page, PageLimit) =
          {listing[m] : m \in (1 .. N) \cap (shown + 1 .. shown + PageLimit)}
    BY <1>7 DEF Page
  <2> HIDE DEF shown, N
  <2>2. n \in shown + 1 .. shown + PageLimit \/ n > shown + PageLimit
    BY <1>1, <1>4, <1>5, <1>6
  <2> QED
    BY <1>3, <2>1, <2>2
<1> HIDE DEF shown, N
<1>9. CASE n > shown + PageLimit
  BY <1>1, <1>3, <1>5, <1>6, <1>9 DEF N
<1> QED
  BY <1>8, <1>9

LEMMA ReadingGoesOn ==
  ASSUME AudTypeOK, LogsInv, ReaderInv, FindAll
  PROVE  ReaderInv'
<1>1. PICK listing \in Listings(Where(reader.query)) :
        reader' = [reader EXCEPT
          !.seen = @ \cup Page(listing, reader.page, PageLimit),
          !.page = @ + 1,
          !.op = IF reader.page * PageLimit >= Cardinality(Where(reader.query)) THEN "done" ELSE "read"]
  BY DEF FindAll
<1> DEFINE P == Page(listing, reader.page, PageLimit)
           n == reader.page + 1
           op == IF reader.page * PageLimit >= Cardinality(Where(reader.query)) THEN "done" ELSE "read"
<1>2. /\ reader.op = "read" /\ UNCHANGED <<log, used, cutoff>>
      /\ reader.page \in Nat /\ reader.page >= 1
      /\ reader = [op |-> reader.op, query |-> reader.query, page |-> reader.page,
                   there |-> reader.there, seen |-> reader.seen]
  BY ReaderShape DEF FindAll, AudTypeOK, ReaderInv
<1>3. reader' = [reader EXCEPT !.seen = @ \cup P, !.page = n, !.op = op]
  BY <1>1
<1>4. n \in Nat /\ n >= 1 /\ n - 1 = reader.page
  BY <1>2
<1>5. ASSUME NEW i \in (reader.there \cap Logs) \ reader.seen, i \notin P
      PROVE  \/ Excused(i)
             \/ op = "read" /\ (n - 1) * PageLimit <= Cardinality(Newer(i))
  <2> SUFFICES ASSUME ~Excused(i)
               PROVE  op = "read" /\ (n - 1) * PageLimit <= Cardinality(Newer(i))
    OBVIOUS
  <2>1. /\ reader.page * PageLimit <= Cardinality(Newer(i))
        /\ reader.page * PageLimit < Cardinality(Where(reader.query))
    BY <1>2, <1>5, ShownOrLater
  <2>2. reader.page * PageLimit \in Int /\ Cardinality(Where(reader.query)) \in Int
    BY <1>2, FoundIsFinite, PagesAreNat
  <2>3. ~(reader.page * PageLimit >= Cardinality(Where(reader.query)))
    BY <2>1, <2>2
  <2> QED
    BY <1>4, <2>1, <2>3
<1> HIDE DEF P, n, op
<1>6. /\ reader'.op = op /\ reader'.page = n /\ reader'.query = reader.query
      /\ reader'.there = reader.there /\ reader'.seen = reader.seen \cup P
  BY <1>2, <1>3
<1>7. /\ Logs' = Logs /\ Where(reader.query)' = Where(reader.query)
      /\ \A i : Newer(i)' = Newer(i) /\ Excused(i)' = Excused(i)
  BY <1>2, <1>6 DEF Logs, Where, Newer, Excused
<1>8. reader.there \subseteq used /\ reader.there \cap Logs \subseteq Where(reader.query)
  BY <1>2 DEF ReaderInv
<1> QED
  BY <1>2, <1>4, <1>5, <1>6, <1>7, <1>8 DEF ReaderInv

LEMMA ReaderInvariant == AudSpec => [](AudTypeOK /\ LogsInv /\ ReaderInv)
<1>1. AudInit => AudTypeOK /\ LogsInv /\ ReaderInv
  BY IdleAudit, FS_EmptySet, PagesAreNat DEF AudInit, AudTypeOK, LogsInv, ReaderInv, Logs
<1>2. AudTypeOK /\ LogsInv /\ ReaderInv /\ [AudNext]_auditVars
        => (AudTypeOK /\ LogsInv /\ ReaderInv)'
  <2> SUFFICES ASSUME AudTypeOK, LogsInv, ReaderInv, [AudNext]_auditVars
               PROVE  (AudTypeOK /\ LogsInv /\ ReaderInv)'
    OBVIOUS
  <2>1. AudTypeOK' /\ LogsInv'
    BY AudNextType, AudNextLogs
  <2>2. UNCHANGED reader \/ FindAll \/ \E query \in Queries : StartReading(query)
    BY DEF AudNext, AuditController, CreateLog, FlushLog, CleanupOldLogs, FlushCleanup,
           LogFlushFails, NextDay, auditVars
  <2> QED
    BY <2>1, <2>2, OthersGoOnReading, ReadingStarts, ReadingGoesOn
<1> QED
  BY <1>1, <1>2, PTL DEF AudSpec

(* NothingSkipped, for any logs, filters, page size and clock, however     *)
(* writes, clean-ups and pages interleave: a client that pages until it    *)
(* has reached the total was shown every log that was there all the time   *)
(* and that is promised to it.                                             *)
THEOREM PagesSkipNothing == AudSpec => []NothingSkipped
<1>1. AudTypeOK /\ LogsInv /\ ReaderInv => NothingSkipped
  BY DEF ReaderInv, NothingSkipped, Excused
<1> QED
  BY <1>1, ReaderInvariant, PTL

-----------------------------------------------------------------------------
(***************************************************************************)
(* The rate limit.  What one key's history total and window info say at    *)
(* the tick now, whichever key it is.                                      *)
(***************************************************************************)
(* When a window was opened.                                               *)
Opened(info) == info.resetTime - WindowTicks

(* The history grows with the ticks, and up to now only; refusals too are  *)
(* of the past.                                                            *)
HistoryInv(total, no, now) ==
  /\ total \in [Ticks -> Nat] /\ no \in [Ticks -> Nat]
  /\ \A s, t \in Ticks : s <= t => total[s] <= total[t]
  /\ \A t \in Ticks : now <= t => total[t] = total[now]
  /\ \A t \in Ticks : no[t] > 0 => t <= now

(* Less than a share got through in the last window length before t: a new *)
(* window may be opened.                                                   *)
LeavesRoom(total, t) ==
  \A s \in Ticks :
    t - WindowTicks < s /\ s <= t =>
      Before(total, t) - Before(total, s) < MaxRequests

(* A window was opened by a request that got through, at a tick that left  *)
(* room for it, and has counted since, up to the limit, what got through;  *)
(* nothing did after its end.                                              *)
WindowInv(total, info, now) ==
  /\ info \in RateLimitInfo
  /\ Opened(info) \in 0 .. now
  /\ total[now] - Before(total, Opened(info)) =
       IF info.count <= MaxRequests THEN info.count ELSE MaxRequests
  /\ total[Opened(info)] - Before(total, Opened(info)) >= 1
  /\ LeavesRoom(total, Opened(info))
  /\ info.resetTime <= now => total[now] = Before(total, now)

(* Without a window nothing got through at this tick, and there is room.   *)
FreeInv(total, now) ==
  /\ total[now] = Before(total, now)
  /\ LeavesRoom(total, now)

Bounded(total) ==
  \A t \in Ticks :
    t + WindowTicks <= LastTick + 1 =>
      total[t + WindowTicks - 1] - Before(total, t) < 2 * MaxRequests

RefusedFull(total, no) ==
  \A t \in Ticks :
    no[t] > 0 =>
      total[t] - Before(total, IF t < WindowTicks THEN 0 ELSE t - WindowTicks + 1)
        >= MaxRequests

KeyInv(total, no, info, now) ==
  /\ HistoryInv(total, no, now)
  /\ info # NoWindow => WindowInv(total, info, now)
  /\ info = NoWindow => FreeInv(total, now)
  /\ Bounded(total)
  /\ RefusedFull(total, no)

LimInv ==
  /\ LimTypeOK
  /\ \A k \in ClientKeys : KeyInv(admitted[k], refused[k], rateLimitStore[k], clock)

LEMMA OpensAreTicks ==
  ASSUME NEW info \in RateLimitInfo
  PROVE  /\ info.count \in Nat \ {0} /\ info.resetTime \in Nat
         /\ Opened(info) \in Int /\ info.resetTime = Opened(info) + WindowTicks
BY LimitsAreNat DEF RateLimitInfo, Opened

LEMMA BeforeIsNat ==
  ASSUME NEW total \in [Ticks -> Nat], NEW t \in Ticks
  PROVE  Before(total, t) \in Nat
BY LimitsAreNat DEF Before, Ticks

(* What had got through before a tick grows with the tick, and is at most  *)
(* what had by the end of an earlier or of the same one.                   *)
LEMMA BeforeGrows ==
  ASSUME NEW total, NEW no, NEW now \in Ticks, HistoryInv(total, no, now),
         NEW s \in Ticks, NEW t \in Ticks
  PROVE  /\ s <= t => Before(total, s) <= Before(total, t)
         /\ s <= t => Before(total, s) <= total[t]
         /\ s < t => total[s] <= Before(total, t)
         /\ now < t => Before(total, t) = total[now]
<1>0. /\ now \in Nat /\ s \in Nat /\ t \in Nat /\ LastTick \in Nat
      /\ s <= LastTick /\ t <= LastTick
      /\ \A x \in Ticks : total[x] \in Nat
      /\ \A x, y \in Ticks : x <= y => total[x] <= total[y]
      /\ \A x \in Ticks : now <= x => total[x] = total[now]
  BY LimitsAreNat DEF HistoryInv, Ticks
<1>1. /\ s # 0 => s - 1 \in Ticks
      /\ t # 0 => t - 1 \in Ticks
  BY <1>0 DEF Ticks
<1>2. s <= t => Before(total, s) <= Before(total, t)
  <2>1. CASE s = 0
    <3>1. Before(total, t) \in Nat
      BY <1>0, <1>1 DEF Before
    <3> QED
      BY <2>1, <3>1 DEF Before
  <2>2. CASE s # 0
    BY <2>2, <1>0, <1>1 DEF Before
  <2> QED
    BY <2>1, <2>2
<1>3. s <= t => Before(total, s) <= total[t]
  BY <1>0, <1>1 DEF Before
<1>4. s < t => total[s] <= Before(total, t)
  BY <1>0, <1>1 DEF Before
<1>5. now < t => Before(total, t) = total[now]
  BY <1>0, <1>1 DEF Before
<1> QED
  BY <1>2, <1>3, <1>4, <1>5

(* When the window of a key is over, a new one may be opened.              *)
LEMMA OverIsFree ==
  ASSUME NEW total, NEW no, NEW info \in RateLimitInfo \cup {NoWindow}, NEW now \in Ticks,
         KeyInv(total, no, info, now),
         info = NoWindow \/ IsOver(info, now)
  PROVE  FreeInv(total, now)
<1>1. CASE info = NoWindow
  BY <1>1 DEF KeyInv
<1>2. CASE info # NoWindow
  <2> DEFINE o == Opened(info)
             B(t) == Before(total, t)
  <2>0. WindowInv(total, info, now) /\ HistoryInv(total, no, now) /\ info \in RateLimitInfo
        /\ total \in [Ticks -> Nat]
    BY <1>2 DEF KeyInv, HistoryInv
  <2>1. /\ info.resetTime = o + WindowTicks /\ info.count \in Nat \ {0}
        /\ o \in Nat /\ o <= now /\ now \in Nat /\ o \in Ticks
    BY <2>0, OpensAreTicks, LimitsAreNat DEF WindowInv, Ticks
  <2>2. info.resetTime <= now
    BY <1>2, <2>1, LimitsAreNat DEF IsOver
  <2>3. total[now] = B(now)
    BY <2>0, <2>2 DEF WindowInv
  <2>4. ASSUME NEW s \in Ticks, now - WindowTicks < s, s <= now
        PROVE  B(now) - B(s) < MaxRequests
    <3>1. s \in Nat /\ o < s
      BY <2>1, <2>2, <2>4, LimitsAreNat DEF Ticks
    <3>2. total[o] <= B(s)
      BY <2>0, <2>1, <3>1, BeforeGrows
    <3>3. total[now] - B(o) <= MaxRequests
      BY <2>0, <2>1, LimitsAreNat DEF WindowInv
    <3>4. total[o] - B(o) >= 1
      BY <2>0 DEF WindowInv
    <3>5. B(o) \in Nat /\ B(s) \in Nat /\ B(now) \in Nat /\ total[o] \in Nat
      BY <2>0, <2>1, BeforeIsNat
    <3> HIDE DEF B, o
    <3> QED
      BY <2>3, <3>2, <3>3, <3>4, <3>5, LimitsAreNat
  <2> QED
    BY <2>3, <2>4 DEF FreeInv, LeavesRoom
<1> QED
  BY <1>1, <1>2

LEMMA KeyStarts ==
  ASSUME NEW now \in Ticks
  PROVE  KeyInv(Never, Never, NoWindow, now)
<1>1. \A t \in Ticks : Never[t] = 0 /\ Before(Never, t) = 0
  BY LimitsAreNat DEF Never, Before, Ticks
<1>2. HistoryInv(Never, Never, now)
  BY <1>1 DEF HistoryInv, Never
<1>3. FreeInv(Never, now)
  BY <1>1, LimitsAreNat DEF FreeInv, LeavesRoom
<1>4. Bounded(Never)
  <2>1. ASSUME NEW t \in Ticks, t + WindowTicks <= LastTick + 1
        PROVE  Never[t + WindowTicks - 1] - Before(Never, t) < 2 * MaxRequests
    <3>1. t + WindowTicks - 1 \in Ticks
      BY <2>1, LimitsAreNat DEF Ticks
    <3> QED
      BY <1>1, <3>1, LimitsAreNat
  <2> QED
    BY <2>1 DEF Bounded
<1>5. RefusedFull(Never, Never)
  BY <1>1 DEF RefusedFull
<1> QED
  BY <1>2, <1>3, <1>4, <1>5 DEF KeyInv

(* The timer throws away a window that is over.                            *)
LEMMA KeySwept ==
  ASSUME NEW total, NEW no, NEW info \in RateLimitInfo, NEW now \in Ticks,
         KeyInv(total, no, info, now), IsOver(info, now)
  PROVE  KeyInv(total, no, NoWindow, now)
<1>1. FreeInv(total, now)
  BY OverIsFree
<1> QED
  BY <1>1 DEF KeyInv

(* The clock goes on.                                                      *)
LEMMA KeyPasses ==
  ASSUME NEW total, NEW no, NEW info \in RateLimitInfo \cup {NoWindow}, NEW now \in Ticks,
         KeyInv(total, no, info, now), now < LastTick
  PROVE  KeyInv(total, no, info, now + 1)
<1>0. /\ HistoryInv(total, no, now) /\ total \in [Ticks -> Nat] /\ now \in Nat
      /\ now + 1 \in Ticks
  BY LimitsAreNat DEF KeyInv, HistoryInv, Ticks
<1>1. total[now + 1] = total[now] /\ Before(total, now + 1) = total[now]
  BY <1>0, BeforeGrows DEF HistoryInv
<1>2. HistoryInv(total, no, now + 1)
  <2>1. \A t \in Ticks : now + 1 <= t => now <= t
    BY <1>0 DEF Ticks
  <2>2. \A t \in Ticks : t <= now => t <= now + 1
    BY <1>0 DEF Ticks
  <2> QED
    BY <1>0, <1>1, <2>1, <2>2 DEF HistoryInv
<1>3. ASSUME info # NoWindow PROVE WindowInv(total, info, now + 1)
  <2>1. WindowInv(total, info, now)
    BY <1>3 DEF KeyInv
  <2>2. Opened(info) \in 0 .. now + 1
    BY <1>0, <2>1 DEF WindowInv
  <2> QED
    BY <1>1, <2>1, <2>2 DEF WindowInv
<1>4. ASSUME info = NoWindow PROVE FreeInv(total, now + 1)
  <2>1. FreeInv(total, now)
    BY <1>4 DEF KeyInv
  <2>2. Before(total, now + 1) = Before(total, now)
    BY <1>1, <2>1 DEF FreeInv
  <2>3. ASSUME NEW s \in Ticks, now + 1 - WindowTicks < s, s <= now + 1
        PROVE  Before(total, now + 1) - Before(total, s) < MaxRequests
    <3>1. CASE s = now + 1
      <4>1. Before(total, now + 1) \in Nat
        BY <1>0, BeforeIsNat
      <4> QED
        BY <3>1, <4>1, LimitsAreNat
    <3>2. CASE s # now + 1
      <4>1. now - WindowTicks < s /\ s <= now
        BY <1>0, <2>3, <3>2, LimitsAreNat DEF Ticks
      <4> QED
        BY <2>1, <2>2, <4>1 DEF FreeInv, LeavesRoom
    <3> QED
      BY <3>1, <3>2
  <2>4. LeavesRoom(total, now + 1)
    BY <2>3, <1>0, LimitsAreNat DEF LeavesRoom
  <2> QED
    BY <1>1, <2>4 DEF FreeInv
<1> QED
  BY <1>2, <1>3, <1>4 DEF KeyInv

(* A request that gets through counts from this tick on.                   *)
LEMMA CountedGrows ==
  ASSUME NEW total, NEW no, NEW now \in Ticks, HistoryInv(total, no, now)
  PROVE  /\ HistoryInv(CountedFrom(total, now), no, now)
         /\ CountedFrom(total, now)[now] = total[now] + 1
         /\ \A t \in Ticks : t < now => CountedFrom(total, now)[t] = total[t]
         /\ \A t \in Ticks :
              t <= now => Before(CountedFrom(total, now), t) = Before(total, t)
<1> DEFINE more == CountedFrom(total, now)
<1>0. /\ now \in Nat /\ Ticks \subseteq Nat
      /\ total \in [Ticks -> Nat] /\ no \in [Ticks -> Nat]
      /\ \A s, t \in Ticks : s <= t => total[s] <= total[t]
      /\ \A t \in Ticks : now <= t => total[t] = total[now]
      /\ \A t \in Ticks : no[t] > 0 => t <= now
  BY DEF HistoryInv, Ticks
<1>1. /\ \A t \in Ticks : more[t] = IF t < now THEN total[t] ELSE total[t] + 1
      /\ more \in [Ticks -> Nat]
  BY <1>0 DEF CountedFrom
<1>2. ASSUME NEW t \in Ticks, t < now PROVE more[t] = total[t]
  BY <1>1, <1>2
<1>3. more[now] = total[now] + 1
  BY <1>0, <1>1
<1>4. ASSUME NEW t \in Ticks, t <= now PROVE Before(more, t) = Before(total, t)
  <2>1. CASE t = 0
    BY <2>1 DEF Before
  <2>2. CASE t # 0
    <3>1. t - 1 \in Ticks /\ t - 1 < now
      BY <1>0, <1>4, <2>2, LimitsAreNat DEF Ticks
    <3> QED
      BY <2>2, <3>1, <1>2 DEF Before
  <2> QED
    BY <2>1, <2>2
<1>5. ASSUME NEW s \in Ticks, NEW t \in Ticks, s <= t PROVE more[s] <= more[t]
  <2>1. total[s] \in Nat /\ total[t] \in Nat /\ s \in Nat /\ t \in Nat /\ total[s] <= total[t]
    BY <1>0, <1>5
  <2> QED
    BY <1>0, <1>1, <1>5, <2>1
<1>6. ASSUME NEW t \in Ticks, now <= t PROVE more[t] = more[now]
  BY <1>0, <1>1, <1>6
<1>7. HistoryInv(more, no, now)
  BY <1>0, <1>1, <1>5, <1>6 DEF HistoryInv
<1> QED
  BY <1>2, <1>3, <1>4, <1>7

(* When the window length before now leaves room for fewer requests than  *)
(* twice the limit, one more keeps every interval within bounds.           *)
LEMMA CountedBounded ==
  ASSUME NEW total, NEW no, NEW now \in Ticks, HistoryInv(total, no, now), Bounded(total),
         \A t \in Ticks :
           now - WindowTicks < t /\ t <= now =>
             total[now] + 1 - Before(total, t) < 2 * MaxRequests
  PROVE  Bounded(CountedFrom(total, now))
<1> DEFINE more == CountedFrom(total, now)
<1>0. now \in Nat /\ total \in [Ticks -> Nat] /\ Ticks \subseteq Nat
  BY DEF Ticks, HistoryInv
<1>1. ASSUME NEW t \in Ticks, t + WindowTicks <= LastTick + 1
      PROVE  more[t + WindowTicks - 1] - Before(more, t) < 2 * MaxRequests
  <2> DEFINE last == t + WindowTicks - 1
  <2>1. last \in Ticks /\ t \in Nat /\ t <= last /\ last = t + WindowTicks - 1
    BY <1>0, <1>1, LimitsAreNat DEF Ticks
  <2> HIDE DEF last, more
  <2>2. ASSUME last < now PROVE more[last] - Before(more, t) < 2 * MaxRequests
    <3>1. t <= now
      BY <1>0, <2>1, <2>2
    <3>2. more[last] = total[last] /\ Before(more, t) = Before(total, t)
      BY <1>1, <2>1, <2>2, <3>1, CountedGrows DEF more
    <3>3. total[last] - Before(total, t) < 2 * MaxRequests
      BY <1>1 DEF Bounded, last
    <3> QED
      BY <3>2, <3>3
  <2>3. ASSUME now <= last PROVE more[last] - Before(more, t) < 2 * MaxRequests
    <3>1. HistoryInv(more, no, now) /\ more[last] = total[now] + 1
      BY <1>0, <2>1, <2>3, CountedGrows DEF more, HistoryInv
    <3>2. CASE t <= now
      <4>1. now - WindowTicks < t
        BY <1>0, <2>1, <2>3, LimitsAreNat
      <4>2. Before(more, t) = Before(total, t)
        BY <1>1, <3>2, CountedGrows DEF more
      <4>3. total[now] + 1 - Before(total, t) < 2 * MaxRequests
        BY <1>1, <3>2, <4>1
      <4>4. total[now] \in Nat /\ Before(total, t) \in Nat
        BY <1>0, <1>1, BeforeIsNat
      <4> QED
        BY <3>1, <4>2, <4>3, <4>4, LimitsAreNat
    <3>3. CASE now < t
      <4>1. Before(more, t) = more[now]
        BY <1>1, <3>1, <3>3, BeforeGrows
      <4>2. more[now] = total[now] + 1 /\ total[now] \in Nat
        BY <1>0, CountedGrows DEF more
      <4> QED
        BY <3>1, <4>1, <4>2, LimitsAreNat
    <3> QED
      BY <1>0, <2>1, <3>2, <3>3
  <2>4. last < now \/ now <= last
    BY <1>0, <2>1
  <2>5. more[last] - Before(more, t) < 2 * MaxRequests
    BY <2>2, <2>3, <2>4
  <2> QED
    BY <2>5 DEF last
<1> QED
  BY <1>1 DEF Bounded

(* The past of a refusal is what it was.                                   *)
LEMMA CountedFull ==
  ASSUME NEW total, NEW no, NEW now \in Ticks, HistoryInv(total, no, now), RefusedFull(total, no)
  PROVE  RefusedFull(CountedFrom(total, now), no)
<1> DEFINE more == CountedFrom(total, now)
<1>0. now \in Nat /\ total \in [Ticks -> Nat] /\ Ticks \subseteq Nat
  BY DEF Ticks, HistoryInv
<1>1. ASSUME NEW t \in Ticks, no[t] > 0
      PROVE  more[t] - Before(more, IF t < WindowTicks THEN 0 ELSE t - WindowTicks + 1)
               >= MaxRequests
  <2> DEFINE first == IF t < WindowTicks THEN 0 ELSE t - WindowTicks + 1
  <2>1. t <= now /\ t \in Nat
    BY <1>0, <1>1 DEF HistoryInv
  <2>2. first \in Ticks /\ first <= now
    BY <1>0, <2>1, LimitsAreNat DEF Ticks
  <2> HIDE DEF first, more
  <2>3. Before(more, first) = Before(total, first)
    BY <2>2, CountedGrows DEF more
  <2>4. total[t] - Before(total, first) >= MaxRequests
    BY <1>1 DEF RefusedFull, first
  <2>5. more[t] = total[t] \/ more[t] = total[t] + 1
    BY <1>0, <1>1 DEF more, CountedFrom
  <2>6. total[t] \in Nat /\ Before(total, first) \in Nat
    BY <1>0, <2>2, BeforeIsNat
  <2>7. more[t] - Before(more, first) >= MaxRequests
    BY <2>3, <2>4, <2>5, <2>6, LimitsAreNat
  <2> QED
    BY <2>7 DEF first
<1> QED
  BY <1>1 DEF RefusedFull

(* What a request makes of the window of its key.                          *)
LEMMA NextInfoIs ==
  ASSUME NEW info \in RateLimitInfo \cup {NoWindow}, NEW now \in Ticks
  PROVE  /\ NextInfo(info, now) \in RateLimitInfo
         /\ info = NoWindow \/ IsOver(info, now) =>
              NextInfo(info, now).count = 1 /\ NextInfo(info, now).resetTime = now + WindowTicks
         /\ info # NoWindow /\ ~IsOver(info, now) =>
              /\ info \in RateLimitInfo
              /\ NextInfo(info, now).count = info.count + 1
              /\ NextInfo(info, now).resetTime = info.resetTime
<1>0. now \in Nat
  BY DEF Ticks
<1>1. CASE info = NoWindow \/ IsOver(info, now)
  <2>1. NextInfo(info, now) = [count |-> 1, resetTime |-> now + WindowTicks]
    BY <1>1 DEF NextInfo
  <2>2. now + WindowTicks \in Nat
    BY <1>0, LimitsAreNat
  <2> QED
    BY <1>1, <2>1, <2>2 DEF RateLimitInfo
<1>2. CASE info # NoWindow /\ ~IsOver(info, now)
  <2>1. info \in RateLimitInfo /\ info.count \in Nat \ {0}
    BY <1>2 DEF RateLimitInfo
  <2> DEFINE more == info.count + 1
  <2>2. more \in Nat \ {0}
    BY <2>1
  <2>3. NextInfo(info, now) = [info EXCEPT !.count = more]
    BY <1>2 DEF NextInfo
  <2> HIDE DEF more
  <2>4. /\ NextInfo(info, now) \in RateLimitInfo
        /\ NextInfo(info, now).count = more
        /\ NextInfo(info, now).resetTime = info.resetTime
    BY <2>1, <2>2, <2>3 DEF RateLimitInfo
  <2> QED
    BY <1>2, <2>1, <2>4 DEF more
<1> QED
  BY <1>1, <1>2

(* A request that opens a window gets through.                             *)
LEMMA KeyOpens ==
  ASSUME NEW total, NEW no, NEW info \in RateLimitInfo \cup {NoWindow}, NEW now \in Ticks,
         KeyInv(total, no, info, now),
         info = NoWindow \/ IsOver(info, now)
  PROVE  /\ ~Exceeds(NextInfo(info, now))
         /\ KeyInv(CountedFrom(total, now), no, NextInfo(info, now), now)
<1> DEFINE next == NextInfo(info, now)
           more == CountedFrom(total, now)
<1>0. /\ HistoryInv(total, no, now) /\ Bounded(total) /\ RefusedFull(total, no)
      /\ now \in Nat /\ total \in [Ticks -> Nat] /\ MaxRequests \in Nat \ {0}
  BY LimitsAreNat DEF KeyInv, HistoryInv, Ticks
<1>1. next \in RateLimitInfo /\ next.count = 1 /\ next.resetTime = now + WindowTicks
  BY NextInfoIs
<1>2. FreeInv(total, now)
  BY OverIsFree
<1>3. total[now] \in Nat /\ Before(total, now) \in Nat /\ total[now] = Before(total, now)
  BY <1>0, <1>2, BeforeIsNat DEF FreeInv
<1>4. /\ more[now] = total[now] + 1
      /\ \A t \in Ticks : t <= now => Before(more, t) = Before(total, t)
      /\ HistoryInv(more, no, now)
  BY <1>0, CountedGrows
<1> HIDE DEF next, more
<1>5. ~Exceeds(next)
  BY <1>0, <1>1 DEF Exceeds
<1>6. Before(more, now) = Before(total, now)
  BY <1>0, <1>4
<1>7. Opened(next) = now
  BY <1>0, <1>1, LimitsAreNat DEF Opened
<1>8. LeavesRoom(more, now)
  BY <1>2, <1>4, <1>6 DEF FreeInv, LeavesRoom
<1>9. WindowInv(more, next, now)
  <2>1. more[now] - Before(more, now) = 1
    BY <1>3, <1>4, <1>6
  <2>2. ~(next.resetTime <= now)
    BY <1>0, <1>1, LimitsAreNat
  <2>3. next.count <= MaxRequests
    BY <1>0, <1>1
  <2>4. now \in 0 .. now
    BY <1>0
  <2> QED
    BY <1>1, <1>7, <1>8, <2>1, <2>2, <2>3, <2>4 DEF WindowInv
<1>10. Bounded(more)
  <2>1. ASSUME NEW t \in Ticks, now - WindowTicks < t, t <= now
        PROVE  total[now] + 1 - Before(total, t) < 2 * MaxRequests
    <3>1. Before(total, now) - Before(total, t) < MaxRequests
      BY <1>2, <2>1 DEF FreeInv, LeavesRoom
    <3>2. Before(total, t) \in Nat
      BY <1>0, BeforeIsNat
    <3> QED
      BY <1>0, <1>3, <3>1, <3>2
  <2> QED
    BY <1>0, <2>1, CountedBounded DEF more
<1>11. RefusedFull(more, no)
  BY <1>0, CountedFull DEF more
<1>12. next # NoWindow
  BY <1>1, NoWindowIsNone DEF RateLimitInfo
<1>13. KeyInv(more, no, next, now)
  BY <1>4, <1>9, <1>10, <1>11, <1>12 DEF KeyInv
<1> QED
  BY <1>5, <1>13 DEF next, more

(* What a request of an open window finds.                                 *)
LEMMA OpenWindow ==
  ASSUME NEW total, NEW no, NEW info \in RateLimitInfo \cup {NoWindow}, NEW now \in Ticks,
         KeyInv(total, no, info, now),
         info # NoWindow, ~IsOver(info, now)
  PROVE  /\ WindowInv(total, info, now) /\ info \in RateLimitInfo
         /\ HistoryInv(total, no, now) /\ Bounded(total) /\ RefusedFull(total, no)
         /\ Opened(info) \in Ticks /\ Opened(info) <= now
         /\ now < Opened(info) + WindowTicks
         /\ now < info.resetTime
         /\ Opened(NextInfo(info, now)) = Opened(info)
<1>1. WindowInv(total, info, now) /\ info \in RateLimitInfo
  BY DEF KeyInv
<1>2. /\ info.resetTime = Opened(info) + WindowTicks /\ info.resetTime \in Nat
      /\ Opened(info) \in Nat /\ Opened(info) <= now /\ now \in Nat /\ Opened(info) \in Ticks
  BY <1>1, OpensAreTicks, LimitsAreNat DEF WindowInv, Ticks
<1>3. now < info.resetTime
  BY <1>2 DEF IsOver
<1>4. Opened(NextInfo(info, now)) = Opened(info)
  BY NextInfoIs DEF Opened
<1> QED
  BY <1>1, <1>2, <1>3, <1>4 DEF KeyInv

(* A request of an open window gets through as long as there is a share.   *)
LEMMA KeyCounts ==
  ASSUME NEW total, NEW no, NEW info \in RateLimitInfo \cup {NoWindow}, NEW now \in Ticks,
         KeyInv(total, no, info, now),
         info # NoWindow, ~IsOver(info, now), ~Exceeds(NextInfo(info, now))
  PROVE  KeyInv(CountedFrom(total, now), no, NextInfo(info, now), now)
<1> DEFINE next == NextInfo(info, now)
           more == CountedFrom(total, now)
           o == Opened(info)
<1>0. /\ HistoryInv(total, no, now) /\ Bounded(total) /\ RefusedFull(total, no)
      /\ WindowInv(total, info, now) /\ info \in RateLimitInfo
      /\ o \in Ticks /\ o <= now /\ now < o + WindowTicks /\ now < info.resetTime
      /\ Opened(next) = o
  BY OpenWindow
<1>1. /\ now \in Nat /\ o \in Nat /\ total \in [Ticks -> Nat] /\ MaxRequests \in Nat \ {0}
      /\ info.count \in Nat \ {0} /\ info.resetTime \in Nat
  BY <1>0, LimitsAreNat DEF HistoryInv, Ticks, RateLimitInfo
<1>2. /\ next \in RateLimitInfo /\ next.count = info.count + 1
      /\ next.resetTime = info.resetTime
  BY NextInfoIs
<1>3. /\ more[now] = total[now] + 1
      /\ \A t \in Ticks : t <= now => Before(more, t) = Before(total, t)
      /\ HistoryInv(more, no, now)
  BY <1>0, CountedGrows
<1>4. next.count <= MaxRequests
  BY <1>1, <1>2 DEF Exceeds
<1>5. more[o] = total[o] \/ more[o] = total[o] + 1
  BY <1>0, <1>1 DEF CountedFrom
<1> HIDE DEF next, more, o
<1>6. /\ total[now] \in Nat /\ total[o] \in Nat
      /\ Before(total, o) \in Nat /\ Before(more, o) = Before(total, o)
  BY <1>0, <1>1, <1>3, BeforeIsNat
<1>7. total[now] - Before(total, o) = info.count
  <2>1. info.count <= MaxRequests
    BY <1>1, <1>2, <1>4
  <2> QED
    BY <1>0, <2>1 DEF WindowInv, o
<1>8. WindowInv(more, next, now)
  <2>1. more[now] - Before(more, o) = next.count
    BY <1>1, <1>2, <1>3, <1>6, <1>7
  <2>2. more[o] - Before(more, o) >= 1
    <3>1. total[o] - Before(total, o) >= 1
      BY <1>0 DEF WindowInv, o
    <3> QED
      BY <1>5, <1>6, <3>1
  <2>3. LeavesRoom(more, o)
    <3>1. LeavesRoom(total, o)
      BY <1>0 DEF WindowInv, o
    <3>2. \A t \in Ticks : t <= o => t <= now
      BY <1>0, <1>1 DEF Ticks
    <3> QED
      BY <1>3, <1>6, <3>1, <3>2 DEF LeavesRoom
  <2>4. ~(next.resetTime <= now)
    BY <1>0, <1>1, <1>2
  <2>5. o \in 0 .. now
    BY <1>0, <1>1
  <2> QED
    BY <1>0, <1>2, <1>4, <2>1, <2>2, <2>3, <2>4, <2>5 DEF WindowInv
<1>9. Bounded(more)
  <2>1. ASSUME NEW t \in Ticks, now - WindowTicks < t, t <= now
        PROVE  total[now] + 1 - Before(total, t) < 2 * MaxRequests
    <3>0. Before(total, t) \in Nat /\ t \in Nat
      BY <1>1, BeforeIsNat DEF Ticks
    <3>1. total[now] + 1 - Before(total, o) <= MaxRequests
      BY <1>1, <1>2, <1>4, <1>6, <1>7
    <3>2. CASE t <= o
      <4>1. o - WindowTicks < t
        BY <1>0, <1>1, <2>1, <3>0, LimitsAreNat
      <4>2. Before(total, o) - Before(total, t) < MaxRequests
        BY <1>0, <3>2, <4>1 DEF WindowInv, LeavesRoom, o
      <4> QED
        BY <1>1, <1>6, <3>0, <3>1, <4>2
    <3>3. CASE o < t
      <4>1. Before(total, o) <= Before(total, t)
        BY <1>0, <1>1, <3>0, <3>3, BeforeGrows
      <4> QED
        BY <1>1, <1>6, <3>0, <3>1, <4>1
    <3> QED
      BY <1>1, <3>0, <3>2, <3>3
  <2> QED
    BY <1>0, <2>1, CountedBounded DEF more
<1>10. RefusedFull(more, no)
  BY <1>0, CountedFull DEF more
<1>11. next # NoWindow
  BY <1>2, NoWindowIsNone DEF RateLimitInfo
<1>12. KeyInv(more, no, next, now)
  BY <1>3, <1>8, <1>9, <1>10, <1>11 DEF KeyInv
<1> QED
  BY <1>12 DEF next, more

(* A request that is refused finds the share used up.                      *)
LEMMA KeyRefuses ==
  ASSUME NEW total, NEW no, NEW info \in RateLimitInfo \cup {NoWindow}, NEW now \in Ticks,
         KeyInv(total, no, info, now), Exceeds(NextInfo(info, now))
  PROVE  KeyInv(total, [no EXCEPT ![now] = @ + 1], NextInfo(info, now), now)
<1> DEFINE next == NextInfo(info, now)
           o == Opened(info)
           refuses == [no EXCEPT ![now] = @ + 1]
<1>a. info # NoWindow /\ ~IsOver(info, now)
  BY KeyOpens
<1>0. /\ HistoryInv(total, no, now) /\ Bounded(total) /\ RefusedFull(total, no)
      /\ WindowInv(total, info, now) /\ info \in RateLimitInfo
      /\ o \in Ticks /\ o <= now /\ now < o + WindowTicks /\ now < info.resetTime
      /\ Opened(next) = o
  BY <1>a, OpenWindow
<1>1. /\ now \in Nat /\ o \in Nat /\ total \in [Ticks -> Nat] /\ no \in [Ticks -> Nat]
      /\ MaxRequests \in Nat \ {0} /\ info.count \in Nat \ {0} /\ info.resetTime \in Nat
  BY <1>0, LimitsAreNat DEF HistoryInv, Ticks, RateLimitInfo
<1>2. /\ next \in RateLimitInfo /\ next.count = info.count + 1
      /\ next.resetTime = info.resetTime
  BY <1>a, NextInfoIs
<1>3. next.count > MaxRequests
  BY DEF Exceeds
<1>4. /\ refuses \in [Ticks -> Nat]
      /\ \A t \in Ticks \ {now} : refuses[t] = no[t]
  BY <1>1
<1> HIDE DEF next, o, refuses
<1>5. total[now] - Before(total, o) = MaxRequests
  <2>1. info.count >= MaxRequests
    BY <1>1, <1>2, <1>3
  <2>2. total[now] - Before(total, o) =
          IF info.count <= MaxRequests THEN info.count ELSE MaxRequests
    BY <1>0 DEF WindowInv, o
  <2> QED
    BY <1>1, <2>1, <2>2
<1>6. HistoryInv(total, refuses, now)
  BY <1>0, <1>1, <1>4 DEF HistoryInv
<1>7. WindowInv(total, next, now)
  <2>1. ~(next.count <= MaxRequests)
    BY <1>1, <1>2, <1>3
  <2>2. ~(next.resetTime <= now)
    BY <1>0, <1>1, <1>2
  <2> QED
    BY <1>0, <1>2, <1>5, <2>1, <2>2 DEF WindowInv, o
<1>8. RefusedFull(total, refuses)
  <2>1. ASSUME NEW t \in Ticks, refuses[t] > 0
        PROVE  total[t] - Before(total, IF t < WindowTicks THEN 0 ELSE t - WindowTicks + 1)
                 >= MaxRequests
    <3>1. CASE t # now
      BY <1>0, <1>4, <2>1, <3>1 DEF RefusedFull
    <3>2. CASE t = now
      <4> DEFINE first == IF now < WindowTicks THEN 0 ELSE now - WindowTicks + 1
      <4>1. first \in Ticks /\ first <= o
        BY <1>0, <1>1, LimitsAreNat DEF Ticks
      <4> HIDE DEF first
      <4>2. Before(total, first) <= Before(total, o)
        BY <1>0, <4>1, BeforeGrows
      <4>3. Before(total, first) \in Nat /\ Before(total, o) \in Nat /\ total[now] \in Nat
        BY <1>0, <1>1, <4>1, BeforeIsNat
      <4>4. total[now] - Before(total, first) >= MaxRequests
        BY <1>1, <1>5, <4>2, <4>3
      <4> QED
        BY <3>2, <4>4 DEF first
    <3> QED
      BY <3>1, <3>2
  <2> QED
    BY <2>1 DEF RefusedFull
<1>9. next # NoWindow
  BY <1>2, NoWindowIsNone DEF RateLimitInfo
<1>10. KeyInv(total, refuses, next, now)
  BY <1>0, <1>6, <1>7, <1>8, <1>9 DEF KeyInv
<1> QED
  BY <1>10 DEF next, refuses

-----------------------------------------------------------------------------
LEMMA LimInitInv == LimInit => LimInv
<1> SUFFICES ASSUME LimInit PROVE LimInv
  OBVIOUS
<1>1. LimTypeOK
  BY LimitsAreNat DEF LimInit, LimTypeOK, Never, Ticks
<1>2. \A k \in ClientKeys : KeyInv(admitted[k], refused[k], rateLimitStore[k], clock)
  <2>1. clock \in Ticks
    BY <1>1 DEF LimTypeOK
  <2> QED
    BY <2>1, KeyStarts DEF LimInit
<1> QED
  BY <1>1, <1>2 DEF LimInv

LEMMA UseInv ==
  ASSUME LimInv, NEW k \in ClientKeys, Use(k)
  PROVE  LimInv'
<1> DEFINE next == NextInfo(rateLimitStore[k], clock)
           more == CountedFrom(admitted[k], clock)
           refuses == [refused[k] EXCEPT ![clock] = @ + 1]
<1>0. /\ LimTypeOK /\ clock \in Ticks /\ clock' = clock /\ sweepAt' = sweepAt
      /\ rateLimitStore[k] \in RateLimitInfo \cup {NoWindow}
      /\ KeyInv(admitted[k], refused[k], rateLimitStore[k], clock)
      /\ rateLimitStore' = [rateLimitStore EXCEPT ![k] = next]
  BY DEF LimInv, LimTypeOK, Use
<1>1. next \in RateLimitInfo
  BY <1>0, NextInfoIs
<1>2. \/ admitted' = [admitted EXCEPT ![k] = more] /\ refused' = refused
         /\ KeyInv(more, refused[k], next, clock)
      \/ refused' = [refused EXCEPT ![k] = refuses] /\ admitted' = admitted
         /\ KeyInv(admitted[k], refuses, next, clock)
  <2>1. CASE Exceeds(next)
    <3>1. KeyInv(admitted[k], refuses, next, clock)
      BY <1>0, <2>1, KeyRefuses
    <3>2. refused' = [refused EXCEPT ![k] = refuses] /\ admitted' = admitted
      BY <2>1 DEF Use, LimInv, LimTypeOK
    <3> QED
      BY <3>1, <3>2
  <2>2. CASE ~Exceeds(next)
    <3>1. KeyInv(more, refused[k], next, clock)
      BY <1>0, <2>2, KeyOpens, KeyCounts
    <3>2. admitted' = [admitted EXCEPT ![k] = more] /\ refused' = refused
      BY <2>2 DEF Use
    <3> QED
      BY <3>1, <3>2
  <2> QED
    BY <2>1, <2>2
<1> HIDE DEF next, more, refuses
<1>3. /\ rateLimitStore' \in [ClientKeys -> RateLimitInfo \cup {NoWindow}]
      /\ rateLimitStore'[k] = next
      /\ \A j \in ClientKeys \ {k} : rateLimitStore'[j] = rateLimitStore[j]
  BY <1>0, <1>1 DEF LimTypeOK
<1>4. /\ admitted' \in [ClientKeys -> [Ticks -> Nat]]
      /\ refused' \in [ClientKeys -> [Ticks -> Nat]]
      /\ KeyInv(admitted'[k], refused'[k], next, clock)
      /\ \A j \in ClientKeys \ {k} : admitted'[j] = admitted[j] /\ refused'[j] = refused[j]
  <2>1. CASE /\ admitted' = [admitted EXCEPT ![k] = more] /\ refused' = refused
             /\ KeyInv(more, refused[k], next, clock)
    <3>1. more \in [Ticks -> Nat]
      BY <2>1 DEF KeyInv, HistoryInv
    <3> QED
      BY <1>0, <2>1, <3>1 DEF LimTypeOK
  <2>2. CASE /\ refused' = [refused EXCEPT ![k] = refuses] /\ admitted' = admitted
             /\ KeyInv(admitted[k], refuses, next, clock)
    <3>1. refuses \in [Ticks -> Nat]
      BY <2>2 DEF KeyInv, HistoryInv
    <3> QED
      BY <1>0, <2>2, <3>1 DEF LimTypeOK
  <2> QED
    BY <1>2, <2>1, <2>2
<1>5. LimTypeOK'
  BY <1>0, <1>3, <1>4 DEF LimTypeOK
<1>6. ASSUME NEW j \in ClientKeys
      PROVE  KeyInv(admitted'[j], refused'[j], rateLimitStore'[j], clock')
  <2>1. CASE j = k
    BY <1>0, <1>3, <1>4, <2>1
  <2>2. CASE j # k
    BY <1>0, <1>3, <1>4, <2>2 DEF LimInv
  <2> QED
    BY <2>1, <2>2
<1>7. (\A j \in ClientKeys : KeyInv(admitted[j], refused[j], rateLimitStore[j], clock))'
  BY <1>6
<1> QED
  BY <1>5, <1>7 DEF LimInv

LEMMA CleanupInv ==
  ASSUME LimInv, CleanupExpiredEntries
  PROVE  LimInv'
<1>0. /\ clock \in Ticks /\ clock' = clock /\ admitted' = admitted /\ refused' = refused
      /\ rateLimitStore \in [ClientKeys -> RateLimitInfo \cup {NoWindow}]
      /\ rateLimitStore' =
           [k \in ClientKeys |-> IF k \in Expired(clock) THEN NoWindow ELSE rateLimitStore[k]]
  BY DEF LimInv, LimTypeOK, CleanupExpiredEntries
<1>1. sweepAt' \in Nat
  BY LimitsAreNat DEF LimInv, LimTypeOK, CleanupExpiredEntries
<1>2. LimTypeOK'
  BY <1>0, <1>1 DEF LimInv, LimTypeOK
<1>3. ASSUME NEW k \in ClientKeys
      PROVE  KeyInv(admitted'[k], refused'[k], rateLimitStore'[k], clock')
  <2>1. KeyInv(admitted[k], refused[k], rateLimitStore[k], clock)
    BY DEF LimInv
  <2>2. CASE k \in Expired(clock)
    <3>1. /\ rateLimitStore[k] \in RateLimitInfo /\ IsOver(rateLimitStore[k], clock)
          /\ rateLimitStore'[k] = NoWindow
      BY <1>0, <2>2 DEF Expired
    <3> QED
      BY <1>0, <2>1, <3>1, KeySwept
  <2>3. CASE k \notin Expired(clock)
    BY <1>0, <2>1, <2>3
  <2> QED
    BY <2>2, <2>3
<1>4. (\A k \in ClientKeys : KeyInv(admitted[k], refused[k], rateLimitStore[k], clock))'
  BY <1>3
<1> QED
  BY <1>2, <1>4 DEF LimInv

LEMMA PassesInv ==
  ASSUME LimInv, Passes
  PROVE  LimInv'
<1>0. /\ clock \in Ticks /\ clock < LastTick /\ clock' = clock + 1
      /\ UNCHANGED <<rateLimitStore, sweepAt, admitted, refused>>
      /\ rateLimitStore \in [ClientKeys -> RateLimitInfo \cup {NoWindow}]
  BY DEF LimInv, LimTypeOK, Passes
<1>1. clock' \in Ticks
  BY <1>0, LimitsAreNat DEF Ticks
<1>2. LimTypeOK'
  BY <1>0, <1>1 DEF LimInv, LimTypeOK
<1>3. ASSUME NEW k \in ClientKeys
      PROVE  KeyInv(admitted[k], refused[k], rateLimitStore[k], clock + 1)
  BY <1>0, KeyPasses DEF LimInv
<1>4. (\A k \in ClientKeys : KeyInv(admitted[k], refused[k], rateLimitStore[k], clock))'
  BY <1>0, <1>3
<1> QED
  BY <1>2, <1>4 DEF LimInv

LEMMA ClearInv ==
  ASSUME LimInv, NEW keys, ClearRateLimit(keys)
  PROVE  LimInv'
<1>0. /\ clock \in Ticks /\ clock' = clock
      /\ rateLimitStore' = [k \in ClientKeys |-> IF k \in keys THEN NoWindow ELSE rateLimitStore[k]]
      /\ admitted' = [k \in ClientKeys |-> IF k \in keys THEN Never ELSE admitted[k]]
      /\ refused' = [k \in ClientKeys |-> IF k \in keys THEN Never ELSE refused[k]]
  BY DEF LimInv, LimTypeOK, ClearRateLimit
<1>1. LimTypeOK'
  BY <1>0 DEF LimInv, LimTypeOK, ClearRateLimit, Never
<1>2. ASSUME NEW k \in ClientKeys
      PROVE  KeyInv(admitted'[k], refused'[k], rateLimitStore'[k], clock')
  <2>1. CASE k \in keys
    BY <1>0, <2>1, KeyStarts
  <2>2. CASE k \notin keys
    BY <1>0, <2>2 DEF LimInv
  <2> QED
    BY <2>1, <2>2
<1>3. (\A k \in ClientKeys : KeyInv(admitted[k], refused[k], rateLimitStore[k], clock))'
  BY <1>2
<1> QED
  BY <1>1, <1>3 DEF LimInv

LEMMA LimInvariant == LimSpec => []LimInv
<1>1. LimInit => LimInv
  BY LimInitInv
<1>2. LimInv /\ [LimNext]_limVars => LimInv'
  <2> SUFFICES ASSUME LimInv, [LimNext]_limVars PROVE LimInv'
    OBVIOUS
  <2>1. ASSUME NEW k \in ClientKeys, Use(k) PROVE LimInv'
    BY <2>1, UseInv
  <2>2. ASSUME NEW k \in ClientKeys, ClearRateLimit({k}) PROVE LimInv'
    BY <2>2, ClearInv
  <2>3. CASE CleanupExpiredEntries
    BY <2>3, CleanupInv
  <2>4. CASE Passes
    BY <2>4, PassesInv
  <2>5. CASE ClearRateLimit(ClientKeys)
    BY <2>5, ClearInv
  <2>6. CASE UNCHANGED limVars
    BY <2>6 DEF limVars, LimInv, LimTypeOK
  <2> QED
    BY <2>1, <2>2, <2>3, <2>4, <2>5, <2>6 DEF LimNext
<1> QED
  BY <1>1, <1>2, PTL DEF LimSpec

(* The windows of the rate limit keep their types                          *)
(* (rate-limit.middleware.ts).                                             *)
THEOREM LimitTypeCorrect == LimSpec => []LimTypeOK
BY LimInvariant, PTL DEF LimInv

(* Whatever the limit, the window, the keys and the arrivals: no interval  *)
(* of a window's length lets twice the limit through, and only a client    *)
(* that has used its share is refused (RateLimitMiddleware.use).           *)
THEOREM FixedWindowsKeepRate == LimSpec => []FixedWindowRate
<1>1. LimInv => FixedWindowRate
  <2> SUFFICES ASSUME LimInv PROVE FixedWindowRate
    OBVIOUS
  <2>1. RateBound
    <3>1. ASSUME NEW k \in ClientKeys, NEW t \in Ticks, t + WindowTicks <= LastTick + 1
          PROVE  Through(admitted[k], t, t + WindowTicks - 1) < 2 * MaxRequests
      BY <3>1 DEF LimInv, KeyInv, Bounded, Through
    <3> QED
      BY <3>1 DEF RateBound
  <2>2. RefusedOnlyWhenFull
    <3>1. ASSUME NEW k \in ClientKeys, NEW t \in Ticks, refused[k][t] > 0
          PROVE  Through(admitted[k], IF t < WindowTicks THEN 0 ELSE t - WindowTicks + 1, t)
                   >= MaxRequests
      <4> DEFINE first == IF t < WindowTicks THEN 0 ELSE t - WindowTicks + 1
      <4>1. admitted[k][t] - Before(admitted[k], first) >= MaxRequests
        BY <3>1 DEF LimInv, KeyInv, RefusedFull
      <4> HIDE DEF first
      <4>2. Through(admitted[k], first, t) >= MaxRequests
        BY <4>1 DEF Through
      <4> QED
        BY <4>2 DEF first
    <3> QED
      BY <3>1 DEF RefusedOnlyWhenFull
  <2> QED
    BY <2>1, <2>2 DEF FixedWindowRate
<1> QED
  BY <1>1, LimInvariant, PTL


-----------------------------------------------------------------------------
(* Charts.  The days, the months since the first year, and which of them a *)
(* metric is put into: a key names one of these.                           *)
Months(t) == t \div (DaysPerMonth * HoursPerDay)

Period(t, dimension) ==
  CASE dimension = "hourly" -> t
    [] dimension = "daily" -> Day(t)
    [] dimension = "weekly" -> Day(t)
    [] dimension = "monthly" -> Months(t)

LEMMA PartsOfADate ==
  ASSUME NEW t \in Nat
  PROVE  /\ Day(t) \in Nat /\ Months(t) \in Nat /\ Year(t) \in Nat
         /\ Months(t) = Day(t) \div DaysPerMonth
         /\ Year(t) = Months(t) \div MonthsPerYear
         /\ Month(t) = Months(t) % MonthsPerYear
         /\ DayOfMonth(t) = Day(t) % DaysPerMonth
         /\ HourOfDay(t) \in Nat /\ Month(t) \in Nat /\ DayOfMonth(t) \in Nat
         /\ t = HoursPerDay * Day(t) + HourOfDay(t)
         /\ Day(t) = DaysPerMonth * Months(t) + DayOfMonth(t)
         /\ Months(t) = MonthsPerYear * Year(t) + Month(t)
<1> DEFINE h == HoursPerDay
           d == DaysPerMonth
           m == MonthsPerYear
<1>1. h \in Nat \ {0} /\ d \in Nat \ {0} /\ m \in Nat \ {0}
  BY CalendarIsRegular
<1>2. d * h \in Nat \ {0} /\ m * d * h = m * (d * h)
  <2> HIDE DEF h, d, m
  <2> QED
    BY <1>1
<1>3. Day(t) = t \div h /\ Months(t) = t \div (d * h) /\ Year(t) = t \div (m * d * h)
  BY DEF Day, Months, Year, HoursPerYear
<1>4. Month(t) = Months(t) % m /\ DayOfMonth(t) = Day(t) % d /\ HourOfDay(t) = t % h
  BY DEF Month, Months, DayOfMonth, Day, HourOfDay
<1> HIDE DEF h, d, m
<1>5. Months(t) = Day(t) \div d
  BY <1>1, <1>3, QuotientOfQuotient
<1>6. Year(t) = Months(t) \div m
  BY <1>1, <1>2, <1>3, QuotientOfQuotient
<1>7. Day(t) \in Nat /\ HourOfDay(t) \in Nat /\ t = h * Day(t) + HourOfDay(t)
  BY <1>1, <1>3, <1>4, Division
<1>8. ASSUME NEW a \in Nat, NEW b \in Nat \ {0}, NEW q, NEW r, q = a \div b, r = a % b
      PROVE  q \in Nat /\ r \in Nat /\ a = b * q + r
  BY <1>8, Division
<1>9. Months(t) \in Nat /\ DayOfMonth(t) \in Nat /\ Day(t) = d * Months(t) + DayOfMonth(t)
  BY <1>1, <1>4, <1>5, <1>7, <1>8
<1>10. Year(t) \in Nat /\ Month(t) \in Nat /\ Months(t) = m * Year(t) + Month(t)
  BY <1>1, <1>4, <1>6, <1>8, <1>9
<1> QED
  BY <1>4, <1>5, <1>6, <1>7, <1>9, <1>10 DEF h, d, m

(* A key and a period determine each other.                                *)
LEMMA KeysArePeriods ==
  ASSUME NEW t \in Nat, NEW u \in Nat, NEW dimension \in TimeDimension
  PROVE  GetTimeKey(t, dimension) = GetTimeKey(u, dimension) <=>
           Period(t, dimension) = Period(u, dimension)
<1>1. Months(t) = Months(u) <=> Year(t) = Year(u) /\ Month(t) = Month(u)
  BY PartsOfADate
<1>2. Day(t) = Day(u) <=> Months(t) = Months(u) /\ DayOfMonth(t) = DayOfMonth(u)
  BY PartsOfADate
<1>3. t = u <=> Day(t) = Day(u) /\ HourOfDay(t) = HourOfDay(u)
  BY PartsOfADate DEF HourOfDay
<1>4. Year(t) = Year(u) => (GetWeekNumber(t) = GetWeekNumber(u) <=> Day(t) = Day(u))
  <2> DEFINE first == Day(Year(t) * HoursPerYear)
  <2>1. first \in Int
    BY PartsOfADate, CalendarIsRegular DEF Day, HoursPerYear
  <2>2. Day(t) \in Nat /\ Day(u) \in Nat
    BY PartsOfADate
  <2>3. Year(t) = Year(u) => GetWeekNumber(t) = Day(t) - first /\ GetWeekNumber(u) = Day(u) - first
    BY DEF GetWeekNumber
  <2> HIDE DEF first
  <2> QED
    BY <2>1, <2>2, <2>3
<1>5. CASE dimension = "hourly"
  BY <1>1, <1>2, <1>3, <1>5 DEF GetTimeKey, Period
<1>6. CASE dimension = "daily"
  BY <1>1, <1>2, <1>6 DEF GetTimeKey, Period
<1>7. CASE dimension = "weekly"
  BY <1>1, <1>2, <1>4, <1>7 DEF GetTimeKey, Period
<1>8. CASE dimension = "monthly"
  BY <1>1, <1>8 DEF GetTimeKey, Period
<1> QED
  BY <1>5, <1>6, <1>7, <1>8 DEF TimeDimension

LEMMA PeriodsInOrder ==
  ASSUME NEW t \in Nat, NEW u \in Nat, NEW dimension \in TimeDimension, t <= u
  PROVE  /\ Period(t, dimension) \in Nat /\ Period(u, dimension) \in Nat
         /\ Period(t, dimension) <= Period(u, dimension)
<1>1. Day(t) \in Nat /\ Day(u) \in Nat /\ Months(t) \in Nat /\ Months(u) \in Nat
  BY PartsOfADate
<1>2. Day(t) <= Day(u)
  BY QuotientsInOrder, CalendarIsRegular DEF Day
<1>3. Months(t) <= Months(u)
  <2>1. Months(t) = Day(t) \div DaysPerMonth /\ Months(u) = Day(u) \div DaysPerMonth
    BY PartsOfADate
  <2>2. \A a, b \in Nat : a <= b => a \div DaysPerMonth <= b \div DaysPerMonth
    BY QuotientsInOrder, CalendarIsRegular
  <2> QED
    BY <1>1, <1>2, <2>1, <2>2
<1> QED
  BY <1>1, <1>2, <1>3 DEF Period, TimeDimension

Bucket(S, dimension, key) == {i \in S : GetTimeKey(Time(i), dimension) = key}
Point(S, dimension, key) ==
  [label |-> key, value |-> AggregateMetrics(Bucket(S, dimension, key)),
   timestamp |-> Earliest(Bucket(S, dimension, key))]
PointOf(S, dimension) == [i \in S |-> Point(S, dimension, GetTimeKey(Time(i), dimension))]
Points(S, dimension) == {PointOf(S, dimension)[i] : i \in S}

LEMMA ChartsArePoints ==
  ASSUME NEW S, NEW dimension
  PROVE  AggregateByTimeDimension(S, dimension) = InOrder(Points(S, dimension))
BY DEF AggregateByTimeDimension, Points, PointOf, Point, Bucket

LEMMA EarliestIs ==
  ASSUME NEW B, B # {}, \A i \in B : Time(i) \in Nat
  PROVE  /\ \E i \in B : Earliest(B) = Time(i)
         /\ \A i \in B : Earliest(B) <= Time(i)
<1> DEFINE T == {Time(i) : i \in B}
<1>1. T \in SUBSET Nat /\ T # {}
  OBVIOUS
<1>2. \E t \in T : \A u \in T : t <= u
  BY <1>1, NatLeast, Zenon
<1>3. \E t \in T : \A i \in B : t <= Time(i)
  BY <1>2
<1>4. Earliest(B) \in T /\ \A i \in B : Earliest(B) <= Time(i)
  BY <1>3, Zenon DEF Earliest
<1> QED
  BY <1>4

(* A point is what its label says, and stands at the first metric of it.   *)
LEMMA APoint ==
  ASSUME NEW S, \A i \in S : Time(i) \in Nat, NEW dimension, NEW p \in Points(S, dimension)
  PROVE  /\ p = Point(S, dimension, p.label)
         /\ p.timestamp \in Nat
         /\ p.value = AggregateMetrics(Bucket(S, dimension, p.label))
         /\ \E i \in Bucket(S, dimension, p.label) : p.timestamp = Time(i)
         /\ \A i \in Bucket(S, dimension, p.label) : p.timestamp <= Time(i)
         /\ p.label = GetTimeKey(p.timestamp, dimension)
<1>1. PICK j \in S : p = PointOf(S, dimension)[j]
  BY DEF Points
<1> DEFINE key == GetTimeKey(Time(j), dimension)
           B == Bucket(S, dimension, key)
<1>2. p = Point(S, dimension, key)
  BY <1>1 DEF PointOf
<1>3. p.label = key /\ p.value = AggregateMetrics(B) /\ p.timestamp = Earliest(B)
  BY <1>2 DEF Point
<1>4. j \in B /\ B \in SUBSET S /\ \A i \in B : GetTimeKey(Time(i), dimension) = key
  BY DEF Bucket
<1> HIDE DEF B, key
<1>5. (\E i \in B : Earliest(B) = Time(i)) /\ \A i \in B : Earliest(B) <= Time(i)
  BY <1>4, EarliestIs
<1>6. PICK i \in B : Earliest(B) = Time(i)
  BY <1>5
<1>7. p.timestamp \in Nat /\ p.label = GetTimeKey(p.timestamp, dimension)
  BY <1>3, <1>4, <1>6
<1>8. B = Bucket(S, dimension, p.label)
  BY <1>3 DEF B
<1> QED
  BY <1>2, <1>3, <1>5, <1>7, <1>8

(* The points can be put in the order of time, and reach every metric.     *)
LEMMA AChart ==
  ASSUME NEW S, IsFiniteSet(S), \A i \in S : Time(i) \in Nat, NEW dimension
  PROVE  LET P == Points(S, dimension)
             chart == AggregateByTimeDimension(S, dimension)
         IN /\ chart \in [1 .. Cardinality(P) -> P]
            /\ \A m, n \in DOMAIN chart : chart[m] = chart[n] => m = n
            /\ \A m, n \in DOMAIN chart : m < n => chart[m].timestamp <= chart[n].timestamp
            /\ \A p \in P : \E n \in DOMAIN chart : chart[n] = p
            /\ Cardinality(P) \in Nat
<1> DEFINE P == Points(S, dimension)
           N == Cardinality(P)
           chart == AggregateByTimeDimension(S, dimension)
           stamp == [p \in P |-> p.timestamp]
<1>1. PointOf(S, dimension) \in Surjection(S, P)
  BY DEF Points, PointOf, Surjection
<1>2. IsFiniteSet(P) /\ N \in Nat
  BY <1>1, FS_Surjection, FS_CardinalityType
<1>3. \A p \in P : stamp[p] = p.timestamp /\ p.timestamp \in Nat
  BY APoint
<1>4. stamp \in [P -> Nat]
  BY <1>3
<1>5. ASSUME NEW p \in P, NEW q \in P, stamp[p] = stamp[q] PROVE p = q
  <2>1. p.timestamp = q.timestamp
    BY <1>3, <1>5
  <2>2. p.label = GetTimeKey(p.timestamp, dimension) /\ q.label = GetTimeKey(q.timestamp, dimension)
    BY APoint
  <2>3. p = Point(S, dimension, p.label) /\ q = Point(S, dimension, q.label)
    BY APoint
  <2> QED
    BY <2>1, <2>2, <2>3
<1>6. DOMAIN stamp = P
  OBVIOUS
<1>7. chart = InOrder(P)
  BY ChartsArePoints
<1> HIDE DEF P, stamp, chart
<1>8. IsInjective(stamp)
  BY <1>5, <1>6 DEF IsInjective
<1>9. \E c \in [1 .. N -> P] : IsInjective(c) /\ \A m, n \in DOMAIN c : m < n => stamp[c[m]] <= stamp[c[n]]
  BY <1>2, <1>4, <1>8, SortedExists
<1>10. PICK c \in [1 .. N -> P] :
         IsInjective(c) /\ \A m, n \in DOMAIN c : m < n => stamp[c[m]] <= stamp[c[n]]
  BY <1>9
<1>11. \A m, n \in DOMAIN c : m < n => c[m].timestamp <= c[n].timestamp
  BY <1>3, <1>10
<1>12. /\ chart \in [1 .. N -> P]
       /\ IsInjective(chart)
       /\ \A m, n \in DOMAIN chart : m < n => chart[m].timestamp <= chart[n].timestamp
  BY <1>7, <1>10, <1>11, Zenon DEF InOrder
<1>13. \A p \in P : \E n \in DOMAIN chart : chart[n] = p
  BY <1>2, <1>12, Enumerates
<1> QED
  BY <1>2, <1>12, <1>13 DEF IsInjective, P, chart

(* What TrendInOrder says of one chart.                                    *)
TimeOrdered(chart, found, dimension) ==
  LET of(n) == {i \in found : GetTimeKey(Time(i), dimension) = chart[n].label}
  IN
    /\ found = UNION {of(n) : n \in DOMAIN chart}
    /\ \A m, n \in DOMAIN chart : m < n => \A i \in of(m), j \in of(n) : Time(i) < Time(j)
    /\ \A n \in DOMAIN chart :
         /\ \E i \in of(n) : metrics[i].value * chart[n].value.total <= chart[n].value.sum
         /\ \E i \in of(n) : metrics[i].value * chart[n].value.total >= chart[n].value.sum

LEMMA ChartInOrder ==
  ASSUME ChaTypeOK, NEW S \in SUBSET There, IsFiniteSet(S), NEW dimension \in TimeDimension
  PROVE  TimeOrdered(AggregateByTimeDimension(S, dimension), S, dimension)
<1> DEFINE P == Points(S, dimension)
           N == Cardinality(P)
           chart == AggregateByTimeDimension(S, dimension)
           of(n) == Bucket(S, dimension, chart[n].label)
           key(i) == GetTimeKey(Time(i), dimension)
<1>1. \A i \in S : Time(i) \in Nat /\ metrics[i].value \in Int
  BY CalendarIsRegular DEF There, Time, ChaTypeOK, AnalyticsMetric
<1>2. /\ chart \in [1 .. N -> P] /\ N \in Nat
      /\ \A m, n \in DOMAIN chart : chart[m] = chart[n] => m = n
      /\ \A m, n \in DOMAIN chart : m < n => chart[m].timestamp <= chart[n].timestamp
      /\ \A p \in P : \E n \in DOMAIN chart : chart[n] = p
  BY <1>1, AChart
<1>3. \A i \in S : \E p \in P : p.label = key(i)
  <2>1. \A i \in S : PointOf(S, dimension)[i] \in P
    BY DEF Points
  <2>2. \A i \in S : PointOf(S, dimension)[i].label = key(i)
    BY DEF PointOf, Point
  <2> HIDE DEF P, key
  <2> QED
    BY <2>1, <2>2
<1>4. \A n : of(n) = {i \in S : key(i) = chart[n].label}
  BY DEF Bucket
<1>5. \A n \in DOMAIN chart :
        /\ chart[n].timestamp \in Nat
        /\ chart[n] = Point(S, dimension, chart[n].label)
        /\ chart[n].value = AggregateMetrics(of(n))
        /\ \E i \in of(n) : chart[n].timestamp = Time(i)
        /\ \A i \in of(n) : chart[n].timestamp <= Time(i)
  <2> SUFFICES ASSUME NEW n \in DOMAIN chart
               PROVE  /\ chart[n].timestamp \in Nat
                      /\ chart[n] = Point(S, dimension, chart[n].label)
                      /\ chart[n].value = AggregateMetrics(of(n))
                      /\ \E i \in of(n) : chart[n].timestamp = Time(i)
                      /\ \A i \in of(n) : chart[n].timestamp <= Time(i)
    OBVIOUS
  <2>1. PICK p \in P : p = chart[n]
    BY <1>2
  <2>2. /\ p = Point(S, dimension, p.label)
        /\ p.timestamp \in Nat
        /\ p.value = AggregateMetrics(Bucket(S, dimension, p.label))
        /\ \E i \in Bucket(S, dimension, p.label) : p.timestamp = Time(i)
        /\ \A i \in Bucket(S, dimension, p.label) : p.timestamp <= Time(i)
    BY <1>1, APoint
  <2>3. of(n) = Bucket(S, dimension, p.label)
    BY <2>1
  <2> HIDE DEF chart, of
  <2> QED
    BY <2>1, <2>2, <2>3
<1> HIDE DEF chart, P, N, of
<1>6. S = UNION {of(n) : n \in DOMAIN chart}
  <2>1. \A i \in S : \E n \in DOMAIN chart : i \in of(n)
    BY <1>2, <1>3, <1>4
  <2>2. \A n \in DOMAIN chart : of(n) \in SUBSET S
    BY <1>4
  <2> QED
    BY <2>1, <2>2
<1>7. ASSUME NEW m \in DOMAIN chart, NEW n \in DOMAIN chart, m < n, NEW i \in of(m), NEW j \in of(n)
      PROVE  Time(i) < Time(j)
  <2> DEFINE period(x) == Period(x, dimension)
  <2>1. PICK a \in of(m) : chart[m].timestamp = Time(a)
    BY <1>5
  <2>2. /\ i \in S /\ j \in S /\ a \in S
        /\ key(i) = chart[m].label /\ key(a) = chart[m].label /\ key(j) = chart[n].label
    BY <1>4
  <2>3. Time(a) <= Time(j)
    <3>1. chart[m].timestamp <= chart[n].timestamp /\ chart[n].timestamp <= Time(j)
      BY <1>2, <1>5, <1>7
    <3> QED
      BY <1>1, <1>5, <2>1, <2>2, <3>1
  <2>4. key(i) # key(j)
    <3>1. chart[m].label # chart[n].label
      <4>1. chart[m] # chart[n]
        <5>1. m \in Int /\ n \in Int
          BY <1>2
        <5> QED
          BY <1>2, <1>7, <5>1
      <4> QED
        BY <1>5, <4>1
    <3> QED
      BY <2>2, <3>1
  <2>5. Time(i) \in Nat /\ Time(j) \in Nat /\ Time(a) \in Nat
    BY <1>1, <2>2
  <2>6. period(Time(a)) = period(Time(i)) /\ period(Time(i)) # period(Time(j))
    BY <2>2, <2>4, <2>5, KeysArePeriods
  <2>7. period(Time(a)) <= period(Time(j))
    BY <2>3, <2>5, PeriodsInOrder
  <2>8. Time(j) <= Time(i) => period(Time(j)) <= period(Time(i))
    BY <2>5, PeriodsInOrder
  <2>9. period(Time(a)) \in Nat /\ period(Time(i)) \in Nat /\ period(Time(j)) \in Nat
    BY <2>5, PeriodsInOrder
  <2> HIDE DEF period
  <2> QED
    BY <2>5, <2>6, <2>7, <2>8, <2>9
<1>8. ASSUME NEW n \in DOMAIN chart
      PROVE  /\ \E i \in of(n) : metrics[i].value * chart[n].value.total <= chart[n].value.sum
             /\ \E i \in of(n) : metrics[i].value * chart[n].value.total >= chart[n].value.sum
  <2> DEFINE B == of(n)
             f == [i \in B |-> metrics[i].value]
  <2>1. B \in SUBSET S /\ B # {}
    BY <1>4, <1>5
  <2>2. IsFiniteSet(B) /\ f \in [B -> Int]
    BY <1>1, <2>1, FS_Subset
  <2>3. chart[n].value.total = Cardinality(B) /\ chart[n].value.sum = SumFunction(f)
    <3>1. chart[n].value = AggregateMetrics(B)
      BY <1>5
    <3>2. AggregateMetrics(B) = [total |-> Cardinality(B), sum |-> SumFunction(f)]
      BY Zenon DEF AggregateMetrics
    <3> HIDE DEF B, f
    <3> QED
      BY <3>1, <3>2
  <2>4. \A i \in B : f[i] = metrics[i].value
    OBVIOUS
  <2> HIDE DEF B, f
  <2>5. /\ \E i \in B : f[i] * Cardinality(B) <= SumFunction(f)
        /\ \E i \in B : f[i] * Cardinality(B) >= SumFunction(f)
    BY <2>1, <2>2, AverageBetween
  <2> QED
    BY <2>3, <2>4, <2>5 DEF B
<1>9. /\ S = UNION {of(n) : n \in DOMAIN chart}
      /\ \A m, n \in DOMAIN chart : m < n => \A i \in of(m), j \in of(n) : Time(i) < Time(j)
      /\ \A n \in DOMAIN chart :
           /\ \E i \in of(n) : metrics[i].value * chart[n].value.total <= chart[n].value.sum
           /\ \E i \in of(n) : metrics[i].value * chart[n].value.total >= chart[n].value.sum
  BY <1>6, <1>7, <1>8
<1> QED
  BY <1>9, Zenon DEF TimeOrdered, chart, of, key, Bucket

ChaInv == ChaTypeOK /\ IsFiniteSet(There)

LEMMA ChaInitInv == ChaInit => ChaInv
<1> SUFFICES ASSUME ChaInit PROVE ChaInv
  OBVIOUS
<1>1. There = {}
  BY DEF ChaInit, There
<1> QED
  BY <1>1, FS_EmptySet DEF ChaInit, ChaInv, ChaTypeOK

LEMMA ChaNextInv == ChaInv /\ [ChaNext]_metrics => ChaInv'
<1> SUFFICES ASSUME ChaInv, [ChaNext]_metrics PROVE ChaInv'
  OBVIOUS
<1>1. CASE UNCHANGED metrics
  BY <1>1 DEF ChaInv, ChaTypeOK, There
<1>2. ASSUME NEW i \in MetricIds, NEW m \in AnalyticsMetric, MetricArrives(i, m) PROVE ChaInv'
  <2>1. metrics' \in [MetricIds -> AnalyticsMetric \cup {NoMetric}]
    BY <1>2 DEF ChaInv, ChaTypeOK, MetricArrives
  <2>2. {k \in MetricIds : metrics'[k] # NoMetric} \in SUBSET (There \cup {i})
    BY <1>2 DEF ChaInv, ChaTypeOK, MetricArrives, There
  <2>3. IsFiniteSet({k \in MetricIds : metrics'[k] # NoMetric})
    BY <2>2, FS_AddElement, FS_Subset DEF ChaInv
  <2> QED
    BY <2>1, <2>3 DEF ChaInv, ChaTypeOK, There
<1> QED
  BY <1>1, <1>2 DEF ChaNext

(* The table of the metrics keeps its types (analytics-metric.entity.ts).  *)
THEOREM ChartsTypeCorrect == ChaSpec => []ChaTypeOK
<1>1. ChaInv => ChaTypeOK
  BY DEF ChaInv
<1> QED
  BY <1>1, ChaInitInv, ChaNextInv, PTL DEF ChaSpec

(* Each metric of a query is in one point of its chart, the points do not  *)
(* overlap in time and come in its order, and the value of a point lies    *)
(* between the metrics it is the average of: for any number of metrics,    *)
(* whatever their values and whenever they come, and any regular calendar  *)
(* (visualization.service.ts, aggregateByTimeDimension and getTimeKey).    *)
THEOREM TrendsAreInOrder == ChaSpec => []TrendInOrder
<1>1. ASSUME ChaInv PROVE TrendInOrder
  <2>1. ASSUME NEW analysis \in TrendAnalysisDto
        PROVE  TimeOrdered(GenerateTrendChart(analysis), QueryMetrics(analysis), analysis.timeDimension)
    <3>1. QueryMetrics(analysis) \in SUBSET There
      BY DEF QueryMetrics
    <3>2. IsFiniteSet(QueryMetrics(analysis)) /\ ChaTypeOK
      BY <1>1, <3>1, FS_Subset DEF ChaInv
    <3>3. analysis.timeDimension \in TimeDimension
      BY DEF TrendAnalysisDto
    <3> QED
      BY <3>1, <3>2, <3>3, ChartInOrder DEF GenerateTrendChart
  <2> QED
    BY <2>1, Zenon DEF TrendInOrder, TimeOrdered
<1> QED
  BY <1>1, ChaInitInv, ChaNextInv, PTL DEF ChaSpec
=============================================================================
