----------------------------- MODULE Directory -----------------------------
(***************************************************************************)
(* The tables behind the plugins user, tenant, organization and role: what *)
(* UserService, TenantService, OrganizationService, RoleService and        *)
(* PermissionService do to them when their requests overlap.               *)
(*                                                                         *)
(* Every operation reads, checks and awaits, and ends in one flush, so a   *)
(* request is two steps: the operation plans a write from the rows it has  *)
(* read (plan[r]) and a Flush step carries it out on the rows there are    *)
(* then.  A flush writes the columns the request has assigned and no       *)
(* other.  A request that is refused plans nothing and is no step.         *)
(***************************************************************************)
EXTENDS Server, Naturals, FiniteSets

CONSTANTS
  Ids,        \* primary keys; each is drawn once per table (a bound on inserts)
  Tenants,
  Keys,       \* e-mail addresses and slugs
  Types,      \* PermissionType
  Actions,    \* PermissionAction
  Resources,  \* the names of resources
  Contents    \* the remaining columns of a row, taken as one

Blanks == {"", "null"}   \* the resources that are falsy, one as good as none

ASSUME NothingIsNoField ==
  /\ Nothing \notin Keys \cup Types \cup Actions \cup Contents \cup Tenants
  /\ Nothing \notin Resources \cup Blanks
  /\ Resources \cap Blanks = {}

NoTenant == ""   \* what the controllers pass when the body names no tenant

VARIABLES
  rows,     \* rows[kind][id], one table per kind
  drawn,    \* the primary keys a table has given out
  granted,  \* the join table role_permissions
  plan,     \* what each request is about to write
  raced     \* history variable: two writers of permissions have overlapped

dirVars == <<rows, drawn, granted, plan, raced>>

Kinds == {"user", "tenant", "organization", "role", "permission"}
Owners == Tenants \cup {NoTenant}
PermissionKeys == [type: Types, action: Actions, resource: Resources \cup Blanks]

Columns == {"tenant", "key", "rest", "active"}
Users == [tenant: Tenants, key: Keys, rest: Contents, active: BOOLEAN]
TenantRows == [tenant: {NoTenant}, key: Keys, rest: Contents, active: BOOLEAN]
Organizations == [tenant: {NoTenant}, key: Keys, rest: Contents, active: BOOLEAN]
Roles == [tenant: Owners, key: Keys, rest: Contents, active: BOOLEAN]
Permissions == [tenant: Tenants, key: PermissionKeys, rest: Contents, active: BOOLEAN]
Rows == Users \cup TenantRows \cup Organizations \cup Roles \cup Permissions

RowsOf(kind) ==
  CASE kind = "user" -> Users
    [] kind = "tenant" -> TenantRows
    [] kind = "organization" -> Organizations
    [] kind = "role" -> Roles
    [] kind = "permission" -> Permissions

Plans ==
  {Idle}
    \cup [op: {"insert"}, by: Owners, kind: Kinds, row: Rows]
    \cup [op: {"update"}, by: Owners, kind: Kinds, id: Ids, row: Rows, cols: SUBSET Columns]
    \cup [op: {"delete"}, by: Owners, kind: Kinds, id: Ids]
    \cup [op: {"grant", "revoke"}, role: Ids, permissions: SUBSET Ids]

DirTypeOK ==
  /\ \A kind \in Kinds : rows[kind] \in [Ids -> RowsOf(kind) \cup {Nothing}]
  /\ drawn \in [Kinds -> SUBSET Ids]
  /\ granted \in SUBSET (Ids \X Ids)
  /\ plan \in [Requests -> Plans]
  /\ raced \in BOOLEAN

DirInit ==
  /\ rows = [kind \in Kinds |-> [id \in Ids |-> Nothing]]
  /\ drawn = [kind \in Kinds |-> {}]
  /\ granted = {}
  /\ plan = [r \in Requests |-> Idle]
  /\ raced = FALSE

-----------------------------------------------------------------------------
(* The mapper: what is in a table, and the four writes a request can plan. *)
In(kind) == {id \in Ids : rows[kind][id] # Nothing}
Row(kind, id) == rows[kind][id]
Has(kind, tenant, key) ==
  \E id \in In(kind) : Row(kind, id).tenant = tenant /\ Row(kind, id).key = key
HasOther(kind, tenant, key, self) ==
  \E id \in In(kind) \ {self} : Row(kind, id).tenant = tenant /\ Row(kind, id).key = key

Plan(r, p) ==
  /\ plan[r] = Idle
  /\ plan' = [plan EXCEPT ![r] = p]
  /\ UNCHANGED <<rows, drawn, granted>>

WritesPermission(p) == p.op \in {"insert", "update"} /\ p.kind = "permission"

Marks(r) ==
  raced' = (raced \/ \E s \in Requests \ {r} : WritesPermission(plan[s]))

Insert(r, by, kind, row) ==
  Plan(r, [op |-> "insert", by |-> by, kind |-> kind, row |-> row])
Update(r, by, kind, id, row, cols) ==
  Plan(r, [op |-> "update", by |-> by, kind |-> kind, id |-> id, row |-> row, cols |-> cols])
Delete(r, by, kind, id) ==
  Plan(r, [op |-> "delete", by |-> by, kind |-> kind, id |-> id])

Given(value, old) == IF value = Nothing THEN old ELSE value
Assigned(columns, dto) == {c \in columns : dto[c] # Nothing}

-----------------------------------------------------------------------------
(* UserService: every operation is confined to the tenant t of the caller. *)
CreateUserDto == [key: Keys, rest: Contents]
UpdateUserDto ==
  [key: Keys \cup {Nothing}, rest: Contents \cup {Nothing}, active: BOOLEAN \cup {Nothing}]

UserFindOneAnywhere(t, id) == id \in In("user")
UserFindOne(t, id) == id \in In("user") /\ Row("user", id).tenant = t

UserCreate(r, t, dto) ==
  /\ ~Has("user", t, dto.key)
  /\ Insert(r, t, "user", [tenant |-> t, key |-> dto.key, rest |-> dto.rest, active |-> TRUE])

(* findAll without a filter, all pages together. *)
UserFindAll(t) == {id \in In("user") : Row("user", id).tenant = t}

UserUpdate(r, t, id, dto) ==
  /\ UserFindOne(t, id)
  /\ dto.key # Nothing => ~HasOther("user", t, dto.key, id)
  /\ LET old == Row("user", id) IN
       Update(r, t, "user", id,
              [old EXCEPT !.key = Given(dto.key, @), !.rest = Given(dto.rest, @),
                          !.active = Given(dto.active, @)],
              Assigned({"key", "rest", "active"}, dto))

UserRemove(r, t, id) == UserFindOne(t, id) /\ Delete(r, t, "user", id)

(* updateAvatar and updateLastLogin assign a column of the rest. *)
UserUpdateAvatar(r, t, id, content) ==
  /\ UserFindOne(t, id)
  /\ Update(r, t, "user", id, [Row("user", id) EXCEPT !.rest = content], {"rest"})

UserUpdatePassword(r, t, id, current, content) ==
  /\ UserFindOne(t, id)
  /\ Row("user", id).rest = current
  /\ Update(r, t, "user", id, [Row("user", id) EXCEPT !.rest = content], {"rest"})

UserSetActive(r, t, id, active) ==
  /\ UserFindOne(t, id)
  /\ Update(r, t, "user", id, [Row("user", id) EXCEPT !.active = active], {"active"})

UserController(r, t) ==
  \/ \E dto \in CreateUserDto : UserCreate(r, t, dto)
  \/ \E id \in Ids, dto \in UpdateUserDto : UserUpdate(r, t, id, dto)
  \/ \E id \in Ids : UserRemove(r, t, id)
  \/ \E id \in Ids, c \in Contents : UserUpdateAvatar(r, t, id, c)
  \/ \E id \in Ids, c, d \in Contents : UserUpdatePassword(r, t, id, c, d)
  \/ \E id \in Ids, active \in BOOLEAN : UserSetActive(r, t, id, active)

-----------------------------------------------------------------------------
(* TenantService. *)
CreateTenantDto == [key: Keys, rest: Contents, active: BOOLEAN]
UpdateTenantDto ==
  [key: Keys \cup {Nothing}, rest: Contents \cup {Nothing}, active: BOOLEAN \cup {Nothing}]

TenantCreate(r, dto) ==
  /\ ~Has("tenant", NoTenant, dto.key)
  /\ Insert(r, NoTenant, "tenant",
            [tenant |-> NoTenant, key |-> dto.key, rest |-> dto.rest, active |-> dto.active])

TenantUpdate(r, id, dto) ==
  /\ id \in In("tenant")
  /\ dto.key # Nothing => ~HasOther("tenant", NoTenant, dto.key, id)
  /\ LET old == Row("tenant", id) IN
       Update(r, NoTenant, "tenant", id,
              [old EXCEPT !.key = Given(dto.key, @), !.rest = Given(dto.rest, @),
                          !.active = Given(dto.active, @)],
              Assigned({"key", "rest", "active"}, dto))

TenantRemove(r, id) == id \in In("tenant") /\ Delete(r, NoTenant, "tenant", id)

TenantSuspend(r, id) ==
  /\ id \in In("tenant")
  /\ Update(r, NoTenant, "tenant", id, [Row("tenant", id) EXCEPT !.active = FALSE], {"active"})

TenantActivate(r, id) ==
  /\ id \in In("tenant")
  /\ Update(r, NoTenant, "tenant", id, [Row("tenant", id) EXCEPT !.active = TRUE], {"active"})

TenantController(r) ==
  \/ \E dto \in CreateTenantDto : TenantCreate(r, dto)
  \/ \E id \in Ids, dto \in UpdateTenantDto : TenantUpdate(r, id, dto)
  \/ \E id \in Ids : TenantRemove(r, id) \/ TenantSuspend(r, id) \/ TenantActivate(r, id)

-----------------------------------------------------------------------------
(* OrganizationService: the controller passes no tenant. *)
CreateOrganizationDto == [key: Keys, rest: Contents, active: BOOLEAN]
UpdateOrganizationDto ==
  [key: Keys \cup {Nothing}, rest: Contents \cup {Nothing}, active: BOOLEAN \cup {Nothing}]

OrganizationCreate(r, dto, tenantId) ==
  /\ ~Has("organization", tenantId, dto.key)
  /\ Insert(r, tenantId, "organization",
            [tenant |-> tenantId, key |-> dto.key, rest |-> dto.rest, active |-> dto.active])

(* Only a slug that changes is looked for. *)
OrganizationUpdate(r, id, dto) ==
  /\ id \in In("organization")
  /\ LET old == Row("organization", id) IN
       /\ dto.key \notin {Nothing, old.key} => ~Has("organization", old.tenant, dto.key)
       /\ Update(r, NoTenant, "organization", id,
                 [old EXCEPT !.key = Given(dto.key, @), !.rest = Given(dto.rest, @),
                             !.active = Given(dto.active, @)],
                 Assigned({"key", "rest", "active"}, dto))

OrganizationRemove(r, id) ==
  id \in In("organization") /\ Delete(r, NoTenant, "organization", id)

OrganizationSetStatus(r, id, active) ==
  /\ id \in In("organization")
  /\ Update(r, NoTenant, "organization", id,
            [Row("organization", id) EXCEPT !.active = active], {"active"})

OrganizationController(r) ==
  \/ \E dto \in CreateOrganizationDto : OrganizationCreate(r, dto, NoTenant)
  \/ \E id \in Ids, dto \in UpdateOrganizationDto : OrganizationUpdate(r, id, dto)
  \/ \E id \in Ids : OrganizationRemove(r, id)
  \/ \E id \in Ids, active \in BOOLEAN : OrganizationSetStatus(r, id, active)

-----------------------------------------------------------------------------
(* RoleService. *)
CreateRoleDto == [key: Keys, rest: Contents, tenant: Owners]
UpdateRoleDto == [key: Keys \cup {Nothing}, rest: Contents \cup {Nothing}]

RoleCreate(r, dto, tenantId) ==
  /\ ~Has("role", tenantId, dto.key)
  /\ Insert(r, tenantId, "role",
            [tenant |-> tenantId, key |-> dto.key, rest |-> dto.rest, active |-> TRUE])

RoleUpdate(r, id, dto) ==
  /\ id \in In("role")
  /\ LET old == Row("role", id) IN
       /\ dto.key \notin {Nothing, old.key} => ~Has("role", old.tenant, dto.key)
       /\ Update(r, NoTenant, "role", id,
                 [old EXCEPT !.key = Given(dto.key, @), !.rest = Given(dto.rest, @)],
                 Assigned({"key", "rest"}, dto))

RoleRemove(r, id) == id \in In("role") /\ Delete(r, NoTenant, "role", id)

(* The permissions that exist are added to those the role holds already. *)
AssignPermissions(r, id, permissionIds) ==
  /\ id \in In("role")
  /\ permissionIds # {}
  /\ Plan(r, [op |-> "grant", role |-> id, permissions |-> permissionIds \cap In("permission")])

(* findOne does not populate the collection: which of the permissions it   *)
(* contains is up to the mapper.                                           *)
RevokePermissions(r, id, permissionIds) ==
  /\ id \in In("role")
  /\ permissionIds # {}
  /\ \E contained \in SUBSET (permissionIds \cap In("permission")) :
       Plan(r, [op |-> "revoke", role |-> id, permissions |-> contained])

(* Nothing is written when the role is there already. *)
RoleEnable(r, id) ==
  /\ id \in In("role") /\ ~Row("role", id).active
  /\ Update(r, NoTenant, "role", id, [Row("role", id) EXCEPT !.active = TRUE], {"active"})

RoleDisable(r, id) ==
  /\ id \in In("role") /\ Row("role", id).active
  /\ Update(r, NoTenant, "role", id, [Row("role", id) EXCEPT !.active = FALSE], {"active"})

RoleController(r) ==
  \/ \E dto \in CreateRoleDto : RoleCreate(r, dto, dto.tenant)
  \/ \E id \in Ids, dto \in UpdateRoleDto : RoleUpdate(r, id, dto)
  \/ \E id \in Ids : RoleRemove(r, id) \/ RoleEnable(r, id) \/ RoleDisable(r, id)
  \/ \E id \in Ids, ps \in SUBSET Ids : AssignPermissions(r, id, ps) \/ RevokePermissions(r, id, ps)

-----------------------------------------------------------------------------
(* PermissionService.  No column of the table is unique. *)
\* A body without a resource is stored, and looked for, as one with null.
CreatePermissionDto ==
  [type: Types, action: Actions, resource: Resources \cup Blanks, rest: Contents, tenantId: Tenants]
UpdatePermissionDto ==
  [type: Types \cup {Nothing}, action: Actions \cup {Nothing},
   resource: Resources \cup Blanks \cup {Nothing},
   rest: Contents \cup {Nothing}, active: BOOLEAN \cup {Nothing}]

PermissionCreate(r, dto) ==
  LET key == [type |-> dto.type, action |-> dto.action, resource |-> dto.resource] IN
    /\ ~Has("permission", dto.tenantId, key)
    /\ Insert(r, NoTenant, "permission",
              [tenant |-> dto.tenantId, key |-> key, rest |-> dto.rest, active |-> TRUE])
    /\ Marks(r)

\* What Object.assign makes of the key, and the key that is looked for: a
\* blank resource is written, but the one of the row is looked for.
Truthy(value) == value \notin Blanks \cup {Nothing}
AssignedKey(old, dto) ==
  [type |-> Given(dto.type, old.type), action |-> Given(dto.action, old.action),
   resource |-> Given(dto.resource, old.resource)]
LookedFor(old, dto) ==
  [AssignedKey(old, dto) EXCEPT !.resource = IF Truthy(dto.resource) THEN @ ELSE old.resource]

PermissionUpdateAll(r, id, dto) ==
  /\ id \in In("permission")
  /\ LET old == Row("permission", id)
         all == Truthy(dto.type) /\ Truthy(dto.action) /\ Truthy(dto.resource)
     IN
       /\ all => ~HasOther("permission", old.tenant, LookedFor(old.key, dto), id)
       /\ Update(r, NoTenant, "permission", id, [old EXCEPT !.key = AssignedKey(@, dto)], {"key"})
       /\ Marks(r)

PermissionUpdate(r, id, dto) ==
  /\ id \in In("permission")
  /\ LET old == Row("permission", id)
         given == Truthy(dto.type) \/ Truthy(dto.action) \/ Truthy(dto.resource)
         differs == \/ old.key.type # dto.type \/ old.key.action # dto.action
                    \/ old.key.resource # dto.resource
     IN
       /\ given /\ differs => ~HasOther("permission", old.tenant, LookedFor(old.key, dto), id)
       /\ Update(r, NoTenant, "permission", id,
                 [old EXCEPT !.key = AssignedKey(@, dto), !.rest = Given(dto.rest, @),
                             !.active = Given(dto.active, @)],
                 Assigned({"rest", "active"}, dto)
                   \cup IF given \/ dto.resource # Nothing THEN {"key"} ELSE {})
       /\ Marks(r)

PermissionRemove(r, id) == id \in In("permission") /\ Delete(r, NoTenant, "permission", id)

PermissionEnable(r, id) ==
  /\ id \in In("permission") /\ ~Row("permission", id).active
  /\ Update(r, NoTenant, "permission", id, [Row("permission", id) EXCEPT !.active = TRUE], {"active"})

PermissionDisable(r, id) ==
  /\ id \in In("permission") /\ Row("permission", id).active
  /\ Update(r, NoTenant, "permission", id, [Row("permission", id) EXCEPT !.active = FALSE], {"active"})

PermissionController(r) ==
  \/ /\ UNCHANGED raced
     /\ \E id \in Ids : PermissionRemove(r, id) \/ PermissionEnable(r, id) \/ PermissionDisable(r, id)
  \/ \E dto \in CreatePermissionDto : PermissionCreate(r, dto)
  \/ \E id \in Ids, dto \in UpdatePermissionDto : PermissionUpdate(r, id, dto)

-----------------------------------------------------------------------------
(* The columns email and slug are unique in the whole table, whatever the  *)
(* tenant.                                                                  *)
Unique == Kinds \ {"permission"}

Clash(kind, self, key) ==
  kind \in Unique /\ \E id \in In(kind) \ {self} : Row(kind, id).key = key

Ends(r) ==
  /\ plan' = [plan EXCEPT ![r] = Idle]
  /\ UNCHANGED raced

FlushInsert(r, id) ==
  /\ plan[r].op = "insert"
  /\ id \notin drawn[plan[r].kind]
  /\ ~Clash(plan[r].kind, id, plan[r].row.key)
  /\ rows' = [rows EXCEPT ![plan[r].kind][id] = plan[r].row]
  /\ drawn' = [drawn EXCEPT ![plan[r].kind] = @ \cup {id}]
  /\ Ends(r)
  /\ UNCHANGED granted

(* An update of a row that is gone changes nothing. *)
FlushUpdate(r) ==
  LET p == plan[r] IN
    /\ p.op = "update"
    /\ "key" \in p.cols => ~Clash(p.kind, p.id, p.row.key)
    /\ rows' = IF p.id \in In(p.kind)
                 THEN [rows EXCEPT ![p.kind][p.id] =
                         [c \in Columns |-> IF c \in p.cols THEN p.row[c] ELSE @[c]]]
                 ELSE rows
    /\ Ends(r)
    /\ UNCHANGED <<drawn, granted>>

(* The rows of the join table go with what they join. *)
FlushDelete(r) ==
  LET p == plan[r] IN
    /\ p.op = "delete"
    /\ rows' = [rows EXCEPT ![p.kind][p.id] = Nothing]
    /\ granted' = {g \in granted : /\ p.kind = "role" => g[1] # p.id
                                   /\ p.kind = "permission" => g[2] # p.id}
    /\ Ends(r)
    /\ UNCHANGED drawn

FlushGrant(r) ==
  LET p == plan[r] IN
    /\ p.op = "grant"
    /\ p.role \in In("role") /\ p.permissions \subseteq In("permission")
    /\ granted' = granted \cup ({p.role} \X p.permissions)
    /\ Ends(r)
    /\ UNCHANGED <<rows, drawn>>

FlushRevoke(r) ==
  LET p == plan[r] IN
    /\ p.op = "revoke"
    /\ granted' = granted \ ({p.role} \X p.permissions)
    /\ Ends(r)
    /\ UNCHANGED <<rows, drawn>>

(* The database refuses: a unique column, a foreign key, the connection. *)
FlushFails(r) ==
  /\ plan[r] # Idle
  /\ Ends(r)
  /\ UNCHANGED <<rows, drawn, granted>>

Flush(r) ==
  \/ \E id \in Ids : FlushInsert(r, id)
  \/ FlushUpdate(r) \/ FlushDelete(r) \/ FlushGrant(r) \/ FlushRevoke(r) \/ FlushFails(r)

Controllers(r) ==
  \/ /\ UNCHANGED raced
     /\ \/ \E t \in Tenants : UserController(r, t)
        \/ TenantController(r) \/ OrganizationController(r) \/ RoleController(r)
  \/ PermissionController(r)

DirNext == \E r \in Requests : Controllers(r) \/ Flush(r)

DirSpec == DirInit /\ [][DirNext]_dirVars

-----------------------------------------------------------------------------
(* What the users of one tenant are, as findAll lists them, is changed by  *)
(* the requests of that tenant alone, though a request checks the tenant   *)
(* before an await and writes by the id after it.                          *)
UsersStayWithTheirTenant ==
  [][\A t \in Tenants :
       \/ /\ UserFindAll(t)' = UserFindAll(t)
          /\ \A id \in UserFindAll(t) : rows'["user"][id] = rows["user"][id]
       \/ \E r \in Requests : plan[r] # Idle /\ plan'[r] = Idle /\ plan[r].by = t]_dirVars

(* PermissionService alone keeps permissions distinct (no column is        *)
(* unique).  Two permissions of a tenant with the same type, action and    *)
(* resource have a blank resource, or two writers of permissions have      *)
(* overlapped: every sequence of creations, partial updates and removals   *)
(* keeps those that name a resource apart, although an update that blanks  *)
(* the resource is written unchecked (permission.service.ts:224-241) and   *)
(* later updates start from what it wrote.                                 *)
PermissionsDistinct ==
  raced \/ \A i, j \in In("permission") :
             /\ Row("permission", i).tenant = Row("permission", j).tenant
             /\ Row("permission", i).key = Row("permission", j).key
             => i = j \/ Row("permission", i).key.resource \in Blanks
=============================================================================
