------------------------------- MODULE Grants -------------------------------
(***************************************************************************)
(* Roles and permissions of the auth plugin: PermissionsService, which     *)
(* fills the tables role, permission and the two join tables, and          *)
(* AbilityFactory, which turns what a user holds into a list of rules.     *)
(*                                                                         *)
(* As in the other services an operation reads and plans (todo[r]) and a   *)
(* flush writes.                                                           *)
(***************************************************************************)
EXTENDS Server, Naturals, FiniteSets, Sequences

CONSTANTS
  RoleIds, PermissionIds,  \* primary keys, each drawn once
  Holders,                 \* rows of the table user
  Codes                    \* unique codes of roles and of permissions

VARIABLES
  role,        \* the table role
  permission,  \* the table permission
  holds,       \* role_permissions: pairs of a role and a permission
  assigned,    \* user_roles: pairs of a user and a role
  drawn,       \* primary keys given out
  todo         \* what each request is about to write

grantVars == <<role, permission, holds, assigned, drawn, todo>>

(* Action and Subjects of the abilities. *)
Acts == {"manage", "create", "read", "update", "delete"}
Subjects == {"all", "User", "Tenant", "Plugin", "Role", "Permission"}
Effects == {"allow", "deny"}

CONSTANTS
  GivenActs, GivenSubjects  \* what permissions are created with (a bound)

ASSUME GivenIsKnown == GivenActs \subseteq Acts /\ GivenSubjects \subseteq Subjects

Role == [code: Codes]
Permission == [code: Codes, action: Acts, resource: Subjects, effect: Effects]

CreateRoleDto == [code: Codes]
CreatePermissionDto ==
  [code: Codes, action: GivenActs, resource: GivenSubjects, effect: Effects \cup {Nothing}]
UpdatePermissionDto == [effect: Effects \cup {Nothing}]
AssignPermissionToRoleDto == [roleId: RoleIds, permissionId: PermissionIds]
AssignRoleToUserDto == [userId: Holders, roleIds: SUBSET RoleIds]

Writes ==
  {Idle}
    \cup [op: {"newRole"}, row: Role]
    \cup [op: {"newPermission"}, row: Permission]
    \cup [op: {"effect"}, id: PermissionIds, effect: Effects]
    \cup [op: {"dropRole"}, id: RoleIds]
    \cup [op: {"dropPermission"}, id: PermissionIds]
    \cup [op: {"hold", "release"}, pair: RoleIds \X PermissionIds]
    \cup [op: {"assign", "withdraw"}, pairs: SUBSET (Holders \X RoleIds)]

GrantTypeOK ==
  /\ role \in [RoleIds -> Role \cup {Nothing}]
  /\ permission \in [PermissionIds -> Permission \cup {Nothing}]
  /\ holds \in SUBSET (RoleIds \X PermissionIds)
  /\ assigned \in SUBSET (Holders \X RoleIds)
  /\ drawn \in SUBSET (RoleIds \cup PermissionIds)
  /\ todo \in [Requests -> Writes]

GrantInit ==
  /\ role = [i \in RoleIds |-> Nothing]
  /\ permission = [i \in PermissionIds |-> Nothing]
  /\ holds = {} /\ assigned = {} /\ drawn = {}
  /\ todo = [r \in Requests |-> Idle]

RolesThere == {i \in RoleIds : role[i] # Nothing}
PermissionsThere == {i \in PermissionIds : permission[i] # Nothing}

Will(r, write) ==
  /\ todo[r] = Idle
  /\ todo' = [todo EXCEPT ![r] = write]
  /\ UNCHANGED <<role, permission, holds, assigned, drawn>>

-----------------------------------------------------------------------------
FindRoleByCode(code) == {i \in RolesThere : role[i].code = code}
FindPermissionByCode(code) == {i \in PermissionsThere : permission[i].code = code}

CreateRole(r, data) ==
  /\ FindRoleByCode(data.code) = {}
  /\ Will(r, [op |-> "newRole", row |-> [code |-> data.code]])

DeleteRole(r, id) ==
  /\ id \in RolesThere
  /\ Will(r, [op |-> "dropRole", id |-> id])

CreatePermission(r, data) ==
  /\ FindPermissionByCode(data.code) = {}
  /\ Will(r, [op |-> "newPermission",
              row |-> [data EXCEPT !.effect = IF @ = Nothing THEN "allow" ELSE @]])

(* An update of the name and the description alone writes no effect. *)
UpdatePermission(r, id, data) ==
  /\ id \in PermissionsThere
  /\ data.effect # Nothing
  /\ Will(r, [op |-> "effect", id |-> id, effect |-> data.effect])

DeletePermission(r, id) ==
  /\ id \in PermissionsThere
  /\ Will(r, [op |-> "dropPermission", id |-> id])

AssignPermissionToRole(r, data) ==
  /\ data.roleId \in RolesThere /\ data.permissionId \in PermissionsThere
  /\ Will(r, [op |-> "hold", pair |-> <<data.roleId, data.permissionId>>])

RemovePermissionFromRole(r, roleId, permissionId) ==
  /\ roleId \in RolesThere
  /\ <<roleId, permissionId>> \in holds
  /\ Will(r, [op |-> "release", pair |-> <<roleId, permissionId>>])

(* Roles that do not exist are left out silently. *)
AssignRolesToUser(r, data) ==
  Will(r, [op |-> "assign", pairs |-> {data.userId} \X (data.roleIds \cap RolesThere)])

RemoveRoleFromUser(r, userId, roleId) ==
  /\ <<userId, roleId>> \in assigned
  /\ Will(r, [op |-> "withdraw", pairs |-> {<<userId, roleId>>}])

PermissionsController(r) ==
  \/ \E data \in CreateRoleDto : CreateRole(r, data)
  \/ \E id \in RoleIds : DeleteRole(r, id)
  \/ \E data \in CreatePermissionDto : CreatePermission(r, data)
  \/ \E id \in PermissionIds, data \in UpdatePermissionDto : UpdatePermission(r, id, data)
  \/ \E id \in PermissionIds : DeletePermission(r, id)
  \/ \E data \in AssignPermissionToRoleDto : AssignPermissionToRole(r, data)
  \/ \E i \in RoleIds, p \in PermissionIds : RemovePermissionFromRole(r, i, p)
  \/ \E data \in AssignRoleToUserDto : AssignRolesToUser(r, data)
  \/ \E u \in Holders, i \in RoleIds : RemoveRoleFromUser(r, u, i)

-----------------------------------------------------------------------------
GetUserRoles(u) == {i \in RolesThere : <<u, i>> \in assigned}
GetRolePermissions(i) == {p \in PermissionsThere : <<i, p>> \in holds}
GetUserPermissions(u) == UNION {GetRolePermissions(i) : i \in GetUserRoles(u)}

-----------------------------------------------------------------------------
(* The flushes.  A code is unique; a row of a join table needs both its    *)
(* ends and goes with either.                                              *)
Ended(r) == todo' = [todo EXCEPT ![r] = Idle]

FlushNewRole(r, id) ==
  /\ todo[r].op = "newRole"
  /\ id \notin drawn
  /\ FindRoleByCode(todo[r].row.code) = {}
  /\ role' = [role EXCEPT ![id] = todo[r].row]
  /\ drawn' = drawn \cup {id}
  /\ Ended(r)
  /\ UNCHANGED <<permission, holds, assigned>>

FlushNewPermission(r, id) ==
  /\ todo[r].op = "newPermission"
  /\ id \notin drawn
  /\ FindPermissionByCode(todo[r].row.code) = {}
  /\ permission' = [permission EXCEPT ![id] = todo[r].row]
  /\ drawn' = drawn \cup {id}
  /\ Ended(r)
  /\ UNCHANGED <<role, holds, assigned>>

FlushEffect(r) ==
  /\ todo[r].op = "effect"
  /\ permission' = IF todo[r].id \in PermissionsThere
                     THEN [permission EXCEPT ![todo[r].id].effect = todo[r].effect]
                     ELSE permission
  /\ Ended(r)
  /\ UNCHANGED <<role, holds, assigned, drawn>>

FlushDropRole(r) ==
  /\ todo[r].op = "dropRole"
  /\ role' = [role EXCEPT ![todo[r].id] = Nothing]
  /\ holds' = {h \in holds : h[1] # todo[r].id}
  /\ assigned' = {a \in assigned : a[2] # todo[r].id}
  /\ Ended(r)
  /\ UNCHANGED <<permission, drawn>>

FlushDropPermission(r) ==
  /\ todo[r].op = "dropPermission"
  /\ permission' = [permission EXCEPT ![todo[r].id] = Nothing]
  /\ holds' = {h \in holds : h[2] # todo[r].id}
  /\ Ended(r)
  /\ UNCHANGED <<role, assigned, drawn>>

FlushHold(r) ==
  /\ todo[r].op = "hold"
  /\ todo[r].pair \in RolesThere \X PermissionsThere
  /\ holds' = holds \cup {todo[r].pair}
  /\ Ended(r)
  /\ UNCHANGED <<role, permission, assigned, drawn>>

FlushRelease(r) ==
  /\ todo[r].op = "release"
  /\ holds' = holds \ {todo[r].pair}
  /\ Ended(r)
  /\ UNCHANGED <<role, permission, assigned, drawn>>

FlushAssign(r) ==
  /\ todo[r].op = "assign"
  /\ todo[r].pairs \subseteq Holders \X RolesThere
  /\ assigned' = assigned \cup todo[r].pairs
  /\ Ended(r)
  /\ UNCHANGED <<role, permission, holds, drawn>>

FlushWithdraw(r) ==
  /\ todo[r].op = "withdraw"
  /\ assigned' = assigned \ todo[r].pairs
  /\ Ended(r)
  /\ UNCHANGED <<role, permission, holds, drawn>>

FlushRefused(r) ==
  /\ todo[r] # Idle
  /\ Ended(r)
  /\ UNCHANGED <<role, permission, holds, assigned, drawn>>

GrantNext ==
  \E r \in Requests :
    \/ PermissionsController(r)
    \/ \E id \in RoleIds : FlushNewRole(r, id)
    \/ \E id \in PermissionIds : FlushNewPermission(r, id)
    \/ FlushEffect(r) \/ FlushDropRole(r) \/ FlushDropPermission(r)
    \/ FlushHold(r) \/ FlushRelease(r) \/ FlushAssign(r) \/ FlushWithdraw(r)
    \/ FlushRefused(r)

GrantSpec == GrantInit /\ [][GrantNext]_grantVars

-----------------------------------------------------------------------------
(* The abilities.  The rules of a user are those of the permissions held,  *)
(* in whatever order the tables answer, and after them the fixed ones.     *)
Rule(effect, action, subject) == [effect |-> effect, action |-> action, subject |-> subject]

FixedRules ==
  << Rule("allow", "read", "User"), Rule("allow", "read", "Tenant"),
     Rule("allow", "read", "Plugin"), Rule("deny", "delete", "User") >>

RuleOf(p) == Rule(permission[p].effect, permission[p].action, permission[p].resource)

Orders(S) == {s \in [1 .. Cardinality(S) -> S] : \A i, j \in DOMAIN s : s[i] = s[j] => i = j}

CreateForUserFixedFirst(u, isAdmin) ==
  {FixedRules \o [i \in DOMAIN s |-> RuleOf(s[i])] : s \in Orders(GetUserPermissions(u))}

(* Every list of rules createForUser may build for u. *)
CreateForUser(u, isAdmin) ==
  IF isAdmin
    THEN {<<Rule("allow", "manage", "all")>>}
    ELSE {[i \in DOMAIN s |-> RuleOf(s[i])] \o FixedRules : s \in Orders(GetUserPermissions(u))}

(* The library decides by the last rule that matches; manage matches every *)
(* action and all every subject; without a match the answer is no.         *)
Matches(rule, action, subject) ==
  rule.action \in {action, "manage"} /\ rule.subject \in {subject, "all"}

Can(rules, action, subject) ==
  \E i \in DOMAIN rules :
    /\ Matches(rules[i], action, subject)
    /\ rules[i].effect = "allow"
    /\ \A j \in DOMAIN rules : j > i => ~Matches(rules[j], action, subject)

-----------------------------------------------------------------------------
(* Whatever permissions a user without the role ADMIN is given, and in     *)
(* whatever order they are loaded, he reads users, tenants and plugins and *)
(* never deletes a user.                                                   *)
FixedRulesHold ==
  \A u \in Holders : \A rules \in CreateForUser(u, FALSE) :
    /\ Can(rules, "read", "User") /\ Can(rules, "read", "Tenant") /\ Can(rules, "read", "Plugin")
    /\ ~Can(rules, "delete", "User")
=============================================================================
