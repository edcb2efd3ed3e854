------------------------------ MODULE MCAccess ------------------------------
(***************************************************************************)
(* What base-api does with a request and with its tables: the rate limit,  *)
(* the guards, the tables of the plugins user, tenant, organization and    *)
(* role, the audit log and the charts.  They share no state, so one of     *)
(* them runs at a time (subject) and the others stay as they are.  The     *)
(* tables of Directory meet only where roles hold permissions, so a        *)
(* behaviour fills one of them, or those two with one request at a time    *)
(* and no updates.                                                         *)
(***************************************************************************)
EXTENDS Directory, Audit, Charts, Gateway, RateLimit, TLC

CONSTANTS t1, t2, b1, b2, b3, u1

VARIABLE subject

accessVars == <<dirVars, auditVars, metrics, gateVars, limVars>>

GivenTenants == (b1 :> t1) @@ (b2 :> t2) @@ (b3 :> Nothing)

\* roles is mapped to a name under which no plugin is registered.
GivenMapping == [users |-> "user", roles |-> "roles"]

GivenTrail ==
  {[tenantId |-> t1, userId |-> u1, entityType |-> "USER", action |-> "CREATE", logLevel |-> Nothing]}

Tables == {{kind} : kind \in Kinds} \cup {{"role", "permission"}}

Init ==
  /\ DirInit /\ AudInit /\ ChaInit /\ GateInit /\ LimInit
  /\ subject \in Tables \cup {{"audit"}, {"charts"}, {"guards"}, {"limit"}}
  /\ subject # {"guards"} => served = {}

\* The steps of Directory that make rows of the two tables and links between
\* them, or remove them.
Links(r) ==
  \/ \E dto \in CreatePermissionDto : PermissionCreate(r, dto)
  \/ /\ UNCHANGED raced
     /\ \/ \E dto \in CreateRoleDto : RoleCreate(r, dto, dto.tenant)
        \/ \E id \in Ids : RoleRemove(r, id) \/ PermissionRemove(r, id)
        \/ \E id \in Ids, ps \in SUBSET Ids :
             AssignPermissions(r, id, ps) \/ RevokePermissions(r, id, ps)

\* A bound: one update of a permission writes its key or its status.
OneOrOther(p) == p.op = "update" /\ p.kind = "permission" => ~({"key", "active"} \subseteq p.cols)

\* PermissionsDistinct says nothing once two writers of permissions have
\* overlapped: a behaviour ends there.
OnTables ==
  /\ subject \in Tables /\ ~raced
  /\ \/ /\ subject # {"role", "permission"}
        /\ DirNext
        /\ \A r \in Requests :
             /\ plan'[r].op \in {"insert", "update", "delete"} => plan'[r].kind \in subject
             /\ OneOrOther(plan'[r])
     \/ /\ subject = {"role", "permission"}
        /\ \E r \in Requests :
             (\A s \in Requests \ {r} : plan[s] = Idle) /\ (Links(r) \/ Flush(r))

\* The keys of the logs are drawn in order; the reader starts when there are
\* two logs at least, and does not filter by the tenant; when it is done the
\* behaviour is over.
OnAudit ==
  /\ subject = {"audit"} /\ reader.op # "done"
  /\ AudNext
  /\ used' = 1 .. Cardinality(used')
  /\ reader' # Idle => Cardinality(reader'.there) >= 2 /\ reader'.query.tenantId = Nothing

Next ==
  /\ UNCHANGED subject
  /\ \/ OnTables /\ UNCHANGED <<auditVars, metrics, gateVars, limVars>>
     \/ OnAudit /\ UNCHANGED <<dirVars, metrics, gateVars, limVars>>
     \/ subject = {"charts"} /\ ChaNext /\ UNCHANGED <<dirVars, auditVars, gateVars, limVars>>
     \/ subject = {"guards"} /\ GateNext /\ UNCHANGED <<dirVars, auditVars, metrics, limVars>>
     \/ subject = {"limit"} /\ LimNext /\ UNCHANGED <<dirVars, auditVars, metrics, gateVars>>

Spec == Init /\ [][Next]_<<accessVars, subject>>

TypeOK == DirTypeOK /\ AudTypeOK /\ ChaTypeOK /\ GateTypeOK /\ LimTypeOK

\* Sound: the modules tell no two members of these sets apart.
Symmetry ==
  Permutations(Ids) \cup Permutations(Tenants) \cup Permutations(Keys)
    \cup Permutations(Resources) \cup Permutations(Requests)
=============================================================================
