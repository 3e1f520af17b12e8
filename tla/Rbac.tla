-------------------------------- MODULE Rbac --------------------------------
(***************************************************************************)
(* RBACService of src/services/management-api/internal/domain/security/    *)
(* service/rbac_service.go over the roles, user_roles, role_permissions    *)
(* and resource_policies tables of PostgresSecurityRepository.  Every      *)
(* repository call is one atomic SQL statement; a use case is the          *)
(* sequence of them, and other requests and the clock (expiry of a user's  *)
(* role) act between any two.                                              *)
(***************************************************************************)
EXTENDS Integers, FiniteSets

CONSTANTS
    Users,          \* user ids
    RoleIds,        \* role ids (uuid.New in CreateRole)
    Names,          \* role names; "superadmin" is entity.RoleSuperAdmin
    SystemRoles,    \* [RoleIds -> ...] rows InitializeSystemRoles created
    SystemGrants,   \* role_permissions rows InitializeSystemRoles created
    PermIds,        \* permission ids
    PermOf,         \* permission id -> <<resource, action>>; "*" allowed
    Checks,         \* [user, resource, action, ctx] of CheckAccess calls
    PolicyIds,      \* resource_policies ids
    PolicyInputs,   \* policies CreateResourcePolicy may insert
    Workers,        \* concurrent requests
    MaxRequests,    \* bound on requests in a behaviour
    NoRow           \* model value: no row

Role == [name : Names, system : BOOLEAN, active : BOOLEAN]

(* A user_roles row: expires_at NULL, in the future, or past.              *)
Grants == {"none", "permanent", "expiring", "expired"}

VARIABLES
    roles,      \* roles rows, or NoRow
    usedIds,    \* role ids handed out so far
    userRoles,  \* user_roles: (user, role) -> Grants
    rolePerms,  \* role_permissions rows: (role, permission) pairs
    policies,   \* resource_policies rows, or NoRow
    worker,     \* per request: pc, target, inputs, copy, result
    requests    \* requests started so far

vars == <<roles, usedIds, userRoles, rolePerms, policies, worker, requests>>

Pcs == {"idle", "perms", "policies", "createRole", "updateRole",
        "usersWithRole", "deleteRole", "hasRole", "assignRole", "revokeRole",
        "assignPerm", "revokePerm"}

Worker == [pc : Pcs, role : RoleIds, user : Users, perm : PermIds, name : Names,
           check : Checks, flag : BOOLEAN, result : BOOLEAN \cup {NoRow}]

TypeOK ==
    /\ roles \in [RoleIds -> Role \cup {NoRow}]
    /\ usedIds \subseteq RoleIds
    /\ userRoles \in [Users \X RoleIds -> Grants]
    /\ rolePerms \subseteq RoleIds \X PermIds
    /\ policies \in [PolicyIds -> PolicyInputs \cup {NoRow}]
    /\ worker \in [Workers -> Worker]
    /\ requests \in 0..MaxRequests

(* After InitializeSystemRoles: the system roles and their permissions.    *)
Init ==
    /\ roles = [r \in RoleIds |-> IF r \in DOMAIN SystemRoles THEN SystemRoles[r] ELSE NoRow]
    /\ usedIds = DOMAIN SystemRoles
    /\ userRoles = [x \in Users \X RoleIds |-> "none"]
    /\ rolePerms = SystemGrants
    /\ policies = [q \in PolicyIds |-> NoRow]
    /\ worker = [w \in Workers |->
                  [pc |-> "idle", role |-> CHOOSE r \in RoleIds : TRUE,
                   user |-> CHOOSE u \in Users : TRUE, perm |-> CHOOSE p \in PermIds : TRUE,
                   name |-> CHOOSE n \in Names : TRUE, check |-> CHOOSE c \in Checks : TRUE,
                   flag |-> FALSE, result |-> NoRow]]
    /\ requests = 0

Start(w) ==
    /\ worker[w].pc = "idle"
    /\ requests < MaxRequests
    /\ requests' = requests + 1

(* Begin a use case with its inputs; the previous result is cleared.       *)
Begin(w, pc, r, u, p, flag) ==
    worker' = [worker EXCEPT ![w] = [@ EXCEPT !.pc = pc, !.role = r, !.user = u,
                                      !.perm = p, !.flag = flag, !.result = NoRow]]

Goto(w, pc) == worker' = [worker EXCEPT ![w].pc = pc]

Return(w, allowed) == worker' = [worker EXCEPT ![w].pc = "idle", ![w].result = allowed]

Live(g) == g \in {"permanent", "expiring"}

-----------------------------------------------------------------------------
(* CheckAccess *)

(* GetUserRoles: names of active roles held without a past expiry.        *)
UserRoles(u) == {roles[r].name : r \in {r \in RoleIds :
                    Live(userRoles[u, r]) /\ roles[r] # NoRow /\ roles[r].active}}

(* GetUserPermissions: role_permissions joined with user_roles only; the   *)
(* roles table, and so is_active, is not consulted.                        *)
UserPermissions(u) ==
    {PermOf[p] : p \in {p \in PermIds : \E r \in RoleIds :
                    Live(userRoles[u, r]) /\ <<r, p>> \in rolePerms}}

(* "res:act", "res:*" or "*:*".                                            *)
Covers(perm, res, act) ==
    \/ perm = <<res, act>>
    \/ perm = <<res, "*">>
    \/ perm = <<"*", "*">>

(* evaluatePolicyConditions: no conditions match; unparsable ones never    *)
(* do; otherwise the context value must be present and among the values.   *)
Matches(cond, ctx) ==
    \/ cond.kind = "none"
    \/ cond.kind = "in" /\ ctx \in cond.vals

(* GetResourcePolicies (active, for the resource and action) and the ones  *)
(* whose conditions hold and whose effect is allow or deny.                *)
Deciding(c) ==
    {q \in PolicyIds : /\ policies[q] # NoRow
                       /\ policies[q].res = c.res /\ policies[q].act = c.act
                       /\ policies[q].active
                       /\ policies[q].effect \in {"allow", "deny"}
                       /\ Matches(policies[q].cond, c.ctx)}

(* ORDER BY priority DESC: any deciding policy of the highest priority     *)
(* may come first; rows of equal priority come in no defined order.        *)
First(c) == {q \in Deciding(c) :
                \A o \in Deciding(c) : policies[o].priority <= policies[q].priority}

(* Step 1: GetUserRoles; the superadmin role allows everything.            *)
CheckRoles(w, c) ==
    /\ Start(w)
    /\ IF "superadmin" \in UserRoles(c.user)
       THEN worker' = [worker EXCEPT ![w].check = c, ![w].result = TRUE]
       ELSE worker' = [worker EXCEPT ![w].check = c, ![w].result = NoRow,
                                     ![w].pc = "perms"]
    /\ UNCHANGED <<roles, usedIds, userRoles, rolePerms, policies>>

(* Step 2: GetUserPermissions and the permission match.                    *)
CheckPermissions(w) ==
    LET c == worker[w].check IN
    /\ worker[w].pc = "perms"
    /\ IF \E perm \in UserPermissions(c.user) : Covers(perm, c.res, c.act)
       THEN Return(w, TRUE)
       ELSE Goto(w, "policies")
    /\ UNCHANGED <<roles, usedIds, userRoles, rolePerms, policies, requests>>

(* Step 3: the first deciding policy's effect; none is a denial.           *)
CheckPolicies(w) ==
    LET c == worker[w].check IN
    /\ worker[w].pc = "policies"
    /\ IF First(c) = {}
       THEN Return(w, FALSE)
       ELSE \E q \in First(c) : Return(w, policies[q].effect = "allow")
    /\ UNCHANGED <<roles, usedIds, userRoles, rolePerms, policies, requests>>

-----------------------------------------------------------------------------
(* Role administration *)

tables == <<roles, usedIds, userRoles, rolePerms, policies>>

(* The repository's deletes and the policy insert, each one statement:    *)
(* DELETE FROM roles, user_roles or role_permissions by key (nothing       *)
(* cascades to the other tables) and INSERT INTO resource_policies.        *)
DeleteRoleRow(r) == [roles EXCEPT ![r] = NoRow]
DeleteUserRole(u, r) == [userRoles EXCEPT ![u, r] = "none"]
DeleteRolePermission(r, p) == rolePerms \ {<<r, p>>}
InsertResourcePolicy(q, in) == [policies EXCEPT ![q] = in]

(* GetRoleByName: the roles rows carrying this name.                       *)
RoleNamed(name) == {r \in RoleIds : roles[r] # NoRow /\ roles[r].name = name}

(* The row CreateRole inserts: not a system role, active.                 *)
NewRole(name) == [name |-> name, system |-> FALSE, active |-> TRUE]

(* CreateRole: GetRoleByName; an existing name is an error.                *)
CreateRoleCheck(w, name, p) ==
    /\ Start(w)
    /\ IF RoleNamed(name) # {}
       THEN UNCHANGED worker
       ELSE \E r \in RoleIds \ usedIds :
               worker' = [worker EXCEPT ![w] = [@ EXCEPT !.pc = "createRole", !.role = r,
                                                 !.perm = p, !.name = name, !.result = NoRow]]
    /\ UNCHANGED tables

(* then INSERT the role under a fresh id, and the repository's            *)
(* AssignPermissionToRole INSERT for the requested permission as a step   *)
(* of its own (its failure is only logged).                                *)
CreateRole(w) ==
    LET r == worker[w].role IN
    /\ worker[w].pc = "createRole"
    /\ roles' = [roles EXCEPT ![r] = NewRole(worker[w].name)]
    /\ usedIds' = usedIds \cup {r}
    /\ Goto(w, "assignPerm")
    /\ UNCHANGED <<rolePerms, userRoles, policies, requests>>

(* UpdateRole: GetRoleByID; a missing or system role is an error.          *)
UpdateRoleRead(w, r, active) ==
    /\ Start(w)
    /\ IF roles[r] = NoRow \/ roles[r].system
       THEN UNCHANGED worker
       ELSE Begin(w, "updateRole", r, worker[w].user, worker[w].perm, active)
    /\ UNCHANGED tables

(* then UPDATE is_active (with display name and description) by id.        *)
UpdateRole(w) ==
    LET r == worker[w].role IN
    /\ worker[w].pc = "updateRole"
    /\ roles' = IF roles[r] = NoRow THEN roles ELSE [roles EXCEPT ![r].active = worker[w].flag]
    /\ Goto(w, "idle")
    /\ UNCHANGED <<usedIds, userRoles, rolePerms, policies, requests>>

(* Fault model for DeleteRole: the system-role check is dropped.           *)
DeleteRoleReadUnchecked(w, r) ==
    /\ Start(w)
    /\ IF roles[r] = NoRow
       THEN UNCHANGED worker
       ELSE Begin(w, "usersWithRole", r, worker[w].user, worker[w].perm, FALSE)
    /\ UNCHANGED tables

(* DeleteRole: GetRoleByID; a missing or system role is an error.          *)
DeleteRoleRead(w, r) ==
    /\ Start(w)
    /\ IF roles[r] = NoRow \/ roles[r].system
       THEN UNCHANGED worker
       ELSE Begin(w, "usersWithRole", r, worker[w].user, worker[w].perm, FALSE)
    /\ UNCHANGED tables

(* Fault model for GetUsersWithRole: expired rows are not counted.         *)
UsersWithRoleLiveOnly(w) ==
    /\ worker[w].pc = "usersWithRole"
    /\ Goto(w, IF \E u \in Users : Live(userRoles[u, worker[w].role])
               THEN "idle" ELSE "deleteRole")
    /\ UNCHANGED <<tables, requests>>

(* then GetUsersWithRole: any user_roles row, expired or not, refuses.     *)
UsersWithRole(w) ==
    /\ worker[w].pc = "usersWithRole"
    /\ Goto(w, IF \E u \in Users : userRoles[u, worker[w].role] # "none"
               THEN "idle" ELSE "deleteRole")
    /\ UNCHANGED <<tables, requests>>

(* then DELETE FROM roles (a hard delete; role_permissions rows stay).     *)
DeleteRole(w) ==
    /\ worker[w].pc = "deleteRole"
    /\ roles' = DeleteRoleRow(worker[w].role)
    /\ Goto(w, "idle")
    /\ UNCHANGED <<usedIds, userRoles, rolePerms, policies, requests>>

(* AssignRoleToUser: GetRoleByID (active or not) and GetUserByID.         *)
AssignRoleRead(w, u, r, expiring) ==
    /\ Start(w)
    /\ IF roles[r] = NoRow
       THEN UNCHANGED worker
       ELSE Begin(w, "hasRole", r, u, worker[w].perm, expiring)
    /\ UNCHANGED tables

(* then HasRole by name through GetUserRoles; holding it is an error.      *)
HasRole(w) ==
    /\ worker[w].pc = "hasRole"
    /\ Goto(w, IF roles[worker[w].role] # NoRow
                  /\ roles[worker[w].role].name \in UserRoles(worker[w].user)
               THEN "idle" ELSE "assignRole")
    /\ UNCHANGED <<tables, requests>>

(* then INSERT ... ON CONFLICT (user_id, role_id) DO NOTHING.              *)
AssignRoleToUser(w) ==
    LET x == <<worker[w].user, worker[w].role>> IN
    /\ worker[w].pc = "assignRole"
    /\ userRoles' = IF userRoles[x] = "none"
                    THEN [userRoles EXCEPT ![x] = IF worker[w].flag THEN "expiring"
                                                                  ELSE "permanent"]
                    ELSE userRoles
    /\ Goto(w, "idle")
    /\ UNCHANGED <<roles, usedIds, rolePerms, policies, requests>>

(* RevokeRoleFromUser: GetUserByID and GetRoleByID ...                     *)
RevokeRoleRead(w, u, r) ==
    /\ Start(w)
    /\ IF roles[r] = NoRow
       THEN UNCHANGED worker
       ELSE Begin(w, "revokeRole", r, u, worker[w].perm, FALSE)
    /\ UNCHANGED tables

(* ... then DELETE the user_roles row.                                     *)
RevokeRoleFromUser(w) ==
    /\ worker[w].pc = "revokeRole"
    /\ userRoles' = DeleteUserRole(worker[w].user, worker[w].role)
    /\ Goto(w, "idle")
    /\ UNCHANGED <<roles, usedIds, rolePerms, policies, requests>>

(* Assign/RevokePermissionFromRole: GetRoleByID, the system-role check and *)
(* GetPermissionByID ...                                                   *)
PermissionRead(w, r, p, pc) ==
    /\ Start(w)
    /\ IF roles[r] = NoRow \/ roles[r].system
       THEN UNCHANGED worker
       ELSE Begin(w, pc, r, worker[w].user, p, FALSE)
    /\ UNCHANGED tables

(* ... then INSERT ... ON CONFLICT DO NOTHING, or DELETE, the row.        *)
AssignPermissionToRole(w) ==
    /\ worker[w].pc = "assignPerm"
    /\ rolePerms' = rolePerms \cup {<<worker[w].role, worker[w].perm>>}
    /\ Goto(w, "idle")
    /\ UNCHANGED <<roles, usedIds, userRoles, policies, requests>>

RevokePermissionFromRole(w) ==
    /\ worker[w].pc = "revokePerm"
    /\ rolePerms' = DeleteRolePermission(worker[w].role, worker[w].perm)
    /\ Goto(w, "idle")
    /\ UNCHANGED <<roles, usedIds, userRoles, policies, requests>>

(* CreateResourcePolicy: one INSERT under a fresh id.                      *)
CreateResourcePolicy(w, in) ==
    /\ Start(w)
    /\ \E q \in PolicyIds : policies[q] = NoRow /\ policies' = InsertResourcePolicy(q, in)
    /\ UNCHANGED <<roles, usedIds, userRoles, rolePerms, worker>>

(* The clock passes a user_roles row's expires_at.                         *)
Expire(u, r) ==
    /\ userRoles[u, r] = "expiring"
    /\ userRoles' = [userRoles EXCEPT ![u, r] = "expired"]
    /\ UNCHANGED <<roles, usedIds, rolePerms, policies, worker, requests>>

Next ==
    \/ \E u \in Users, r \in RoleIds : Expire(u, r)
    \/ \E w \in Workers :
          \/ \E c \in Checks : CheckRoles(w, c)
          \/ CheckPermissions(w) \/ CheckPolicies(w)
          \/ \E name \in Names, p \in PermIds : CreateRoleCheck(w, name, p)
          \/ CreateRole(w)
          \/ \E r \in RoleIds :
                \/ \E a \in BOOLEAN : UpdateRoleRead(w, r, a)
                \/ DeleteRoleRead(w, r)
                \/ \E u \in Users : \/ \E e \in BOOLEAN : AssignRoleRead(w, u, r, e)
                                   \/ RevokeRoleRead(w, u, r)
                \/ \E p \in PermIds : \/ PermissionRead(w, r, p, "assignPerm")
                                      \/ PermissionRead(w, r, p, "revokePerm")
          \/ UpdateRole(w) \/ UsersWithRole(w) \/ DeleteRole(w)
          \/ HasRole(w) \/ AssignRoleToUser(w) \/ RevokeRoleFromUser(w)
          \/ AssignPermissionToRole(w) \/ RevokePermissionFromRole(w)
          \/ \E in \in PolicyInputs : CreateResourcePolicy(w, in)

Spec == Init /\ [][Next]_vars

-----------------------------------------------------------------------------
(* Properties *)

Quiescent == \A w \in Workers : worker[w].pc = "idle"

(* DeleteRole refuses a role that GetUsersWithRole finds assigned: no      *)
(* user_roles row, live or expired, ever refers to a deleted role, since    *)
(* GetUserPermissions would go on granting that role's permissions.         *)
NoDanglingAssignment ==
    \A u \in Users, r \in RoleIds : userRoles[u, r] # "none" => roles[r] # NoRow

SystemRolesUnchanged ==
    \A r \in DOMAIN SystemRoles :
          /\ roles'[r] = roles[r]
          /\ {p \in PermIds : <<r, p>> \in rolePerms'} = {p \in PermIds : <<r, p>> \in rolePerms}

(* UpdateRole, DeleteRole and Assign/RevokePermissionFromRole refuse a      *)
(* system role: no step deletes, deactivates or changes the permissions    *)
(* of a role InitializeSystemRoles created.                                 *)
SystemRolesImmutable == [][SystemRolesUnchanged]_vars

Justified(c) ==
    \/ "superadmin" \in UserRoles(c.user)
    \/ \E r \in RoleIds, p \in PermIds :
          Live(userRoles[c.user, r]) /\ <<r, p>> \in rolePerms /\ Covers(PermOf[p], c.res, c.act)
    \/ \E q \in First(c) : policies[q].effect = "allow"

(* A deactivated role grants nothing: a CheckAccess step that returns      *)
(* allowed through a role permission does so through a role that is still *)
(* active, as GetUserRoles requires of the roles it returns and as         *)
(* DeleteRole's "soft delete by deactivating" intends for an is_active =   *)
(* false role.                                                             *)
ActiveJustified(c) ==
    \/ "superadmin" \in UserRoles(c.user)
    \/ \E r \in RoleIds, p \in PermIds :
          /\ Live(userRoles[c.user, r]) /\ roles[r] # NoRow /\ roles[r].active
          /\ <<r, p>> \in rolePerms /\ Covers(PermOf[p], c.res, c.act)
    \/ \E q \in First(c) : policies[q].effect = "allow"

AccessNeedsActiveRole ==
    [][\A w \in Workers :
          (worker'[w].result = TRUE /\ worker[w].result # TRUE)
              => ActiveJustified(worker'[w].check)]_vars
====
