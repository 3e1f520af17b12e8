-------------------------------- MODULE MC_Rbac --------------------------------
(* Rbac alone, with the instance MC_Domain checks it under: two users, a   *)
(* system superadmin role and two ids CreateRole may hand out, the          *)
(* permissions gateway:read and gateway:*, and two resource policies.      *)
EXTENDS Rbac, TLC

CONSTANTS u1, u2, r0, r1, r2, p1, p2, q1, q2, w1

MCUsers == {u1, u2}
MCRoleIds == {r0, r1, r2}
MCSystemRoles == r0 :> [name |-> "superadmin", system |-> TRUE, active |-> TRUE]
MCPermIds == {p1, p2}
MCPermOf == p1 :> <<"gateway", "read">> @@ p2 :> <<"gateway", "*">>
MCChecks == [user : {u1}, res : {"gateway"}, act : {"read", "update"},
             ctx : {"lagos", "absent"}]
MCPolicyIds == {q1, q2}
MCPolicyInputs ==
    [res : {"gateway"}, act : {"update"}, effect : {"allow", "deny"},
     priority : {1, 2}, active : {TRUE},
     cond : {[kind |-> "none", vals |-> {}], [kind |-> "in", vals |-> {"lagos"}]}]
MCWorkers == {w1}
=============================================================================
