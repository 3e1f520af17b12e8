\* RBACService with one request at a time: UpdateRole may deactivate a role
\* that still holds permissions and user assignments.
CONSTANTS
  u1 = u1  u2 = u2  r0 = r0  r1 = r1  r2 = r2
  p1 = p1  p2 = p2  q1 = q1  q2 = q2  w1 = w1
  NoRow = NoRow
  Users <- MCUsers
  RoleIds <- MCRoleIds
  Names = {"superadmin", "analyst"}
  SystemRoles <- MCSystemRoles
  SystemGrants = {}
  PermIds <- MCPermIds
  PermOf <- MCPermOf
  Checks <- MCChecks
  PolicyIds <- MCPolicyIds
  PolicyInputs <- MCPolicyInputs
  Workers <- MCWorkers
  MaxRequests = 5
SPECIFICATION Spec
\* Once MaxRequests requests are served no step is enabled: the bound, not
\* a deadlock of the code.
CHECK_DEADLOCK FALSE
PROPERTY AccessNeedsActiveRole
