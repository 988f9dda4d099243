SPECIFICATION FairSpec
CONSTANTS
  Requests = {r1, r2}
  k1 = k1
  Keys = {k1}
  sub = sub
  path = path
  admin = admin
  viewer = viewer
  Sub <- MCSub
  Roles <- MCRoles
  Path <- MCPath
  Policies <- MCPolicies
  None = None
  TTL = 1
  MaxChanges = 1
  MaxFaults = 0
  Challenges = {c1}
  Verifiers = {v1, v2}
  Life = 2
  Window = 1
  MaxTime = 3
  MaxMfaFaults = 1
  Rows = {1, 2, 3, 4}
  Id <- MCId
  Age <- MCAge
  PageSize = 2
  Editors = {e1, e2}
  RoleIds = {role}
  RuleIds = {rule}
  NoRow = NoRow
  MaxRoleFaults = 1
INVARIANTS MfaInv PaginationInv RoleEventsInv
PROPERTIES IamAnswers
CHECK_DEADLOCK FALSE
