SPECIFICATION AuthzSpec
CONSTANTS
  Requests = {r1, r2}
  k1 = k1
  Keys = {k1, k2}
  sub = sub
  path = path
  admin = admin
  viewer = viewer
  Sub <- MCSub
  Roles <- MCRoles
  Path <- MCPath
  Policies <- MCPolicies
  None = None
  TTL = 1
  MaxChanges = 1
  MaxFaults = 1
SYMMETRY MCSymmetry
INVARIANTS AuthzInv
