\* Two processes with their caches, two rotations, two calls.
CONSTANTS
  c1 = c1  c2 = c2  p1 = p1  p2 = p2
  Processes = {p1, p2}
  Calls = {c1, c2}
  Rotations = {r1, r2}
  Seed = Seed
  NoKey = NoKey
  Ttl = 1
  MaxFaults = 1
  MaxTime = 2
SPECIFICATION Spec
SYMMETRY MCSymmetry
INVARIANTS TypeOK RetiredKeyRunsOut SomeKeyActive RotationTakesEffect
\* Every rotation and call has ended.
CHECK_DEADLOCK FALSE
