CONSTANTS
  t1 = t1
  t2 = t2
  u1 = u1
  u2 = u2
  r1 = r1
  r2 = r2
  p1 = p1
  p2 = p2
  d1 = d1
  d2 = d2
  q1 = q1
  TenantOf <- MCTenantOf
  Governs <- MCGoverns
  Users = {u1}
  Roles = {r1}
  Perms = {p1, p2}
  Policies = {d1}
  Queries = {q1}
  Replicas = {i1, i2}
  i1 = i1
  i2 = i2
  Readers = {a1, a2}
  a1 = a1
  a2 = a2
  Writers = {w1}
  w1 = w1
  Ttl = 1
  MaxClock = 3
  MaxRows = 3
SPECIFICATION Spec
SYMMETRY Symmetry
CONSTRAINT Focus
INVARIANTS
  TypeOK
  EntriesNeverExceed
  InvalidationHolds
  StalenessBounded
