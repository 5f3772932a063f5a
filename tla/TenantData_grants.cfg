CONSTANTS
  t1 = t1
  t2 = t2
  d1 = d1
  d2 = d2
  d3 = d3
  u1 = u1
  u2 = u2
  u3 = u3
  a1 = a1
  a2 = a2
  Addresses = {a1, a2}
  r1 = r1
  p1 = p1
  p2 = p2
  s1 = s1
  n1 = n1
  None = None
  Tenants = {t1, t2}
  NewTenants = {n1}
  Departments = {d1, d2, d3}
  Users = {u1, u2, u3}
  Roles = {r1}
  Permissions = {p1, p2}
  Services = {s1}
  TenantOf <- MCTenantOf
  Calls = {c1, c2}
  c2 = c2
  c1 = c1
  Sent <- MCSent
SPECIFICATION Spec
SYMMETRY Symmetry
CONSTRAINT InOneScene
INVARIANT GrantsStayInTheTenant
