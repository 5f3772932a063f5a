CONSTANTS
  Users = {u1}
  u1 = u1
  Services = {s1}
  s1 = s1
  Roles = {"Manager"}
  Perms = {"employee.view"}
  All = "*"
  Wildcard <- MCWildcard
  TenantStatus = "ACTIVE"
  Calls = {c1}
  c1 = c1
  AccessTtl = 1
  RefreshTtl = 2
  MaxClock = 3
  MaxTokens = 4
SPECIFICATION Spec
INVARIANTS
  TypeOK
  SuspensionEndsAuthority
  GuardsNeverExceed
  GrantsArrive
