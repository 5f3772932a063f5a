CONSTANTS
  Containers = {c1, c2}
  c1 = c1
  c2 = c2
  NoUser = "nobody"
  Users <- MCUsers
  Tenants <- MCTenants
  Staff <- MCStaff
  Manager <- MCManager
  HasService = {"tenant-a"}
  Wildcard <- MCWildcard
  Written = {"Closure"}
SPECIFICATION Spec
SYMMETRY Symmetry
INVARIANTS
  TypeOK
  HalfSeededOnlyIfDisturbed
  SeededTenantIsConsistent
  ScenariosDecide
  HalfSeededAllowsNoMore
PROPERTY EditsSurviveRestarts
