CONSTANTS
  Wildcard <- MCWildcard
  PolicyPool <- MCPolicyPool
  Departments = {"hr", "finance", "none"}
  Clearances = {0, 1, 2}
  Sensitivities = {1, 2}
  MaxPolicies = 3
SPECIFICATION Spec
INVARIANTS
  TypeOK
  CeilingsProtect
PROPERTIES
  NewPolicyMovesItsWay
  GrantClosesOnlyByRequest
  ClearanceClosesOnlyByClause
