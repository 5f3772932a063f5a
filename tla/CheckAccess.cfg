CONSTANTS
  Calls = {c1}
  Wildcard <- MCWildcard
  PolicyPool <- MCPolicyPool
  Ranks = {1, 2}
  Managers = {m1}
  Subject = Subject
  NoManager = NoManager
  InitialPolicies <- MCInitialPolicies
  Sensitivity = 2
  MaxChanges = 2
SPECIFICATION Spec
INVARIANTS
  TypeOK
  OneMutationIsSeenWhole
  StandingDenyWins
  OnlyAuditedDecisionsReturn
CHECK_DEADLOCK FALSE
