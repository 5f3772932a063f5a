CONSTANTS
  Users = {u1, u2, u3, f1}
  Foreign = {f1}
  NoUser = NoUser
  u1 = u1
  u2 = u2
  u3 = u3
  f1 = f1
SPECIFICATION Spec
SYMMETRY Symmetry
INVARIANTS
  TypeOK
  ClosureOK
  NoCycle
  QueriesAnswerTheChart
  CycleCheckExact
  NothingSkipped
PROPERTIES
  SubtreeMovesAsOnePiece
  ImplementsOrgChart
