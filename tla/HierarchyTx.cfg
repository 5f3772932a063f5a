CONSTANTS
  Users = {u1, u2, u3}
  Foreign = {}
  NoUser = NoUser
  u1 = u1
  u2 = u2
  u3 = u3
  w1 = w1
  w2 = w2
  r1 = r1
  Writers = {w1, w2}
  Readers = {r1}
  MaxCalls = 1
SPECIFICATION SmallSpec
INVARIANTS
  TxTypeOK
  AnswersExplained
PROPERTIES
  UnrelatedCallsAreAtomic
  CallsEnd
CHECK_DEADLOCK FALSE
