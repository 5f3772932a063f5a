CONSTANTS
  Users = {u1, u2}
  Foreign = {}
  NoUser = NoUser
  u1 = u1
  u2 = u2
  u3 = u3
  w1 = w1
  w2 = w2
  Writers = {w1, w2}
  Readers = {}
  MaxCalls = 1
SPECIFICATION TxSpec

INVARIANT NoCycle
CHECK_DEADLOCK FALSE
