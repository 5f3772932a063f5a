CONSTANTS
  Users = {u1, u2, f1}
  Foreign = {f1}
  NoUser = NoUser
  u1 = u1
  u2 = u2
  f1 = f1
SPECIFICATION Spec
INVARIANT RowsStayInTheTenant
