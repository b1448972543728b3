SPECIFICATION LockSpec
CONSTANTS
  u1 = u1
  u2 = u2
  u3 = u3
  Users = {u1, u2, u3}
  Bias = 5
  MaxInit = 3
PROPERTIES LockIsKept LockCompletes
