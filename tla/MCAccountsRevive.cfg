CONSTANTS
  w1 = w1
  c1 = c1
  r1 = r1
  r2 = r2
  c2 = c2
  r3 = r3
  Wallet = {w1}
  Contract = {}
  Request = {r1, r2, r3}
  MaxRows = 2
  MaxTime = 3
  MaxAdmin = 0
SYMMETRY Symmetry
SPECIFICATION Spec
PROPERTIES OnlyRestoreRevives
CHECK_DEADLOCK FALSE
