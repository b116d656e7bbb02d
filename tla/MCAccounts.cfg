CONSTANTS
  w1 = w1
  c1 = c1
  r1 = r1
  r2 = r2
  c2 = c2
  r3 = r3
  Wallet = {w1}
  Contract = {c1, c2}
  Request = {r1, r2, r3}
  MaxRows = 2
  MaxTime = 2
  MaxAdmin = 3
SYMMETRY Symmetry
CONSTRAINT OneTable
SPECIFICATION Spec
INVARIANTS TypeOK DeletionsAudited NothingOutlivesOwner
PROPERTIES DeletedRowsStay
CHECK_DEADLOCK FALSE
