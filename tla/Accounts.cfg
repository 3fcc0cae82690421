SPECIFICATION Spec
CONSTANTS
  r1 = r1
  r2 = r2
  Users = {1, 2}
  Requests = {r1, r2}
  Pairs <- Couple
  Deleters = {1}
  Uploaders = {1}
  MaxId = 2
SYMMETRY Symmetry
INVARIANT DeletedLeavesNothing
CHECK_DEADLOCK FALSE
