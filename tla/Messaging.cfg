SPECIFICATION Spec
CONSTANTS
  u1 = u1
  u2 = u2
  c1 = c1
  c2 = c2
  r1 = r1
  r2 = r2
  Users = {u1, u2}
  Clients = {c1, c2}
  Owner <- Owners
  Reader = c1
  Sockets = {c1}
  HttpSenders = {c2}
  Blockers = {u2}
  Requests = {r1, r2}
  PageLimit = 1
  MaxEvents = 1
  MaxMessages = 2
  MaxVersion = 2
  Configs <- Rotations
SYMMETRY Symmetry
INVARIANTS
  NothingMissed
  NothingTwice
  LastMessageNotSuperseded
  RefusedUnderBlock
  ReadableUnlessRetired
