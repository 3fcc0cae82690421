SPECIFICATION SessionsSpec
CONSTANTS
  c1 = c1
  c2 = c2
  r1 = r1
  r2 = r2
  r3 = r3
  Clients = {c1, c2}
  Requests = {r1, r2, r3}
  RefreshTTL = 2
  MaxSecond = 3
SYMMETRY Symmetry
INVARIANTS RefusedAfterLogout UndisturbedSessionWorks
