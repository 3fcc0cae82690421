SPECIFICATION DeliverySpec
CONSTANTS
  p1 = p1
  i1 = i1
  i2 = i2
  c1 = c1
  c2 = c2
  Phones = {p1}
  Ips = {i1, i2}
  Calls = {c1, c2}
  TTL = 2
  Cooldown = 1
  RequestWindow = 4
  BlockTime = 1
  MaxRequestsPerWindow = 2
  MaxRequestsPerIpWindow = 2
  MaxVerifyAttempts = 2
  MaxAttempts = 2
INVARIANTS GuessLimit GuessBudget SmsBudget
PROPERTY LocksLift
