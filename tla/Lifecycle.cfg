SPECIFICATION LifecycleSpec
CONSTANTS
  Instances = {i1, i2}
  Requests = {r1}
  Configs <- MCConfigs
  Grace = 2
  Hard = 1
  ProbeEvery = 1
  MaxStarts = 2
INVARIANTS
  LifecycleTypeOK
  ServesOnlyWhole
  PublicBeforeTraffic
  NoneTurnedAway
PROPERTIES
  StopsOnceTold
CHECK_DEADLOCK FALSE
