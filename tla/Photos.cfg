SPECIFICATION Spec
CONSTANTS
  r1 = r1
  r2 = r2
  r3 = r3
  Requests = {r1, r2, r3}
  Operations = {"upload", "delete", "reorder", "sweep"}
  MAX_PHOTOS = 2
  MaxFiles = 2
  MaxKeys = 2
SYMMETRY Symmetry
INVARIANTS NoBrokenReference FailedUploadIsInvisible
PROPERTY QuietSweepIsExact
CHECK_DEADLOCK FALSE
