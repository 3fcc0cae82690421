SPECIFICATION Spec
CONSTANTS
  Others <- MCOthers
  Limit = 1
  NearbyReach = 5
  Settings <- MCSettings
  Profiles <- MCProfiles
  Beginnings <- MCBeginnings
  MaxChanges = 2
INVARIANTS
  HidesTheExcluded
  WalkFollowsTheList
  PreviewHasMessages
CHECK_DEADLOCK FALSE
