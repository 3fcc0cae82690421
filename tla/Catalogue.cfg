SPECIFICATION Spec
CONSTANTS
  Seeders = {1, 2}
  Chunk = 13
  MaxSelection = 3
  Profiles <- MCProfiles
  Beginnings <- MCBeginnings
  MaxStarts = 2
INVARIANTS
  TypeOK
  FilledMeansWhole
  ReferencesComplete
  CompletenessIsTheUsers
  CompatibilityIsFair
CHECK_DEADLOCK FALSE
