SPECIFICATION Spec
CONSTANTS
  Sending = TRUE
  Creators = {1}
  AtOnce = 1
  MaxLikes = 2
  MaxMatches = 2
  MaxDialogs = 3
  MaxMessages = 2
INVARIANTS
  NoMessageLost
  DialogsHaveMatches
  RunMergesAll
PROPERTIES
  OldestSurvives
  RerunChangesNothing
  LastMessageRecomputed
