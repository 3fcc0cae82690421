SPECIFICATION Spec
CONSTANTS
  Users = {1, 2}
  Requests = {r1}
  LikePairs <- Pairs2Self
  BlockPairs <- Pairs2
INVARIANT NoSelfLike
