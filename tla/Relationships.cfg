SPECIFICATION FairSpec
CONSTANTS
  Users = {1, 2}
  Requests = {r1, r2, r3}
  LikePairs <- Pairs2
  BlockPairs <- OneBlocks
INVARIANTS
  OnePairOneMatchOneDialog
  DialogMirrorsMatch
  NoLostMatch
  RespectsStandingBlock
PROPERTIES
  KeepsPromise
  MutualLikesComplete
