\* Three shards feed one handler.
SPECIFICATION FairSpec
CONSTANTS
  Shards = {s1, s2, s3}
  NoShard = NoShard
INVARIANTS
  HandlerExclusive
  ErrsNeverBlocks
  FirstErrorReturned
PROPERTIES
  ReturnsOnFirstError
  QuietShardsExit
