CONSTANTS
  w1 = w1  w2 = w2
  Worker = {w1, w2}
  ShardOf <- MCShardOf
  Resolvable <- MCResolvable
  MaxRef = 5
  PageSize = 2
  Depth = 1
  Chunk = 2
  CommitRetries = 1
  MaxFaults = 3
SPECIFICATION FairSpec
CHECK_DEADLOCK FALSE
INVARIANTS NothingLost
PROPERTIES ImplementsDrain Terminates
