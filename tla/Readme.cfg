SPECIFICATION FairSpec
CONSTANTS
  NotGiven = NotGiven
  IdLength = 3
  MaxFeed = 1
  CommandLines <- ReadmeLine
  Scripts <- NoScript
INVARIANT ReplicaofPort
CHECK_DEADLOCK FALSE
