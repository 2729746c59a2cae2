SPECIFICATION FairSpec
CONSTANTS
  NotGiven = NotGiven
  IdLength = 3
  MaxFeed = 2
  CommandLines <- EveryLine
  Scripts <- EveryScript
INVARIANTS TypeOK NothingMadeUp UnderstoodAsMeant InStep SnapshotExact
PROPERTY StartupEnds
CHECK_DEADLOCK FALSE
