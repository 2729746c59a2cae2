SPECIFICATION FairSpec
CONSTANTS
  NoPx = NoPx
  ms = ms
  r1 = r1
  Replicas = {r1}
  Messages <- EveryKind
  RingSize = 2
  MaxFeed = 3
  Cuts <- ManyCuts
INVARIANTS TypeOK Gapless InOrder StarredNeverStored
PROPERTIES RelaySpec Arrives
CHECK_DEADLOCK FALSE
