SPECIFICATION FairSpec
CONSTANTS
  k1 = k1
  k2 = k2
  Text = Text
  NoEntry = NoEntry
  Never = Never
  NoPx = NoPx
  NoOne = NoOne
  IntMax = 2
  ClockMax = 4
  Keys = {k1}
  MaxTime = 2
  MaxRequests = 3
  Conns = {c1, c2}
  Peers = {c2}
  IsMaster = TRUE
  Requests <- EveryKind
  Loaded <- SomethingLoaded
INVARIANT
  TypeOK
PROPERTIES
  BatchesFinish
  PipesForm
  NoRevival
  AtomicStore
