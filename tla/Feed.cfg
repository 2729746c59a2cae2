SPECIFICATION Spec
CONSTANTS
  k1 = k1
  k2 = k2
  Text = Text
  NoEntry = NoEntry
  Never = Never
  NoPx = NoPx
  NoOne = NoOne
  IntMax = 2
  ClockMax = 4
  Keys = {k1, k2}
  MaxTime = 0
  MaxRequests = 5
  Conns = {c1, r1, r2}
  Peers = {r1, r2}
  IsMaster = TRUE
  Requests <- Writes
  Loaded <- NothingLoaded
INVARIANTS
  FeedFollowsStore
  CoveredOnceCounted
  Inductive
PROPERTY
  AtomicStore
