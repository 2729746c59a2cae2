SPECIFICATION Spec
CONSTANTS
  k1 = k1
  k2 = k2
  Text = Text
  NoEntry = NoEntry
  Never = Never
  NoPx = NoPx
  NoOne = NoOne
  IntMax = 2
  ClockMax = 4
  Keys = {k1}
  MaxTime = 1
  MaxRequests = 7
  Conns = {c1, c2}
  Peers = {}
  IsMaster = TRUE
  Requests <- SomeFailing
  Loaded <- NothingLoaded
INVARIANTS
  TransactionOwnsQueue
  AnswersLineUp
PROPERTY
  AtomicStore
