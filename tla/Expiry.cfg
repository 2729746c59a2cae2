SPECIFICATION Spec
CONSTANTS
  k1 = k1
  k2 = k2
  Text = Text
  NoEntry = NoEntry
  Never = Never
  NoPx = NoPx
  NoOne = NoOne
  IntMax = 2
  ClockMax = 4
  Keys = {k1}
  MaxTime = 1
  MaxRequests = 2
  Conns = {c1}
  Peers = {}
  IsMaster = TRUE
  Requests <- EveryKind
  Loaded <- SomethingLoaded
PROPERTY
  IncrStartsAfresh
