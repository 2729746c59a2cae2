SPECIFICATION FairSpec
CONSTANTS
  c1 = c1
  c2 = c2
  c3 = c3
  Clients = {c1, c2, c3}
  Link = Link
  MaxSets = 2
INVARIANTS TypeOK AckCountsAll NobodyStuck
PROPERTIES ServedOnMaster ServedOnceAnswersAreRead
