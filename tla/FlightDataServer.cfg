SPECIFICATION FairSpec
CONSTANTS
  Clients = {c1, c2}
  NoClient = NoClient
  MaxMessages = 3
INVARIANTS TypeOK PoolHonest HeardByAll EndsHaveCause
PROPERTIES DestroyedForGood RemovedForGood IoReturns
CHECK_DEADLOCK FALSE
