\* Three connections, two shards, queues of one; Close at any time.
SPECIFICATION FairSpec
CONSTANTS
  c1 = c1
  c2 = c2
  c3 = c3
  Conns = {c1, c2, c3}
  NShards = 2
  QCap = 1
  NoConn = NoConn
  Confs <- PauseConfs
INVARIANT PauseSound
PROPERTIES ImplementsBoard EveryCallReturns StashedIsServed
CHECK_DEADLOCK FALSE
