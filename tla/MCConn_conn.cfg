\* Transactions, scripts and connection modes of two clients.
SPECIFICATION FairSpec
CONSTANTS
  c1 = c1
  c2 = c2
  Conns = {c1, c2}
  NoConn = NoConn
  Scripts = {"s1", "s2"}
  NVms = 3
  VMPoolSize = 1
  VMPoolMax = 1
  VMRecycleRuns = 3
  MaxQueue = 2
  MaxFlush = 1
  Mixes <- SoundMixes
INVARIANTS TxSound PauseHeld PoolSound
PROPERTY CommandEnds
CHECK_DEADLOCK FALSE
