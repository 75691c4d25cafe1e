\* A blocking pop queued behind a script in one transaction.
SPECIFICATION Spec
CONSTANTS
  c1 = c1
  c2 = c2
  Conns = {c1, c2}
  NoConn = NoConn
  Scripts = {"s1", "s2"}
  NVms = 3
  VMPoolSize = 1
  VMPoolMax = 1
  VMRecycleRuns = 3
  MaxQueue = 2
  MaxFlush = 1
  Mixes <- NestedMixes
INVARIANT NoParkUnderPause
CHECK_DEADLOCK FALSE
