\* Every family of data commands.
SPECIFICATION Spec
CONSTANTS
  k1 = k1
  k2 = k2
  Keys = {k1, k2}
  None = None
  Word = Word
  Conns = {c1, c2}
  IntMax = 7
  Sec = 2
  HashCap = 2
  IntsetCap = 2
  MaxNow = 3
  BootAt = 4
  MaxItems = 4
  Confs <- MCConfs
INVARIANTS StoreSound ChangesAnnounced ReplicaFollows MovesOnce ScanComplete
CHECK_DEADLOCK FALSE
