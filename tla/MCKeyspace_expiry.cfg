\* Expiry, eviction and FLUSHDB inside EXEC or EVAL: one connection.
SPECIFICATION Spec
CONSTANTS
  a = a
  b = b
  v = v
  w = w
  c1 = c1
  c2 = c2
  Conns = {c1}
  NShards = 1
  DBs = {"db0"}
  Slots = {a, b}
  ShardOf <- OneShardOf
  DBOf <- OneDBOf
  Values = {v, w}
  KindOf <- TwoKinds
  EmptySize = 1
  SizeOf <- TwoSizes
  TombCap = 2
  Quota = 1
  Volatile = FALSE
  PlainFlush = FALSE
  NoConn = NoConn
  Absent = Absent
  MaxNow = 3
  MaxVer = 3
  MaxEpoch = 1
  MaxGen = 2
  MaxWatch = 0
SYMMETRY SlotSymmetry
INVARIANT IndexesAgree
PROPERTY SweepTakesOnlyDue
CHECK_DEADLOCK FALSE
