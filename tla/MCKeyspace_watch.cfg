\* WATCH, EXEC, EVAL and plain FLUSHDB of two connections.
SPECIFICATION Spec
CONSTANTS
  a = a
  b = b
  v = v
  w = w
  c1 = c1
  c2 = c2
  Conns = {c1, c2}
  NShards = 1
  DBs = {"db0"}
  Slots = {a, b}
  ShardOf <- OneShardOf
  DBOf <- OneDBOf
  Values = {v}
  KindOf <- OneKind
  EmptySize = 1
  SizeOf <- OneSize
  TombCap = 1
  Quota = 0
  Volatile = FALSE
  PlainFlush = TRUE
  NoConn = NoConn
  Absent = Absent
  MaxNow = 1
  MaxVer = 3
  MaxEpoch = 2
  MaxGen = 1
  MaxWatch = 1
SYMMETRY FullSymmetry
INVARIANTS TypeOK WatchSound ExecSound
CHECK_DEADLOCK FALSE
