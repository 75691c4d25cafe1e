\* A rewrite racing a capture.
SPECIFICATION Spec
CONSTANTS
  a = a
  b = b
  c1 = c1
  c2 = c2
  Conns = {c1, c2}
  Keys = {a, b}
  NLogs = 2
  ShardOf <- TwoShards
  Confs <- DupConfs
INVARIANT LogMatchesMemory
CHECK_DEADLOCK FALSE
