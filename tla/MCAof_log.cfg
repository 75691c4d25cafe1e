\* Write commands, rewrites, crashes and restarts in three configurations.
SPECIFICATION FairSpec
CONSTANTS
  a = a
  b = b
  c1 = c1
  c2 = c2
  Conns = {c1, c2}
  Keys = {a, b}
  NLogs = 2
  ShardOf <- TwoShards
  Confs <- SoundConfs
INVARIANT LogSound
PROPERTIES RecoversAcked RewriteEnds
CHECK_DEADLOCK FALSE
