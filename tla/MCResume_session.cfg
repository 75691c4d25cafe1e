\* Two connections, two sessions, three pushes, a replay buffer and a queue of two.
SPECIFICATION FairSpec
CONSTANTS
  NConns = 2
  NSess = 2
  MaxPush = 3
  MaxSeq = 3
  QCap = 2
  MaxMsgs = 2
  NoConn = 0
INVARIANT SessionsSound
PROPERTIES ImplementsStream SessionEnds DeadDetaches
CHECK_DEADLOCK FALSE
