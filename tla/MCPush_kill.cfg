CONSTANTS
  Clients <- MCClients
  Channels <- MCChannels
  Patterns <- MCPatterns
  Matches <- MCMatches
  Nobody = Nobody
  NoChan = NoChan
  NoItem = NoItem
  Cap = 5
  InitItems = 2
  BatchMax = 2
  Cases <- StuckCases
SPECIFICATION KillSpec
PROPERTY KillEnds
CHECK_DEADLOCK FALSE
