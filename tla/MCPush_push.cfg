CONSTANTS
  Clients <- MCClients
  Channels <- MCChannels
  Patterns <- MCPatterns
  Matches <- MCMatches
  Nobody = Nobody
  NoChan = NoChan
  NoItem = NoItem
  Cap = 5
  InitItems = 2
  BatchMax = 2
  Cases <- SoundCases
SPECIFICATION FairSpec
INVARIANTS StreamSound AckedReceives RegistryAgrees
PROPERTIES PublishEnds Drained
