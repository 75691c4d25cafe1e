\* Saves, their failures, crashes and shutdown in four configurations.
SPECIFICATION FairSpec
CONSTANTS
  NShards = 2
  Confs <- SoundConfs
INVARIANT SaveSound
PROPERTIES SavedStays RuleFires EverySaveEnds
CHECK_DEADLOCK FALSE
