SPECIFICATION FairSpec
CONSTANTS
  MaxInFlight = 2
  ConfigValues = {c1}
  DefaultConfig = c0
  InvalidConfig = bad
  NoItem = none
  Window = 3
  EngineRaises = TRUE
  MaxAudio = 3
  MaxConfigs = 0
  MaxBeats = 0
  MaxPayloads = 3
PROPERTIES SessionEnds
\* A session ends, and the peer may stay silent for good.
CHECK_DEADLOCK FALSE
