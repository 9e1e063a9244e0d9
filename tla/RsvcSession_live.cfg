SPECIFICATION FairSpec
CONSTANTS
  MaxInFlight = 2
  DefaultConfig = c0
  InvalidConfig = bad
  NoItem = none
  ConfigValues = {c1}
  Window = 2
  EngineRaises = TRUE
  MaxAudio = 3
  MaxConfigs = 0
  MaxBeats = 1
  MaxPayloads = 3
PROPERTIES HeartbeatAnswered AudioAnswered SessionEnds
\* A session may end with the peer gone and nothing left to do.
CHECK_DEADLOCK FALSE
