SPECIFICATION Spec
CONSTANTS
  MaxInFlight = 2
  DefaultConfig = c0
  InvalidConfig = bad
  NoItem = none
  ConfigValues = {c1, c2}
  Window = 4
  EngineRaises = TRUE
  MaxAudio = 3
  MaxConfigs = 2
  MaxBeats = 0
  MaxPayloads = 3
INVARIANTS QueueHasRoom InFlightBound AnsweredOnceInOrder EngineFollowsStream ConfigAsOfReceipt
PROPERTY ConvertsInOrder
\* A session may end with the peer gone and nothing left to do.
CHECK_DEADLOCK FALSE
