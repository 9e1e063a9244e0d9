SPECIFICATION Spec
CONSTANTS
  Callbacks = {a}
  HostFrames = 2
  BlockFrames = 3
  Latency = 6
  RingCapacity = 16
  Shapes = {s1, s2}
  Hots = {h1}
  NoSession = none
  MayExpire = FALSE
  MaxModes = 2
  MaxEdits = 2
INVARIANTS OfflineSupply OfflineDelayIsLatency SessionHasShape
PROPERTIES NewGenerationFlagged
\* The host may destroy the client.
CHECK_DEADLOCK FALSE
