SPECIFICATION Spec
CONSTANTS
  Callbacks = {a}
  HostFrames = 1
  BlockFrames = 2
  Latency = 4
  RingCapacity = 6
  Shapes = {s1}
  Hots = {h1, h2}
  NoSession = none
  MayExpire = TRUE
  MaxModes = 0
  MaxEdits = 3
INVARIANTS SessionHasHotParameters
\* threadMain ends when the client is destroyed.
CHECK_DEADLOCK FALSE
