SPECIFICATION FairSpec
CONSTANTS
  Callbacks = {a}
  HostFrames = 2
  BlockFrames = 2
  Latency = 4
  RingCapacity = 6
  Shapes = {s1}
  Hots = {h1, h2}
  NoSession = none
  MayExpire = TRUE
  MaxModes = 1
  MaxEdits = 2
INVARIANTS RingExclusion
PROPERTIES ReadyOrLost
\* threadMain ends when the client is destroyed.
CHECK_DEADLOCK FALSE
