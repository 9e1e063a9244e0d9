SPECIFICATION Spec
CONSTANTS
  Runners = {r1, r2}
  Editors = {e}
  Main = main
  Monitor = monitor
  None = none
  Configs = {c1, c2}
  StartLimit = 2
  Strangers = {"rsvc", "alien", "closer"}
  MaxStrangers = 0
  MaxCrashes = 0
  MaxEdits = 1
INVARIANTS StoppedHasNoRunner
\* The WebUI ends.
CHECK_DEADLOCK FALSE
