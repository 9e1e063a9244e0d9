SPECIFICATION FairSpec
CONSTANTS
  Runners = {r1, r2}
  Editors = {e}
  Main = main
  Monitor = monitor
  None = none
  Configs = {c1, c2}
  StartLimit = 2
  Strangers = {"rsvc", "alien", "closer"}
  MaxStrangers = 1
  MaxCrashes = 2
  MaxEdits = 1
INVARIANTS OwnsEveryRunner RunsEngineConfig
PROPERTIES Recovers StopComesBack
\* The WebUI ends.
CHECK_DEADLOCK FALSE
