SPECIFICATION MCSpec
CONSTANTS
  Sessions = {a}
  Targets <- MCTargets
  Selectors = {x, y}
  Stopper = stopper
  MaxSelects = 2
  MaxLosses = 1
  Local = local
  Self = self
  Remotes = {remote}
  Home = home
  Places = {place}
  PanelThreads = {y}
  NoChoice = nochoice
INVARIANTS SessionsCounted RouteOfGeneration LabelNamesRoute
PROPERTIES NoStaleForward OldSessionsClose
\* No client need ever connect.
CHECK_DEADLOCK FALSE
