SPECIFICATION ControlSpec
CONSTANTS
  Sessions = {a}
  Targets <- MCTargets
  Selectors = {x, y}
  Stopper = stopper
  MaxSelects = 2
  MaxLosses = 0
  Local = local
  Self = self
  Remotes = {remote}
  Home = home
  Places = {place}
  PanelThreads = {x, y}
  NoChoice = nochoice
INVARIANTS PanelShowsSelection
\* No client need ever connect.
CHECK_DEADLOCK FALSE
