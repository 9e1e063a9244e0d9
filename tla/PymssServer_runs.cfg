SPECIFICATION FairSpec
CONSTANTS
  Requests = {a, b, c}
  Downloaders = {a, b, c, cli}
  QueueLimit = 2
  TimesOut = TRUE
  Boot = boot
  None = none
  Retries = 1
  Aria2 = FALSE
  Verifies = {TRUE}
INVARIANTS SeparatorExclusive ServesOpenModel StateFollowsRequests InstalledWhole
PROPERTIES UsesOneModelAtATime EveryRequestAnswered
\* The requests end.
CHECK_DEADLOCK FALSE
