\* Two workers, two concurrent checks on Redis, windows of two seconds, two ticks each.
SPECIFICATION Spec
CONSTANTS
  Keys = {k1}
  Limit <- LimitOne
  Workers = {p1, p2}
  Processes = {p1, p2}
  Tasks = {t1, t2}
  SecondsPerWindow = 2
  TicksPerSecond = 2
  Ttl = 3
  MaxDelay = 1
  MaxRefused = 1
  MaxCounters = 2
  MaxStarts = 2
  MaxTime = 4
INVARIANTS
  TypeOK
  RefusedOnlyWhenFull
  RetryReachesNextWindow
  DeploymentBound
PROPERTIES
  ImplementsFixedWindow
\* Time is bounded.
SYMMETRY ProcessSymmetry
CHECK_DEADLOCK FALSE
