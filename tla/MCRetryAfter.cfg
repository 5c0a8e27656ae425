\* Days of two seconds, two ticks each.
SPECIFICATION AdmissionSpec
CONSTANTS
  Null = Null
  Second = 2
  LastInstant = 9
  DayLength = 2
  TokenLimits = {Null, 0, 2}
  DefaultLimit = 1
  MaxSpent = 2
INVARIANTS
  RefusalSaysHowLong
\* Time is bounded.
CHECK_DEADLOCK FALSE
