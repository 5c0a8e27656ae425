\* One recording. The acknowledgement of a COMMIT may be lost.
SPECIFICATION RecSpec
CONSTANTS
  Tasks = {t1}
  Keys = {k1}
  MaxTokens = 1
  MaxDay = 0
  PoolCapacity = 1
  LostAcks = TRUE
INVARIANTS
  ChargedAtMostOnce
CHECK_DEADLOCK FALSE
