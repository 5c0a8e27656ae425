\* Two recordings share one connection, and the acknowledgement of a COMMIT
\* may be lost: none waits for ever, and what still holds of the charges.
SPECIFICATION RecSpec
CONSTANTS
  Tasks = {t1, t2}
  Keys = {k1}
  MaxTokens = 1
  MaxDay = 0
  PoolCapacity = 1
  LostAcks = TRUE
INVARIANTS
  OverchargeBounded
  LostOnlyWhenExhausted
PROPERTIES
  RecordingEnds
\* Every recording is done once and ends.
CHECK_DEADLOCK FALSE
