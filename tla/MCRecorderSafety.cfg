\* Two recordings of one key, with tokens or without, that race for the
\* row of a day while midnight passes. A connection for each.
SPECIFICATION RecSpec
CONSTANTS
  Tasks = {t1, t2}
  Keys = {k1}
  MaxTokens = 1
  MaxDay = 1
  PoolCapacity = 2
  LostAcks = FALSE
INVARIANTS
  ChargedAtMostOnce
  ConnectionOnlyInTransaction
PROPERTIES
  ImplementsLedger
\* Every recording is done once and ends.
CHECK_DEADLOCK FALSE
