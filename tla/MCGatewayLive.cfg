\* Two requests of one key, with a quota or without, share one connection.
SPECIFICATION SpecOneKey
CONSTANTS
  k1 = k1
  k2 = k2
  Tasks = {t1, t2}
  Keys = {k1, k2}
  MaxTokens = 1
  MaxDay = 0
  PoolCapacity = 1
  LostAcks = FALSE
  DailyLimit <- MixedQuota
  MaxUsage = 1
INVARIANTS
  NoHoldAndWait
  RevokedStaysOut
PROPERTIES
  RequestsAdvance
  ImplementsServerLedger
  EveryRequestEnds
\* A key without a quota stops at MaxUsage; MCGatewayQuota looks for deadlocks.
CHECK_DEADLOCK FALSE
