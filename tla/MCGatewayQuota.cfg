\* Two requests in flight on one key with a quota of two tokens a day.
SPECIFICATION Spec
CONSTANTS
  k1 = k1
  k2 = k2
  Tasks = {t1, t2}
  Keys = {k1}
  MaxTokens = 1
  MaxDay = 1
  PoolCapacity = 2
  LostAcks = FALSE
  DailyLimit <- OneQuota
  MaxUsage = 2
INVARIANTS
  TypeOK
  QuotaOvershootBounded
SYMMETRY TaskSymmetry
