\* Two requests on one key; three rows of the log; two keys and two days;
\* days of a second for the quota;
\* two models; lists of one text too many.
SPECIFICATION Spec
CONSTANTS
  Null = Null
  Second = 2
  LastInstant = 4
  Requests = {r1, r2}
  MaxKeys = 1
  Expiries <- ExpiryDates
  MaxLogs = 3
  PageSize = 1
  MaxError = 2
  Errors <- ErrorTexts
  Untils <- UntilDates
  Everyone = Everyone
  ReportKeys = {k1, k2}
  LastDay = 1
  MaxRecorded = 1
  DayLength = 1
  TokenLimits = {Null, 0, 2}
  DefaultLimit = 1
  MaxSpent = 2
  NoModel = NoModel
  Models = {m1, m2}
  ProviderModels = {m1, m2, q1}
  AllowedModels = {m2}
  SeededModel = m1
  Seeds = {s1, s2}
  None = None
  Texts = {0, 1, 3}
  MaxStop = 2
  MaxInputs = 2
  Settings <- SomeSettings
  Counts = {0, 2}
INVARIANTS
  AnswersHold
  ExpiresAsMeant
  PagesMissNothing
  RepeatsOnlyWhenAdded
  ErrorFits
  ReportIsCurrent
  WaitEndsAtMidnight
  ListedIsServed
  SeedingIsRepeatable
  OptionsAsAsked
  AnswerAsReported
PROPERTIES
  RevokedForGood
SYMMETRY RequestSymmetry
\* Time and the log are bounded.
CHECK_DEADLOCK FALSE
