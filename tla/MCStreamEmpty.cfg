\* A provider that sends no chunk.
SPECIFICATION Spec
CONSTANTS
  MaxChunks = 1
  MaxTokens = 1
INVARIANTS
  FailureIsLogged
\* One stream, which ends.
CHECK_DEADLOCK FALSE
