\* A stream of up to two chunks, cut by the client once it has some text.
SPECIFICATION Spec
CONSTANTS
  MaxChunks = 2
  MaxTokens = 1
INVARIANTS
  CancelledIsCharged
\* One stream, which ends.
CHECK_DEADLOCK FALSE
