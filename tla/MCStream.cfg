\* A stream of up to four chunks, cut or failing anywhere.
SPECIFICATION Spec
CONSTANTS
  MaxChunks = 4
  MaxTokens = 2
INVARIANTS
  TypeOK
  RecordedOnce
  ReportIsRecorded
  DoneFollowsRecording
  WellFormedStream
  NoTextLost
  CleanErrorOrStream
PROPERTIES
  EveryStreamRecorded
  UpstreamReleased
\* One stream, which ends.
CHECK_DEADLOCK FALSE
