\* A response to /info has 24 bytes; one to /news may be longer than the buffer.
\* The thread that has its news sleeps for ever.
SPECIFICATION Spec
CONSTANTS
  BufSize = 27
  ChunkSize = 6
  HeaderSize = 3
  NEWS_MAX = 3
  NewsAnswers <- MCAnswers
CHECK_DEADLOCK FALSE
INVARIANTS TypeOK NewerFirst CompleteInfoIsShown TitlesInOrder SuccessMeansAll NoNeedlessWait
PROPERTY RequestEnds
