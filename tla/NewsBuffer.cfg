\* Answers of up to three bytes more than the buffer, and longer ones.
SPECIFICATION Spec
CONSTANTS
  BufSize = 27
  ChunkSize = 6
  HeaderSize = 3
  NEWS_MAX = 3
  NewsAnswers <- MCAnswers
CHECK_DEADLOCK FALSE
INVARIANT ResponseStaysInBuffer
