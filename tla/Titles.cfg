\* What the proxy of src/python_proxi answers.
SPECIFICATION Spec
CONSTANTS
  BufSize = 27
  ChunkSize = 6
  HeaderSize = 3
  NEWS_MAX = 3
  NewsAnswers <- ProxyAnswers
CHECK_DEADLOCK FALSE
INVARIANT NewsOfProxyAreFound
