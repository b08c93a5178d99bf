\* The seconds of the code; when prompt, the other servers take up to 3 seconds.
SPECIFICATION Spec
CONSTANTS
  info = info
  news = news
  PollLimit = 8
  Pause <- MCPause
  UpstreamLimit <- MCUpstream
  Prompt = 3
  MaxQueue = 4
INVARIANT TypeOK
PROPERTY AllAnswered StaysCaughtUp BacklogShrinks
