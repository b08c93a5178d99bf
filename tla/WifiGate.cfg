\* The values of main.c and wifi_connect.c, second by second, and start delays that
\* let the address, or the whole handoff, precede a wait.
CONSTANTS
    info = info
    news = news
    StartDelays = {0, 7, 9}
    Settle = 5
    ConnectCall = 3
    WifiWait = 30
    NetWait = 60
    EarlyAddress = TRUE
    Horizon = 75
SPECIFICATION Spec
INVARIANTS TypeOK HandoffReachesBoth TokensFollowAddress
PROPERTIES WaitsEnd
\* the last second is the end of the model
CHECK_DEADLOCK FALSE
