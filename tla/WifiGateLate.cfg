\* The values of the code; the address comes while or after the wifi thread waits.
CONSTANTS
    info = info
    news = news
    StartDelays = {0}
    Settle = 5
    ConnectCall = 3
    WifiWait = 30
    NetWait = 60
    EarlyAddress = FALSE
    Horizon = 65
SPECIFICATION Spec
PROPERTIES NobodyGivesUpWithAddress
\* the last second is the end of the model
CHECK_DEADLOCK FALSE
