\* Two fields, so that a half-copied g_info exists; one value and the empty string
\* tell an old field from a new one.
CONSTANTS
    info = info
    news = news
    screen = screen
    nobody = nobody
    Fields = {weather, epoch}
    Values = {v1}
    NoValue = NoValue
SPECIFICATION Spec
INVARIANTS TypeOK NothingHeldAtRest
PROPERTIES SnapshotsAreWhole ScreenKeepsGoing InfoGetsItsTurn NewsGetsItsTurn
