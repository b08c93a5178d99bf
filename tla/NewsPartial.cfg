\* One field, one value: the news thread does not look at them.
CONSTANTS
    info = info
    news = news
    screen = screen
    nobody = nobody
    Fields = {weather}
    Values = {v1}
    NoValue = NoValue
SPECIFICATION Spec
INVARIANTS NewsSleepsWithAll
