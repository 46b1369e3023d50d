CONSTANTS
    k1 = k1
    p1 = p1
    NoKey = NoKey
    NoTask = NoTask
    Keys = {k1}
    Pollers = {p1}
    EarlyStop = FALSE
SPECIFICATION Spec
PROPERTIES
    PolledImagesAreShown
