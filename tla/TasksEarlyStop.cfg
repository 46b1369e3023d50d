CONSTANTS
    k1 = k1
    NoKey = NoKey
    NoTask = NoTask
    Keys = {k1}
    Pollers = {}
    EarlyStop = TRUE
SPECIFICATION Spec
PROPERTIES
    StoppedStaysStopped
