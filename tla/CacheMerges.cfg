CONSTANTS
    c1 = c1
    c2 = c2
    c3 = c3
    r = r
    s = s
    x = x
    y = y
    NoCall = NoCall
    Loop = Loop
    NoThread = NoThread
    Calls = {c1, c2, c3}
    Keys = {r, s}
    StreamKeys = {s}
    Threads = {x, y}
    MaxEntries = 1
SPECIFICATION FairSpec
CHECK_DEADLOCK FALSE
INVARIANTS
    CacheInductive
    OneComputation
    WholeAnswers
    WaitersAreTold
    RegisteredIsRunning
    WithinBound
PROPERTIES
    ResponsesEnd
