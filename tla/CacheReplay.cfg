CONSTANTS
    c1 = c1
    c2 = c2
    s = s
    x = x
    y = y
    NoCall = NoCall
    Loop = Loop
    NoThread = NoThread
    Calls = {c1, c2}
    Keys = {s}
    StreamKeys = {s}
    Threads = {x, y}
    MaxEntries = 1
SPECIFICATION Spec
SYMMETRY Alike
CHECK_DEADLOCK FALSE
INVARIANTS
    ReplaysSucceed
