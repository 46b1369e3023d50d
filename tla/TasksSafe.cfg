CONSTANTS
    k1 = k1
    k2 = k2
    p1 = p1
    p2 = p2
    NoKey = NoKey
    NoTask = NoTask
    Keys = {k1, k2}
    Pollers = {p1, p2}
    EarlyStop = FALSE
SPECIFICATION Spec
SYMMETRY Alike
INVARIANTS TypeOK RegisteredIsAlive ImagesIffSuccess CancelledIsStopped
PROPERTIES Lifecycle WorkersImagesAreShown ConversationIsKept
