CONSTANTS
    c1 = c1
    t1 = t1
    t2 = t2
    t3 = t3
    w1 = w1
    NoToken = NoToken
    NoThread = NoThread
    NoAccount = NoAccount
    Workers = {w1}
    Checkers = {c1}
    Tokens = {t1, t2, t3}
    InitialTokens = {t1}
    MaxConcurrency = 1
    Quotas <- OneLeft
    EditedStatuses = {}
    LoadedRefusals = 0
    AutoRemoveInvalid = TRUE
    AutoRemoveLimited = TRUE
    Reimport = FALSE
SPECIFICATION Spec
SYMMETRY Alike
INVARIANTS TracksAccount OneKeyPerAccount Inductive
