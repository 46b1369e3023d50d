CONSTANTS
    c1 = c1
    t1 = t1
    t2 = t2
    w1 = w1
    NoToken = NoToken
    NoThread = NoThread
    NoAccount = NoAccount
    Workers = {w1}
    Checkers = {c1}
    Tokens = {t1, t2}
    InitialTokens = {t1}
    MaxConcurrency = 1
    Quotas <- OneLeft
    EditedStatuses = {}
    LoadedRefusals = 2
    AutoRemoveInvalid = FALSE
    AutoRemoveLimited = FALSE
    Reimport = FALSE
SPECIFICATION Spec
PROPERTY RemovalIsConfirmed
