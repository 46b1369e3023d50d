CONSTANTS
    t1 = t1
    t2 = t2
    w1 = w1
    NoToken = NoToken
    NoThread = NoThread
    NoAccount = NoAccount
    Workers = {w1}
    Checkers = {}
    Tokens = {t1, t2}
    InitialTokens = {t1}
    MaxConcurrency = 1
    Quotas <- OneLeftOrNone
    EditedStatuses = {}
    LoadedRefusals = 0
    AutoRemoveInvalid = FALSE
    AutoRemoveLimited = FALSE
    Reimport = TRUE
SPECIFICATION Spec
INVARIANT IdlePoolHasNoSlotTaken
