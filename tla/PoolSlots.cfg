CONSTANTS
    t1 = t1
    t2 = t2
    w1 = w1
    w2 = w2
    NoToken = NoToken
    NoThread = NoThread
    NoAccount = NoAccount
    Workers = {w1, w2}
    Checkers = {}
    Tokens = {t1, t2}
    InitialTokens = {t1}
    MaxConcurrency = 1
    Quotas <- OneLeftOrUnmetered
    EditedStatuses = {"disabled"}
    LoadedRefusals = 0
    AutoRemoveInvalid = TRUE
    AutoRemoveLimited = TRUE
    Reimport = FALSE
SPECIFICATION FairSpec
INVARIANTS TypeOK SlotAccounting ConcurrencyRespected
PROPERTY GenerationEnds
