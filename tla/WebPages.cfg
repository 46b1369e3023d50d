CONSTANTS
    Tokens = {1, 2}
    NoToken = NoToken
    PageSize = 1
    FirstPools <- TwoAccounts
    AccountUses <- TheAccountUses
    s1 = s1
    s2 = s2
    Servers = {s1, s2}
    NoServer = NoServer
    FirstServers <- BothIdle
    Names = {f}
    ConnectionUses <- TheConnectionUses
    FollowedRegisters <- TheRegisters
    RegisterUses = 3
    Tests = {"testBackup", "testRuntime"}
    TabOf <- TabsOfTests
    BackupKeys = {b1}
    NoBackup = NoBackup
    FormUses <- TheFormUses
    MostFormUses = 3
    FormFaults = 1
    Keys = {u1, u2, u3}
    NoKey = NoKey
    FirstKeys = {u1, u2}
    KeyUses = 4
    Entries = {e1, e2}
    InRange = {e1}
    Labels = {l1}
    NoEntry = NoEntry
    ListUses <- TheListUses
    LibraryItems = {i1, i2, i3}
    NoItem = NoItem
    FirstItems = {i1}
    LibraryUses = 4
    k1 = k1
    k2 = k2
    Tabs = {1, 2}
    AuthKeys = {k1, k2}
    NoAuthKey = NoAuthKey
    RoleOf <- OneAdmin
    FirstSessions <- TheSessions
    SchedulerUses = 3
    FirstSchedules <- TheSchedules
SPECIFICATION PagesSpec
INVARIANTS PagesTypeOK SelectionsAreListed PageFlagsTell AnswersKeepTheirOwner UnsavedIsMarked TestsFollowSaves
PROPERTIES JobsAreFollowed PagesSettle
CHECK_DEADLOCK FALSE
