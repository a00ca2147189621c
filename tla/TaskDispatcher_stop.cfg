SPECIFICATION Spec
CONSTANTS
    Tasks <- ThreeTasks
    Accounts <- TwoAccounts
    acct <- TwiceAndOne
    Routes <- TwoRoutes
    RouteOf <- OwnRoutes
    NoTask = NoTask
    UseProxy = TRUE
    Limits = {1, 3}
    MaxTabs = 2
    LaunchGate = 1
    MaxStops = 1
    MayPause = FALSE
    MayArchive = FALSE
    LeaseMayExpire = TRUE
    AvatarMayFail = TRUE
    MayCrash = TRUE
INVARIANT CountersExact
INVARIANT BusyIsLive
INVARIANT OneTaskPerAccount
PROPERTY FencedAdmission
PROPERTY KeepsPromise
CHECK_DEADLOCK FALSE
