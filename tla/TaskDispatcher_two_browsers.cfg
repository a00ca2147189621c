SPECIFICATION Spec
CONSTANTS
    Tasks <- ThreeTasks
    Accounts <- ThreeAccounts
    acct <- SameAccountThrice
    Routes <- TwoRoutes
    RouteOf <- SharedRoute
    NoTask = NoTask
    UseProxy = FALSE
    Limits = {2}
    MaxTabs = 2
    LaunchGate = 1
    MaxStops = 1
    MayPause = FALSE
    MayArchive = FALSE
    LeaseMayExpire = FALSE
    AvatarMayFail = FALSE
    MayCrash = FALSE
INVARIANTS
    OneBrowserPerAccount
CHECK_DEADLOCK FALSE
