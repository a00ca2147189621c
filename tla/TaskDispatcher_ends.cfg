SPECIFICATION FairSpec
CONSTANTS
    Tasks <- TwoTasks
    Accounts <- TwoAccounts
    acct <- SameRoute
    Routes <- OneRoute
    RouteOf <- TheRoute
    NoTask = NoTask
    UseProxy = TRUE
    Limits = {2}
    MaxTabs = 2
    LaunchGate = 1
    MaxStops = 1
    MayPause = TRUE
    MayArchive = TRUE
    LeaseMayExpire = FALSE
    AvatarMayFail = FALSE
    MayCrash = TRUE
INVARIANT RouteExclusive
INVARIANT StatusTruthful
PROPERTY EveryTaskEnds
PROPERTY StopEnds
CHECK_DEADLOCK FALSE
