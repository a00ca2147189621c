SPECIFICATION FairSpec
CONSTANTS
    Accounts = {"a1", "a2"}
    Proxies = {"p"}
    ProxyOf <- OneProxy
    Manual = {"m1"}
    Loops = {"l1", "l2"}
    Selections <- Everything
    PerProxy = 2
    Limits = {1, 2}
INVARIANT BatchesNeverOverlap
INVARIANT PoliteToTikTok
PROPERTY BatchEnds
PROPERTY LoopsEnd
CHECK_DEADLOCK FALSE
