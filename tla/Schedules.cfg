SPECIFICATION FairSpec
CONSTANTS
    Accounts = {"a1", "a2"}
    Uploads = {"u"}
    Campaigns = {"c"}
    Lists <- TwoLists
    Clients = {k1, k2}
    NoClient = NoClient
    ForSale = {"a2"}
INVARIANT AcceptedOnce
PROPERTY RemovedNeverFires
PROPERTY MissedOnlyByRemoval
PROPERTY UploadsSettle
PROPERTY StoppedGoesQuiet
CHECK_DEADLOCK FALSE
