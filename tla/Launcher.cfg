SPECIFICATION Spec
CONSTANTS
    Flows = {f1}
    Monitor = monitor
    LeaseTtl = 1
    Grace = 1
    MaxVersion = 1
    MaxTime = 3
    MaxRestarts = 1
INVARIANT OfflineUseBounded
PROPERTY LostLeaseStops
PROPERTY RevokedEnds
PROPERTY LoadingEnds
CHECK_DEADLOCK FALSE
