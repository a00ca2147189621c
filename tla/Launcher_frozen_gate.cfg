SPECIFICATION Spec
CONSTANTS
    Flows = {f1}
    Monitor = monitor
    LeaseTtl = 1
    Grace = 1
    MaxVersion = 2
    MaxTime = 3
    MaxRestarts = 1
INVARIANTS RenewalKeepsServing

CHECK_DEADLOCK FALSE
