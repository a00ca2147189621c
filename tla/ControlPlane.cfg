SPECIFICATION Spec
CONSTANTS
    Licences = {"l1"}
    Devices = {"d1", "d2"}
    Artifacts = {"v1"}
    Requests <- SomeRequests
    Calls = {c1, c2, c3}
    Fetches = {f1, f2}
    NoLicence = "none"
    NoRequest = NoRequest
    NoCall = NoCall
    NoArtifact = NoArtifact
    Version <- OneVersion
    Installed = 0
    Limits = {1, 2}
    Expiries = {2, 4}
    Skew = 1
    LeaseTtl = 1
    GrantTtl = 1
    MaxHandling = 1
    MaxTime = 3
INVARIANT ProofUsedOnce
INVARIANT LeasesEndWithLicence
INVARIANT RenewalsEndWithDevice
INVARIANT GrantSpentOnceWhileValid
PROPERTY DeviceLimit
SYMMETRY Alike
CHECK_DEADLOCK FALSE
