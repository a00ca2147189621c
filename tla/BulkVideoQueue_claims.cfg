SPECIFICATION FairSpec
CONSTANTS
  MaxBatches = 2
  Accounts = {a1}
  Videos = {v1, v2}
  PerAccount = {1}
  NoVideo = NoVideo
  MaxStops = 1
  MaxOthers = 1
  MayCancel = FALSE
  MayFail = FALSE
  RecordMayFail = TRUE
  LeaseMayExpire = FALSE
  MayCrash = TRUE
INVARIANT OneOwner
INVARIANT ClaimsExact
PROPERTY KeepsClaims
PROPERTY EveryBatchEnds
CHECK_DEADLOCK FALSE
