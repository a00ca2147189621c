SPECIFICATION Spec
CONSTANTS
  MaxBatches = 2
  Accounts = {a1}
  Videos = {v1, v2, v3}
  PerAccount = {2}
  NoVideo = NoVideo
  MaxStops = 0
  MaxOthers = 1
  MayCancel = TRUE
  MayFail = TRUE
  RecordMayFail = FALSE
  LeaseMayExpire = TRUE
  MayCrash = FALSE
SYMMETRY Symmetry
INVARIANT ConfirmedStayClaimed
INVARIANT PublishedOnce
INVARIANT ClaimsExact
INVARIANT DoneWasConfirmed
PROPERTY SettledForGood
CHECK_DEADLOCK FALSE
