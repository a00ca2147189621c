SPECIFICATION Spec
CONSTANTS
  MaxBatches = 1
  Accounts = {a1, a2}
  Videos = {v1, v2}
  PerAccount = {1}
  NoVideo = NoVideo
  MaxStops = 1
  MaxOthers = 0
  MayCancel = FALSE
  MayFail = FALSE
  RecordMayFail = FALSE
  LeaseMayExpire = FALSE
  MayCrash = FALSE
SYMMETRY Symmetry
INVARIANT ConfirmedStayClaimed
CHECK_DEADLOCK FALSE
