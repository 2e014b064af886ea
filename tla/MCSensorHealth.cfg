CONSTANTS
  LandConfirm = 0
  GcsTimeout = 1
  Frames <- MCFrames
  ModeCommands = {"ALT_HOLD"}
  ImuTimeout = 2
  RcTimeout = 2
  Followed <- MCFollowed
  Sent <- MCSent
  Overrides <- MCOverrides
  MaxErrors = 2
  MaxPoll = 1
SPECIFICATION ShSpec
INVARIANTS
  ShTypeOK
  TornFrameReplaced
  LinkLossNoticed
  SilentImuLands
PROPERTIES
  ImuJudgedRight
