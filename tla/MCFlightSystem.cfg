\* Every timer needs more than one step to expire and can be interrupted.
CONSTANTS
  LandConfirm = 1
  GcsTimeout = 1
  Frames <- MCFrames
  ModeCommands <- MCModeCommands
  Place <- MCPlace
  Origin = "origin"
  MaxAlt = 1
  RthAltitude = 1
  LandDetect = 1
  FcModes <- MCFcModes
  SpoolTime = 1
  Fresh <- MCFresh
  BaroConnected = TRUE
  MaxGusts = 1
SPECIFICATION FsSpec
INVARIANTS
  FsTypeOK
  OutputsSafe
  LostImuFlown
PROPERTIES
  SoftStart
  LandedDisarm
  EmergencyLandingEnds
