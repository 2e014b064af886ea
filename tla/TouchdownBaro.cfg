\* The vehicle as it is built: the sensor agent has no barometer.
CONSTANTS
  LandConfirm = 1
  GcsTimeout = 1
  Frames <- MCFrames
  ModeCommands <- MCModeCommands
  Place <- MCPlace
  Origin = "origin"
  MaxAlt = 2
  RthAltitude = 1
  LandDetect = 1
  FcModes <- MCFcModes
  SpoolTime = 1
  Fresh <- MCFresh
  BaroConnected = FALSE
  MaxGusts = 1
SPECIFICATION FsSpec
PROPERTY
  LandedDisarm
