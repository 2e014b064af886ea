\* One cycle of confirmation and two of ground station silence: enough for both
\* timers to run, be interrupted and expire.
CONSTANTS
  LandConfirm = 1
  GcsTimeout = 2
  Frames <- MCFrames
  ModeCommands <- MCModeCommands
SPECIFICATION SysmonSpec
INVARIANTS
  SysmonTypeOK
  LostImuLands
  LostRcReturns
  PilotKeepsMode
  SwitchTakesBack
PROPERTIES
  ArmedOnlyWhenSafe
  NoArmingByHeldSwitch
