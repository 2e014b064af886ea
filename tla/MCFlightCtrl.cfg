\* The return altitude is one step above home, so that home captured on the
\* ground and home captured in flight both let a return pass every phase.
CONSTANTS
  Place <- MCPlace
  Origin = "origin"
  MaxAlt = 2
  RthAltitude = 1
  LandDetect = 1
  FcModes <- MCFcModes
SPECIFICATION FcSpec
INVARIANTS
  FcTypeOK
  LandedMeansTouched
  HoldsWhereEntered
  ReturnDescendsAtHome
