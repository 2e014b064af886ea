\* As MCFlightCtrl.cfg, with the one property the code does not keep.
CONSTANTS
  Place <- MCPlace
  Origin = "origin"
  MaxAlt = 2
  RthAltitude = 1
  LandDetect = 1
  FcModes <- MCFcModes
SPECIFICATION FcSpec
INVARIANT
  RthDescendsAtHome
