\* As MCMission.cfg, with the one property the code does not keep.
CONSTANTS
  MaxItems = 2
  CmdDepth = 2
  MaxUploads = 2
SPECIFICATION MissionSpec
INVARIANT
  NoBlankWaypoint
