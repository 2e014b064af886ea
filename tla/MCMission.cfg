\* Two uploads, the second longer or shorter than the first.
CONSTANTS
  MaxItems = 2
  CmdDepth = 2
  MaxUploads = 2
SPECIFICATION MissionSpec
INVARIANTS
  MissionTypeOK
  CurrentInRange
  NoStaleItems
  CountsAgree
