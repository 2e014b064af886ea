SPECIFICATION GlFairSpec
CONSTANTS
  s1 = s1
  s2 = s2
  TelemDepth = 2
  CmdDepth = 1
  Stations = {s1, s2}
  Local <- MCLocal
  Main <- MCMain
  Requests <- MCRequests
  LowVal = 1
  HighVal = 2
  MainDefault = 2
  LocalDefault = 1
  PvDepth = 1
  Passes = 2
  MaxPackets = 3
  MaxOffered = 1
INVARIANTS GlTypeOK StoresAgree
PROPERTIES RefusedOnlyByRace ImplementsFifo ListComplete NothingHeldForEver
