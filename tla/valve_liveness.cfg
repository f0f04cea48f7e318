SPECIFICATION FairSpec
CONSTANTS
  a1 = a1
  a2 = a2
  v1 = v1
  v2 = v2
  NoAct = NoAct
  Act <- MCAct
  Valve <- OneValve
  ValveOf <- BothOfOne
  Master <- NoMaster
  MaxTime = 2
  CleanSecs = 0
  RebuildSecs = 0
  MaxStations = 1
  AllOffTries = 1
  Margin = 0
  Faults = {"serial", "read", "commit"}
  Clients = {"rebuild"}
PROPERTY RunsEnd
