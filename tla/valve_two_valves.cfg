SPECIFICATION Spec
CONSTANTS
  a1 = a1
  a2 = a2
  v1 = v1
  v2 = v2
  NoAct = NoAct
  Act <- MCAct
  Valve <- TwoValves
  ValveOf <- OneOfEach
  Master <- OnlyMaster
  MaxTime = 2
  CleanSecs = 0
  RebuildSecs = 0
  MaxStations = 1
  AllOffTries = 2
  Margin = 0
  Faults = {"serial", "write", "outage"}
  Clients = {"rebuild", "remove", "clear", "manualOff", "allOff", "pocOff", "pocOn"}
INVARIANTS NoOrphan WithinLimit
