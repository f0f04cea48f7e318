SPECIFICATION Spec
CONSTANTS
  a1 = a1
  a2 = a2
  v1 = v1
  v2 = v2
  NoAct = NoAct
  Act <- MCAct
  Valve <- OneValve
  ValveOf <- BothOfOne
  Master <- NoMaster
  MaxTime = 2
  CleanSecs = 0
  RebuildSecs = 2
  MaxStations = 1
  AllOffTries = 2
  Margin = 0
  Faults = {}
  Clients = {"rebuild"}
INVARIANT OffSentWhenDue
