SPECIFICATION RebuildSpec
CONSTANTS
  a1 = a1
  a2 = a2
  m1 = m1
  v1 = v1
  mv = mv
  Act <- MCAct
  Valve <- MCValve
  ValveOf <- MCValveOf
  Master <- MCMaster
  MaxTime = 3
  CleanSecs = 0
  RebuildSecs = 2
  LateSecs = 0
  MaxPlan = 2
SYMMETRY MCSymmetry
INVARIANTS RebuildTypeOK OffMatchesAction ArchivedOnce PlanSeenTo
PROPERTY LedgerSpec
