SPECIFICATION FairSpec
CONSTANTS
  MaxReadings = 3
  BacklogMax = 2
  Refused <- MCRefused
  MaxBreaks = 2
  Policies <- MCPolicies
  TableOf <- MCTableOf
  TimeOf <- MCTimeOf
  PerSecond = 2
  Keep = 0
  BatchSize = 1
  MaxRows = 1
  MaxTime = 2
  MaxTrouble = 2
  MaxFaults = 2
INVARIANTS TypeOK NothingLost DeletedAreArchived
PROPERTIES InOrder Written Pruned
