SPECIFICATION Spec
CONSTANTS
  s1 = s1
  s2 = s2
  s3 = s3
  mv = mv
  Stn <- MCStn
  Order <- MCOrder
  Master = mv
  Settings <- MCSettings
  MinCycle = 2
  CleanTime = 1
  NDays = 1
  DayLen = 7
  ShutFor = {1, 3}
  MaxTime <- MCMaxTime
  MaxChanges = 1
INVARIANTS WithinLimits Soaked NoMoreThanAsked NoNeedlessShortfall
PROPERTIES WorthIt Stable Ends
