SPECIFICATION FairSpec
CONSTANTS
  Remind = 3
  ErrorRemind = 3
  Holdoff = 2
  Faults = {"mail", "error", "kill"}
  MaxCuts = 1
PROPERTIES NoRepeat NeverSilent
