SPECIFICATION FairSpec
CONSTANTS
  Cmd = {c1, c2}
  c1 = c1
  c2 = c2
  MaxDue = 2
  MaxSleep = 2
INVARIANTS CommandsHeld RequestHeld
PROPERTIES Attended
