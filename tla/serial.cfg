SPECIFICATION FairSpec
CONSTANTS
  v1 = v1
  v2 = v2
  AllValves = AllValves
  NoAddr = NoAddr
  Valve <- OneValve
  Thread = {"valve", "poll"}
  SendTries = 2
  FinalTries = 1
  MaxRequests = 2
  MaxFaults = 2
  MaxFrames = 1
  Faults = {"sentence", "zee", "line", "slow", "port", "signal"}
INVARIANTS TypeOK NothingAfterFinal ConfirmedHolds ConfirmedDespiteOne
PROPERTIES InOrder Answered
