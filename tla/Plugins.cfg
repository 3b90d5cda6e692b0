CONSTANTS
  Procs = {p1, p2}
  First = p1
  MaxCalls = 2
  NoProc = NoProc
  Garbage = Garbage
  TooLong = TooLong
  PipeSize = 1
  MaxCrashes = 1
  MaxFaults = 2
SPECIFICATION FairSpec
INVARIANTS TypeOK NoChildLost
PROPERTIES EveryCallReturns DeadIsReplaced CloseTakesAll
CHECK_DEADLOCK FALSE
