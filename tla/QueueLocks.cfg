SPECIFICATION FairSpec
CONSTANTS
  Users = {u1}
  Songs = {s1}
  Procs = {p1, p2}
  Mutexes = {m1, m2, m3}
  None = None
  Ops = {"append", "remove", "finish", "skip"}
  PosBound = 1
  MaxPlays = 1
PROPERTY OperationFinishes
CHECK_DEADLOCK FALSE
