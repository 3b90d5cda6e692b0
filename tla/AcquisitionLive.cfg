SPECIFICATION FairSpec
CONSTANTS
  Users = {u1}
  Songs = {s1, s2}
  None = None
  MinQueue = 2
  Features = {"search", "autopick", "cached", "refill", "add"}
  MaxInFlight = 2
PROPERTIES StubResolved ProbingResolved
CHECK_DEADLOCK FALSE
