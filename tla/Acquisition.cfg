SPECIFICATION Spec
CONSTANTS
  Users = {u1, u2}
  Songs = {s1}
  None = None
  MinQueue = 1
  Features = {"search", "reuse", "cached", "refill", "leave", "full", "seedError", "disconnect", "crash"}
  MaxInFlight = 1
SYMMETRY Symmetry
INVARIANTS ReadyIsPlayable OnlyWhoAsked
PROPERTY NeverDemoted
CHECK_DEADLOCK FALSE
