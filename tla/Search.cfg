SPECIFICATION Spec
CONSTANTS
  Requests = {r1, r2}
  Mixes <- MCMixes
  r1 = r1
  r2 = r2
  Faults = {"rate"}
  Blank = Blank
  Keys <- MCKeys
  Api <- MCApi
  OldRows <- MCOldRows
  Burst = 2
  Rate = 1
  TTL = 2
  Start = 2
  End = 3
  Artists = {"a"}
  Titles <- MCTitles
  Bare = {"t3"}
  Sharing = {"t1"}
  Noise = "noise"
  Thin = 2
  Slots = 1
  ItemsAtOnce = 1
  FallbackAtOnce = 1
  MaxProbes = 2
  MaxEntries = 1
  BroadTTL = 0
  PreviewLimit = 1
  PageLimit = 5
  CreditLimit = 2
SYMMETRY Symmetry
INVARIANTS RateKept RepliesTrue DeadlineFrees
CHECK_DEADLOCK FALSE
