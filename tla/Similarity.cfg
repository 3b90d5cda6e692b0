SPECIFICATION EngineSpec
CONSTANTS
  Users = {u1}
  Songs = {"s1", "s2"}
  Tracks = {"t1", "t2", "t3"}
  Nameless = Nameless
  None = None
  ArtistOf <- MCArtistOf
  KeyOrder <- MCKeyOrder
  Releases <- MCReleases
  DefaultWeight <- MCDefaultWeight
  PluginAnswers <- MCPluginAnswers
  Era = 3
  CreditsCap = 1
  TopK = 1
  MaxLimit = 3
  DefaultLimit = 2
  TrackOf <- MCTrackOf
  FirstHits <- MCFirstHits
  Stubs = {i1, i2}
  WeightChoices <- MCWeightChoices
  LimitChoices <- MCLimitChoices
  PinChoices <- MCPinChoices
SYMMETRY Symmetry
INVARIANTS EngineTypeOK MergeIsSum GraphBalanced NoStubForgotten
PROPERTIES PickJustified
CHECK_DEADLOCK FALSE
