CONSTANTS
  Workers = {w1, w2}
  None = None
  Words <- MCWords
  Stopwords <- MCStopwords
  Offers <- MCOffers
  Requests <- MCRequests
  Strict <- MCStrict
  LadderEnough = 2
  MaxRequests = 2
  Features = {"netError", "loginError", "timeout", "stop"}
SPECIFICATION FairSpec
INVARIANTS TypeOK PickIsBest FileExists
PROPERTIES Answered ImplementsVerdicts
CHECK_DEADLOCK FALSE
