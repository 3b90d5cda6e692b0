SPECIFICATION Spec
CONSTANTS
  Ids = {"i1", "i2"}
  Names = {"n1"}
  Procs = {p1, p2}
  Items = {"a", "A", "b", "c", "long", " "}
  KeyOf <- MCKeyOf
  TooLong = {"long"}
  MaxItems = 2
  PrefChoices <- MCPrefChoices
  Lifetime = 1
  MaxTime = 2
  MaxVersion = 2
  MaxTokens = 2
  None = None
SYMMETRY Symmetry
INVARIANTS EventsPaired PrefsClean
PROPERTIES ImplementsSessionStore
CHECK_DEADLOCK FALSE
