SPECIFICATION PlayerSpec
CONSTANTS
  Songs = {A, B}
  None = None
  TaskBound = 1
  EarBound = 2
INVARIANT SongsFollow
SYMMETRY Symmetry
