SPECIFICATION Spec
CONSTANTS
  Users = {u1, u2}
  Songs = {s1, s2}
  Procs = {p1, p2}
  Mutexes = {m1, m2, m3}
  None = None
  Ops = {"probe", "loaded"}
  PosBound = 1
  MaxPlays = 1
SYMMETRY Symmetry
INVARIANTS UniquePositions MutualExclusion IInv
PROPERTY ImplementsPlayQueue
CHECK_DEADLOCK FALSE
