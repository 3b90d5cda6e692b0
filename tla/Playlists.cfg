SPECIFICATION Spec
CONSTANTS
  Users = {u1, u2}
  Lists = {l1, l2, l3}
  Songs = {s1}
  Procs = {p1, p2}
  None = None
  PosBound = 2
SYMMETRY Symmetry
INVARIANTS OneLiked LikesGoToLiked NoOrphans
CHECK_DEADLOCK FALSE
