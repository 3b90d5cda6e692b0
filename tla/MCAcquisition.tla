---------------------------- MODULE MCAcquisition ----------------------------
(* Instances of Acquisition for TLC, and what is checked of them.          *)
EXTENDS Acquisition, TLC

Symmetry == Permutations(Users) \cup Permutations(Songs)

\* No stub is forgotten: it gets a file or it is deleted.
StubResolved ==
  \A s \in Songs : song[s] = "row" ~> (song[s] = "gone" \/ file[s])

\* A spinner goes away: the entry becomes ready, or it is removed.
ProbingResolved ==
  \A u \in Users, s \in Songs : entry[u][s] = "probing" ~> entry[u][s] # "probing"
=============================================================================
