----------------------------- MODULE MCPlaylists -----------------------------
(* Instances of Playlists for TLC.                                         *)
EXTENDS Playlists, TLC

Symmetry == Permutations(Procs) \cup Permutations(Lists)
              \cup Permutations(Users) \cup Permutations(Songs)
=============================================================================
