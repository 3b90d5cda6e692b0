--------------------------- MODULE MCQueueEntries ---------------------------
(* Instances of QueueEntries for TLC.                                      *)
EXTENDS QueueEntries, TLC

\* Goroutines run the same code, and ids and addresses mean nothing.
Symmetry == Permutations(Procs) \cup Permutations(Mutexes)
              \cup Permutations(Users) \cup Permutations(Songs)
=============================================================================
