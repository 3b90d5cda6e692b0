------------------------------ MODULE MCPlayer ------------------------------
EXTENDS Player, TLC

Symmetry == Permutations(Songs)

\* One end of a song is reported as one finished play (handleSongEnd).
FinishedOnce ==
  [][ringing > 0 /\ ringing < ears
       => \A s \in Songs : CopiesIn(Mark(s), tasks') = CopiesIn(Mark(s), tasks)]_playerVars
=============================================================================
