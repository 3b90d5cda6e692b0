-------------------------------- MODULE Gate --------------------------------
(***************************************************************************)
(* Which of the files that peers offer is the one to download: the title   *)
(* filter of internal/filematch and the quality gate and ranking of        *)
(* internal/download/gate.go, as operators on offers.                      *)
(*                                                                         *)
(* An offer is a file of a peer.  Its codec is a rank (0 flac, 1 mp3,      *)
(* 2 other), its words are those of the normalised file name.  A title is  *)
(* the set of its parts between separators, a part the set of its words.   *)
(***************************************************************************)
EXTENDS Integers, FiniteSets

CONSTANTS
  Words, Stopwords,
  Offers    \* records with the fields of Offer, and those of Downloads

ASSUME OfferAssumption ==
  \A o \in Offers :
    /\ o.codec \in 0..2 /\ o.bitrate \in Nat /\ o.size \in Nat /\ o.queue \in Nat
    /\ o.words \subseteq Words

Title  == SUBSET SUBSET Words
Limits == [minBitrate : Nat, minSize : Nat, maxSize : Nat, maxQueue : Nat]

-----------------------------------------------------------------------------
(* filematch                                                               *)

\* Parts that consist of stopwords only say nothing.
TitleVariants(title) == {part \ Stopwords : part \in title} \ {{}}

ContainsAny(words, variants) ==
  variants = {} \/ \E v \in variants : v \subseteq words

FilterByTitle(R, title) == {o \in R : ContainsAny(o.words, TitleVariants(title))}

-----------------------------------------------------------------------------
(* gate.go: a limit of 0 is no limit, a bitrate or size of 0 is unknown.   *)

Relax(g) == [minBitrate |-> g.minBitrate \div 2, minSize |-> g.minSize \div 2,
             maxSize |-> 2 * g.maxSize, maxQueue |-> 2 * g.maxQueue]

Passes(o, g) ==
  /\ g.minBitrate = 0 \/ o.bitrate = 0 \/ o.bitrate >= g.minBitrate
  /\ g.minSize = 0 \/ o.size = 0 \/ o.size >= g.minSize
  /\ g.maxSize = 0 \/ o.size =< g.maxSize
  /\ g.maxQueue = 0 \/ o.queue =< g.maxQueue

FilterGate(R, g) == {o \in R : Passes(o, g)}

\* Mutant: the shorter queue counts before the bitrate.
BetterByQueue(a, b) ==
  \/ a.codec < b.codec
  \/ a.codec = b.codec /\ a.queue < b.queue
  \/ a.codec = b.codec /\ a.queue = b.queue /\ a.bitrate > b.bitrate

\* The order of ranksort.
Better(a, b) ==
  \/ a.codec < b.codec
  \/ a.codec = b.codec /\ a.bitrate > b.bitrate
  \/ a.codec = b.codec /\ a.bitrate = b.bitrate /\ a.queue < b.queue

\* What may stand at the head of the sorted list: among equals, the one
\* whose answer came first.
Picks(passed) == {o \in passed : \A p \in passed : ~Better(p, o)}
=============================================================================
