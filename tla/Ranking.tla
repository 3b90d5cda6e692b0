------------------------------ MODULE Ranking -------------------------------
(***************************************************************************)
(* What the similarity engine computes: the queries a bucket asks Discogs  *)
(* for a seed (internal/similarity/buckets/discogs), the merge of the      *)
(* proposals of all buckets, the filters and the window of the pick        *)
(* (engine.go), and the graph composed of two buckets (graph.go).          *)
(*                                                                         *)
(* A track is an (artist, title) pair up to case and blanks; Nameless      *)
(* stands for those that lack one.  Discogs is a set of releases.          *)
(* A confidence of 1.0 is Sure; scores are weights times confidences.      *)
(***************************************************************************)
EXTENDS Integers, Sequences, FiniteSets, SequencesExt

CONSTANTS
  Tracks, Nameless,
  ArtistOf,       \* [Tracks -> artists]
  KeyOrder,       \* [Tracks -> Nat], the order of candidateKey
  Releases,       \* records with id, track, artist, label, year, styles, genres, credits
  DefaultWeight,  \* [Buckets -> Nat]
  PluginAnswers,  \* what a plugin bucket may propose: sequences of candidates
  Era, CreditsCap, TopK, MaxLimit, DefaultLimit,
  None

\* What a bucket proposes.
Candidate == [track : Tracks \cup {Nameless}, release : Nat, conf : Int]

ASSUME RankingAssumption ==
  /\ Nameless \notin Tracks
  /\ \A t, u \in Tracks : KeyOrder[t] = KeyOrder[u] => t = u
  /\ IsFiniteSet(Releases)
  /\ \A r \in Releases :
       /\ r.id \in Nat \ {0} /\ r.track \in Tracks \cup {Nameless}
       /\ IsFiniteSet(r.styles) /\ IsFiniteSet(r.genres)
  /\ \A b \in DOMAIN DefaultWeight : DefaultWeight[b] \in Nat
  /\ PluginAnswers \subseteq Seq(Candidate)
  /\ {Era, CreditsCap} \subseteq Nat /\ TopK \in Nat \ {0}
  /\ MaxLimit \in Nat /\ DefaultLimit \in 1..MaxLimit

Buckets == DOMAIN DefaultWeight
Sure == 2

-----------------------------------------------------------------------------
(* The buckets.  A seed without a Discogs match asks for nothing.          *)

Unmatched(t) ==
  [track |-> t, artist |-> None, label |-> None, year |-> 0,
   styles |-> {}, genres |-> {}, credits |-> <<>>]

Matched(r) ==
  [track |-> r.track, artist |-> r.artist, label |-> r.label, year |-> r.year,
   styles |-> r.styles, genres |-> r.genres, credits |-> r.credits]

Ask(kind, values) == {[kind |-> kind, value |-> v] : v \in values \ {None}}

Dated(seed, queries) == IF seed.year > 0 THEN queries ELSE {}

SameArtist(seed)   == Ask("artist", {seed.artist})
SameLabelEra(seed) == Dated(seed, Ask("label", {seed.label}))
SameStyleEra(seed) == Dated(seed, Ask("style", seed.styles))
SameGenreEra(seed) == Dated(seed, Ask("genre", seed.genres))

\* The first credited artists of the seed.
Collaborators(seed) ==
  Ask("artist", {seed.credits[i] : i \in (1..Len(seed.credits)) \cap (1..CreditsCap)})

Queries(seed) ==
  [same_artist |-> SameArtist(seed), same_label_era |-> SameLabelEra(seed),
   same_style_era |-> SameStyleEra(seed), same_genre_era |-> SameGenreEra(seed),
   collaborators |-> Collaborators(seed)]

WithinYears(b, seed, r) ==
  \/ b \in {"same_artist", "collaborators"}
  \/ r.year = 0
  \/ r.year - seed.year \in -Era..Era

\* What a query finds for a bucket.  No page is cut, and each pressing of a
\* track is kept.
Hits(b, seed, q) ==
  {r \in Releases :
     /\ r.track # Nameless /\ WithinYears(b, seed, r)
     /\ q.value \in [artist |-> {r.artist}, label |-> {r.label},
                     style |-> r.styles, genre |-> r.genres][q.kind]}

\* The queries run in parallel: their results come in any order, each
\* listed by id.
Arrivals(b, seed, Q) ==
  {f \in SetToSeqs(UNION {{[query |-> q, hit |-> r] : r \in Hits(b, seed, q)} : q \in Q}) :
     \A i, j \in DOMAIN f : i < j /\ f[i].query = f[j].query =>
       /\ f[i].hit.id <= f[j].hit.id
       /\ \A k \in i..j : f[k].query = f[i].query}

\* releasesToCandidates; queries that fail are left out.
Answers(b, seed) ==
  IF b \notin DOMAIN Queries(seed)
  THEN PluginAnswers
  ELSE UNION {{[i \in DOMAIN f |-> [track |-> f[i].hit.track, release |-> f[i].hit.id, conf |-> 0]] :
                 f \in Arrivals(b, seed, Q)} : Q \in SUBSET Queries(seed)[b]}

-----------------------------------------------------------------------------
(* engine.go                                                               *)

BucketWeight(b, tuned) ==
  IF b \notin DOMAIN tuned THEN DefaultWeight[b] ELSE IF tuned[b] < 0 THEN 0 ELSE tuned[b]

Enabled(tuned) == {b \in Buckets : BucketWeight(b, tuned) > 0}

CandidateConfidence(c) == IF c.conf <= 0 THEN Sure ELSE c.conf

\* Mutant: the last proposal of a track replaces the earlier ones.
MergeLast(m, w, seed, c) ==
  IF c.track \in {Nameless, seed.track} THEN m
  ELSE [t \in DOMAIN m \cup {c.track} |->
          IF t # c.track THEN m[t]
          ELSE [score |-> w * CandidateConfidence(c), release |-> c.release]]

\* One candidate of a bucket of weight w enters the merge.
MergeOne(m, w, seed, c) ==
  LET score == w * CandidateConfidence(c)
      known == c.track \in DOMAIN m
  IN IF c.track \in {Nameless, seed.track} THEN m
     ELSE [t \in DOMAIN m \cup {c.track} |->
             IF t # c.track THEN m[t]
             ELSE [score |-> score + IF known THEN m[t].score ELSE 0,
                   release |-> IF known /\ m[t].release # 0 THEN m[t].release
                               ELSE c.release]]

MergeInto(m, w, seed, cands) ==
  LET after[n \in 0..Len(cands)] ==
        IF n = 0 THEN m ELSE MergeOne(after[n - 1], w, seed, cands[n])
  IN after[Len(cands)]

\* Genres and styles of a release, which a user pins alike.
GenresOf(id) == UNION {r.genres \cup r.styles : r \in {x \in Releases : x.id = id}}

\* Mutant: a candidate without a release has no genre that matches.
PassesIfKnown(c, pins, failed) ==
  c.release # 0 /\ ~failed /\ GenresOf(c.release) \cap pins # {}

\* A candidate without a release passes, one whose lookup failed does not.
Passes(c, pins, failed) ==
  c.release = 0 \/ (~failed /\ GenresOf(c.release) \cap pins # {})

RanksBefore(t, u, m) ==
  \/ m[t].score > m[u].score
  \/ m[t].score = m[u].score /\ KeyOrder[t] < KeyOrder[u]

\* The weighted pick may choose any member of the window: a score of 0
\* counts as a little more.
Window(S, m) == {t \in S : Cardinality({u \in S : RanksBefore(u, t, m)}) < TopK}

-----------------------------------------------------------------------------
(* graph.go                                                                *)

SmallerOf(a, b) == IF a < b THEN a ELSE b

ClampLimit(n) == IF n <= 0 THEN DefaultLimit ELSE SmallerOf(n, MaxLimit)

DropSameArtist(cands, seed) ==
  LET out[n \in 0..Len(cands)] ==
        IF n = 0 THEN <<>>
        ELSE IF ArtistOf[cands[n].track] = ArtistOf[seed.track] THEN out[n - 1]
        ELSE Append(out[n - 1], cands[n])
  IN out[Len(cands)]

\* Half each, and what one bucket lacks is filled from the other.
Shares(label, collab, limit) ==
  LET l == SmallerOf(label, limit - SmallerOf(limit - limit \div 2, collab))
  IN [label |-> l, collab |-> SmallerOf(collab, limit - l)]

\* Round robin until one runs out, then the rest of the other.
RoundRobin(a, b) ==
  LET n == SmallerOf(Len(a), Len(b))
      rest == IF Len(a) > n THEN a ELSE b
  IN [i \in 1..Len(a) + Len(b) |->
        IF i > 2 * n THEN rest[i - n]
        ELSE IF i % 2 = 1 THEN a[(i + 1) \div 2] ELSE b[i \div 2]]

Tagged(cands, bucket) ==
  [i \in DOMAIN cands |-> [source |-> cands[i].track, bucket |-> bucket]]

\* Mutant: the shortfall of one bucket is not filled from the other.
ComposeHalves(label, collab, limit) ==
  RoundRobin(Tagged(SubSeq(label, 1, SmallerOf(limit \div 2, Len(label))), "same_label_era"),
             Tagged(SubSeq(collab, 1, SmallerOf(limit - limit \div 2, Len(collab))),
                    "collaborators"))

\* The edges of the graph, in the order in which they are emitted.
ComposeGraph(label, collab, limit) ==
  LET share == Shares(Len(label), Len(collab), limit)
  IN RoundRobin(Tagged(SubSeq(label, 1, share.label), "same_label_era"),
                Tagged(SubSeq(collab, 1, share.collab), "collaborators"))

\* One node for each track, however many edges it has.
Nodes(edges) == {edges[i].source : i \in DOMAIN edges}
=============================================================================
