---------------------------- MODULE MCSimilarity ----------------------------
(* An instance of Similarity for TLC, and the properties it is checked for. *)
EXTENDS Similarity, TLC

MCArtistOf == [t \in Tracks |-> IF t \in {"t1", "t2"} THEN "a1" ELSE "a2"]
MCKeyOrder == [t \in Tracks |-> CASE t = "t1" -> 1 [] t = "t2" -> 2 [] t = "t3" -> 3]

Pressing(id, t, a, y, g, c) ==
  [id |-> id, track |-> t, artist |-> a, label |-> "l", year |-> y,
   styles |-> {}, genres |-> {g}, credits |-> c]

\* t1 and t2 have the same features; t3 has two pressings of two genres, one
\* out of the era of t1; the last release has no title.
MCReleases ==
  {Pressing(1, "t1", "a1", 10, "g", <<"a2", "a1">>), Pressing(2, "t2", "a1", 10, "g", <<"a2", "a1">>),
   Pressing(3, "t3", "a2", 30, "g", <<>>), Pressing(4, "t3", "a2", 11, "h", <<>>),
   Pressing(5, Nameless, "a1", 0, "g", <<>>)}

MCDefaultWeight ==
  [same_artist |-> 3, same_label_era |-> 2, collaborators |-> 0, same_genre_era |-> 0,
   plugin |-> 1]
MCPluginAnswers ==
  {<<[track |-> "t2", release |-> 0, conf |-> 1], [track |-> "t3", release |-> 0, conf |-> -1]>>}

\* The release of the seed s1, or that of another track.
MCFirstHits == {r \in MCReleases : r.id \in {1, 2}}

MCTrackOf == [s \in Songs |-> IF s = "s1" THEN "t1" ELSE Nameless]
MCWeightChoices == {Empty, "same_artist" :> 0 @@ "plugin" :> -1 @@ "same_genre_era" :> 1}
MCLimitChoices == {-1, 9}
MCPinChoices == {{}, {"h"}}

Symmetry == Permutations(Stubs)

-----------------------------------------------------------------------------

\* ports.go: HasEntry "keeps similar mode from queuing the same track twice".
NoTwice ==
  [][\A i \in Stubs : stub[i] = "waiting" /\ stub'[i] = "requested" => asked' # asked]_engineVars

\* service.go and handler.go: a change of the seeds "invalidates the prior
\* lastError", so the error Get shows next is about a seed of the new set.
ErrorIsCurrent ==
  \A u \in Users :
    http[u] = "idle" /\ lastErr[u] \in songs => lastErr[u] \in seeds[u]
=============================================================================
