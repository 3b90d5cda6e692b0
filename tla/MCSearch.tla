------------------------------ MODULE MCSearch ------------------------------
(* An instance of Previews for TLC, and what is checked of it.             *)
EXTENDS Previews, TLC

CONSTANTS r1, r2

Row(n, i, m, main, a) == [name |-> n, id |-> i, master |-> m, main |-> main, album |-> a]

\* Two pressings of x, a title that does not split, an artist without id;
\* the master of x after its pressing, a master without a pressing.
MCKeys == {"search:q", "search:type=artist:q", "search:type=label:q", "search:genre",
           "artist", "label", "artist:releases", "label:releases"}
Listing ==
  <<Row("x", 1, FALSE, 0, FALSE), Row(Blank, 2, FALSE, 0, TRUE), Row("x", 3, TRUE, 1, FALSE),
    Row("y", 0, TRUE, 0, FALSE), Row("z", 4, TRUE, 5, FALSE)>>
MCApi == [k \in MCKeys |-> IF k \in {"artist", "label"} THEN <<Listing[1]>> ELSE Listing]

Mix(k1, k2) == {r1 :> k1 @@ r2 :> k2, r1 :> k2 @@ r2 :> k1}
MCMixes == Mix("preview", "none") \cup Mix("artist", "credit") \cup Mix("query", "label")
             \cup Mix("byArtist", "byArtist") \cup Mix("items", "none")
Symmetry == Permutations({r1, r2})

MCTitles == <<"t1", "t2", "t3", "t4">>

MCOldRows == {[k \in {} |-> {}], "artist:releases" :> [body |-> 2, at |-> 0]}

-----------------------------------------------------------------------------

\* "The leaked goroutine will eventually drain when gosk recovers; the HTTP
\* handler returns on time": once its deadline has passed, an availability
\* request always has a step of its own to take, and needs neither Soulseek,
\* nor a slot that a search left behind may hold, nor another request.  It
\* has finitely many such steps, so it returns.
DeadlineFrees ==
  \A r \in Requests :
    job[r].kind \in ProbeKinds /\ job[r].step \notin {"idle", "done"} /\ over[r] =>
      ENABLED (Availability(r) \/ \E i \in 1..Len(Titles) : Collect(r, i) \/ Abandon(r, i))

\* Not run, for TLC finds it violated: what a reply shows stays as it was
\* when the handler returned it to be encoded.
ReplyStable ==
  [][\A r \in Requests : job[r].step = "done" => results'[r] = results[r]]_vars

\* Not run, for TLC finds it violated: "returns up to limit releases".
ListsWhole ==
  \A r \in Requests : Answer(r, "list") =>
    LET c == call[<<r, "list">>] IN
    c.body >= (IF Len(Api[c.key]) < c.per THEN Len(Api[c.key]) ELSE c.per)

\* Not run, for TLC finds it violated: a title that one visit found is found
\* by a visit that is answered from the cache of the first.
RevisitAgrees ==
  [][\A r \in Requests :
       job[r].step = "idle" /\ job'[r].step = "done" =>
         \A q \in Requests : job[q].kind = "byArtist" /\ job[q].step = "done"
                               /\ job[q].artist = job'[r].artist
           => results[q] \subseteq results'[r]]_vars
=============================================================================
