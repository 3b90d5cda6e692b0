----------------------------- MODULE Similarity -----------------------------
(***************************************************************************)
(* Similar mode (internal/similarity): the seed set, weights and graph     *)
(* settings of a user, the handlers that change them, the worker that      *)
(* turns an intent of the refiller into a pick, and the error the handler  *)
(* shows.  Ranking says what a pick and a graph are.                       *)
(*                                                                         *)
(* The worker takes one intent at a time.  A pick reads the seed, then the *)
(* weights; one goroutine per enabled bucket adds its proposals to the     *)
(* merge under a mutex, in any order; when all are done, the queue is read *)
(* for each candidate, then the pins, then Discogs for the genres of each  *)
(* survivor, and one track is requested.  Each read is a step of its own,  *)
(* and may fail; the user goes on in between.  A handler of the seeds is   *)
(* two steps, since the worker runs between the write and the reset of the *)
(* error; its reply, like Get, only reads.                                 *)
(***************************************************************************)
EXTENDS Ranking

CONSTANTS
  Users, Songs,
  TrackOf,        \* [Songs -> Tracks \cup {Nameless}]: a stub has no title yet
  FirstHits,      \* the releases SearchQuery may list first
  Stubs,          \* bounds the intents: each fills one stub
  WeightChoices,  \* what PUT /weights may send
  LimitChoices,   \* what PUT /graph-settings and ?limit= may send
  PinChoices      \* genres a user may pin

\* SetWeights stores no negative weight.
Stored(w) == [b \in DOMAIN w |-> IF w[b] < 0 THEN 0 ELSE w[b]]

Empty == [x \in {} |-> 0]
Tunings == {Empty} \cup {Stored(w) : w \in WeightChoices}

\* An intent, and the same with the weights as the pick has read them.
Intents == [stub : Stubs, user : Users, song : Songs]
Jobs == Intents \cup [stub : Stubs, user : Users, song : Songs, weights : Tunings]

ASSUME SimilarityAssumption ==
  /\ TrackOf \in [Songs -> Tracks \cup {Nameless}]
  /\ None \notin Users \cup Songs \cup Jobs
  /\ FirstHits \subseteq Releases
  /\ \A w \in WeightChoices : DOMAIN w \subseteq Buckets /\ \A b \in DOMAIN w : w[b] \in Int
  /\ LimitChoices \subseteq Int

\* ReadSeed takes the features of whatever release the search lists first,
\* when Discogs answers; artist and title stay those of the row.
Hydrations(s) ==
  {Unmatched(TrackOf[s])} \cup {[Matched(r) EXCEPT !.track = TrackOf[s]] : r \in FirstHits}

\* Computed once for every seed that can be read.
AnswersTo ==
  [b \in Buckets |-> [h \in UNION {Hydrations(s) : s \in Songs} |-> Answers(b, h)]]

VARIABLES
  songs,    \* queue_songs
  seeds,    \* user_similarity_seeds
  tuned,    \* bucket_weights: a partial function, empty when never set
  limit,    \* graph_node_limit: 0 when never set
  pins,     \* the user's pinned Discogs genres
  entries,  \* queue_entries, as <<user, track>>
  asked,    \* RequestDownload events the queue has not handled yet
  lastErr,  \* service.lastErrs: the seed whose pick failed, or None
  stub,     \* Stubs -> "new", "waiting", "requested" or "reaped"
  intents,  \* the worker's channel
  job, at,  \* the intent the worker has, and where it is
  seed,     \* the seed as read, with its Discogs features
  running,  \* buckets whose goroutine has not finished
  merge, said,  \* the merge, and what each bucket proposed (history)
  seen,     \* candidates the loop has gone over, that of the dedup or the filter
  pool,     \* the candidates found not to be in the queue
  pinned, kept,  \* the pins as read, and who of the pool passed the filter
  picked,   \* what pick returned
  lost,     \* the reads of this pick that failed (history)
  during,   \* what the user's data were while this pick read them (history)
  http,     \* Users -> what the user's request does next
  graph     \* the graph a request is about to be answered, or None

songVars   == <<songs, entries, asked>>
settings   == <<tuned, limit, pins>>
sieve      == <<seen, pool, pinned, kept, picked, lost>>
pickVars   == <<stub, intents, job, at, seed, running, merge, said, sieve>>
workerVars == <<pickVars, during>>
engineVars == <<songVars, seeds, settings, lastErr, workerVars, http, graph>>

NoSeed    == Unmatched(Nameless)
NoneLost  == [pins |-> FALSE, entry |-> {}, genres |-> {}]
NoMoments == [pins |-> {}, free |-> {}, taken |-> {}]

EngineInit ==
  /\ songs = Songs /\ seeds = [u \in Users |-> {}]
  /\ tuned = [u \in Users |-> Empty] /\ limit = [u \in Users |-> 0]
  /\ pins = [u \in Users |-> {}]
  /\ entries = {} /\ asked = {}
  /\ lastErr = [u \in Users |-> None]
  /\ stub = [i \in Stubs |-> "new"] /\ intents = <<>>
  /\ job = None /\ at = "idle" /\ seed = NoSeed
  /\ running = {} /\ merge = Empty /\ said = Empty
  /\ seen = {} /\ pool = {} /\ pinned = {} /\ kept = {} /\ picked = None
  /\ lost = NoneLost /\ during = NoMoments
  /\ http = [u \in Users |-> "idle"]
  /\ graph = None

\* History: the pins and the queue of the user at the moments at which the
\* pick may read them, between the merge and the filter.
Record ==
  LET u == job'.user
      taken == {t \in Tracks : <<u, t>> \in entries'}
  IN during' = IF at' = "fanout" /\ running' = {}
               THEN [pins |-> during.pins \cup {pins'[u]}, taken |-> during.taken \cup taken,
                     free |-> during.free \cup (Tracks \ taken)]
               ELSE during

-----------------------------------------------------------------------------
(* The handlers                                                            *)

\* The statements of the repository; a foreign key refuses a song that is
\* gone.
ReplaceSeeds(u, S)  == S \subseteq songs /\ seeds' = [seeds EXCEPT ![u] = S]
InsertSeed(u, s)    == s \in songs /\ seeds' = [seeds EXCEPT ![u] = @ \cup {s}]
DeleteSeed(u, s)    == seeds' = [seeds EXCEPT ![u] = @ \ {s}]
SetWeights(u, w)    == tuned' = [tuned EXCEPT ![u] = Stored(w)]
SetGraphLimit(u, n) == limit' = [limit EXCEPT ![u] = IF n < 1 THEN 0 ELSE SmallerOf(n, MaxLimit)]

WroteSeeds(u) ==
  /\ http[u] = "idle"
  /\ http' = [http EXCEPT ![u] = "clear"]
  /\ UNCHANGED <<songVars, settings, lastErr, workerVars, graph>>

\* An empty list leaves similar mode.
Set(u)        == WroteSeeds(u) /\ \E S \in SUBSET Songs : ReplaceSeeds(u, S)
AddSeed(u)    == WroteSeeds(u) /\ \E s \in Songs : InsertSeed(u, s)
RemoveSeed(u) == WroteSeeds(u) /\ \E s \in Songs : DeleteSeed(u, s)

ClearLastError(u) ==
  /\ http[u] = "clear"
  /\ lastErr' = [lastErr EXCEPT ![u] = None]
  /\ http' = [http EXCEPT ![u] = "idle"]
  /\ UNCHANGED <<songVars, seeds, settings, workerVars, graph>>

\* The reply to a request for the graph.
Reply(u) ==
  /\ http[u] = "reply"
  /\ http' = [http EXCEPT ![u] = "idle"] /\ graph' = None
  /\ UNCHANGED <<songVars, seeds, settings, lastErr, workerVars>>

\* Mutant: a negative weight is stored as it came.
PutWeightsRaw(u) ==
  /\ http[u] = "idle"
  /\ \E w \in WeightChoices : tuned' = [tuned EXCEPT ![u] = w]
  /\ UNCHANGED <<songVars, seeds, limit, pins, lastErr, workerVars, http, graph>>

\* SetWeights replaces them all.
PutWeights(u) ==
  /\ http[u] = "idle"
  /\ \E w \in WeightChoices : SetWeights(u, w)
  /\ UNCHANGED <<songVars, seeds, limit, pins, lastErr, workerVars, http, graph>>

\* Bound: while the worker, to which the limit is nothing, is idle.
PutGraphSettings(u) ==
  /\ http[u] = "idle" /\ at = "idle"
  /\ \E n \in LimitChoices : SetGraphLimit(u, n)
  /\ UNCHANGED <<songVars, seeds, tuned, pins, lastErr, workerVars, http, graph>>

PutPreferences(u) ==
  /\ http[u] = "idle"
  /\ \E P \in PinChoices : pins' = [pins EXCEPT ![u] = P]
  /\ UNCHANGED <<songVars, seeds, tuned, limit, lastErr, pickVars, http, graph>>
  /\ Record

\* A bucket that is not registered has no neighbours.
Neighbours(b, h) == IF b \in Buckets THEN AnswersTo[b][h] ELSE {<<>>}

\* ExploreGraph: the two buckets run in parallel and may fail; a song that
\* has no title yet has no neighbours.
ExploreGraph(s, lim) ==
  IF TrackOf[s] = Nameless
  THEN {[center |-> s, limit |-> lim, label |-> <<>>, collab |-> <<>>, edges |-> <<>>]}
  ELSE UNION {{LET label == DropSameArtist(a, h)
                   collab == DropSameArtist(b, h)
               IN [center |-> s, limit |-> lim, label |-> label, collab |-> collab,
                   edges |-> ComposeGraph(label, collab, lim)] :
                 a \in Neighbours("same_label_era", h), b \in Neighbours("collaborators", h)} :
               h \in Hydrations(s)}

\* An explicit ?limit= wins over the stored one.  Bound: the worker, which
\* shares nothing with a graph but the queries, is idle.
Graph(u) ==
  /\ http[u] = "idle" /\ at = "idle"
  /\ http' = [http EXCEPT ![u] = "reply"]
  /\ \E s \in songs, n \in {x \in LimitChoices : x >= 1} \cup {limit[u]} :
       graph' \in ExploreGraph(s, ClampLimit(n))
  /\ UNCHANGED <<songVars, seeds, settings, lastErr, workerVars>>

-----------------------------------------------------------------------------
(* The rest of the program                                                 *)

\* refiller.go: Trigger picks one of the seeds for each stub it inserts.
\* Bound: one intent is in the channel.
Refill(u) ==
  /\ intents = <<>>
  /\ \E i \in Stubs, s \in seeds[u] :
       /\ stub[i] = "new"
       /\ stub' = [stub EXCEPT ![i] = "waiting"]
       /\ intents' = <<[stub |-> i, user |-> u, song |-> s]>>
  /\ UNCHANGED <<songVars, seeds, settings, lastErr, job, at, seed, running, merge, said, sieve,
                 during, http, graph>>

\* A song row goes; the seed sets lose it by cascade.
DeleteSong(s) ==
  /\ s \in songs
  /\ songs' = songs \ {s}
  /\ seeds' = [u \in Users |-> seeds[u] \ {s}]
  /\ UNCHANGED <<entries, asked, settings, lastErr, workerVars, http, graph>>

\* The queue's RequestDownload handler appends the entry some time later,
\* during a later pick it may be.
QueueAdds ==
  /\ \E r \in asked : asked' = asked \ {r} /\ entries' = entries \cup {r}
  /\ UNCHANGED <<songs, seeds, settings, lastErr, pickVars, http, graph>>
  /\ Record

\* The user skips or finishes a track.
QueueDrops ==
  /\ \E e \in entries : entries' = entries \ {e}
  /\ UNCHANGED <<songs, asked, seeds, settings, lastErr, pickVars, http, graph>>
  /\ Record

-----------------------------------------------------------------------------
(* The worker                                                              *)

\* Bound: no graph is about to be answered.
TakeIntent ==
  /\ at = "idle" /\ intents # <<>> /\ graph = None
  /\ job' = Head(intents) /\ intents' = Tail(intents)
  /\ at' = "read"
  /\ UNCHANGED <<songVars, seeds, settings, lastErr, stub, seed, running, merge, said, sieve,
                 during, http, graph>>

\* What is left of a pick is forgotten.
Rest ==
  /\ job' = None /\ at' = "idle" /\ seed' = NoSeed
  /\ running' = {} /\ merge' = Empty /\ said' = Empty
  /\ seen' = {} /\ pool' = {} /\ pinned' = {} /\ kept' = {} /\ picked' = None
  /\ lost' = NoneLost /\ during' = NoMoments

\* Mutant: the stub is not cleaned up.
FailSilently ==
  /\ lastErr' = [lastErr EXCEPT ![job.user] = job.song]
  /\ stub' = stub
  /\ Rest

\* cleanupOrphanedStub: LoadedSong(error) makes the queue delete the stub.
Fail ==
  /\ lastErr' = [lastErr EXCEPT ![job.user] = job.song]
  /\ stub' = [stub EXCEPT ![job.stub] = "reaped"]
  /\ Rest

\* The row may be gone or be a stub itself.
ReadSeed ==
  /\ at = "read"
  /\ IF job.song \notin songs \/ TrackOf[job.song] = Nameless
     THEN Fail
     ELSE /\ at' = "weigh" /\ seed' \in Hydrations(job.song)
          /\ UNCHANGED <<lastErr, stub, job, running, merge, said, sieve, during>>
  /\ UNCHANGED <<songVars, seeds, settings, intents, http, graph>>

\* A read of the weights that fails gives the defaults, as empty ones do.
FanOut ==
  /\ at = "weigh"
  /\ \E w \in {tuned[job.user], Empty} :
       /\ job' = [stub |-> job.stub, user |-> job.user, song |-> job.song, weights |-> w]
       /\ running' = Enabled(w)
  /\ at' = "fanout"
  /\ UNCHANGED <<songVars, seeds, settings, lastErr, stub, intents, seed, merge, said, sieve,
                 http, graph>>
  /\ Record

\* The goroutine of one bucket: its answer, or nothing when it fails.
BucketReturns ==
  /\ at = "fanout"
  /\ \E b \in running : \E cands \in AnswersTo[b][seed] \cup {<<>>} :
       /\ running' = running \ {b}
       /\ merge' = MergeInto(merge, BucketWeight(b, job.weights), seed, cands)
       /\ said' = [x \in DOMAIN said \cup {b} |-> IF x = b THEN cands ELSE said[x]]
  /\ UNCHANGED <<songVars, seeds, settings, lastErr, stub, intents, job, at, seed, sieve,
                 http, graph>>
  /\ Record

HasEntry(u, t) == <<u, t>> \in entries

\* One candidate of the merge, in any order.  A read that fails gives what one
\* without a row gives.
CheckEntry ==
  /\ at = "fanout" /\ running = {}
  /\ \E t \in DOMAIN merge \ seen, failed \in BOOLEAN :
       /\ failed => HasEntry(job.user, t)
       /\ seen' = seen \cup {t}
       /\ pool' = IF HasEntry(job.user, t) /\ ~failed THEN pool ELSE pool \cup {t}
       /\ lost' = IF failed THEN [lost EXCEPT !.entry = @ \cup {t}] ELSE lost
  /\ UNCHANGED <<songVars, seeds, settings, lastErr, stub, intents, job, at, seed, running,
                 merge, said, pinned, kept, picked, during, http, graph>>

\* Every bucket has answered, and every candidate was looked up in the queue.
Deduped == at = "fanout" /\ running = {} /\ seen = DOMAIN merge

\* No bucket proposed anything, or the user has it all.
NoCandidates ==
  /\ Deduped /\ pool = {}
  /\ Fail
  /\ UNCHANGED <<songVars, seeds, settings, intents, http, graph>>

\* Without the preferences, or pins, no filter.
ReadPins ==
  /\ Deduped /\ pool # {}
  /\ pinned' \in {pins[job.user], {}}
  /\ lost' = [lost EXCEPT !.pins = pinned' # pins[job.user]]
  /\ at' = "filter" /\ seen' = {}
  /\ UNCHANGED <<songVars, seeds, settings, lastErr, stub, intents, job, seed, running,
                 merge, said, pool, kept, picked, during, http, graph>>

\* filterByGenres asks Discogs for one survivor, and waits.
GenresFor ==
  /\ at = "filter" /\ pinned # {}
  /\ \E t \in pool \ seen, failed \in BOOLEAN :
       /\ failed => merge[t].release # 0
       /\ seen' = seen \cup {t}
       /\ kept' = IF Passes(merge[t], pinned, failed) THEN kept \cup {t} ELSE kept
       /\ lost' = IF failed THEN [lost EXCEPT !.genres = @ \cup {t}] ELSE lost
  /\ UNCHANGED <<songVars, seeds, settings, lastErr, stub, intents, job, at, seed, running,
                 merge, said, pool, pinned, picked, during, http, graph>>

\* A filter that leaves nothing is ignored.
Choose ==
  /\ at = "filter" /\ (pinned = {} \/ seen = pool)
  /\ picked' \in Window(IF kept = {} THEN pool ELSE kept, merge)
  /\ lastErr' = [lastErr EXCEPT ![job.user] = None]
  /\ at' = "publish"
  /\ seen' = {} /\ pool' = {} /\ pinned' = {} /\ kept' = {}
  /\ UNCHANGED <<songVars, seeds, settings, stub, intents, job, seed, running, merge, said,
                 lost, during, http, graph>>

PublishRequest ==
  /\ at = "publish"
  /\ asked' = asked \cup {<<job.user, picked>>}
  /\ stub' = [stub EXCEPT ![job.stub] = "requested"]
  /\ Rest
  /\ UNCHANGED <<songs, entries, seeds, settings, lastErr, intents, http, graph>>

-----------------------------------------------------------------------------
Worker ==
  \/ TakeIntent \/ ReadSeed \/ FanOut \/ BucketReturns \/ CheckEntry \/ NoCandidates
  \/ ReadPins \/ GenresFor \/ Choose \/ PublishRequest

EngineNext ==
  \/ \E u \in Users :
       \/ Set(u) \/ AddSeed(u) \/ RemoveSeed(u) \/ ClearLastError(u) \/ Reply(u)
       \/ PutWeights(u) \/ PutGraphSettings(u) \/ PutPreferences(u) \/ Graph(u)
       \/ Refill(u)
  \/ \E s \in Songs : DeleteSong(s)
  \/ QueueAdds \/ QueueDrops
  \/ Worker

EngineSpec == EngineInit /\ [][EngineNext]_engineVars

-----------------------------------------------------------------------------
EngineTypeOK ==
  /\ songs \subseteq Songs /\ seeds \in [Users -> SUBSET songs]
  /\ DOMAIN tuned = Users /\ \A u \in Users : \A b \in DOMAIN tuned[u] : tuned[u][b] \in Nat
  /\ limit \in [Users -> 0..MaxLimit]
  /\ entries \cup asked \subseteq Users \X Tracks
  /\ lastErr \in [Users -> Songs \cup {None}]
  /\ stub \in [Stubs -> {"new", "waiting", "requested", "reaped"}]
  /\ Len(intents) <= 1
  /\ at \in {"idle", "read", "weigh", "fanout", "filter", "publish"}
  /\ (at = "idle" <=> job = None)
  /\ kept \subseteq pool /\ pool \subseteq DOMAIN merge /\ seen \subseteq DOMAIN merge
  /\ (at = "publish" => picked \in DOMAIN merge)
  /\ running \cap DOMAIN said = {} /\ DOMAIN merge \subseteq Tracks \ {seed.track}
  /\ http \in [Users -> {"idle", "clear", "reply"}]

\* No stub is forgotten: one that is not yet filled or reaped is in the
\* channel or in the worker's hands, also when its seed was deleted, has no
\* title or Discogs said nothing.
NoStubForgotten ==
  \A i \in Stubs :
    stub[i] = "waiting" <=> \/ at # "idle" /\ job.stub = i
                            \/ \E k \in DOMAIN intents : intents[k].stub = i

\* The proposals of the buckets that have answered, those of one track, and
\* what each of them is worth.
Proposals == UNION {{b} \X DOMAIN said[b] : b \in DOMAIN said}
Naming(t) == {x \in Proposals : said[x[1]][x[2]].track = t}
Points(x) == BucketWeight(x[1], job.weights) * CandidateConfidence(said[x[1]][x[2]])

\* The merge under the mutex loses nothing, in whatever order the buckets
\* come: a track is in it when an enabled bucket proposed it and it is not
\* the seed, with the sum of what the buckets give it (a pair for each
\* point, counted); and it is without a release only when no bucket knew one.
MergeIsSum ==
  at \in {"fanout", "filter", "publish"} /\ running = {} =>
    /\ DOMAIN merge = {t \in Tracks \ {seed.track} : Naming(t) # {}}
    /\ \A t \in DOMAIN merge :
         /\ merge[t].score = Cardinality(UNION {{x} \X (1..Points(x)) : x \in Naming(t)})
         /\ merge[t].release \in {said[x[1]][x[2]].release : x \in Naming(t)}
         /\ merge[t].release = 0 => \A x \in Naming(t) : said[x[1]][x[2]].release = 0

\* The pins the pick may have read: those of some moment of the reading, or
\* none when the read failed.
MaybePins == during.pins \cup (IF lost.pins THEN {{}} ELSE {})

\* Candidates that nothing excluded: never in the queue while it was read, and
\* with the pins P, without a release or of a genre that Discogs told.
Rivals(P) ==
  {u \in DOMAIN merge \ during.taken :
     \/ P = {} \/ merge[u].release = 0
     \/ u \notin lost.genres /\ GenresOf(merge[u].release) \cap P # {}}

\* What a requested track has to be: one that a bucket the user left on
\* proposed, not the seed, and not in the queue at some moment of the reading;
\* and for pins of some moment, not below TopK rivals, and of a release
\* without a pinned genre only when there is no rival.
Justified(t) ==
  /\ t # seed.track /\ t \in during.free \cup lost.entry
  /\ \E b \in DOMAIN said :
       /\ BucketWeight(b, job.weights) > 0
       /\ \E i \in DOMAIN said[b] : said[b][i].track = t
  /\ \E P \in MaybePins :
       /\ Cardinality({u \in Rivals(P) : merge[u].score > merge[t].score}) < TopK
       /\ P # {} /\ merge[t].release # 0 /\ GenresOf(merge[t].release) \cap P = {}
            => Rivals(P) = {}

\* Whatever the user stores, queues or drops while the worker reads and waits
\* for Discogs, every request is for the user of the intent, and justified by
\* the merge, and by pins and a queue that were the user's while that pick
\* read them.
PickJustified ==
  [][\A r \in asked' \ asked : r[1] = job.user /\ Justified(r[2])]_engineVars

\* The graph shows as many neighbours as the limit allows and the buckets
\* have, each bucket at least its half or all it has, and none of the
\* centre's own artist.
Balanced(g) ==
  LET count(b) == Cardinality({i \in DOMAIN g.edges : g.edges[i].bucket = b})
      L == Len(g.label)
      C == Len(g.collab)
      half == g.limit \div 2
  IN /\ Len(g.edges) = SmallerOf(g.limit, L + C)
     /\ count("same_label_era") >= SmallerOf(L, half)
     /\ count("collaborators") >= SmallerOf(C, g.limit - half)
     /\ \A t \in Nodes(g.edges) : ArtistOf[t] # ArtistOf[TrackOf[g.center]]

GraphBalanced == graph # None => Balanced(graph)
=============================================================================
