----------------------------- MODULE Acquisition -----------------------------
(***************************************************************************)
(* How a song reaches a queue: a user searches or the refiller runs, a     *)
(* stub row is inserted, a seeder of bandcamp, discogs or similarity picks *)
(* a track, RequestDownload goes to the queue service and to the download  *)
(* pool, and LoadedSong comes back through the outbox.                     *)
(*                                                                         *)
(* One statement is one step.  A critical section under a user's mutex is  *)
(* one step too: QueueEntries shows that the mutex makes it so.            *)
(***************************************************************************)
EXTENDS Integers, Sequences, FiniteSets, SequencesExt

CONSTANTS
  Users, Songs,
  None,         \* no requester, no operation
  MinQueue,     \* Refiller.minQueueSize
  Features,     \* what a run lets happen
  MaxInFlight   \* bound: no reuse starts above this many events in flight

AllFeatures == {"search", "autopick", "reuse", "cached", "refill", "leave",
                "add", "full", "seedError", "disconnect", "crash"}

ASSUME AcquisitionAssumption ==
  /\ None \notin Users \cup Songs /\ IsFiniteSet(Songs)
  /\ MinQueue \in Nat /\ MaxInFlight \in Nat
  /\ Features \subseteq AllFeatures

VARIABLES
  song,       \* [Songs -> RowState]: rows of queue_songs
  file,       \* [Songs -> BOOLEAN]: queue_songs.url is set
  requester,  \* [Songs -> Users]: queue_songs.requesting_user_id
  entry,      \* [Users -> [Songs -> Status]]: rows of queue_entries
  http,       \* [Users -> Search]: the search handler running for a user
  refill,     \* [Users -> Nat]: stubs the user's Trigger has still to insert
  intents,    \* DiscoveryIntents in the seeders' channels
  toQueue,    \* RequestDownloads for the queue service, in order
  toDownload, \* RequestDownloads for the download pool
  adder,      \* the queue/request-download worker: [song, user]
  loaded,     \* LoadedSongs in the outbox and the queue's channel, in order
  loader,     \* the queue/loaded-song worker: [song, user]
  asked       \* history: [Users -> SUBSET Songs] who requested what

rows    == <<song, file, requester, entry>>
request == <<http, refill>>
events  == <<intents, toQueue, toDownload, loaded>>
workers == <<adder, loader>>
vars    == <<song, file, requester, entry, http, refill, intents, toQueue,
             toDownload, adder, loaded, loader, asked>>

RowState == {"new", "row", "gone"}
Strategy == {"random", "search"}
Request  == [song : Songs, strategy : Strategy]
Loaded   == [song : Songs, status : {"completed", "error", "not_found"}]
Search   == [song : Songs, step : {"append", "claim", "publish", "intent"}]
Work     == [song : Songs, user : Users \cup {None}]

TypeOK ==
  /\ song \in [Songs -> RowState]
  /\ file \in [Songs -> BOOLEAN]
  /\ requester \in [Songs -> Users \cup {None}]
  /\ entry \in [Users -> [Songs -> {"none", "probing", "ready"}]]
  /\ http \in [Users -> Search \cup {None}]
  /\ refill \in [Users -> 0..MinQueue]
  /\ intents \subseteq Request
  /\ toQueue \in Seq(Request) /\ toDownload \in Seq(Request)
  /\ adder \in Work \cup {None}
  /\ loaded \in Seq(Loaded)
  /\ loader \in Work \cup {None}
  /\ asked \in [Users -> SUBSET Songs]

Init ==
  /\ song = [s \in Songs |-> "new"]
  /\ file = [s \in Songs |-> FALSE]
  /\ requester = [s \in Songs |-> None]
  /\ entry = [u \in Users |-> [s \in Songs |-> "none"]]
  /\ http = [u \in Users |-> None]
  /\ refill = [u \in Users |-> 0]
  /\ intents = {} /\ toQueue = <<>> /\ toDownload = <<>>
  /\ adder = None /\ loaded = <<>> /\ loader = None
  /\ asked = [u \in Users |-> {}]

-----------------------------------------------------------------------------
(* Rows and events.                                                        *)

Ask(u, s) == asked' = [asked EXCEPT ![u] = @ \cup {s}]

InsertSongStub(s, u) ==
  /\ song[s] = "new"
  /\ song' = [song EXCEPT ![s] = "row"]
  /\ requester' = [requester EXCEPT ![s] = u]
  /\ Ask(u, s)
  /\ UNCHANGED <<file, entry>>

\* Mutant: the attempt to promote is missing, a probing entry is a duplicate.
NeverPromote(u, s) ==
  entry' = IF song[s] = "row" /\ entry[u][s] = "none"
           THEN [entry EXCEPT ![u][s] = "ready"] ELSE entry

\* PromoteToReady, else appendEntry: the entry is ready unless the song is
\* gone (the foreign key) and is not duplicated (the unique index).
MakeReady(u, s) ==
  entry' = IF song[s] = "row" THEN [entry EXCEPT ![u][s] = "ready"] ELSE entry

\* AppendEntry alone: a duplicate leaves the entry as it is.
AppendEntry(u, s) ==
  entry' = IF song[s] = "row" /\ entry[u][s] = "none"
           THEN [entry EXCEPT ![u][s] = "ready"] ELSE entry

\* Mutant: the insert is an upsert of the status.
UpsertProbingEntry(u, s) ==
  entry' = IF song[s] = "row" THEN [entry EXCEPT ![u][s] = "probing"] ELSE entry

InsertProbingEntry(u, s) ==
  entry' = IF song[s] = "row" /\ entry[u][s] = "none"
           THEN [entry EXCEPT ![u][s] = "probing"] ELSE entry

\* Mutant: foreign keys are off, entries outlive their song.
DeleteSongOnly(s) ==
  /\ song' = [song EXCEPT ![s] = IF @ = "row" THEN "gone" ELSE @]
  /\ UNCHANGED entry

\* ON DELETE CASCADE takes the entries of the song along.
DeleteSong(s) ==
  /\ song' = [song EXCEPT ![s] = IF @ = "row" THEN "gone" ELSE @]
  /\ entry' = [u \in Users |-> [entry[u] EXCEPT ![s] = "none"]]

\* Publish[RequestDownload] to its two subscribers, the queue's channel
\* first.  That the second send comes later is a delay of the download.
PublishRequest(r) ==
  /\ toQueue' = Append(toQueue, r)
  /\ toDownload' = Append(toDownload, r)

Emit(s, status) == loaded' = Append(loaded, [song |-> s, status |-> status])

-----------------------------------------------------------------------------
(* A search by a user.                                                     *)

Start(u, s, step) == http[u] = None /\ http' = [http EXCEPT ![u] = [song |-> s, step |-> step]]
At(u, step)       == http[u] # None /\ http[u].step = step
Respond(u)        == http' = [http EXCEPT ![u] = None]

\* searchAcquire, path 3: FindSongForReuse has nothing for the title.
SearchNew(u, s) ==
  /\ "search" \in Features
  /\ InsertSongStub(s, u)
  /\ Start(u, s, "publish")
  /\ UNCHANGED <<refill, events, workers>>

\* searchAutoPick: the discogs seeder is to pick the track.
SearchAutoPick(u, s) ==
  /\ "autopick" \in Features
  /\ InsertSongStub(s, u)
  /\ Start(u, s, "intent")
  /\ UNCHANGED <<refill, events, workers>>

\* Path 1: the row has a url and the file is there.
SearchCached(u, s) ==
  /\ "cached" \in Features
  /\ song[s] = "row" /\ file[s]
  /\ Start(u, s, "append")
  /\ Ask(u, s)
  /\ UNCHANGED <<rows, refill, events, workers>>

\* Path 2: a row without a url, or whose file has vanished from the disk.
SearchReuse(u, s) ==
  /\ "reuse" \in Features
  /\ song[s] = "row"
  /\ Len(toQueue) + Len(toDownload) + Len(loaded) < MaxInFlight
  /\ Start(u, s, "claim")
  /\ Ask(u, s)
  /\ UNCHANGED <<rows, refill, events, workers>>

AppendCached(u) ==
  /\ At(u, "append")
  /\ AppendEntry(u, http[u].song)
  /\ Respond(u)
  /\ UNCHANGED <<song, file, requester, refill, events, workers, asked>>

UpdateSongRequester(u) ==
  LET s == http[u].song IN
  /\ At(u, "claim")
  /\ requester' = IF song[s] = "row" THEN [requester EXCEPT ![s] = u] ELSE requester
  /\ http' = [http EXCEPT ![u].step = "publish"]
  /\ UNCHANGED <<song, file, entry, refill, events, workers, asked>>

PublishSearch(u) ==
  /\ At(u, "publish")
  /\ PublishRequest([song |-> http[u].song, strategy |-> "search"])
  /\ Respond(u)
  /\ UNCHANGED <<rows, refill, intents, workers, loaded, asked>>

PublishIntent(u) ==
  /\ At(u, "intent")
  /\ intents' = intents \cup {[song |-> http[u].song, strategy |-> "search"]}
  /\ Respond(u)
  /\ UNCHANGED <<rows, refill, toQueue, toDownload, workers, loaded, asked>>

\* The publish blocks on a full channel with the request's ctx; a client
\* that goes away ends it, before the first or before the second send.
Disconnect(u) ==
  /\ "disconnect" \in Features
  /\ At(u, "publish")
  /\ \/ UNCHANGED toQueue
     \/ toQueue' = Append(toQueue, [song |-> http[u].song, strategy |-> "search"])
  /\ Respond(u)
  /\ UNCHANGED <<rows, refill, intents, toDownload, workers, loaded, asked>>

-----------------------------------------------------------------------------
(* The refiller and the seeders.                                           *)

CountEntries(u) == Cardinality({s \in Songs : entry[u][s] # "none"})

\* Trigger reads the count once; GetQueue starts one on every poll.
Trigger(u) ==
  /\ "refill" \in Features
  /\ refill[u] = 0
  /\ CountEntries(u) < MinQueue
  /\ refill' = [refill EXCEPT ![u] = MinQueue - CountEntries(u)]
  /\ UNCHANGED <<rows, http, events, workers, asked>>

\* One turn of its loop.  After 100 ms a full channel loses the intent.
RefillOne(u, s) ==
  /\ refill[u] > 0
  /\ InsertSongStub(s, u)
  /\ refill' = [refill EXCEPT ![u] = @ - 1]
  /\ \/ intents' = intents \cup {[song |-> s, strategy |-> "random"]}
     \/ "full" \in Features /\ UNCHANGED intents
  /\ UNCHANGED <<http, toQueue, toDownload, loaded, workers>>

\* The seeder an intent is routed to finds a track...
SeedPicks(i) ==
  /\ i \in intents
  /\ intents' = intents \ {i}
  /\ PublishRequest(i)
  /\ UNCHANGED <<rows, request, loaded, workers, asked>>

\* Mutant: a seeder that finds nothing just returns.
SeedForgetsStub(i) ==
  /\ i \in intents
  /\ intents' = intents \ {i}
  /\ UNCHANGED <<rows, request, toQueue, toDownload, loaded, workers, asked>>

\* ... or nothing, and has the stub removed ...
SeedFindsNothing(i) ==
  /\ i \in intents
  /\ intents' = intents \ {i}
  /\ Emit(i.song, "error")
  /\ UNCHANGED <<rows, request, toQueue, toDownload, workers, asked>>

\* ... or bandcamp answers with anything else than an empty page.
SeedFails(i) ==
  /\ "seedError" \in Features
  /\ i \in intents /\ i.strategy = "random"
  /\ intents' = intents \ {i}
  /\ UNCHANGED <<rows, request, toQueue, toDownload, loaded, workers, asked>>

-----------------------------------------------------------------------------
(* The download pool and the workers of the queue service.                 *)

\* onRequestDownload of the download service, to its outbox row.  Only a
\* search probes first.
Download(n) ==
  LET r == toDownload[n] IN
  /\ n \in DOMAIN toDownload
  /\ toDownload' = RemoveAt(toDownload, n)
  /\ \/ Emit(r.song, "completed")
     \/ Emit(r.song, "error")
     \/ r.strategy = "search" /\ Emit(r.song, "not_found")
  /\ UNCHANGED <<rows, request, intents, toQueue, workers, asked>>

\* onRequestDownload of the queue service: only a search gets an entry, for
\* the requester it reads before it takes the mutex.
TakeRequest ==
  LET r == Head(toQueue) IN
  /\ adder = None /\ toQueue # <<>>
  /\ toQueue' = Tail(toQueue)
  /\ adder' = IF r.strategy = "search" /\ song[r.song] = "row" /\ requester[r.song] # None
              THEN [song |-> r.song, user |-> requester[r.song]] ELSE None
  /\ UNCHANGED <<rows, request, intents, toDownload, loaded, loader, asked>>

AddProbing ==
  /\ adder # None
  /\ InsertProbingEntry(adder.user, adder.song)
  /\ adder' = None
  /\ UNCHANGED <<song, file, requester, request, events, loader, asked>>

\* onLoadedSong: a completed download first sets the url.
TakeCompleted ==
  LET l == Head(loaded) IN
  /\ loader = None /\ loaded # <<>> /\ l.status = "completed"
  /\ loaded' = Tail(loaded)
  /\ file' = IF song[l.song] = "row" THEN [file EXCEPT ![l.song] = TRUE] ELSE file
  /\ loader' = [song |-> l.song, user |-> None]
  /\ UNCHANGED <<song, requester, entry, request, intents, toQueue, toDownload, adder, asked>>

\* Any other status deletes the row, whatever has become of it.
TakeFailed ==
  LET l == Head(loaded) IN
  /\ loader = None /\ loaded # <<>> /\ l.status # "completed"
  /\ loaded' = Tail(loaded)
  /\ DeleteSong(l.song)
  /\ UNCHANGED <<file, requester, request, intents, toQueue, toDownload, workers, asked>>

\* appendForRequester: without a row or a requester there is nothing to do.
ReadRequester ==
  LET s == loader.song IN
  /\ loader # None /\ loader.user = None
  /\ loader' = IF song[s] = "row" /\ requester[s] # None
               THEN [song |-> s, user |-> requester[s]] ELSE None
  /\ UNCHANGED <<rows, request, events, adder, asked>>

\* Mutant: the song is appended to the queue of whoever uses the service.
AppendForEveryone ==
  /\ loader # None /\ loader.user # None
  /\ entry' = IF song[loader.song] = "row"
              THEN [u \in Users |-> [entry[u] EXCEPT ![loader.song] = "ready"]] ELSE entry
  /\ loader' = None
  /\ UNCHANGED <<song, file, requester, request, events, adder, asked>>

AppendForRequester ==
  /\ loader # None /\ loader.user # None
  /\ MakeReady(loader.user, loader.song)
  /\ loader' = None
  /\ UNCHANGED <<song, file, requester, request, events, adder, asked>>

-----------------------------------------------------------------------------
(* The rest of the service, and the end of a process.                      *)

\* MarkSkipped, MarkFinished and RemoveSong.
Leave(u, s) ==
  /\ "leave" \in Features
  /\ entry[u][s] # "none"
  /\ entry' = [entry EXCEPT ![u][s] = "none"]
  /\ UNCHANGED <<song, file, requester, request, events, workers, asked>>

\* AddSong: any song of the catalog.
AddSong(u, s) ==
  /\ "add" \in Features
  /\ song[s] = "row"
  /\ AppendEntry(u, s)
  /\ Ask(u, s)
  /\ UNCHANGED <<song, file, requester, request, events, workers>>

\* Only rows survive, among them the outbox rows not yet dispatched.
Crash ==
  /\ "crash" \in Features
  /\ http' = [u \in Users |-> None] /\ refill' = [u \in Users |-> 0]
  /\ intents' = {} /\ toQueue' = <<>> /\ toDownload' = <<>>
  /\ adder' = None /\ loader' = None
  /\ \E n \in 1..(Len(loaded) + 1) : loaded' = SubSeq(loaded, n, Len(loaded))
  /\ UNCHANGED <<rows, asked>>

-----------------------------------------------------------------------------

Handler(u) == AppendCached(u) \/ UpdateSongRequester(u) \/ PublishSearch(u)
              \/ PublishIntent(u)
Refilling(u) == \E s \in Songs : RefillOne(u, s)
Seeder     == \E i \in intents : SeedPicks(i) \/ SeedFindsNothing(i) \/ SeedFails(i)
Downloads  == \E n \in DOMAIN toDownload : Download(n)
Adder      == TakeRequest \/ AddProbing
Loader     == TakeCompleted \/ TakeFailed \/ ReadRequester \/ AppendForRequester

Next ==
  \/ \E u \in Users, s \in Songs :
       \/ SearchNew(u, s) \/ SearchAutoPick(u, s) \/ SearchCached(u, s)
       \/ SearchReuse(u, s) \/ Leave(u, s) \/ AddSong(u, s)
  \/ \E u \in Users : Handler(u) \/ Disconnect(u) \/ Trigger(u) \/ Refilling(u)
  \/ Seeder \/ Downloads \/ Adder \/ Loader
  \/ Crash

Spec == Init /\ [][Next]_vars

\* Handlers and workers are scheduled; the services they call answer or
\* time out.  Nobody has to search, and no Trigger has to be started.
FairSpec ==
  /\ Spec
  /\ \A u \in Users : WF_vars(Handler(u)) /\ WF_vars(Refilling(u))
  /\ WF_vars(Seeder) /\ WF_vars(Downloads) /\ WF_vars(Adder) /\ WF_vars(Loader)

-----------------------------------------------------------------------------

\* onRequestDownload and onLoadedSong run in two workers and may see one
\* song in any order: a playable entry never turns back into a spinner.
NeverDemoted ==
  [][\A u \in Users, s \in Songs :
       entry[u][s] = "ready" => entry'[u][s] # "probing"]_vars

\* models.go: "ready - file downloaded, playable."
ReadyIsPlayable ==
  \A u \in Users, s \in Songs :
    entry[u][s] = "ready" => song[s] = "row" /\ file[s]

\* A song surfaces in the queues of users who asked for it, "and only that
\* user's" (appendForRequester), even when the requester changes while a
\* worker is between its read and the mutex.
OnlyWhoAsked ==
  \A u \in Users, s \in Songs : entry[u][s] # "none" => s \in asked[u]

\* What the proofs add: no event is about a song that has no row yet ...
Old == {s \in Songs : song[s] # "new"}

Known ==
  /\ \A i \in intents : i.song \in Old
  /\ toDownload \in Seq([song : Old, strategy : Strategy])
  /\ loaded \in Seq([song : Old, status : {"completed", "error", "not_found"}])
  /\ \A u \in Users : http[u] # None => http[u].song \in Old
  /\ loader # None => loader.song \in Old

\* ... whoever is on record for a song, in its row or in the hands of a
\* handler or a worker, has asked for it ...
Credited ==
  /\ \A s \in Songs : requester[s] # None => s \in asked[requester[s]]
  /\ \A u \in Users : http[u] # None => http[u].song \in asked[u]
  /\ adder # None => adder.user # None /\ adder.song \in asked[adder.user]
  /\ loader # None /\ loader.user # None => loader.song \in asked[loader.user]

\* ... and a song about to be appended has its file, if it still has a row.
Fetched ==
  /\ loader # None /\ song[loader.song] = "row" => file[loader.song]
  /\ \A u \in Users : http[u] # None /\ http[u].step = "append" => file[http[u].song]

IInv    == TypeOK /\ Known /\ Credited /\ OnlyWhoAsked
PlayInv == Fetched /\ ReadyIsPlayable
=============================================================================
