# A TLA+ verification of muzikaLite

muzikaLite is a single Go process (plus a Vue front end) that plays music a
user does not own yet: a search or an automatic refill puts a *stub* into the
song catalog, a seeder chooses artist and title, a download worker fetches the
file from Soulseek, and the song appears in the user's play queue.  Everything
is kept in one SQLite file, and the parts talk to each other over an in-process
event bus whose state-change events go through a transactional outbox.

This directory holds TLA+ models of the parts that interact, TLC configurations
that check them on small instances, and TLAPS proofs about each of the parts:
the play queue and the page that plays it, the outbox, the acquisition of songs,
the download service, the plugins and the engine that calls them, the sessions,
the playlists, and the rate limit and replies of search.

    tlc -workers 2 -config Outbox.cfg MCOutbox       # any run of the table below
    tlapm QueueEntriesProofs.tla                      # proofs about the queue and the page
    tlapm OutboxProofs.tla                            # proofs about the outbox
    tlapm DownloadsProofs.tla                         # proofs about downloads
    tlapm AcquisitionProofs.tla                       # proofs about the life of a song
    tlapm SimilarityProofs.tla                        # proofs about the engine and its plugins
    tlapm SessionsProofs.tla                          # proofs about accounts and tokens
    tlapm PlaylistsProofs.tla                         # proofs about playlists
    tlapm PreviewsProofs.tla                          # proofs about the rate limit and replies

## 1. Inventory of the system

| Component (source) | State it keeps | Operations | Talks to |
|---|---|---|---|
| Queue service (`internal/queue/service.go`, `repo.go`) | `queue_entries`, `queue_user_songs`, `queue_songs`; `userLocks`, one mutex per user | AddSong, RemoveSong, MarkSkipped, MarkFinished, GetQueue, Search (acquire, auto-pick), workers for UserCreated, UserDeleted, LoadedSong, RequestDownload | publishes RequestDownload and DiscoveryIntent; starts the refiller |
| Refiller (`internal/queue/refiller.go`) | none of its own; counts `queue_entries` | Trigger | inserts stubs, publishes DiscoveryIntent |
| Seeders (`internal/bandcamp`, `internal/discogs/worker.go`, `internal/similarity/service.go`) | – | onDiscoveryIntent | read DiscoveryIntent; publish RequestDownload, or LoadedSong(error) through the outbox |
| Download worker (`internal/download`) | the transfer it waits for | onRequestDownload: probe, ladder of queries, gate, transfer | Soulseek; LoadedSong through the outbox |
| Bus and outbox (`internal/bus`) | channels of the subscribers, table `outbox`, the wake channel | Subscribe, Publish, InsertOutboxTx, Wake, drainOnce, Stop, RunPool | everything |
| Process (`cmd/muzika/main.go`) | – | start, serve, graceful shutdown | starts the dispatcher, the services, the HTTP server |
| Playlists (`internal/playlist`) | `playlist_playlists`, `playlist_songs` | Create, Delete, AddSong, RemoveSong, AddAlbum, listing, workers for UserCreated, LikedSong, UnlikedSong | the outbox; Discogs and the queue for an album |
| Accounts (`internal/auth`) | `auth_users` with `token_version` | Register, Login, LogoutAll, Delete | UserCreated and UserDeleted through the outbox; cascades |
| Similarity (`internal/similarity`) | bucket weights, seeds, pinned genres, the last error of each user | pick (fan-out over buckets, merge, filters, weighted choice), settings, graph | Discogs buckets, plugins; RequestDownload, LoadedSong(error) |
| Plugins (`internal/similarity/plugin`) | child processes, requests in flight | Call, Close, supervise | JSON-RPC over pipes |
| Discogs client (`internal/discogs`) | token bucket, `discogs_cache` | Search, Preview, Artist, ... | HTTP |
| Search preview (`internal/search`) | process-wide search gate, broad-search cache | Preview, Artist, Label, Release, CheckAvailability, CheckByArtistAvailability | Discogs, Soulseek |
| Soulseek (`internal/soulseek`, `third_party/soul`) | session, transfers | Login, Search, Download, DownloadStatus | the network |
| Preferences (`internal/preferences`) | `user_bandcamp_tags`, `user_discogs_genres` | Get, Replace | – |
| Discovery log, config, static files, migrations | rows, files | single statements, parsing | – |
| Front end (`frontend/src`) | player, queue, playlist, similar stores | play, next, fetchQueue, polling | the HTTP API |
| Deployment (`deploy`) | the installed binary | update, rollback | systemd |

### What is hard about it

* **Concurrency.** SQLite runs on one connection, so statements do not overlap,
  but several operations are two or more statements (MAX, then INSERT; find,
  then create), each handler is a goroutine, and every event type has its own
  channel and workers.  Order between event types is therefore arbitrary.
* **Mutexes that go away.** `onUserDeleted` drops a user's mutex from the map
  while others may hold it or wait for it.
* **Failure.** Full channels, requests whose client disconnects, seeder and
  transfer errors, crashes at any point.  What survives is the rows.
* **Liveness.** A stub must not stay a stub, a spinner must end, an event in
  the outbox must reach its handlers without relying on a poll.

### What correctness means, by component

* Queue: a user's queue is a list; entries have distinct positions; the mutex
  excludes; a goroutine that asks for a mutex gets it.
* Acquisition: a song appears only for those who asked, `ready` means playable,
  `ready` never becomes `probing` again; stubs and spinners are resolved.
* Outbox: nothing is deleted before it was handed to every subscriber, order is
  kept, no wake-up is lost, poisoned rows and full channels do not stop it.
* Playlists: one liked playlist per user, likes reach it, no orphan rows.
* Downloads: the best file that any search found is transferred, an announced
  file exists, every request is answered once.
* Plugins: calls return, dead processes are replaced, no child outlives Close.
* Accounts: a token that expired or was revoked is never let in again, only the
  account itself revokes, and each account and its end is announced once.
* Preferences: what is stored is normalised, bounded and belongs to an account.
* Similarity: a pick is justified by the weights it read, and by pins and a queue that
  were the user's while it read them; merging does not depend on the order of the
  buckets, a stub of a lost pick is deleted, the graph is balanced.
* Discogs and previews: the quota holds, a reply shows what was seen and is as
  fresh as the caches promise, a request returns at its deadline.
* Player: while there are songs in the queue, one follows another, until the user pauses
  or opens a view over a song that sounds.  That the song
  shown is the one chosen last, and the one heard, fails (section 4).

## 2. The modules

| Module | Models | Source |
|---|---|---|
| `PlayQueue` | abstract: a list of songs per user, given by the order of its songs | what `GetQueue` promises |
| `QueueEntries` | entries, statistics, mutexes, one statement per step; the refinement mapping to `PlayQueue` | `queue/service.go`, `queue/repo.go`, migrations |
| `MCQueueEntries` | its TLC instance | |
| `Catalog` | the constants that the queue's rows and the page share | |
| `QueueEntriesProofs` | its invariants, that it implements `PlayQueue`; and of `Player`, that the music goes on | |
| `Acquisition`, `MCAcquisition` | a song from request to queue: handlers, refiller, seeders, download, the two queue workers | `queue/*.go`, `bandcamp`, `discogs`, `similarity`, `download` |
| `AcquisitionProofs` | its safety invariants | |
| `Outbox`, `MCOutbox` | table and batch as sets of row ids, dispatcher, channels, pools, start, shutdown, crash | `internal/bus`, `cmd/muzika/main.go` |
| `OutboxProofs` | its invariants, order, and that no row is deleted before its fan-out | |
| `Gate` | operators: title filter, quality gate, relaxation, ranking | `filematch`, `download/gate.go` |
| `Verdicts` | abstract: at most one allowed answer per request | what `LoadedSong` promises |
| `Downloads`, `MCDownloads` | the download workers and the Soulseek adapter they share | `download/worker.go`, `soulseek/native.go` |
| `DownloadsProofs` | proofs about the gate, that `Downloads` implements `Verdicts`, that announced files exist and that the best file is picked | |
| `Plugins` | calls, child, reader, supervisor and Close of one plugin | `similarity/plugin` |
| `SimilarityProofs` | no child is lost; and of `Similarity`, no stub is forgotten, the merge adds up, picks are justified, graphs balanced | |
| `Playlists`, `MCPlaylists` | playlists and the workers and handlers that change them, AddAlbum track by track | `internal/playlist` |
| `PlaylistsProofs` | its invariants | |
| `SessionStore` | abstract: tokens granted, expired, revoked, and who is let in | what the API promises of a token |
| `Sessions`, `MCSessions` | accounts, tokens, the middleware, preferences | `internal/auth`, `httpx/middleware.go`, `internal/preferences` |
| `SessionsProofs` | its invariants, and that it implements `SessionStore` | |
| `Ranking` | operators: buckets over a catalogue, merge, genre filter, top K, graph | `similarity/engine.go`, `graph.go`, `buckets/discogs` |
| `Similarity`, `MCSimilarity` | the worker's pick step by step, settings handlers, graph requests | `similarity/service.go`, `engine.go`, `repo.go`, `handler.go` |
| `Pages` | operators: which rows a page keeps, pairs and cuts | `discogs/client.go` |
| `Discogs` | one call: cache, token bucket, fetch, store | `discogs/client.go`, `cache.go`, `ratelimit.go` |
| `Previews`, `MCSearch` | requests made of such calls, and the availability probes | `search/preview.go`, `search/handler.go` |
| `PreviewsProofs` | the rate limit under every request of `Previews`, and that replies say what was seen | |
| `Player`, `MCPlayer` | the page: player and queue stores, audio element, rows on the server | `frontend/src/stores/player.js`, `queue.js`, `PlayerBar.vue` |

They form layers.  `QueueEntries` shows that the critical sections of one user
exclude each other and keep positions distinct; `Acquisition` may therefore treat
such a section as one step and forget positions.  `Outbox` shows what becomes of
a committed event; `Acquisition` and `Playlists` use that (LoadedSong arrives
in order, a crash may lose what was already taken from the table).  `Downloads`
shows what a request may be answered, which `Acquisition` takes as the outcomes of
its download step.

`Previews` EXTENDS `Discogs` EXTENDS `Pages`: its requests are those that make the calls of
`Discogs`, several in parallel over one bucket and one cache, so the rate limit is
checked and proved of the composition.  `Similarity` stands between the refiller's
intent and `Acquisition`'s RequestDownload; there it is one choice of outcomes.
`Player` is a client of the queue: its reports and deletions are the MarkSkipped,
MarkFinished and RemoveSong of `QueueEntries`, of which it keeps the list of songs only.

### Correspondence

* A row is a set member or a function value.  An id is `new`, `row` or `gone`,
  because a UUID that was deleted is never inserted again.
* One SQL statement or one transaction is one action.  Foreign keys, unique
  indexes and `ON DELETE CASCADE` of the migrations are guards and effects.
* A goroutine is a program counter and its local variables: `pc`, `job`, `mutex`,
  `seen` in `QueueEntries`; `http`, `refill`, `adder`, `loader` in `Acquisition`;
  `dpc`, `batch`, `targets` for the dispatcher.
* `lockFor` is two steps, `GetMutex` (the section under `muUsers`) and `Acquire`,
  so that `onUserDeleted` may come between.  A mutex is an address; a new one
  is any address nothing points to.
* In `Downloads` a search is one step, since the worker touches nothing shared
  between query and results, and it may return any subset of the offers: the
  network is fuzzy and incomplete.  `seen` is a history variable.
* In `Plugins` the reads of `currentProc` and `closed`, the registration, the write
  and the wait of a call are steps of their own, so that the child's death, the
  drain, a respawn and Close may come between any two.  `Close` is two steps, as
  it waits for the child, and `sync.Once` makes a second caller wait.
* `Sessions`: a request is `verify`, `act`, `reply`; a login is `compare` between its read
  and its answer, which is where bcrypt runs.  A token is what its claims say; the
  signature is that it is in `issued`.
* `Similarity`: the worker's `at` walks through NextPick (`read`, `weigh`, `fanout`, `filter`,
  `publish`).  Each bucket is in `running` until its answer is merged, which is one step because
  of the mutex (taken as given).  Then each candidate is looked up in the queue, the pins are
  read, Discogs is asked for the genres of each survivor, and the request is published, each in a
  step of its own, for the code waits for the database or the rate limiter at each.  Every
  read may fail as the adapters of `main.go` let it.  Settings, pins, queue and seeds may change before
  every step.  `during` holds the pins and the queue of the moments at which the pick may read them.
* `Discogs`: a call is looked up, waits for a token, is fetched and stored, each a step;
  a bucket's tokens are whole and refilled when somebody looks, as in `tryTake`.
  `before` and `total` are history.
* `Previews`: the two goroutines of a probe are `outer` and `inner` of its entry in `probe`; after the deadline (`over`) it may
  be left behind, still holding the gate and still able to write its result.
* `Player`: what runs between two awaits is an operator on a record of the stores, since
  `handleSongEnd` calls `next`, which calls `play`; what an await left is a task in a
  bag, with the function it returns to.  An "ended" event runs one listener per step, and nothing between.
  Every view has a `PlayerBar` of its own, so `OpenView` replaces the audio element by one without a source
  and with one listener, while the store keeps its song and `isPlaying`; the fetch that a view
  makes is `Refresh`.
* The 64 rows of a batch, the buffer size and the queue size are CONSTANTS.
* `Features` of `Acquisition` and `Downloads` and `Ops` of `QueueEntries` name what a run lets
  happen; no action is written differently for a run.
* History variables (`asked`, also the field of `page`, `sent`, `taken`, `done`, `born`,
  `seen` of `Downloads`, `said`, `lost` and `during` of `Similarity`) are read by no
  guard of a code action, with one exception: the fairness of `Tick` mentions `born`.

## 3. The runs

| Run | Instance | What it shows |
|---|---|---|
| `queue` | 2 users, 2 songs, 2 goroutines, 3 mutexes, positions up to 2 | distinct positions, mutual exclusion, the inductive invariant (which has the types), and that every step is a step of `PlayQueue` |
| `queue_locks` | 1 user, 1 song, 2 goroutines, with deletion of the account and crashes | every operation finishes |
| `outbox` | 2 types and poison, 3 subscribers, buffer 1, batch 1, 2 rows, one failing handler, one restart, under fairness | order; no row deleted before its fan-out; events handled by wake-ups alone; leftovers drained with the ticker |
| `acquisition` | 2 users, 1 song, reuse, refill, full channels, disconnects, crashes | entries only for those who asked, ready is playable, never demoted |
| `acquisition_live` | 1 user, 2 songs, refill to 2 | stubs and spinners are resolved |
| `playlists` | 2 users, 3 lists, 1 song, 2 goroutines, albums | one liked playlist, likes reach it, no orphans |
| `downloads` | 2 workers, 3 kinds of request of which 2 are taken, 4 offers, network and login errors, timeout, stop | the best file, announced files exist, each request answered once as its kind allows |
| `plugins` | 2 calls, 2 spawns, 2 faults (crash, bad or too long line, failed spawn or hello), Close | calls return, dead processes replaced, no child lost, Close ends everything |
| `sessions` | 2 ids of one name, 2 requests, 2 tokens, versions up to 2, time up to 2, 6 items | tokens as `SessionStore` promises, events paired, preferences clean |
| `similarity` | 1 user, 2 songs, 3 tracks, 5 releases, 2 stubs, five buckets of which one is a plugin and three are on by default, 2 weightings that may be sent | merge, picks justified whatever changes meanwhile, no stub forgotten, graph balanced |
| `search` | 2 requests in 9 mixes of kinds, 4 titles, 1 artist, burst 2, rate 1, TTL 2, clock 2 to 3, rate-limit errors | rate limit, true and fresh replies, deadline frees |
| `player` | 2 songs, clicks and ends while no task waits, views opened at any moment, up to 2 listeners, all repeat modes; requests that fail, songs that do not start | one song follows another while there are songs |

**Why the bounds are enough.**  Two users are what a cascade through a requester
needs; two goroutines are what every race here needs, and three mutexes let a
new mutex be made while two dropped ones are still in use.  With a batch of one
and two rows there is a row behind the batch, and with a buffer of one every
channel fills.  `PosBound`, `MaxPlays`, `MaxRows`, `MaxErrors`, `MaxRestarts`,
`MaxInFlight`, `MaxRequests`, `MaxCalls`, `MaxFaults` cap counters in guards and name
what they cap.  `MinQueue` is 1 or 2
instead of 10: what matters is that a refill can ask for more than one stub.
The four offers of `downloads` make each of the three ranks decide, and one passes
the relaxed gate only; the requests are a search with both text rungs, a refill
with a catalog number only and one with nothing to ask for.  `plugins` has one
process to crash and one to replace it; a third spawn meets nothing new.
In `sessions` two ids share a name, so that a name is given away and taken again; a
token lives one tick of two, so it expires in a request's hands; two requests
are one that checks and one that revokes.  In `similarity` a plugin answers a
confidence of -1, a release has no title, a track two pressings in and out of
the era, and `TopK` is 1, so that every filter decides; `Era` is the
code's 3 years; the search for the seed lists its own release first or another's (`FirstHits`);
one intent is in the channel; the graph and its limit, which share nothing with the worker but the
songs, are asked for while it is idle.  `TopK`, `CreditsCap`, `MaxLimit` and `DefaultLimit` stand
for 20, 3, 30 and 8, and `LimitChoices` has one that is too small and one too large.  In `search` `Mixes` names which kinds run together: all that share a
key, the bucket or the gate; a cached row of time 0 is stale within the run, the
burst is emptied by one page, and `Thin`, `Slots`, `ItemsAtOnce`, `FallbackAtOnce`, `MaxProbes`,
`MaxEntries`, `PreviewLimit` and `PageLimit` stand for the limits of `preview.go`, small enough to
bind.  `Start` and `End` bound the clock, `Faults` the error codes, `Stubs`, `MaxTokens`, `MaxTime` and
`MaxVersion` what their names say.
In `player` one click, or one end with its two listeners, starts up to four tasks; `TaskBound`
says how many may be left when the next click or end comes: with 1, as in the run, none; the proofs
are for any number.  `OpenView` is not bound by it.  Two
listeners are the first number that is too many.
The proofs remove all bounds from every safety property of the runs except `DeadlineFrees`
(section 5 says why), so a bound that is too small there can hide nothing.

**Deadlock** checking is off, except for the player, whose user can always click: every other model may come to rest when its ids, rows or
restarts are used up, as the program may when nobody uses it.

**Symmetry** is used in safety runs only, over sets that occur in no `CHOOSE` and
no order of the specification: goroutines, requests, stubs, mutexes, and the songs of `player`.

### Fairness

* `QueueEntries`: weak fairness of each goroutine's next step, strong fairness of
  `Acquire`, since `sync.Mutex` hands a contended mutex to a waiter after 1 ms.
  Nobody is obliged to start an operation.
* `Outbox`: goroutines are scheduled and handlers return.  `Tick` is fair only
  while the process may have rows of an earlier one; so the liveness of
  this process's own events rests on `Wake`.
* `Acquisition`: handlers and workers are scheduled, external services answer or
  time out.  Searches and triggers need never come.
* `Downloads`: workers are scheduled, searches and the login return, time passes.
  A transfer may stall for ever; the deadline answers then.
* `Plugins`: goroutines are scheduled, timers fire, a done context kills its child,
  and a child reads its stdin while it lives.  The last is not the code's to grant:
  `stdin.Write` (`process.go:215`) is not bounded by `callTimeout`, so a child that
  hangs with a full pipe blocks its callers until shutdown.  A child need not answer.

### What `acquisition_live` leaves out

The two liveness properties are checked without features that, by the code,
break them, each listed as a hazard: an intent dropped at a full channel, a
client that disconnects before its publish, a crash, a second user's reuse,
and a bandcamp error, against which a comment promises the opposite (section 4).

## 4. Disagreements between the documents and the code

Each is quoted under "findings" in PROJECT.json.  These are refuted by TLC when the
named definition is added to the configuration in the last column; no run is
kept for them, since a run that fails shows nothing more once it is fixed.

| Definition | What the document says and the code does not | To see it |
|---|---|---|
| `SurvivorsReachSubscribers` (`Outbox`) | a row that survives a crash is "republished on restart": the dispatcher starts before the services subscribe | `Outbox.cfg`, as a PROPERTY |
| `LoopsBack` (`Player`) | at the end of the queue "automatically loop back [...] regardless of repeat mode": with repeat all nothing plays | `Player.cfg` |
| `FinishedOnce` (`MCPlayer`) | MarkFinished "records a completed play": PlayerBar adds its listeners again with each song, and each reports the end | `Player.cfg`, as a PROPERTY |
| `DistinctPositions` (`Playlists`) | MAX+1 is "race-free" | `Playlists.cfg` with 1 user, 1 list, 2 songs, `PosBound` 1 |
| `OwnFile` (`Downloads`) | a completed download has its own file | `Downloads.cfg` with `TwinOffers` and `TwinRequests` of `MCDownloads` |
| `RepliesWhole` (`Sessions`) | PUT answers what it persisted | `Sessions.cfg` |
| `NoTwice` (`MCSimilarity`) | HasEntry keeps a track from being queued twice | `Similarity.cfg`, as a PROPERTY |
| `ErrorIsCurrent` (`MCSimilarity`) | a change of seeds invalidates the last error | `Similarity.cfg` |
| `ListsWhole` (`MCSearch`) | up to `limit` releases are returned | `Search.cfg` |
| `RevisitAgrees` (`MCSearch`) | a cache hit shows what the fallback found | `Search.cfg`, as a PROPERTY |
| `HeardIsShown` (`Player`) | "same song is already selected and audio is loaded, just resume": the audio may be another song's | `Player.cfg` |
| `ReplyStable` (`MCSearch`) | (a bug) nobody writes results that were returned | `Search.cfg`, as a PROPERTY |

Found by reading or by the way, and quoted in PROJECT.json: a crash between the
DELETE of a row and its handler loses the event; skip and finish of one entry
are both counted; a bandcamp error leaves its stub; the source of a refill is
drawn twice; one failed respawn ends a plugin's supervisor; a child whose hello
is too long a line is not closed; handle names leak when a worker gives up;
releases without genres are dropped by the pins; a negative confidence counts
fully; the graph of an unknown song is a 500; masters are kept; the worker's
searches are not gated.  Further ones:

* `bus/pool.go:15-16` leaves the retry of a failed handler to the dispatcher, which
  has deleted the row by then.
* `queue/service.go:448`: a second user's reuse takes the requester over; the first
  user's probing entry is never promoted.
* `queue/service.go:222`, `:238`: a late error or not-found of an earlier request
  deletes a song that a later one completed.
* `queue/service.go:591`: AddSong of a stub makes a `ready` entry without a file
  (`queue/models.go:44`: "file downloaded, playable").
* `bandcamp/worker.go:99-103` calls the refiller bounded; it counts entries, not
  stubs under way, so each trigger asks again.
* `download/worker.go`: the comment on the probe (catalog number first) and
  `bestProbeQuery` differ.
* `similarity/handler.go`: PUT of the weights echoes the raw values, while
  `repo.go:279-281` stores them cleaned; `EngineTypeOK` is about what is stored.
* `search/preview.go:593-597`: "has to carry every title token"; a title without
  tokens takes any file.  `RepliesTrue` exempts it (`Bare`).
* `discogs/client.go`: an answer 200 that does not decode is cached for 30 days.
* `playlist/handler.go:154-156`: tracks that are not found are "not lost"; the
  stub is deleted from the catalog and the cascade takes it out of the playlist.
  ReprobeAlbum looks for entries of status `not_found`, which nothing writes any more.
* `playlist/handler.go:151-159`: AddAlbum returns no `notFoundCount`, answers 404
  when Discogs is disabled and 502 for an id that Discogs does not know.
* `stores/player.js`: two overlapping `play()` calls are not ordered, so the later
  answer wins, not the later click; the object URL of the earlier one is not revoked
  (`:190`: "prevent memory leaks").  A second click on next before the answer reports
  the same song skipped again (`:19`: "prevent duplicate skip calls").
* `stores/player.js:513`: isSongEndingNaturally "will be reset in next() -> play()"; if the
  queue is empty or the same song is resumed, it stays, and the next skip is not reported.
* `components/queue/SongItem.vue:206`: a probing entry is not to be streamed; next() does not look
  at the status, fails, and deletes the entry from the queue.
* `stores/player.js:289`: the play button after a reload resumes a selected song that has no audio
  yet, and nothing plays until its row is clicked.

No document says otherwise, so it is a hazard only: opening another view stops the song that sounds,
and `isPlaying` stays set (`PlayerBar.vue:343`, `:352`; `App.vue:3`).

## 5. What is proved

Every safety property a run checks is a theorem for all values of the constants,
with the exceptions at the end of this section.  A proof has one shape throughout:
an invariant `X` with `Init => X` and `X /\ [Next]_vars => X'`, one lemma for each group of
actions, and theorems that read the properties off it.

### The play queue (`QueueEntriesProofs`)

For any sets of users, songs, goroutines and mutexes and without any use of the
bounds: `TypeCorrect` (`TypeOK`), `LocksExclude` (`MutualExclusion`),
`PositionsAreUnique` (`UniquePositions`), all from `Invariance`, `Spec => []IInv`; and
`QueueImplementsPlayQueue`: `Spec => ImplementsPlayQueue`.  The only assumptions are those
of `QueueEntries`: `None` is no user, song, goroutine or mutex, `Ops` are operations of
the service, and the bounds are naturals.

*Argument.*  `UniquePositions` is not inductive: an insert keeps it only if the
maximum read before is still an upper bound.  So
`IInv == TypeOK /\ JobInv /\ PointerInv /\ HolderInv /\ SeenInv /\ UniquePositions /\ UniqueSongs`:

* `JobInv`: a busy goroutine works for an account that was registered;
* `PointerInv`: whoever went through `lockFor` for an account that still exists
  points to the mutex in the map.  This is where the order "delete the row, then
  publish UserDeleted" is needed: only accounts that are gone lose their entry,
  and a gone account does not come back;
* `HolderInv`: a goroutine in its critical section holds its mutex.  With
  `PointerInv` this gives `MutualExclusion`;
* `SeenInv`: for an existing account, the maximum read still bounds the positions.
  Removals and cascades can only lower the maximum; another insert is excluded.
  For an account that is gone the foreign key refuses the insert;
* `UniqueSongs`: the unique index, one entry for a user and a song.

`IdleStep` handles, once, all steps that only delete rows while goroutines stand
still.  `IInv` is also an invariant of the run `queue`.

*Refinement.*  The abstract queue of a user is the order `Listed(u)` of its songs, a set of
pairs, so that no sorting has to be reasoned about.  An insert puts its song after all
others because `SeenInv` puts its position above all others, which is `Appended`; a removal or a cascade
restricts the order, which is `Without`; a promotion leaves positions alone.
`QueuesAreLists` says that `Listed(u)` always is a total order of distinct songs, so the
mapping does not hide a queue that is none.

### The page that plays (`QueueEntriesProofs`, second part)

For any songs, any number of tasks and listeners: `MusicGoesOn`,
`PlayerSpec => []SongsFollow`, and `PageTyped`, from `PlayerInvariance`.  Assumed is
`PlayerAssumption`.

*Argument.*  `PlayerInv == Shape /\ Rung /\ Follows`.  The functions of the stores call
each other, so each has a lemma for *any* page and tasks it may be called with:
`Moves(r, q)` says that a function turned `r` into `q` without ending a task and without
silencing the sound, and `Going` that music sounds or is under way.  Only
`OpenView` silences it, and not a `play()` that is under way (`ViewOpens`); then the music is not
`asked` to go on any more.  `Moves` keeps `Going`
(`StillGoing`) and composes (`MovesOn`).  So `GoNextMoves` and `SongEndMoves` show that
the end of a song leaves music under way or an empty queue; `GiveUpGoesOn` shows it of the catch of `play`;
and a task that is answered either is none that carried the music (`Returns`) or is
followed by the next one.  `Rung` is needed between the listeners of one
"ended" event: the element is still as it was, so resuming the same song sounds.

### The outbox (`OutboxProofs`)

For any types, subscribers, buffers, batches and numbers of rows, errors and
restarts: `NoRowLost` (`Spec => DeletedOnlyAfterFanout`), `EventsInOrder` (`InOrder`) and
`OutboxTyped`, from `OutboxInvariance`.  Assumed is `ConstantsAssumption`.

*Argument.*  `OInv == TypeOK /\ BatchInv /\ SentInv /\ Survivors /\ FanoutInv /\ Counts /\ InOrderInv`.
The table is a set of ids in the order of commits.  `BatchInv`: a batch is a
prefix of the table, so nothing is overtaken; `SentInv`: a subscriber has been sent
nothing later than a row that is still there, and that row itself only between its send and
its DELETE, so what is sent next is later than all that was; `FanoutInv`: whoever wants the row and has
not got it is still in `targets`, which is empty at the DELETE.  `InOrderInv` is about
what was taken and the channel behind it together.

### Downloads (`DownloadsProofs`)

For any workers, requests, offers and limits,

* `ServiceImplementsVerdicts`: `Spec => ImplementsVerdicts`, the refinement the run
  `downloads` checks;
* `AnnouncedFileExists`: `Spec => []FileExists`;
* `BestIsPicked`: `Spec => []PickIsBest`, and `DownloadsTyped`, from `LaddersInvariance`;
* `RelaxAdmitsMore`: what the strict gate accepts, the relaxed one accepts;
* `RankIsStrictWeakOrder`: the comparison given to `sort.SliceStable` is one.

*Verdicts.*  A second answer is excluded by `DInv`: the request of a busy worker is
taken, unanswered and nobody else's, and a transfer, once started, has an offer
for its file.  What `Emit` writes is allowed because `Reply`, the only way to
`emit`, is called with an allowed verdict (`ReplyAllowed`), and no step of
another worker touches it.  `LocalStep` handles the steps of one worker at once.

*Files.*  The client stores a file under its raw name, and the adapter renames it when
it sees the transfer completed.  `FInv` says where the file of a completed transfer is
(under its raw name or under its base name, and a transfer a worker still waits for has
its raw name in the adapter's table) and that an answer which says completed, written or
about to be, names a base name that is on the disk.  A renaming must not take somebody's
announced file away; that needs `NamesAssumption` of `Downloads`: a raw name determines its
base name, and a raw name which is a base name is its own.

*Picks.*  `PickIsBest` looks back at all searches of a ladder.  `LInv` says of a
worker on a rung what `best` carries of those before: in strict mode each of them found too few,
and `best` is the best of the largest; in relaxed mode all strict ones were empty.
That a best file exists in any set of results uses that `Offers` is finite and the rank a
strict weak order.

Assumed are `OfferAssumption`, `DownloadsAssumption` and `NamesAssumption`.

### Sessions (`SessionsProofs`)

For any ids, names, requests, items and clocks,

* `SessionsImplementStore`: `Spec => ImplementsSessionStore`;
* `EventsArePaired`, `PrefsAreClean`, `SessionsTyped`, all from `SessionsInvariance`: `Spec => []IInv`.

*Argument.*  That a revoked token stays revoked is not visible in one state: a
row's version may only grow, and no token may be ahead of its row, else a later
LogoutAll would make it current.  So `IInv` adds to the two properties
`KnownAccounts` (an id never registered has no row), `TokensBehind` (no issued token and no
login between read and answer is ahead of the row) and `TokensIssued` (a request in
the middleware has an issued token).  The mapping's `revoked` is a set computed from
the rows; each action gets a lemma that says how it changes, and the refinement
has one step per action.  Assumed is `SessionsAssumption`.

### Playlists (`PlaylistsProofs`)

For any users, playlists, songs and goroutines: `PlaylistsInvariance`, `Spec => []IInv`, and
from it `OneLikedEach`, `LikesReachLiked` and `NothingOrphaned`, the three properties of the run.

*Argument.*  `IInv == TypeOK /\ Busy /\ NoOrphans /\ LikedRows /\ AtMostOne /\ OnLiked`.
`AtMostOne` rests on the unique index, `NoOrphans` on the foreign keys and cascades.  That
a like reaches the playlist the user sees also needs `OnLiked`: whoever was given
that playlist, by the SELECT, after a lost race or by reading its own row back, has
the one in the table while the account exists, because Delete refuses it and a
cascade removes it only with the account.  `Busy` says that an operation past
its lookup has a playlist, so `None`, which no row refers to, is never used as one.
Assumed is `PlaylistsAssumption`.

### Rate limit and replies (`PreviewsProofs`)

`QuotaIsKept`: `Spec => []RateKept`, under every request of `Previews`.  The bound on the
calls since an instant is not inductive, as the bucket is refilled only when somebody
looks.  `BucketInv` says it up to the last refill and with the tokens left added, and that
nobody took one since (`BucketInvariance`).  Every step of `Previews` leaves the bucket alone,
takes one token or lets time pass, which is the lemma that frees the argument from the
handlers.

`RepliesAreTrue`: `Spec => []RepliesTrue`, for any requests, keys, answers of Discogs, titles,
limits and ages of both caches, from `RepliesInvariance`.  `RInv` has a part for each place an
answer passes through: a cached row is as old as it says or Discogs has answered since
(`StoreInv`); the body a call came back with was current less than the TTL before its request
(`CallInv`); an answer of Soulseek on its way to the probe that waits for it has just been heard
(`ProbeInv`), one in the broad cache was heard when it was stored (`BroadInv`), and so what is
in the results is true (`ResultInv`), also when a deadline left a goroutine behind.  That a
page is whole, without a name twice, is shown of the operators of `Pages`: a row that is
missing is traced to the first row of its name, by a least counterexample
(`WFMin` of the library, on the naturals), where no induction on data is needed.
Assumed are `DiscogsAssumption`, `PreviewsAssumption` and `KeysAssumption`: rates, limits and
times are naturals, cached rows of the start are not of the future and show what Discogs
could have said, and the calls a request makes have keys.

### Acquisition (`AcquisitionProofs`)

For any users, songs, features and bounds,

* `NobodyElseGetsIt`: `Spec => []OnlyWhoAsked`, and `ReadyStaysReady`: `Spec => NeverDemoted`;
* `ReadyHasFile`: `Spec => []ReadyIsPlayable` if `"add"` is not among the `Features`; with AddSong
  it is false (section 4).

*Argument.*  `IInv` adds `Known`, that no event is about a song which never had a row,
so that a new stub is nobody else's, and `Credited`: whoever is named by a
row, a request or a worker asked for the song, so that the requester a worker read
before the mutex may be out of date but never wrong.  `PlayInv` adds `Fetched`: whoever is about to append
holds a song whose file is there, or whose row is gone.  Assumed is `AcquisitionAssumption`, which makes
the songs a finite set.  The theorems also cover features the run leaves out.

### The engine and its plugins (`SimilarityProofs`)

*Plugins.*  `ListenedToIsKept`: `Spec => []NoChildLost`, and `PluginsTyped`.  `PInv` follows a process from
its spawn: the supervisor holds it until it is tracked or closed (`Held`); only what was
spawned is closed, and what has been closed is dead or no longer listened to (`Closes`).
`TInv` adds that a call under way has the process it read, and that a supervisor that has
not left has crashes to spare.  Assumed is `PluginsAssumption`.

*Stubs.*  `StubsAreKept`: `EngineSpec => []NoStubForgotten`, without any assumption.  `IntentInv` is what
an equivalence needs to survive a failing pick: the stub in the channel is not the one the
worker has, so ending one does not touch the other.

*Picks.*  For any users, songs, catalogue, buckets, plugin answers and tunings: `EngineTyped`
(`EngineTypeOK`), `MergeAddsUp` (`MergeIsSum`) and `EveryPickJustified` (`PickJustified`), from
`EngineInvariance`, `EngineSpec => []EInv`.  `MergeIsSum` speaks of a finished merge only and is not
inductive.  `Picking` says the same at every moment of the fan-out, of the proposals of the
buckets that have answered: the tracks of the merge are those proposed, each with its sum, and
only buckets that are on have been asked.  Two ideas carry the proof:

* a sum over the proposals is the number of `PointPairs`, a pair for each point of each proposal.  One
  more proposal adds a disjoint block of pairs (`PointsAdd`), so `MergeOneSums` needs only
  the cardinality of unions, and addition in any order is for free;
* `MergeInto` and `DropSameArtist` are loops, written as recursive functions.  That a loop is
  defined for every length, and what holds after each turn, is shown by a least counterexample
  (`LeastNumber`, from `WFMin` of the library), where no induction theorem is needed.

The user's data change while the pick reads them, so `PickJustified` cannot be about the data of one
moment, and does not hold of those at the publish.  `Sifted` follows what was read: `Reading`, that a
candidate the loop kept was not in the queue at some moment of the reading (`during.free`, or its lookup
failed), that one it dropped was (`during.taken`), and that the pins are those of some moment, or none
when the read failed; `Filtering`, who of the pool the filter has kept so far; and `Chosen`, that what was picked
is `Justified`.  Steps of others only add moments (`OthersWhileSifting`, `RivalsStay`): more pins to have read,
more tracks that were free, fewer rivals.  So what was justified stays so until it is published,
however stale it is then.
The genres of a candidate, as the engine sees them, include its styles, and a lookup that fails
gives none, for any set of releases whose lookup fails.

*Graphs.*  `GraphsAreBalanced`: `EngineSpec => []GraphBalanced`.  `SharesAdd` is the arithmetic of the two
halves, for odd limits and for buckets that fall short; `RoundRobinPlaces` says where the round
robin puts each neighbour, so that a bucket's count is that of an injection (`PlacesCount`).  A
limit is stored in `0..MaxLimit`, which `EInv` has, and clamped when it is asked for.

Assumed are `RankingAssumption` (releases are finitely many, with positive ids and finitely many
genres and styles; default weights are naturals; limits are ordered as the code's constants are;
the sort key tells tracks apart) and `SimilarityAssumption` (weights that are sent name
buckets and are whole numbers, as are limits; a search lists releases; `None` is no user, song or intent).
Nothing is assumed of what a plugin proposes but that it is a list of candidates.

### Only model-checked

* Liveness (`OperationFinishes`, `EveryEventHandled`, `OutboxDrains`, `StubResolved`,
  `ProbingResolved`, `Answered`, and those of `Plugins`) is out of the prover's reach, and so is
  `DeadlineFrees`, which has ENABLED.

These are the only properties of a passing run that no theorem states.  `ReadyIsPlayable` is proved
under a hypothesis, that `"add"` is not among the `Features`, which the run shares.

## 6. Plan

1. *Done:* `QueueEntries` with `PlayQueue`, `Outbox`, `Acquisition`, `Playlists`, `Gate`, `Downloads` with
   `Verdicts`, `Plugins`.
2. *Done:* `Sessions` with `SessionStore`; `Ranking` and `Similarity`; `Pages`, `Discogs` and `Previews`; the
   proofs of the first and of the rate limit; `Playlists` with AddAlbum, and its proofs.
3. *Done:* proofs about `Acquisition`, `Downloads` (`FileExists`) and `Plugins`; `Player`.
4. *Done:* proofs of the refinement of `PlayQueue`, of `Outbox`, of `PickIsBest`, of the replies of
   `Previews`, of `Player`, and that the engine forgets no stub.
   Of `Similarity` also that the merge is a sum, that picks are justified and that graphs are balanced.
5. Left of modelled parts: the download worker without ladder, the engine over
   several plugins, the composition of `Outbox` and `Playlists` for the order of likes, the
   liked flag of the player and the similar store.
6. `SoulTransfers`: the transfer states of the soul client behind `DownloadStatus`.

Abstract specifications worth stating: a delivery log that `Outbox` implements
within one process; a song's life (requested, resolved) that `Acquisition`
implements without failures.

## 7. Not modelled, and why

Decoding and encoding of HTTP, JSON and the Soulseek wire format, password
hashing, the text normalisation of `filematch` and `normalize.go` (character work a
model would only transcribe), file serving, configuration, the migration runner,
views and styles, shell scripts.  Reads that change nothing and that no property
is about (listings, the discovery log) are left out; columns no guard reads
(title, artist, image, relaxed) are abstracted away.

Left out of parts that are modelled:

* Queue: likes (`setLiked`, `service.go:692`) and `ReprobeNotFoundTrack` (`:519`) are not among the `Ops` of
  `QueueEntries`; neither inserts, removes or moves an entry.
* Similarity: the client drops a page's second row of an artist and title (`client.go:355`, `:787`), before
  the years are compared, so that a pressing out of the era may hide one in it; `Ranking` keeps both.  Nor
  are there page sizes (30, 50 and 100), and pages list by id.  The properties speak of what the buckets
  did propose, and the proofs use only that a page lists releases with a title.  With one intent in the channel
  none is dropped (`refiller.go:220`, a hazard).  A publish that fails at shutdown (`service.go:261`,
  `:290`) leaves its stub and is not modelled.  The queue grows during a pick through the requests of
  earlier picks only, which stand for what the user queues.
* Player: a login or logout, which takes the bar away; a `loadedmetadata` that the removed element
  still fires; the 200 ms in which the old view fades out.
