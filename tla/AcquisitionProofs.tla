-------------------------- MODULE AcquisitionProofs --------------------------
(***************************************************************************)
(* Proofs about Acquisition for any users, songs, features and bounds: who *)
(* gets a song in the queue asked for it, a playable entry stays one until *)
(* it leaves, and, without AddSong, ready means that the file is there.    *)
(***************************************************************************)
EXTENDS Acquisition, FiniteSetTheorems, TLAPS

-----------------------------------------------------------------------------
(* Sequences of events.                                                    *)

LEMMA AppendIn ==
  ASSUME NEW S, NEW q \in Seq(S), NEW e \in S
  PROVE  Append(q, e) \in Seq(S)
OBVIOUS

LEMMA MayAppendIn ==
  ASSUME NEW S, NEW q \in Seq(S), NEW e \in S, NEW p, p = q \/ p = Append(q, e)
  PROVE  p \in Seq(S)
OBVIOUS

LEMMA TailIn ==
  ASSUME NEW S, NEW q \in Seq(S), q # <<>>
  PROVE  Tail(q) \in Seq(S) /\ Head(q) \in S
OBVIOUS

LEMMA RemoveIn ==
  ASSUME NEW S, NEW q \in Seq(S), NEW n \in DOMAIN q
  PROVE  RemoveAt(q, n) \in Seq(S) /\ q[n] \in S
BY DEF RemoveAt

LEMMA SuffixIn ==
  ASSUME NEW S, NEW q \in Seq(S), NEW n \in 1..(Len(q) + 1)
  PROVE  SubSeq(q, n, Len(q)) \in Seq(S)
OBVIOUS

LEMMA SeqGrows ==
  ASSUME NEW S, NEW T, S \subseteq T, NEW q \in Seq(S)
  PROVE  q \in Seq(T)
OBVIOUS

\* Songs only get older, so what is known of the events stays true.
LEMMA KnownGrows ==
  ASSUME Known, Old \subseteq Old'
  PROVE  /\ toDownload \in Seq([song : Old', strategy : Strategy])
         /\ loaded \in Seq([song : Old', status : {"completed", "error", "not_found"}])
<1>1. /\ [song : Old, strategy : Strategy] \subseteq [song : Old', strategy : Strategy]
      /\ [song : Old, status : {"completed", "error", "not_found"}]
           \subseteq [song : Old', status : {"completed", "error", "not_found"}]
  OBVIOUS
<1> QED
  BY <1>1, SeqGrows DEF Known

\* A new stub is old from then on, and asked for by its requester.
LEMMA InsertedStub ==
  ASSUME IInv, NEW u \in Users, NEW s \in Songs, InsertSongStub(s, u)
  PROVE  /\ Old' = Old \cup {s}
         /\ s \notin Old
         /\ toDownload \in Seq([song : Old', strategy : Strategy])
         /\ loaded \in Seq([song : Old', status : {"completed", "error", "not_found"}])
<1>1. Old' = Old \cup {s} /\ s \notin Old
  BY DEF IInv, TypeOK, InsertSongStub, Old, RowState
<1> QED
  BY <1>1, KnownGrows DEF IInv

-----------------------------------------------------------------------------
(* One lemma per action that does more than move one row or one variable.  *)

LEMMA SearchNewInv ==
  ASSUME IInv, NEW u \in Users, NEW s \in Songs, SearchNew(u, s) \/ SearchAutoPick(u, s)
  PROVE  IInv'
<1> USE AcquisitionAssumption DEF IInv
<1>1. PICK step \in {"publish", "intent"} :
        http' = [http EXCEPT ![u] = [song |-> s, step |-> step]]
  BY DEF SearchNew, SearchAutoPick, Start
<1>2. InsertSongStub(s, u) /\ UNCHANGED <<refill, events, workers>>
  BY DEF SearchNew, SearchAutoPick
<1>3. TypeOK'
  BY <1>1, <1>2 DEF TypeOK, InsertSongStub, Ask, Search, RowState, events, workers
<1>4. Known'
  <2>1. Old' = Old \cup {s} /\ UNCHANGED <<intents, toDownload, loaded, loader>>
    BY <1>2, InsertedStub DEF events, workers
  <2>2. /\ toDownload' \in Seq([song : Old', strategy : Strategy])
        /\ loaded' \in Seq([song : Old', status : {"completed", "error", "not_found"}])
    BY <1>2, <2>1, InsertedStub
  <2>3. \A v \in Users : http'[v] # None => http'[v].song \in Old'
    BY <1>1, <2>1 DEF TypeOK, Known
  <2> QED
    BY <2>1, <2>2, <2>3 DEF Known
<1>5. Credited'
  BY <1>1, <1>2 DEF TypeOK, Credited, InsertSongStub, Ask, Work, workers
<1>6. OnlyWhoAsked'
  BY <1>2 DEF TypeOK, OnlyWhoAsked, InsertSongStub, Ask
<1> QED
  BY <1>3, <1>4, <1>5, <1>6

LEMMA RefillOneInv ==
  ASSUME IInv, NEW u \in Users, NEW s \in Songs, RefillOne(u, s)
  PROVE  IInv'
<1> USE AcquisitionAssumption DEF IInv, RefillOne, workers
<1>1. TypeOK'
  <2>1. refill[u] \in 0..MinQueue /\ refill[u] > 0
    BY DEF TypeOK
  <2>2. refill' \in [Users -> 0..MinQueue]
    BY <2>1 DEF TypeOK
  <2> QED
    BY <2>2 DEF TypeOK, InsertSongStub, Ask, Request, Strategy, RowState
<1>2. Known'
  <2>1. /\ Old' = Old \cup {s}
        /\ toDownload' \in Seq([song : Old', strategy : Strategy])
        /\ loaded' \in Seq([song : Old', status : {"completed", "error", "not_found"}])
    BY InsertedStub
  <2> QED
    BY <2>1 DEF Known
<1>3. Credited'
  BY DEF TypeOK, Credited, InsertSongStub, Ask, Work
<1>4. OnlyWhoAsked'
  BY DEF TypeOK, OnlyWhoAsked, InsertSongStub, Ask
<1> QED
  BY <1>1, <1>2, <1>3, <1>4

\* The publish of a handler, or the half of it that a client that goes away
\* leaves behind.
LEMMA PublishInv ==
  ASSUME IInv, NEW u \in Users, PublishSearch(u) \/ PublishIntent(u) \/ Disconnect(u)
  PROVE  IInv'
<1> DEFINE r == [song |-> http[u].song, strategy |-> "search"]
<1> USE AcquisitionAssumption DEF IInv
<1>1. /\ At(u, "publish") \/ At(u, "intent")
      /\ http' = [http EXCEPT ![u] = None]
      /\ UNCHANGED <<rows, refill, workers, loaded, asked>>
      /\ intents' = intents \/ intents' = intents \cup {r}
      /\ toQueue' = toQueue \/ toQueue' = Append(toQueue, r)
      /\ toDownload' = toDownload \/ toDownload' = Append(toDownload, r)
  BY DEF PublishSearch, PublishIntent, Disconnect, Respond, PublishRequest
<1>2. r \in Request /\ r \in [song : Old, strategy : Strategy]
  BY <1>1 DEF At, TypeOK, Known, Search, Request, Strategy
<1>4. r.song \in Old
  BY <1>2
<1> HIDE DEF r
<1>3. /\ toQueue' \in Seq(Request) /\ toDownload' \in Seq(Request)
      /\ toDownload' \in Seq([song : Old, strategy : Strategy])
  <2>1. toQueue \in Seq(Request) /\ toDownload \in Seq(Request)
    BY DEF TypeOK
  <2>2. toQueue' \in Seq(Request) /\ toDownload' \in Seq(Request)
    BY <1>1, <1>2, <2>1, MayAppendIn
  <2>3. toDownload \in Seq([song : Old, strategy : Strategy])
    BY DEF Known
  <2>4. toDownload' \in Seq([song : Old, strategy : Strategy])
    BY <1>1, <1>2, <2>3, MayAppendIn
  <2> QED
    BY <2>2, <2>4
<1>5. TypeOK'
  BY <1>1, <1>2, <1>3 DEF TypeOK, rows, workers
<1>6. Known'
  <2>1. Old' = Old
    BY <1>1 DEF Old, rows
  <2> QED
    BY <1>1, <1>3, <1>4, <2>1 DEF Known, TypeOK, workers
<1>7. Credited' /\ OnlyWhoAsked'
  BY <1>1 DEF Credited, OnlyWhoAsked, TypeOK, rows, workers
<1> QED
  BY <1>5, <1>6, <1>7

LEMMA TriggerInv ==
  ASSUME IInv, NEW u \in Users, Trigger(u)
  PROVE  IInv'
<1>1. CountEntries(u) \in Nat
  <2>1. IsFiniteSet({s \in Songs : entry[u][s] # "none"})
    BY AcquisitionAssumption, FS_Subset
  <2> QED
    BY <2>1, FS_CardinalityType DEF CountEntries
<1>2. /\ MinQueue - CountEntries(u) \in 0..MinQueue
      /\ refill' = [refill EXCEPT ![u] = MinQueue - CountEntries(u)]
      /\ UNCHANGED <<rows, http, events, workers, asked>>
  BY <1>1, AcquisitionAssumption DEF Trigger
<1>3. TypeOK'
  BY <1>2 DEF IInv, TypeOK, rows, events, workers
<1>4. Known' /\ Credited' /\ OnlyWhoAsked'
  BY <1>2 DEF IInv, Known, Old, Credited, OnlyWhoAsked, rows, events, workers
<1> QED
  BY <1>3, <1>4 DEF IInv

LEMMA SeedInv ==
  ASSUME IInv, NEW i \in intents, SeedPicks(i) \/ SeedFindsNothing(i) \/ SeedFails(i)
  PROVE  IInv'
<1> DEFINE l == [song |-> i.song, status |-> "error"]
<1> USE DEF IInv
<1>1. /\ intents' = intents \ {i}
      /\ toQueue' = toQueue \/ toQueue' = Append(toQueue, i)
      /\ toDownload' = toDownload \/ toDownload' = Append(toDownload, i)
      /\ loaded' = loaded \/ loaded' = Append(loaded, l)
      /\ UNCHANGED <<rows, request, workers, asked>>
  BY DEF SeedPicks, SeedFindsNothing, SeedFails, PublishRequest, Emit
<1>2. /\ i \in Request /\ i \in [song : Old, strategy : Strategy]
      /\ l \in Loaded /\ l \in [song : Old, status : {"completed", "error", "not_found"}]
  BY DEF TypeOK, Known, Request, Loaded
<1> HIDE DEF l
<1>3. /\ toQueue' \in Seq(Request) /\ toDownload' \in Seq(Request)
      /\ toDownload' \in Seq([song : Old, strategy : Strategy])
      /\ loaded' \in Seq(Loaded)
      /\ loaded' \in Seq([song : Old, status : {"completed", "error", "not_found"}])
  <2>1. toQueue \in Seq(Request) /\ toDownload \in Seq(Request) /\ loaded \in Seq(Loaded)
    BY DEF TypeOK
  <2>2. toQueue' \in Seq(Request) /\ toDownload' \in Seq(Request) /\ loaded' \in Seq(Loaded)
    BY <1>1, <1>2, <2>1, MayAppendIn
  <2>3. /\ toDownload \in Seq([song : Old, strategy : Strategy])
        /\ loaded \in Seq([song : Old, status : {"completed", "error", "not_found"}])
    BY DEF Known
  <2>4. toDownload' \in Seq([song : Old, strategy : Strategy])
    BY <1>1, <1>2, <2>3, MayAppendIn
  <2>5. loaded' \in Seq([song : Old, status : {"completed", "error", "not_found"}])
    BY <1>1, <1>2, <2>3, MayAppendIn
  <2> QED
    BY <2>2, <2>4, <2>5
<1>4. TypeOK'
  BY <1>1, <1>3 DEF TypeOK, rows, request, workers
<1>5. Known'
  <2>1. Old' = Old
    BY <1>1 DEF Old, rows
  <2> QED
    BY <1>1, <1>3, <2>1 DEF Known, request, workers
<1>6. Credited' /\ OnlyWhoAsked'
  BY <1>1 DEF Credited, OnlyWhoAsked, rows, request, workers
<1> QED
  BY <1>4, <1>5, <1>6

LEMMA DownloadInv ==
  ASSUME IInv, NEW n \in DOMAIN toDownload, Download(n)
  PROVE  IInv'
<1> USE DEF IInv
<1>1. PICK status \in {"completed", "error", "not_found"} :
        loaded' = Append(loaded, [song |-> toDownload[n].song, status |-> status])
  BY DEF Download, Emit
<1>2. /\ toDownload' = RemoveAt(toDownload, n)
      /\ UNCHANGED <<rows, request, intents, toQueue, workers, asked>>
  BY DEF Download
<1>3. /\ toDownload' \in Seq(Request)
      /\ toDownload' \in Seq([song : Old, strategy : Strategy])
      /\ toDownload[n] \in Request /\ toDownload[n] \in [song : Old, strategy : Strategy]
  BY <1>2, RemoveIn DEF TypeOK, Known
<1>4. /\ loaded' \in Seq(Loaded)
      /\ loaded' \in Seq([song : Old, status : {"completed", "error", "not_found"}])
  <2> DEFINE l == [song |-> toDownload[n].song, status |-> status]
  <2>1. l \in Loaded /\ l \in [song : Old, status : {"completed", "error", "not_found"}]
    BY <1>3 DEF Loaded, Request
  <2> HIDE DEF l
  <2>2. loaded' = Append(loaded, l)
    BY <1>1 DEF l
  <2> QED
    BY <2>1, <2>2, AppendIn DEF TypeOK, Known
<1>5. TypeOK'
  BY <1>2, <1>3, <1>4 DEF TypeOK, rows, request, workers
<1>6. Known'
  <2>1. Old' = Old
    BY <1>2 DEF Old, rows
  <2> QED
    BY <1>2, <1>3, <1>4, <2>1 DEF Known, request, workers
<1>7. Credited' /\ OnlyWhoAsked'
  BY <1>2 DEF Credited, OnlyWhoAsked, rows, request, workers
<1> QED
  BY <1>5, <1>6, <1>7

LEMMA TakeRequestInv ==
  ASSUME IInv, TakeRequest
  PROVE  IInv'
<1> USE AcquisitionAssumption DEF IInv
<1>1. /\ toQueue # <<>> /\ toQueue' = Tail(toQueue)
      /\ UNCHANGED <<rows, request, intents, toDownload, loaded, loader, asked>>
  BY DEF TakeRequest
<1>2. toQueue' \in Seq(Request) /\ Head(toQueue) \in Request
  BY <1>1, TailIn DEF TypeOK
<1>3. Head(toQueue).song \in Songs
  BY <1>2 DEF Request
<1>4. \/ adder' = None
      \/ /\ requester[Head(toQueue).song] # None
         /\ adder' = [song |-> Head(toQueue).song, user |-> requester[Head(toQueue).song]]
  BY DEF TakeRequest
<1>5. TypeOK'
  BY <1>1, <1>2, <1>3, <1>4 DEF TypeOK, Work, rows, request
<1>6. Known'
  BY <1>1 DEF Known, Old, rows, request
<1>7. Credited' /\ OnlyWhoAsked'
  BY <1>1, <1>3, <1>4 DEF Credited, OnlyWhoAsked, rows, request
<1> QED
  BY <1>5, <1>6, <1>7

\* The loaded-song worker takes its next event.
LEMMA TakeLoadedInv ==
  ASSUME IInv, TakeCompleted \/ TakeFailed
  PROVE  IInv'
<1> DEFINE l == Head(loaded)
<1> USE AcquisitionAssumption DEF IInv
<1>1. loaded # <<>> /\ loaded' = Tail(loaded) /\ loader = None
      /\ UNCHANGED <<requester, request, intents, toQueue, toDownload, adder, asked>>
  BY DEF TakeCompleted, TakeFailed, workers
<1>2. /\ loaded' \in Seq(Loaded)
      /\ loaded' \in Seq([song : Old, status : {"completed", "error", "not_found"}])
      /\ l \in Loaded /\ l \in [song : Old, status : {"completed", "error", "not_found"}]
  BY <1>1, TailIn DEF TypeOK, Known
<1>3. l.song \in Songs /\ l.song \in Old
  BY <1>2 DEF Loaded
<1>4. loader' = None \/ loader' = [song |-> l.song, user |-> None]
  BY <1>1 DEF TakeCompleted, TakeFailed, workers
<1>5. /\ song' = song \/ song' = [song EXCEPT ![l.song] = IF @ = "row" THEN "gone" ELSE @]
      /\ file' \in [Songs -> BOOLEAN]
      /\ entry' = entry \/ entry' = [u \in Users |-> [entry[u] EXCEPT ![l.song] = "none"]]
  BY <1>3 DEF TakeCompleted, TakeFailed, DeleteSong, TypeOK
<1> HIDE DEF l
<1>6. Old' = Old
  BY <1>3, <1>5 DEF Old, TypeOK
<1>7. TypeOK'
  <2>1. song' \in [Songs -> RowState]
    BY <1>3, <1>5 DEF TypeOK, RowState
  <2>2. entry' \in [Users -> [Songs -> {"none", "probing", "ready"}]]
    BY <1>5 DEF TypeOK
  <2>3. loader' \in Work \cup {None}
    BY <1>3, <1>4 DEF Work
  <2> QED
    BY <1>1, <1>2, <1>5, <2>1, <2>2, <2>3 DEF TypeOK, request
<1>8. Known'
  BY <1>1, <1>2, <1>3, <1>4, <1>6 DEF Known, request
<1>9. Credited'
  BY <1>1, <1>4 DEF Credited, request
<1>10. OnlyWhoAsked'
  BY <1>1, <1>3, <1>5 DEF OnlyWhoAsked, TypeOK
<1> QED
  BY <1>7, <1>8, <1>9, <1>10

LEMMA CrashInv ==
  ASSUME IInv, Crash
  PROVE  IInv'
<1> USE AcquisitionAssumption DEF IInv
<1>1. PICK n \in 1..(Len(loaded) + 1) : loaded' = SubSeq(loaded, n, Len(loaded))
  BY DEF Crash
<1>2. /\ http' = [u \in Users |-> None] /\ refill' = [u \in Users |-> 0]
      /\ intents' = {} /\ toQueue' = <<>> /\ toDownload' = <<>>
      /\ adder' = None /\ loader' = None /\ UNCHANGED <<rows, asked>>
  BY DEF Crash
<1>3. /\ loaded' \in Seq(Loaded)
      /\ loaded' \in Seq([song : Old, status : {"completed", "error", "not_found"}])
  BY <1>1, SuffixIn DEF TypeOK, Known
<1>4. /\ toQueue' \in Seq(Request) /\ toDownload' \in Seq(Request)
      /\ toDownload' \in Seq([song : Old, strategy : Strategy])
  BY <1>2
<1>5. TypeOK'
  BY <1>2, <1>3, <1>4 DEF TypeOK, rows
<1>6. Known'
  <2>1. Old' = Old
    BY <1>2 DEF Old, rows
  <2> QED
    BY <1>2, <1>3, <1>4, <2>1 DEF Known
<1>7. Credited' /\ OnlyWhoAsked'
  BY <1>2 DEF Credited, OnlyWhoAsked, rows
<1> QED
  BY <1>5, <1>6, <1>7

\* The other steps change entries, or one variable of a handler or a worker,
\* and leave the songs and the events alone.
LEMMA QuietInv ==
  ASSUME IInv,
         \/ \E u \in Users, s \in Songs : SearchCached(u, s) \/ SearchReuse(u, s)
                                          \/ Leave(u, s) \/ AddSong(u, s)
         \/ \E u \in Users : AppendCached(u) \/ UpdateSongRequester(u)
         \/ AddProbing \/ ReadRequester \/ AppendForRequester
         \/ UNCHANGED vars
  PROVE  IInv'
<1> USE AcquisitionAssumption
    DEF IInv, TypeOK, Known, Old, Credited, OnlyWhoAsked, Search, Work,
        rows, request, events, workers
<1>1. ASSUME NEW u \in Users, NEW s \in Songs, SearchCached(u, s) PROVE IInv'
  BY <1>1 DEF SearchCached, Start, Ask
<1>10. ASSUME NEW u \in Users, NEW s \in Songs, SearchReuse(u, s) PROVE IInv'
  BY <1>10 DEF SearchReuse, Start, Ask
<1>2. ASSUME NEW u \in Users, NEW s \in Songs, Leave(u, s) PROVE IInv'
  BY <1>2 DEF Leave
<1>3. ASSUME NEW u \in Users, NEW s \in Songs, AddSong(u, s) PROVE IInv'
  BY <1>3 DEF AddSong, AppendEntry, Ask
<1>4. ASSUME NEW u \in Users, AppendCached(u) PROVE IInv'
  BY <1>4 DEF AppendCached, At, AppendEntry, Respond
<1>5. ASSUME NEW u \in Users, UpdateSongRequester(u) PROVE IInv'
  BY <1>5 DEF UpdateSongRequester, At
<1>6. CASE AddProbing
  BY <1>6 DEF AddProbing, InsertProbingEntry
<1>7. CASE ReadRequester
  BY <1>7 DEF ReadRequester
<1>8. CASE AppendForRequester
  BY <1>8 DEF AppendForRequester, MakeReady
<1>9. CASE UNCHANGED vars
  BY <1>9 DEF vars
<1> QED
  BY <1>1, <1>2, <1>3, <1>4, <1>5, <1>6, <1>7, <1>8, <1>9, <1>10

-----------------------------------------------------------------------------
(* The invariant.                                                          *)

LEMMA InitIInv == Init => IInv
<1> SUFFICES ASSUME Init PROVE IInv
  OBVIOUS
<1> USE AcquisitionAssumption DEF Init
<1>1. TypeOK
  BY DEF TypeOK, RowState
<1>2. Known /\ Credited /\ OnlyWhoAsked
  BY DEF Known, Credited, OnlyWhoAsked
<1> QED
  BY <1>1, <1>2 DEF IInv

LEMMA NextIInv == IInv /\ [Next]_vars => IInv'
<1> SUFFICES ASSUME IInv, [Next]_vars PROVE IInv'
  OBVIOUS
<1>1. ASSUME NEW u \in Users, NEW s \in Songs,
             SearchNew(u, s) \/ SearchAutoPick(u, s) \/ RefillOne(u, s)
      PROVE  IInv'
  BY <1>1, SearchNewInv, RefillOneInv
<1>2. ASSUME NEW u \in Users,
             PublishSearch(u) \/ PublishIntent(u) \/ Disconnect(u) \/ Trigger(u)
      PROVE  IInv'
  BY <1>2, PublishInv, TriggerInv
<1>3. CASE Seeder
  BY <1>3, SeedInv DEF Seeder
<1>4. CASE Downloads
  BY <1>4, DownloadInv DEF Downloads
<1>5. CASE TakeRequest \/ TakeCompleted \/ TakeFailed \/ Crash
  BY <1>5, TakeRequestInv, TakeLoadedInv, CrashInv
<1>6. ASSUME \/ \E u \in Users, s \in Songs : SearchCached(u, s) \/ SearchReuse(u, s)
                                              \/ Leave(u, s) \/ AddSong(u, s)
             \/ \E u \in Users : AppendCached(u) \/ UpdateSongRequester(u)
             \/ AddProbing \/ ReadRequester \/ AppendForRequester
             \/ UNCHANGED vars
      PROVE  IInv'
  BY <1>6, QuietInv
<1> QED
  BY <1>1, <1>2, <1>3, <1>4, <1>5, <1>6 DEF Next, Handler, Refilling, Adder, Loader

\* The invariant holds whatever a run leaves out: reuse, auto-picks, AddSong,
\* full channels, crashes (internal/queue).
THEOREM AcquisitionInvariance == Spec => []IInv
<1> QED
  BY InitIInv, NextIInv, PTL DEF Spec

\* A song is in the queues of users who asked for it only, even when a
\* second user takes the request over while the worker of the first one is
\* under way (service.go:261-331, 448).
THEOREM NobodyElseGetsIt == Spec => []OnlyWhoAsked
<1>1. IInv => OnlyWhoAsked
  BY DEF IInv
<1> QED
  BY <1>1, AcquisitionInvariance, PTL

\* The worker of RequestDownload only inserts where there is no entry, so
\* the two queue workers may come in any order (service.go:331, repo.go:66).
THEOREM ReadyStaysReady == Spec => NeverDemoted
<1> DEFINE Kept == \A u \in Users, s \in Songs :
                     entry[u][s] = "ready" => entry'[u][s] # "probing"
<1>1. ASSUME IInv, [Next]_vars PROVE [Kept]_vars
  <2> USE <1>1 DEF IInv, TypeOK, rows, Work, Search
  <2>1. CASE entry' = entry
    BY <2>1
  <2>2. ASSUME NEW u \in Users, NEW s \in Songs, Leave(u, s) \/ AddSong(u, s) PROVE Kept
    <3>1. CASE Leave(u, s)
      BY <3>1 DEF Leave
    <3>2. CASE AddSong(u, s)
      BY <3>2 DEF AddSong, AppendEntry
    <3> QED
      BY <2>2, <3>1, <3>2
  <2>3. ASSUME NEW u \in Users, AppendCached(u) PROVE Kept
    BY <2>3 DEF AppendCached, AppendEntry, At
  <2>4. CASE AddProbing
    BY <2>4 DEF AddProbing, InsertProbingEntry
  <2>5. CASE AppendForRequester
    BY <2>5 DEF AppendForRequester, MakeReady
  <2>6. CASE TakeFailed
    BY <2>6 DEF TakeFailed, DeleteSong
  <2> HIDE DEF Kept
  <2>7. ASSUME entry' # entry PROVE
          \/ \E u \in Users, s \in Songs : Leave(u, s) \/ AddSong(u, s)
          \/ \E u \in Users : AppendCached(u)
          \/ AddProbing \/ AppendForRequester \/ TakeFailed
    <3>1. ASSUME NEW u \in Users, NEW s \in Songs,
                 SearchNew(u, s) \/ SearchAutoPick(u, s) \/ RefillOne(u, s)
          PROVE  entry' = entry
      BY <3>1 DEF SearchNew, SearchAutoPick, RefillOne, InsertSongStub
    <3>2. ASSUME NEW u \in Users, NEW s \in Songs, SearchCached(u, s) \/ SearchReuse(u, s)
          PROVE  entry' = entry
      BY <3>2 DEF SearchCached, SearchReuse
    <3>3. ASSUME NEW u \in Users, UpdateSongRequester(u) \/ PublishSearch(u)
                                  \/ PublishIntent(u) \/ Disconnect(u) \/ Trigger(u)
          PROVE  entry' = entry
      BY <3>3 DEF UpdateSongRequester, PublishSearch, PublishIntent, Disconnect, Trigger
    <3>4. ASSUME Seeder \/ Downloads PROVE entry' = entry
      BY <3>4 DEF Seeder, SeedPicks, SeedFindsNothing, SeedFails, Downloads, Download
    <3>5. ASSUME TakeRequest \/ TakeCompleted \/ ReadRequester \/ Crash PROVE entry' = entry
      BY <3>5 DEF TakeRequest, TakeCompleted, ReadRequester, Crash
    <3>6. ASSUME UNCHANGED vars PROVE entry' = entry
      BY <3>6 DEF vars
    <3> QED
      BY <1>1, <2>7, <3>1, <3>2, <3>3, <3>4, <3>5, <3>6
         DEF Next, Handler, Refilling, Adder, Loader
  <2> QED
    BY <2>1, <2>2, <2>3, <2>4, <2>5, <2>6, <2>7
<1>2. NeverDemoted <=> [][Kept]_vars
  BY DEF NeverDemoted
<1> QED
  BY <1>1, <1>2, AcquisitionInvariance, PTL DEF Spec

-----------------------------------------------------------------------------
(* Playable.                                                               *)

LEMMA NextPlayInv ==
  ASSUME "add" \notin Features, IInv, PlayInv, [Next]_vars
  PROVE  PlayInv'
<1> USE AcquisitionAssumption
    DEF IInv, TypeOK, Known, Old, PlayInv, Fetched, ReadyIsPlayable, Search, Work
<1>1. ASSUME NEW u \in Users, NEW s \in Songs,
             SearchNew(u, s) \/ SearchAutoPick(u, s) \/ RefillOne(u, s)
      PROVE  PlayInv'
  <2>1. InsertSongStub(s, u) /\ UNCHANGED loader
    BY <1>1 DEF SearchNew, SearchAutoPick, RefillOne, workers
  <2>2. \/ http' = http
        \/ \E step \in {"publish", "intent"} :
             http' = [http EXCEPT ![u] = [song |-> s, step |-> step]]
    BY <1>1 DEF SearchNew, SearchAutoPick, RefillOne, Start
  <2>3. \A v \in Users : http'[v] # None /\ http'[v].step = "append" => http'[v] = http[v]
    BY <2>2
  <2> QED
    BY <2>1, <2>3 DEF InsertSongStub
<1>2. ASSUME NEW u \in Users, NEW s \in Songs, SearchCached(u, s) PROVE PlayInv'
  BY <1>2 DEF SearchCached, Start, rows, workers
<1>3. ASSUME NEW u \in Users, NEW s \in Songs, SearchReuse(u, s) PROVE PlayInv'
  BY <1>3 DEF SearchReuse, Start, rows, workers
<1>4. ASSUME NEW u \in Users, NEW s \in Songs, Leave(u, s) PROVE PlayInv'
  BY <1>4 DEF Leave, request, workers
<1>5. ASSUME NEW u \in Users, AppendCached(u) PROVE PlayInv'
  BY <1>5 DEF AppendCached, At, AppendEntry, Respond, workers
<1>6. ASSUME NEW u \in Users, UpdateSongRequester(u) PROVE PlayInv'
  BY <1>6 DEF UpdateSongRequester, At, workers
<1>7. ASSUME NEW u \in Users, PublishSearch(u) \/ PublishIntent(u) \/ Disconnect(u)
      PROVE  PlayInv'
  <2>1. UNCHANGED <<rows, workers>> /\ http' = [http EXCEPT ![u] = None]
    BY <1>7 DEF PublishSearch, PublishIntent, Disconnect, Respond
  <2> QED
    BY <2>1 DEF rows, workers
<1>8. ASSUME NEW u \in Users, Trigger(u) PROVE PlayInv'
  BY <1>8 DEF Trigger, rows, workers
<1>9. CASE Seeder \/ Downloads
  BY <1>9 DEF Seeder, SeedPicks, SeedFindsNothing, SeedFails, Downloads, Download,
              rows, request, workers
<1>10. CASE TakeRequest
  BY <1>10 DEF TakeRequest, rows, request
<1>11. CASE AddProbing
  BY <1>11 DEF AddProbing, InsertProbingEntry, request
<1>12. CASE TakeCompleted
  <2>1. loaded # <<>> /\ Head(loaded) \in Loaded
    BY <1>12, TailIn DEF TakeCompleted
  <2>2. Head(loaded).song \in Songs /\ Head(loaded).song \in Old
    BY <2>1, TailIn DEF Loaded
  <2> QED
    BY <1>12, <2>2 DEF TakeCompleted, request
<1>13. CASE TakeFailed
  <2>1. loader' = None /\ http' = http
    BY <1>13 DEF TakeFailed, workers, request
  <2> QED
    BY <1>13, <2>1 DEF TakeFailed, DeleteSong
<1>14. CASE ReadRequester
  BY <1>14 DEF ReadRequester, rows, request
<1>15. CASE AppendForRequester
  BY <1>15 DEF AppendForRequester, MakeReady, request
<1>16. CASE Crash
  BY <1>16 DEF Crash, rows
<1>17. CASE UNCHANGED vars
  BY <1>17 DEF vars
<1>18. ~ \E u \in Users, s \in Songs : AddSong(u, s)
  BY DEF AddSong
<1> QED
  BY <1>1, <1>2, <1>3, <1>4, <1>5, <1>6, <1>7, <1>8, <1>9, <1>10, <1>11, <1>12,
     <1>13, <1>14, <1>15, <1>16, <1>17, <1>18 DEF Next, Handler, Refilling, Adder, Loader

\* An entry that is ready has its file, under any interleaving of searches,
\* refills, the two queue workers, failures and crashes, as long as nobody
\* adds a stub by hand: AddSong appends a ready entry for any row.
THEOREM ReadyHasFile ==
  ASSUME "add" \notin Features
  PROVE  Spec => []ReadyIsPlayable
<1>1. Init => PlayInv
  BY AcquisitionAssumption DEF Init, PlayInv, Fetched, ReadyIsPlayable
<1>2. IInv /\ PlayInv /\ [Next]_vars => PlayInv'
  BY NextPlayInv
<1>3. PlayInv => ReadyIsPlayable
  BY DEF PlayInv
<1> QED
  BY <1>1, <1>2, <1>3, AcquisitionInvariance, PTL DEF Spec
==============================================================================
