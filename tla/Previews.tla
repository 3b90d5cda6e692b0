------------------------------ MODULE Previews ------------------------------
(***************************************************************************)
(* The search endpoints (internal/search) on top of the Discogs client and *)
(* the Soulseek session.  A preview or a detail page is a fan-out of calls *)
(* of the client.  An availability request probes Soulseek, each probe in  *)
(* a goroutine that waits for another one, which enters the process-wide   *)
(* gate and searches: when the context ends the first gives up and the     *)
(* second is left behind, with its slot, until Soulseek answers.           *)
(*                                                                         *)
(* A file is named by the title it matches; Noise matches none.            *)
(***************************************************************************)
EXTENDS Discogs, FiniteSets

CONSTANTS
  Mixes,         \* [Requests -> kinds]: who will ask what
  Artists,
  Titles,        \* the titles a page asks about, in order
  Bare,          \* those without a word to match on: TitleVariants is empty
  Sharing, Noise, \* titles some peer shares
  Thin,          \* artistThinBroadThreshold
  Slots,         \* searchGate
  ItemsAtOnce, FallbackAtOnce, \* availabilityConcurrency, artistFallbackConcurrency
  MaxProbes,     \* artistFallbackMaxProbes
  MaxEntries, BroadTTL, \* broadCacheMaxEntries, broadCacheTTL
  PreviewLimit, PageLimit, CreditLimit

PageKinds == {"preview", "artist", "label", "credit", "search", "query"}
ProbeKinds == {"items", "byArtist"}
TitleSet == {Titles[i] : i \in DOMAIN Titles}
Files == Sharing \cup {Noise}
Probes == Requests \X (0..Len(Titles))   \* 0: the broad search

ASSUME PreviewsAssumption ==
  /\ Mixes \subseteq [Requests -> PageKinds \cup ProbeKinds \cup {"none"}]
  /\ Titles \in Seq(TitleSet)
  /\ Noise \notin TitleSet /\ Sharing \subseteq TitleSet \ Bare
  /\ MaxEntries \in Nat \ {0} /\ Slots \in Nat \ {0}
  /\ BroadTTL \in Nat
  /\ PreviewLimit \in Nat \ {0} /\ PageLimit \in Nat \ {0} /\ CreditLimit \in Nat \ {0}

VARIABLES
  job,     \* [Requests -> [kind, step, artist, next, probed, since]]
  status,  \* [Requests -> Int]: the HTTP status, 0 until the reply
  results, \* [Requests -> SUBSET TitleSet]: the rows marked Available
  probe,   \* [Probes -> [outer, inner, files]]: the two goroutines
  broad,   \* broadCache: artist -> [files, at], a partial function
  heard    \* [Artists \X Files -> Int]: when a search last found it (history)

previewVars == <<job, status, results, probe, broad, heard>>
vars == <<discogsVars, previewVars>>

NoProbe == [outer |-> "none", inner |-> "none", files |-> {}]
Idle(kind) == [kind |-> kind, step |-> "idle", artist |-> "none", next |-> 1,
               probed |-> 0, since |-> 0]

Init ==
  /\ InitDiscogs
  /\ \E mix \in Mixes : job = [r \in Requests |-> Idle(mix[r])]
  /\ status = [r \in Requests |-> 0]
  /\ results = [r \in Requests |-> {}]
  /\ probe = [p \in Probes |-> NoProbe]
  /\ broad = [a \in {} |-> {}]
  /\ heard = [x \in Artists \X Files |-> -BroadTTL - 1]

Goto(r, step) == job' = [job EXCEPT ![r].step = step]
Reply(r, code) == Goto(r, "done") /\ status' = [status EXCEPT ![r] = code]

-----------------------------------------------------------------------------
\* Preview, Artist, Label, the release list of the collaborators bucket, and
\* a worker's Search or SearchQuery.

CallsOf(kind) ==
  CASE kind = "preview" -> {"releases", "artists", "labels"}
    [] kind \in {"artist", "label"} -> {"list", "entity"}
    [] kind = "credit" -> {"list"}
    [] OTHER -> {"pick"}

\* ArtistReleases and LabelReleases leave the limit out of the key.
KeyOf(kind, section) ==
  CASE section = "releases" \/ kind = "query" -> "search:q"
    [] section = "artists" -> "search:type=artist:q"
    [] section = "labels" -> "search:type=label:q"
    [] section = "pick" -> "search:genre"
    [] section = "entity" -> kind
    [] OTHER -> IF kind = "label" THEN "label:releases" ELSE "artist:releases"

ASSUME KeysAssumption ==
  \A kind \in PageKinds : \A s \in CallsOf(kind) : KeyOf(kind, s) \in Keys

LimitOf(kind) ==
  CASE kind = "preview" -> PreviewLimit
    [] kind = "credit" -> CreditLimit
    [] OTHER -> PageLimit

\* per_page: a search asks for a full page of 100 whatever it shows.
PerPage(kind, section) == IF section = "list" THEN LimitOf(kind) ELSE 100

Begin(r, kinds, step, a) ==
  /\ job[r].step = "idle" /\ job[r].kind \in kinds
  /\ job' = [job EXCEPT ![r].step = step, ![r].artist = a, ![r].since = now]

BeginPage(r) ==
  /\ Begin(r, PageKinds, "calls", "none")
  /\ LET kind == job[r].kind IN
     call' = [c \in Calls |-> IF c[1] = r /\ c[2] \in CallsOf(kind)
                                THEN Started(KeyOf(kind, c[2]), PerPage(kind, c[2]))
                                ELSE call[c]]
  /\ UNCHANGED <<now, before, bucketVars, row, over, answered>>
  /\ UNCHANGED <<status, results, probe, broad, heard>>

Failed(r) == {s \in CallsOf(job[r].kind) : call[<<r, s>>].err # "none"}

\* A preview fails when all of it did, with the error of the releases; a
\* detail page fails with its list.
Deciding(r) ==
  IF job[r].kind = "preview"
    THEN IF Failed(r) = CallsOf("preview") THEN "releases" ELSE "none"
    ELSE IF Failed(r) \ {"entity"} # {} THEN CHOOSE s \in Failed(r) \ {"entity"} : TRUE
    ELSE "none"

Code(err) == CASE err = "rate" -> 503 [] err = "missing" -> 404 [] OTHER -> 502

JoinPage(r) ==
  /\ job[r].step = "calls"
  /\ \A s \in CallsOf(job[r].kind) : call[<<r, s>>].step = "done"
  /\ LET s == Deciding(r)
     IN Reply(r, IF s = "none" THEN 200 ELSE Code(call[<<r, s>>].err))
  /\ UNCHANGED <<discogsVars, results, probe, broad, heard>>

\* What the caller may get to see of a section that came back.
Shows(r, s) ==
  LET c == call[<<r, s>>]
      body == SubSeq(Api[c.key], 1, c.body)
      limit == LimitOf(job[r].kind)
  IN CASE s = "releases" -> {PickAll(body, limit)}
       [] s \in {"artists", "labels"} -> {ParseEntities(body, limit)}
       [] s = "list" -> {Discography(body, limit)}
       [] s = "pick" /\ job[r].kind = "query" -> {PickFirst(body)}
       [] s = "pick" /\ job[r].kind = "search" -> PickRandom(body)
       [] OTHER -> {}

-----------------------------------------------------------------------------
\* Probes.

Launched(p) == probe' = [probe EXCEPT ![p].outer = "wait", ![p].inner = "gate"]
InFlight == {p \in Probes : probe[p].inner = "search"}
Waiting(r) == {i \in 1..Len(Titles) : probe[<<r, i>>].outer = "wait"}

\* gatedSearch: a slot, or the end of the context, or either of the two.
EnterGate(p) ==
  /\ probe[p].inner = "gate"
  /\ Cardinality(InFlight) < Slots
  /\ probe' = [probe EXCEPT ![p].inner = "search"]
  /\ UNCHANGED <<discogsVars, job, status, results, broad, heard>>

\* Nobody reads the channel of a probe that was given up.
Ended(p, files) ==
  probe' = [probe EXCEPT ![p].inner = IF probe[p].outer = "wait" THEN "done" ELSE "none",
                         ![p].files = IF probe[p].outer = "wait" THEN files ELSE {}]

LeaveGate(p) ==
  /\ probe[p].inner = "gate" /\ over[p[1]]
  /\ Ended(p, {})
  /\ UNCHANGED <<discogsVars, job, status, results, broad, heard>>

\* Soulseek matches loosely: a search for a title may return noise.  An
\* error gives the empty answer, as the callers make no difference.
Asked(p) == IF p[2] = 0 THEN Sharing ELSE Sharing \cap {Titles[p[2]]}

SoulseekAnswers(p) ==
  /\ probe[p].inner = "search"
  /\ \E files \in SUBSET (Asked(p) \cup {Noise}) :
       /\ Ended(p, files)
       /\ heard' = [x \in DOMAIN heard |->
                      IF x[1] = job[p[1]].artist /\ x[2] \in files THEN now ELSE heard[x]]
  /\ UNCHANGED <<discogsVars, job, status, results, broad>>

\* filterFilenamesByTitle, for the items endpoint: without variants the
\* filter lets everything through.
Hit(kind, title, files) ==
  title \in files \/ (kind = "items" /\ title \in Bare /\ files # {})

Collect(r, i) ==
  LET p == <<r, i>> IN
  /\ i # 0
  /\ probe[p].outer = "wait" /\ probe[p].inner = "done"
  /\ results' = IF Hit(job[r].kind, Titles[i], probe[p].files)
                  THEN [results EXCEPT ![r] = @ \cup {Titles[i]}] ELSE results
  /\ probe' = [probe EXCEPT ![p] = NoProbe]
  /\ UNCHANGED <<discogsVars, job, status, broad, heard>>

\* A bug to find: the probe waits for its search whatever the context.
AbandonAnswered(r, i) ==
  LET p == <<r, i>> IN
  /\ i # 0
  /\ probe[p].outer = "wait" /\ probe[p].inner = "done" /\ over[r]
  /\ probe' = [probe EXCEPT ![p] = NoProbe]
  /\ UNCHANGED <<discogsVars, job, status, results, broad, heard>>

\* The select of the outer goroutine sees the end of the context.
Abandon(r, i) ==
  LET p == <<r, i>> IN
  /\ i # 0
  /\ probe[p].outer = "wait" /\ over[r]
  /\ probe' = [probe EXCEPT ![p].outer = "none",
                            ![p].inner = IF @ = "done" THEN "none" ELSE @,
                            ![p].files = {}]
  /\ UNCHANGED <<discogsVars, job, status, results, broad, heard>>

-----------------------------------------------------------------------------
\* CheckAvailability.

BeginItems(r, a) ==
  /\ Begin(r, {"items"}, "loop", a)
  /\ UNCHANGED <<discogsVars, status, results, probe, broad, heard>>

AtEnd(r) == job[r].next > Len(Titles)
Next1(r) == job' = [job EXCEPT ![r].next = @ + 1]

\* The loop looks at the context, and then sem <- struct{}{} waits for a
\* slot whatever becomes of it.
LaunchItem(r) ==
  /\ job[r].step = "loop" /\ job[r].kind = "items" /\ ~AtEnd(r)
  /\ \/ over[r] /\ UNCHANGED probe
     \/ Cardinality(Waiting(r)) < ItemsAtOnce /\ Launched(<<r, job[r].next>>)
  /\ Next1(r)
  /\ UNCHANGED <<discogsVars, status, results, broad, heard>>

JoinProbes(r) ==
  /\ job[r].step = "loop" /\ AtEnd(r) /\ Waiting(r) = {}
  /\ Reply(r, 200)
  /\ UNCHANGED <<discogsVars, results, probe, broad, heard>>

-----------------------------------------------------------------------------
\* CheckByArtistAvailability.

FreshBroad(a) == a \in DOMAIN broad /\ now <= broad[a].at + BroadTTL

\* applyBroad.
Found(files) == {t \in TitleSet \ Bare : t \in files}

\* broadCacheGet drops an entry it finds expired.
BeginByArtist(r, a) ==
  /\ LET hit == FreshBroad(a)
     IN /\ Begin(r, {"byArtist"}, IF hit THEN "done" ELSE "broad", a)
        /\ status' = IF hit THEN [status EXCEPT ![r] = 200] ELSE status
        /\ results' = IF hit THEN [results EXCEPT ![r] = Found(broad[a].files)] ELSE results
        /\ IF hit THEN UNCHANGED probe ELSE Launched(<<r, 0>>)
        /\ broad' = IF hit THEN broad ELSE [x \in DOMAIN broad \ {a} |-> broad[x]]
  /\ UNCHANGED <<discogsVars, heard>>

\* broadCachePut: a full cache loses its expired entries, or any one.
Live == {a \in DOMAIN broad : FreshBroad(a)}
Kept == IF Cardinality(DOMAIN broad) < MaxEntries THEN {DOMAIN broad}
        ELSE IF Cardinality(Live) < MaxEntries THEN {Live}
        ELSE {Live \ {a} : a \in Live}

BroadEnds(r, files) ==
  /\ probe' = [probe EXCEPT ![<<r, 0>>].outer = "none",
                            ![<<r, 0>>].inner = IF @ = "done" THEN "none" ELSE @,
                            ![<<r, 0>>].files = {}]
  /\ IF files = {}
       THEN Reply(r, 200) /\ UNCHANGED <<results, broad>>
       ELSE /\ \E kept \in Kept :
                 broad' = [x \in kept \cup {job[r].artist} |->
                             IF x = job[r].artist THEN [files |-> files, at |-> now] ELSE broad[x]]
            /\ results' = [results EXCEPT ![r] = Found(files)]
            /\ IF Cardinality(files) < Thin
                 THEN Goto(r, "loop") /\ UNCHANGED status
                 ELSE Reply(r, 200)
  /\ UNCHANGED <<discogsVars, heard>>

CollectBroad(r) ==
  /\ job[r].step = "broad" /\ probe[<<r, 0>>].inner = "done"
  /\ BroadEnds(r, probe[<<r, 0>>].files)

AbandonBroad(r) ==
  /\ job[r].step = "broad" /\ over[r]
  /\ BroadEnds(r, {})

\* runPerTitleFallback.  Past the budget the loop ends.
SkipTitle(r) ==
  /\ job[r].step = "loop" /\ job[r].kind = "byArtist" /\ ~AtEnd(r)
  /\ LET t == Titles[job[r].next] IN
       \/ (t \in results[r] \/ t \in Bare) /\ Next1(r)
       \/ /\ t \notin results[r] \cup Bare
          /\ job[r].probed >= MaxProbes
          /\ job' = [job EXCEPT ![r].next = Len(Titles) + 1]
  /\ UNCHANGED <<discogsVars, status, results, probe, broad, heard>>

Probing(r) ==
  /\ job[r].step = "loop" /\ job[r].kind = "byArtist" /\ ~AtEnd(r)
  /\ Titles[job[r].next] \notin results[r] \cup Bare
  /\ job[r].probed < MaxProbes

LaunchFallback(r) ==
  /\ Probing(r) /\ Cardinality(Waiting(r)) < FallbackAtOnce
  /\ Launched(<<r, job[r].next>>)
  /\ job' = [job EXCEPT ![r].next = @ + 1, ![r].probed = @ + 1]
  /\ UNCHANGED <<discogsVars, status, results, broad, heard>>

\* The select may see the context first: it returns without wg.Wait, and
\* the probes still out go on writing the results that are being sent.
LeaveFallback(r) ==
  /\ Probing(r) /\ over[r]
  /\ Reply(r, 200)
  /\ UNCHANGED <<discogsVars, results, probe, broad, heard>>

-----------------------------------------------------------------------------

\* The client goes away, or the deadline of an availability request passes.
Cancel(r) ==
  /\ job[r].step \notin {"idle", "done"} /\ ~over[r]
  /\ over' = [over EXCEPT ![r] = TRUE]
  /\ UNCHANGED <<now, before, bucketVars, row, call, answered>>
  /\ UNCHANGED previewVars

\* A tick is long against the handing over of an answer.
PassTime ==
  /\ \A p \in Probes : probe[p].inner # "done"
  /\ Tick
  /\ UNCHANGED previewVars

Page(r) == (\E s \in Sections : Call(<<r, s>>) /\ UNCHANGED previewVars) \/ JoinPage(r)

Availability(r) ==
  \/ LaunchItem(r) \/ JoinProbes(r) \/ CollectBroad(r) \/ AbandonBroad(r)
  \/ SkipTitle(r) \/ LaunchFallback(r) \/ LeaveFallback(r)

Goroutine(p) ==
  EnterGate(p) \/ LeaveGate(p) \/ Collect(p[1], p[2]) \/ Abandon(p[1], p[2])

Next ==
  \/ \E r \in Requests :
       \/ BeginPage(r)
       \/ \E a \in Artists : BeginItems(r, a) \/ BeginByArtist(r, a)
       \/ Page(r) \/ Availability(r) \/ Cancel(r)
  \/ \E p \in Probes : Goroutine(p) \/ SoulseekAnswers(p)
  \/ PassTime

Spec == Init /\ [][Next]_vars

-----------------------------------------------------------------------------

Answer(r, s) ==
  job[r].kind \in PageKinds /\ job[r].step = "done" /\ status[r] = 200
    /\ s \in CallsOf(job[r].kind) /\ call[<<r, s>>].err = "none"

\* Of the names listed none is shown twice, and of those that can be used
\* none is left out while there is room.
Whole(rows, usable, listed, limit) ==
  LET names == {rows[i].name : i \in DOMAIN rows} IN
  /\ names \subseteq listed
  /\ Cardinality(names) = Len(rows) /\ Len(rows) <= limit
  /\ Len(rows) < limit => usable \subseteq names

\* "30-day SQLite cache": what a section shows is the whole of what Discogs
\* said for that key less than the TTL before the request.
PageTrue(r, s) ==
  LET c == call[<<r, s>>]
      named(rows) == {Api[c.key][i].name : i \in rows} \ {Blank}
      usable == named({i \in 1..c.body : Api[c.key][i].id # 0})
      limit == IF s = "pick" THEN 1 ELSE LimitOf(job[r].kind)
  IN /\ answered[c.key] > job[r].since - TTL
     /\ \A rows \in Shows(r, s) : Whole(rows, usable, named(1..c.body), limit)

\* "A hit has to carry every title token in its filename to count", and a
\* cached sample is at most BroadTTL old: a row says Available only when
\* Soulseek has just had a file of it.  A title without tokens has no rule.
ProbeTrue(r, t) ==
  \E f \in Files :
    /\ f = t \/ (job[r].kind = "items" /\ t \in Bare)
    /\ heard[<<job[r].artist, f>>] >= job[r].since - BroadTTL

\* A reply says what was seen, whatever was cached, cancelled or left behind.
RepliesTrue ==
  \A r \in Requests :
    /\ \A s \in Sections : Answer(r, s) => PageTrue(r, s)
    /\ \A t \in results[r] : ProbeTrue(r, t)
=============================================================================
