------------------------------- MODULE Player -------------------------------
(***************************************************************************)
(* The page that plays: frontend/src/stores/player.js and queue.js, the    *)
(* audio element of PlayerBar.vue, and the user's queue on the server.     *)
(* JavaScript runs one function at a time up to its next await; what       *)
(* waits there is a bag of tasks, and answers come in any order.           *)
(***************************************************************************)
EXTENDS Catalog, Integers, Sequences, SequencesExt, FiniteSets, Bags

BagOps == INSTANCE BagsExt

CONSTANTS
  TaskBound,  \* bound: no click and no end of a song while this many tasks wait
  EarBound    \* bound: listeners of the audio element that are told apart

ASSUME PlayerAssumption ==
  /\ None \notin Songs
  /\ TaskBound \in Nat /\ EarBound \in Nat \ {0}

VARIABLES
  page,    \* what the stores and the element hold, a record
  repeat,  \* the repeat mode
  tasks,   \* a bag: the async calls that wait for an answer
  ears,    \* how often setAudioElement added its listeners
  ringing, \* how many of them have still to run for the "ended" event
  server   \* the rows GetQueue lists, in order

playerVars == <<page, repeat, tasks, ears, ringing, server>>

\* audio: "empty" has no src, "loading" has a play() pending, "dead" cannot
\* play its src.  asked is a history variable: the music is to go on.
Page == [current : Songs \cup {None}, playing : BOOLEAN, queue : Seq(Songs), index : Int,
         ending : BOOLEAN, navigating : BOOLEAN, src : Songs \cup {None},
         audio : {"empty", "loading", "playing", "paused", "ended", "dead"},
         asked : BOOLEAN]

\* A fetchQueue has a skipAutoSelect and whom it returns to: a play() that
\* gives its song up (removeSongFromQueue waits for it), or nobody.
Task == [at : {"blob", "drop", "mark"}, song : Songs]
        \cup [at : {"caught"}, song : Songs, broken : BOOLEAN]
        \cup [at : {"ask"}, skip : BOOLEAN, gives : BOOLEAN]
        \cup [at : {"told"}, skip : BOOLEAN, gives : BOOLEAN, songs : Seq(Songs)]

PlayerTypeOK ==
  /\ page \in Page
  /\ repeat \in {"off", "all", "one"}
  /\ tasks \in [DOMAIN tasks -> Nat \ {0}] /\ DOMAIN tasks \subseteq Task
  /\ server \in Seq(Songs)
  /\ ears \in 1..EarBound /\ ringing \in 0..EarBound

PlayerInit ==
  /\ page = [current |-> None, playing |-> FALSE, queue |-> <<>>, index |-> -1,
             ending |-> FALSE, navigating |-> FALSE, src |-> None, audio |-> "empty",
             asked |-> FALSE]
  /\ repeat = "off" /\ tasks = [t \in {} |-> 1]  \* the empty bag
  /\ ears = 1 /\ ringing = 0
  /\ server = <<>>

Lists == {q \in SeqOf(Songs, Cardinality(Songs)) : q # <<>> /\ IsInjective(q)}

Blob(s)         == [at |-> "blob", song |-> s]
Mark(s)         == [at |-> "mark", song |-> s]
Drop(s)         == [at |-> "drop", song |-> s]
Caught(s, b)    == [at |-> "caught", song |-> s, broken |-> b]
Ask(skip, give) == [at |-> "ask", skip |-> skip, gives |-> give]

-----------------------------------------------------------------------------
(* The synchronous functions.  Each maps a run, the page and the tasks so  *)
(* far, to one, as handleSongEnd calls next, which calls play.             *)

Run(p)      == [p |-> p, tasks |-> tasks]
Returned(t) == [p |-> page, tasks |-> BagOps!BagRemove(tasks, t)]  \* t has its answer
Call(r, t)  == [r EXCEPT !.tasks = BagOps!BagAdd(@, t)]

MarkSkipped(r) ==
  IF r.p.current = None \/ r.p.ending THEN r ELSE Call(r, Mark(r.p.current))

\* audioElement.play() of a src that is loaded; its rejection is only logged.
Resume(r) ==
  IF r.p.audio \notin {"playing", "paused", "ended"} THEN r
  ELSE [r EXCEPT !.p.audio = "playing", !.p.playing = TRUE]

Play(r, s) ==
  IF r.p.current = s /\ r.p.src # None THEN Resume(r)
  ELSE LET left   == r.p.current \notin {None, s} /\ ~r.p.navigating
           marked == IF left THEN MarkSkipped(r) ELSE r
       IN  Call([marked EXCEPT !.p.ending = FALSE, !.p.navigating = FALSE], Blob(s))

HasNext(p) == IF repeat = "all" THEN p.queue # <<>> ELSE p.index < Len(p.queue) - 1
HasPrev(p) == IF repeat = "all" THEN p.queue # <<>> ELSE p.index > 0

\* Indices count from 0, sequences from 1.  Without a song at i, play rejects.
GoTo(r, i) ==
  LET there == [r EXCEPT !.p.index = i]
  IN  IF i < Len(r.p.queue) THEN Play(there, r.p.queue[i + 1]) ELSE there

\* Mutant: the queue does not loop back.
GoNextUntilEnd(r) ==
  IF repeat = "one" /\ r.p.current # None
    THEN Play([r EXCEPT !.p.navigating = TRUE], r.p.current)
  ELSE IF r.p.queue = <<>> THEN [r EXCEPT !.p.asked = FALSE]
  ELSE LET left == MarkSkipped([r EXCEPT !.p.navigating = TRUE])
       IN  IF HasNext(r.p) THEN GoTo(left, r.p.index + 1) ELSE left

GoNext(r) ==
  IF repeat = "one" /\ r.p.current # None
    THEN Play([r EXCEPT !.p.navigating = TRUE], r.p.current)
  ELSE IF r.p.queue = <<>> THEN [r EXCEPT !.p.asked = FALSE]
  ELSE LET left == MarkSkipped([r EXCEPT !.p.navigating = TRUE])
       IN  IF ~HasNext(r.p) THEN GoTo(left, 0)
           ELSE IF r.p.index + 1 < Len(r.p.queue) THEN GoTo(left, r.p.index + 1)
           ELSE left

GoPrevious(r) ==
  IF repeat = "one" /\ r.p.current # None
    THEN Play([r EXCEPT !.p.navigating = TRUE], r.p.current)
  ELSE LET left == MarkSkipped([r EXCEPT !.p.navigating = TRUE])
       IN  IF HasPrev(r.p)
             THEN IF r.p.index > 0 THEN GoTo(left, r.p.index - 1) ELSE left
           ELSE left

\* handleSongEnd.  play(null) rejects, so with repeat one and no current song
\* nothing plays.
SongEnd(r) ==
  LET ended    == [r EXCEPT !.p.ending = TRUE, !.p.asked = TRUE]
      reported == IF r.p.current = None THEN ended
                  ELSE Call(ended, Mark(r.p.current))
  IN  IF repeat # "one" THEN GoNext(reported)
      ELSE IF r.p.current = None
             THEN [reported EXCEPT !.p.navigating = TRUE, !.p.ending = FALSE]
      ELSE LET again == Play([reported EXCEPT !.p.navigating = TRUE], r.p.current)
           IN  [again EXCEPT !.p.ending = FALSE]

\* The end of play()'s catch: what failed is no longer current, and next().
GiveUp(r) ==
  LET silent == [r EXCEPT !.p.current = None, !.p.playing = FALSE]
  IN  IF r.p.queue = <<>> THEN [silent EXCEPT !.p.asked = FALSE]
      ELSE GoNext([silent EXCEPT !.p.asked = TRUE])

\* SongDTO has no listenCount, so the first song counts as unplayed.
SelectFirst(r) ==
  IF r.p.queue = <<>> \/ r.p.current # None THEN r
  ELSE [r EXCEPT !.p.index = 0, !.p.current = r.p.queue[1]]

IndexOf(q, s) == SelectInSeq(q, LAMBDA x : x = s) - 1

\* fetchQueue has its answer: the queue is replaced and the index follows.
Synced(r, t) ==
  LET got == [r EXCEPT !.p.queue = t.songs]
  IN  IF r.p.current # None
        THEN IF IndexOf(t.songs, r.p.current) < 0 THEN got
             ELSE [got EXCEPT !.p.index = IndexOf(t.songs, r.p.current)]
      ELSE IF t.skip THEN got ELSE SelectFirst(got)

\* load() makes the element reject a play() that is pending, pause() too.
Interrupted(r) ==
  IF r.p.audio = "loading" THEN Call(r, Caught(r.p.src, FALSE)) ELSE r

-----------------------------------------------------------------------------

\* A script runs to its end.
Do(r) == page' = r.p /\ tasks' = r.tasks
At(a) == {t \in DOMAIN tasks : t.at = a}
Idle  == ringing = 0 /\ BagCardinality(tasks) < TaskBound
Rest  == UNCHANGED <<repeat, ears, ringing, server>>

\* A play() is on its way to a sound or to the next song.
UnderWay ==
  \/ At("blob") \cup At("caught") \cup At("drop") # {}
  \/ \E t \in At("ask") \cup At("told") : t.gives

(* Clicks.                                                                 *)

\* A row of the queue, of a playlist or of the graph: play the song, unless
\* it plays already (TogglePlay).
Click(s) ==
  /\ Idle
  /\ ~(page.playing /\ page.current = s)
  /\ Do(Play(Run(page), s))
  /\ Rest

\* setQueue: the songs of the queue or of a playlist become the page's queue.
PlayAll(list) ==
  /\ Idle
  /\ Do(Play(Run([page EXCEPT !.queue = list, !.index = 0]), Head(list)))
  /\ Rest

ClickNext ==
  /\ Idle /\ (HasNext(page) \/ repeat # "off")
  /\ Do(GoNext(Run(page)))
  /\ Rest

ClickPrevious ==
  /\ Idle /\ (HasPrev(page) \/ repeat # "off")
  /\ Do(GoPrevious(Run(page)))
  /\ Rest

TogglePlay ==
  /\ Idle /\ page.current # None
  /\ IF page.playing
       THEN LET r == Interrupted(Run(page))
                a == IF page.audio \in {"loading", "playing"} THEN "paused" ELSE page.audio
            IN  Do([r EXCEPT !.p.audio = a, !.p.playing = FALSE, !.p.asked = FALSE])
       ELSE Do(Resume(Run(page)))
  /\ Rest

ToggleRepeat ==
  /\ Idle
  /\ repeat' = CASE repeat = "off" -> "all" [] repeat = "all" -> "one" [] repeat = "one" -> "off"
  /\ page' = [page EXCEPT !.asked = FALSE]
  /\ UNCHANGED <<tasks, ears, ringing, server>>

\* toggleShuffle, when it turns the shuffle on.
Shuffle ==
  /\ Idle
  /\ \E q \in Lists :
       /\ Len(page.queue) > 1 /\ Len(q) = Len(page.queue) /\ ToSet(q) = ToSet(page.queue)
       /\ page' = [page EXCEPT !.queue = q, !.index = IndexOf(q, page.current)]
  /\ UNCHANGED tasks /\ Rest

\* A view that was opened, polls, or has put a song into the queue reads it.
Refresh(skip) ==
  /\ Idle
  /\ tasks' = BagOps!BagAdd(tasks, Ask(skip, FALSE))
  /\ UNCHANGED page /\ Rest

\* Every view has a PlayerBar of its own, so navigation replaces the audio
\* element: the old one stops as it leaves the document, which rejects a
\* play() that is pending, and the new one is mounted with no src.  The store
\* is not told: its song and isPlaying stay.  Until the old view has faded
\* out its element is the store's.
OpenView ==
  /\ ringing = 0
  /\ LET r == Interrupted(Run(page))
     IN  Do([r EXCEPT !.p.src = None, !.p.audio = "empty",
                      !.p.asked = @ /\ (page.audio # "playing" \/ UnderWay)])
  /\ ears' = 1
  /\ UNCHANGED <<repeat, ringing, server>>

-----------------------------------------------------------------------------
(* The audio element.                                                      *)

\* @loadedmetadata calls setAudioElement again, for the element the store has:
\* its listeners are added once more.
Metadata == ears' = IF ears < EarBound THEN ears + 1 ELSE ears

Start ==
  /\ ringing = 0 /\ page.audio = "loading"
  /\ page' = [page EXCEPT !.audio = "playing", !.playing = TRUE]
  /\ Metadata
  /\ UNCHANGED <<repeat, tasks, ringing, server>>

\* The media is broken, or the browser wants a click first.  Whether the
\* message tells isSongNotWorking so depends on the browser.
StartFails ==
  /\ ringing = 0 /\ page.audio = "loading"
  /\ \E a \in {"dead", "paused"}, broken \in BOOLEAN :
       /\ broken => a = "dead"
       /\ IF a = "dead" THEN UNCHANGED ears ELSE Metadata
       /\ Do(Call(Run([page EXCEPT !.audio = a]), Caught(page.src, broken)))
  /\ UNCHANGED <<repeat, ringing, server>>

Ended ==
  /\ Idle /\ page.audio = "playing"
  /\ page' = [page EXCEPT !.audio = "ended"]
  /\ ringing' = ears
  /\ UNCHANGED <<repeat, tasks, ears, server>>

\* One listener runs after the other, and nothing in between.
Ring ==
  /\ ringing > 0
  /\ ringing' = ringing - 1
  /\ Do(SongEnd(Run(page)))
  /\ UNCHANGED <<repeat, ears, server>>

-----------------------------------------------------------------------------
(* Answers.                                                                *)

BlobArrives ==
  \E t \in At("blob") :
    /\ ringing = 0
    /\ Do(LET r == Interrupted(Returned(t))
          IN  [r EXCEPT !.p.current = t.song, !.p.src = t.song, !.p.audio = "loading"])
    /\ Rest

BlobFails ==
  \E t \in At("blob") :
    /\ ringing = 0
    /\ Do(Call(Returned(t), Caught(t.song, TRUE)))
    /\ Rest

Catch ==
  \E t \in At("caught") :
    /\ ringing = 0
    /\ Do(IF t.broken THEN Call(Returned(t), Drop(t.song)) ELSE GiveUp(Returned(t)))
    /\ Rest

\* DELETE of the song; without a row it is an error, as is a lost answer.
Dropped ==
  \E t \in At("drop") :
    /\ ringing = 0 /\ t.song \in ToSet(server)
    /\ server' = RemoveFirst(server, t.song)
    /\ Do(Call(Returned(t), Ask(FALSE, TRUE)))
    /\ UNCHANGED <<repeat, ears, ringing>>

DropFails ==
  \E t \in At("drop") :
    /\ ringing = 0
    /\ Do(GiveUp(Returned(t)))
    /\ Rest

\* A skip or a finish removes the row, if any, and the queue is read again.
MarkReturns ==
  \E t \in At("mark") :
    /\ ringing = 0
    /\ server' = RemoveFirst(server, t.song)
    /\ Do(Call(Returned(t), Ask(FALSE, FALSE)))
    /\ UNCHANGED <<repeat, ears, ringing>>

MarkFails ==
  \E t \in At("mark") : ringing = 0 /\ Do(Returned(t)) /\ Rest

GetQueue ==
  \E t \in At("ask") :
    /\ ringing = 0
    /\ Do(Call(Returned(t), [at |-> "told", skip |-> t.skip, gives |-> t.gives,
                              songs |-> server]))
    /\ Rest

FetchReturns ==
  \E t \in At("told") :
    /\ ringing = 0
    /\ Do(LET r == Synced(Returned(t), t) IN IF t.gives THEN GiveUp(r) ELSE r)
    /\ Rest

FetchFails ==
  \E t \in At("ask") :
    /\ ringing = 0
    /\ Do(IF t.gives THEN GiveUp(Returned(t)) ELSE Returned(t))
    /\ Rest

-----------------------------------------------------------------------------
(* The server, for other requests and the refiller.                        *)

RowAppended(s) ==
  /\ s \notin ToSet(server)
  /\ server' = Append(server, s)
  /\ UNCHANGED <<page, repeat, tasks, ears, ringing>>

PlayerNext ==
  \/ \E s \in Songs : Click(s) \/ RowAppended(s)
  \/ \E list \in Lists : PlayAll(list)
  \/ ClickNext \/ ClickPrevious \/ TogglePlay \/ ToggleRepeat \/ Shuffle
  \/ OpenView \/ \E skip \in BOOLEAN : Refresh(skip)
  \/ Start \/ StartFails \/ Ended \/ Ring
  \/ BlobArrives \/ BlobFails \/ Catch \/ Dropped \/ DropFails
  \/ MarkReturns \/ MarkFails \/ GetQueue \/ FetchReturns \/ FetchFails

PlayerSpec == PlayerInit /\ [][PlayerNext]_playerVars

-----------------------------------------------------------------------------

Sounds == page.audio \in {"loading", "playing"}

\* Once a song has ended or could not be played, and there are songs in the
\* queue, the music goes on: it sounds, or a play() is under way, until the
\* user pauses, or opens a view that silences it (handleSongEnd, next, and the
\* catch of play).  A play() under way survives the opening of a view.
SongsFollow == page.asked /\ ringing = 0 /\ repeat = "off" => Sounds \/ UnderWay

\* The same with repeat all, as next() says: "automatically loop back to
\* beginning.  This happens regardless of repeat mode setting".
LoopsBack == page.asked /\ ringing = 0 /\ repeat = "all" => Sounds \/ UnderWay

\* What is heard is the song the player shows (play's "same song" branch).
HeardIsShown == page.playing /\ page.audio = "playing" /\ page.current # None
                  => page.src = page.current
=============================================================================
