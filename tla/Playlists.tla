------------------------------ MODULE Playlists ------------------------------
(***************************************************************************)
(* internal/playlist: the rows of playlist_playlists and playlist_songs,   *)
(* and the goroutines that change them one statement at a time: the        *)
(* workers for UserCreated, LikedSong and UnlikedSong, and HTTP handlers.  *)
(* There is no mutex; the database has one connection, so statements do    *)
(* not overlap, and an index keeps a user's system-liked playlist unique.  *)
(***************************************************************************)
EXTENDS Integers, FiniteSets

CONSTANTS
  Users, Lists, Songs,
  Procs,     \* goroutines at work on playlists at the same time
  None,      \* no user, no list, no song
  PosBound   \* bound: no MAX is read from a list that has this position

ASSUME PlaylistsAssumption ==
  None \notin Users \cup Lists \cup Songs /\ PosBound \in Nat

VARIABLES
  user,    \* [Users -> {"row", "gone"}]: rows of auth_users
  catalog, \* SUBSET Songs: rows of queue_songs
  owner,   \* [Lists -> Users]: rows of playlist_playlists, None without a row
  liked,   \* SUBSET Lists: the rows with is_system_liked = 1
  tracks,  \* the rows of playlist_songs
  pc,      \* [Procs -> Location]
  job,     \* [Procs -> Job]: its operation, with the playlist once it has one
  seen     \* [Procs -> Int]: the MAX(position) it read, -1 for NULL

rows == <<user, catalog, owner, liked, tracks>>
vars == <<rows, pc, job, seen>>

Ops      == {"like", "unlike", "list", "add", "album", "remove"}
Location == {"idle", "find", "create", "reload", "get", "track", "max", "insert", "delete"}
Job      == [op : Ops, user : Users, list : Lists \cup {None}, song : Songs \cup {None}]
Track    == [list : Lists, song : Songs, pos : Nat]

TypeOK ==
  /\ user \in [Users -> {"row", "gone"}]
  /\ catalog \subseteq Songs
  /\ owner \in [Lists -> Users \cup {None}]
  /\ liked \subseteq Lists
  /\ tracks \subseteq Track
  /\ pc \in [Procs -> Location]
  /\ job \in [Procs -> Job \cup {None}]
  /\ seen \in [Procs -> Nat \cup {-1}]

Init ==
  /\ user = [u \in Users |-> "row"]
  /\ catalog = Songs
  /\ owner = [l \in Lists |-> None]
  /\ liked = {} /\ tracks = {}
  /\ pc = [p \in Procs |-> "idle"]
  /\ job = [p \in Procs |-> None]
  /\ seen = [p \in Procs |-> -1]

-----------------------------------------------------------------------------

LikedOf(u)   == {l \in liked : owner[l] = u}
Positions(l) == {t.pos : t \in {x \in tracks : x.list = l}}
Goto(p, l)   == pc' = [pc EXCEPT ![p] = l]
Finish(p)    == Goto(p, "idle") /\ job' = [job EXCEPT ![p] = None]
                /\ seen' = [seen EXCEPT ![p] = -1]

\* A track of an album is done, whether it was added, was there already or
\* was refused: on to the next.  Any other operation ends.
NextTrack(p) == IF job[p].op # "album" THEN Finish(p)
                ELSE Goto(p, "track") /\ UNCHANGED job /\ seen' = [seen EXCEPT ![p] = -1]

\* A uuid that no row has and no goroutine is about to insert.
Fresh(l) ==
  /\ owner[l] = None
  /\ l \notin {job[q].list : q \in {x \in Procs : job[x] # None}}

\* Where the operation goes on once it has its playlist.
Operate(p, op) ==
  IF op = "list" THEN Finish(p)
  ELSE /\ Goto(p, IF op \in {"like", "add"} THEN "max" ELSE "delete")
       /\ UNCHANGED seen

\* onUserCreated and ListForUser only need the system-liked playlist to
\* exist ("list"); onLiked and onUnliked change it. The event may be older
\* than the deletion of the account or of the song.
BeginLiked(p, op, u, s) ==
  /\ pc[p] = "idle"
  /\ op \in {"like", "unlike", "list"}
  /\ job' = [job EXCEPT ![p] = [op |-> op, user |-> u, list |-> None, song |-> s]]
  /\ Goto(p, "find")
  /\ UNCHANGED <<rows, seen>>

\* Service.AddSong and RemoveSong read the row for its owner first.
BeginOwned(p, op, u, l, s) ==
  /\ pc[p] = "idle" /\ owner[l] = u
  /\ op \in {"add", "remove"}
  /\ job' = [job EXCEPT ![p] = [op |-> op, user |-> u, list |-> l, song |-> s]]
  /\ Operate(p, op)
  /\ UNCHANGED rows

\* AddAlbum checks the owner before it asks Discogs for the tracklist ...
BeginAlbum(p, u, l) ==
  /\ pc[p] = "idle" /\ owner[l] = u
  /\ job' = [job EXCEPT ![p] = [op |-> "album", user |-> u, list |-> l, song |-> None]]
  /\ Goto(p, "track")
  /\ UNCHANGED <<rows, seen>>

\* ... and goes through it one by one: the track becomes a row of the
\* catalog, and Service.AddSong reads the owner again.  A track that fails
\* is passed over, and so are those after it when the playlist is gone.
AddTrack(p, s) ==
  LET j == job[p] IN
  /\ pc[p] = "track"
  /\ s \in catalog /\ owner[j.list] = j.user
  /\ job' = [job EXCEPT ![p].song = s]
  /\ Goto(p, "max")
  /\ UNCHANGED <<rows, seen>>

EndOfAlbum(p) ==
  /\ pc[p] = "track"
  /\ Finish(p)
  /\ UNCHANGED rows

\* GetOrCreateSystemLiked, its first SELECT.
FindLiked(p) ==
  LET j == job[p] IN
  /\ pc[p] = "find"
  /\ IF LikedOf(j.user) = {}
     THEN Goto(p, "create") /\ UNCHANGED <<job, seen>>
     ELSE \E l \in LikedOf(j.user) :
            IF j.op = "list" THEN Finish(p)
            ELSE /\ job' = [job EXCEPT ![p].list = l]
                 /\ Operate(p, j.op)
  /\ UNCHANGED rows

\* Mutant: no unique index on the system-liked playlist.
CreateUnindexed(p, l) ==
  LET j == job[p] IN
  /\ pc[p] = "create" /\ Fresh(l)
  /\ user[j.user] = "row"
  /\ owner' = [owner EXCEPT ![l] = j.user]
  /\ liked' = liked \cup {l}
  /\ job' = [job EXCEPT ![p].list = l]
  /\ Goto(p, "get")
  /\ UNCHANGED <<user, catalog, tracks, seen>>

\* Mutant: the loser of the race goes on with the id it made up.
CreateKeepingId(p, l) ==
  LET j == job[p] IN
  /\ pc[p] = "create" /\ Fresh(l)
  /\ user[j.user] = "row"
  /\ job' = [job EXCEPT ![p].list = l]
  /\ IF LikedOf(j.user) # {}
     THEN /\ Goto(p, IF j.op = "unlike" THEN "delete" ELSE "max")
          /\ UNCHANGED <<owner, liked>>
     ELSE /\ owner' = [owner EXCEPT ![l] = j.user]
          /\ liked' = liked \cup {l}
          /\ Goto(p, "get")
  /\ UNCHANGED <<user, catalog, tracks, seen>>

\* Its INSERT: the foreign key may fail it, and so may the partial unique
\* index, when another caller was faster.
CreateLiked(p, l) ==
  LET j == job[p] IN
  /\ pc[p] = "create" /\ Fresh(l)
  /\ \/ /\ user[j.user] = "gone"
        /\ Finish(p)
        /\ UNCHANGED <<owner, liked>>
     \/ /\ user[j.user] = "row" /\ LikedOf(j.user) # {}
        /\ Goto(p, "reload")
        /\ UNCHANGED <<owner, liked, job, seen>>
     \/ /\ user[j.user] = "row" /\ LikedOf(j.user) = {}
        /\ owner' = [owner EXCEPT ![l] = j.user]
        /\ liked' = liked \cup {l}
        /\ job' = [job EXCEPT ![p].list = l]
        /\ Goto(p, "get")
        /\ UNCHANGED seen
  /\ UNCHANGED <<user, catalog, tracks>>

\* The SELECT after a lost race; without a row the operation fails.
Reload(p) ==
  LET j == job[p] IN
  /\ pc[p] = "reload"
  /\ IF LikedOf(j.user) = {} \/ j.op = "list" THEN Finish(p)
     ELSE \E l \in LikedOf(j.user) :
            /\ job' = [job EXCEPT ![p].list = l]
            /\ Operate(p, j.op)
  /\ UNCHANGED rows

\* The read-back of the row it inserted.
GetCreated(p) ==
  /\ pc[p] = "get"
  /\ IF owner[job[p].list] = None \/ job[p].op = "list" THEN Finish(p)
     ELSE Operate(p, job[p].op) /\ UNCHANGED job
  /\ UNCHANGED rows

\* Repo.AddSong: SELECT MAX(position), then INSERT.
ReadMaxPosition(p, m) ==
  LET P == Positions(job[p].list) IN
  /\ pc[p] = "max"
  /\ m \in P \cup {-1} /\ \A n \in P : n <= m
  /\ m < PosBound
  /\ seen' = [seen EXCEPT ![p] = m]
  /\ Goto(p, "insert")
  /\ UNCHANGED <<rows, job>>

\* Mutant: foreign keys are off.
AcceptsOrphans(l, s) == ~ \E t \in tracks : t.list = l /\ t.song = s

\* The foreign keys and the primary key may refuse the row.
Accepts(l, s) ==
  /\ owner[l] # None /\ s \in catalog
  /\ ~ \E t \in tracks : t.list = l /\ t.song = s

InsertTrack(p) ==
  LET j == job[p] IN
  /\ pc[p] = "insert"
  /\ tracks' = IF Accepts(j.list, j.song)
               THEN tracks \cup {[list |-> j.list, song |-> j.song, pos |-> seen[p] + 1]}
               ELSE tracks
  /\ NextTrack(p)
  /\ UNCHANGED <<user, catalog, owner, liked>>

DeleteTrack(p) ==
  LET j == job[p] IN
  /\ pc[p] = "delete"
  /\ tracks' = {t \in tracks : t.list # j.list \/ t.song # j.song}
  /\ Finish(p)
  /\ UNCHANGED <<user, catalog, owner, liked>>

-----------------------------------------------------------------------------
(* Single statements.                                                      *)

Create(u, l) ==
  /\ user[u] = "row" /\ Fresh(l)
  /\ owner' = [owner EXCEPT ![l] = u]
  /\ UNCHANGED <<user, catalog, liked, tracks, pc, job, seen>>

\* ON DELETE CASCADE from the playlists L to their tracks.
Drop(L) ==
  /\ owner' = [l \in Lists |-> IF l \in L THEN None ELSE owner[l]]
  /\ liked' = liked \ L
  /\ tracks' = {t \in tracks : t.list \notin L}

\* The service refuses the system-liked playlist.
Delete(l) ==
  /\ owner[l] # None /\ l \notin liked
  /\ Drop({l})
  /\ UNCHANGED <<user, catalog, pc, job, seen>>

DeleteUser(u) ==
  /\ user[u] = "row"
  /\ user' = [user EXCEPT ![u] = "gone"]
  /\ Drop({l \in Lists : owner[l] = u})
  /\ UNCHANGED <<catalog, pc, job, seen>>

DeleteSong(s) ==
  /\ s \in catalog
  /\ catalog' = catalog \ {s}
  /\ tracks' = {t \in tracks : t.song # s}
  /\ UNCHANGED <<user, owner, liked, pc, job, seen>>

Next ==
  \/ \E p \in Procs, op \in Ops, u \in Users, s \in Songs :
       \/ BeginLiked(p, op, u, s)
       \/ \E l \in Lists : BeginOwned(p, op, u, l, s)
  \/ \E p \in Procs, u \in Users, l \in Lists : BeginAlbum(p, u, l)
  \/ \E p \in Procs, s \in Songs : AddTrack(p, s)
  \/ \E p \in Procs : FindLiked(p) \/ Reload(p) \/ GetCreated(p)
                      \/ InsertTrack(p) \/ DeleteTrack(p) \/ EndOfAlbum(p)
  \/ \E p \in Procs, l \in Lists : CreateLiked(p, l)
  \/ \E p \in Procs : pc[p] = "max" /\
       \E m \in Positions(job[p].list) \cup {-1} : ReadMaxPosition(p, m)
  \/ \E l \in Lists : Delete(l) \/ \E u \in Users : Create(u, l)
  \/ \E u \in Users : DeleteUser(u)
  \/ \E s \in Songs : DeleteSong(s)

Spec == Init /\ [][Next]_vars

-----------------------------------------------------------------------------

\* A user has one system-liked playlist, whoever creates it first: the
\* UserCreated worker, the LikedSong worker or the first listing.
OneLiked == \A u \in Users : Cardinality(LikedOf(u)) <= 1

\* A worker about to change the system-liked playlist of an existing
\* account changes the one the user sees, even after it lost the race to
\* create it.
LikesGoToLiked ==
  \A p \in Procs :
    (/\ pc[p] \in {"max", "insert", "delete"}
     /\ job[p].op \in {"like", "unlike"}
     /\ user[job[p].user] = "row") => LikedOf(job[p].user) = {job[p].list}

\* However long a worker or a handler waited between its statements, no row
\* it writes outlives the playlist, the song or the account it refers to.
NoOrphans ==
  /\ \A t \in tracks : owner[t.list] # None /\ t.song \in catalog
  /\ \A l \in Lists : owner[l] # None => user[owner[l]] = "row"

\* The inductive invariant: a busy goroutine has its operation, with a
\* playlist once it is past its lookup, and goes from track to track for an
\* album only; a row of a system-liked playlist is a row, and the only one of
\* its user; and who was given a user's system-liked playlist has the one in
\* the table, from the read-back of a new one on, as long as the account
\* exists.
Fits(loc, j) ==
  loc # "idle" => /\ j \in Job
                  /\ loc = "track" => j.op = "album"
                  /\ loc \in {"get", "track", "max", "insert", "delete"} => j.list # None

Busy      == \A p \in Procs : Fits(pc[p], job[p])
LikedRows == \A l \in liked : owner[l] # None
AtMostOne == \A l, m \in liked : owner[l] = owner[m] => l = m
OnLiked ==
  \A p \in Procs :
    (/\ pc[p] \in {"get", "max", "insert", "delete"}
     /\ job[p].op \in {"like", "unlike"}
     /\ user[job[p].user] = "row") => job[p].list \in LikedOf(job[p].user)

IInv == TypeOK /\ Busy /\ NoOrphans /\ LikedRows /\ AtMostOne /\ OnLiked

\* The comment on Repo.AddSong: "SetMaxOpenConns(1) on the pool serializes
\* writes so the MAX(position)+1 read-then-write is race-free."
DistinctPositions ==
  \A t, x \in tracks : t.list = x.list /\ t.pos = x.pos => t = x
=============================================================================
