--------------------------- MODULE PlaylistsProofs ---------------------------
(***************************************************************************)
(* Proofs about Playlists for any number of users, playlists, songs and    *)
(* goroutines.  That a user has one system-liked playlist is kept by the   *)
(* unique index alone; that a like reaches it needs to know what each      *)
(* goroutine holds between its statements (OnLiked).                       *)
(***************************************************************************)
EXTENDS Playlists, FiniteSetTheorems, TLAPS

LEMMA InitIInv == Init => IInv
<1> SUFFICES ASSUME Init PROVE IInv
  OBVIOUS
<1> USE PlaylistsAssumption DEF Init
<1>1. TypeOK
  BY DEF TypeOK, Location
<1>2. Busy /\ NoOrphans /\ LikedRows /\ AtMostOne /\ OnLiked
  BY DEF Busy, Fits, NoOrphans, LikedRows, AtMostOne, OnLiked
<1> QED
  BY <1>1, <1>2 DEF IInv

\* A step of one goroutine that inserts or deletes tracks at most.
LEMMA LocalStep ==
  ASSUME IInv, NEW p \in Procs,
         UNCHANGED <<user, catalog, owner, liked>>,
         tracks' \subseteq Track,
         \A t \in tracks' : owner[t.list] # None /\ t.song \in catalog,
         pc' \in [Procs -> Location], job' \in [Procs -> Job \cup {None}],
         seen' \in [Procs -> Nat \cup {-1}],
         \A q \in Procs \ {p} : pc'[q] = pc[q] /\ job'[q] = job[q],
         Fits(pc'[p], job'[p]),
         (/\ pc'[p] \in {"get", "max", "insert", "delete"}
          /\ job'[p].op \in {"like", "unlike"}
          /\ user[job'[p].user] = "row")
            => job'[p].list \in liked /\ owner[job'[p].list] = job'[p].user
  PROVE  IInv'
<1>1. TypeOK'
  BY DEF IInv, TypeOK
<1>2. Busy'
  BY DEF IInv, Busy, Fits
<1>3. NoOrphans' /\ LikedRows' /\ AtMostOne'
  BY DEF IInv, NoOrphans, LikedRows, AtMostOne
<1>4. OnLiked'
  BY DEF IInv, OnLiked, LikedOf
<1> QED
  BY <1>1, <1>2, <1>3, <1>4 DEF IInv

\* What ends an operation, or a track of an album, touches p alone.
LEMMA Ends ==
  ASSUME TypeOK, NEW p \in Procs, job[p] \in Job, Finish(p) \/ NextTrack(p)
  PROVE  /\ pc' \in [Procs -> Location] /\ job' \in [Procs -> Job \cup {None}]
         /\ seen' \in [Procs -> Nat \cup {-1}]
         /\ \A q \in Procs \ {p} : pc'[q] = pc[q] /\ job'[q] = job[q]
         /\ pc'[p] \in {"idle", "track"} /\ (Finish(p) => pc'[p] = "idle")
         /\ (pc'[p] = "track" => job'[p] = job[p] /\ job[p].op = "album")
  BY DEF TypeOK, Finish, NextTrack, Goto, Location

\* The two SELECTs and the read-back that give an operation its playlist.
LEMMA Begins ==
  ASSUME TypeOK, NEW p \in Procs, NEW j \in Job, j.list # None,
         job' = [job EXCEPT ![p] = j], j.op # "list", Operate(p, j.op)
  PROVE  /\ pc' \in [Procs -> Location] /\ job' \in [Procs -> Job \cup {None}]
         /\ seen' \in [Procs -> Nat \cup {-1}]
         /\ \A q \in Procs \ {p} : pc'[q] = pc[q] /\ job'[q] = job[q]
         /\ pc'[p] \in {"max", "delete"} /\ job'[p] = j
  BY DEF TypeOK, Operate, Goto, Location

\* What EXCEPT makes of the operation of p.
LEMMA WithSong ==
  ASSUME TypeOK, NEW p \in Procs, NEW x \in Songs \cup {None}, job[p] \in Job,
         job' = [job EXCEPT ![p].song = x]
  PROVE  /\ job' \in [Procs -> Job \cup {None}] /\ job'[p] \in Job
         /\ \A q \in Procs \ {p} : job'[q] = job[q]
         /\ job'[p].op = job[p].op /\ job'[p].list = job[p].list
<1> DEFINE j == [op |-> job[p].op, user |-> job[p].user, list |-> job[p].list, song |-> x]
<1>1. job' = [job EXCEPT ![p] = [job[p] EXCEPT !.song = x]]
  BY DEF TypeOK
<1>2. [job[p] EXCEPT !.song = x] = j
  BY DEF Job
<1>3. j \in Job /\ j.op = job[p].op /\ j.list = job[p].list
  BY DEF Job
<1>4. job' = [job EXCEPT ![p] = j]
  BY <1>1, <1>2
<1> HIDE DEF j
<1> QED
  BY <1>3, <1>4 DEF TypeOK

LEMMA WithList ==
  ASSUME TypeOK, NEW p \in Procs, NEW x \in Lists, job[p] \in Job,
         job' = [job EXCEPT ![p].list = x]
  PROVE  \E j \in Job : /\ job' = [job EXCEPT ![p] = j]
                        /\ j.op = job[p].op /\ j.user = job[p].user /\ j.list = x
<1> DEFINE j == [op |-> job[p].op, user |-> job[p].user, list |-> x, song |-> job[p].song]
<1>1. job' = [job EXCEPT ![p] = [job[p] EXCEPT !.list = x]]
  BY DEF TypeOK
<1>2. [job[p] EXCEPT !.list = x] = j
  BY DEF Job
<1>3. j \in Job /\ j.op = job[p].op /\ j.user = job[p].user /\ j.list = x
  BY DEF Job
<1>4. job' = [job EXCEPT ![p] = j]
  BY <1>1, <1>2
<1> HIDE DEF j
<1> QED
  BY <1>3, <1>4

\* An operation goes on with the system-liked playlist that a SELECT found.
LEMMA Given ==
  ASSUME IInv, NEW p \in Procs, job[p] \in Job, job[p].op # "list",
         NEW l \in LikedOf(job[p].user),
         job' = [job EXCEPT ![p].list = l], Operate(p, job[p].op),
         UNCHANGED <<user, catalog, owner, liked, tracks>>
  PROVE  IInv'
<1> USE PlaylistsAssumption DEF Fits
<1>1. TypeOK /\ tracks \subseteq Track /\ l \in Lists /\ l # None
      /\ l \in liked /\ owner[l] = job[p].user
      /\ \A t \in tracks : owner[t.list] # None /\ t.song \in catalog
  BY DEF IInv, TypeOK, NoOrphans, Job, LikedOf
<1>2. PICK j \in Job : /\ job' = [job EXCEPT ![p] = j]
                       /\ j.op = job[p].op /\ j.user = job[p].user /\ j.list = l
  BY <1>1, WithList
<1>3. /\ pc' \in [Procs -> Location] /\ job' \in [Procs -> Job \cup {None}]
      /\ seen' \in [Procs -> Nat \cup {-1}]
      /\ \A q \in Procs \ {p} : pc'[q] = pc[q] /\ job'[q] = job[q]
      /\ pc'[p] \in {"max", "delete"} /\ job'[p] = j
  BY <1>1, <1>2, Begins
<1> QED
  BY <1>1, <1>2, <1>3, LocalStep

LEMMA NextIInv == IInv /\ [Next]_vars => IInv'
<1> SUFFICES ASSUME IInv, [Next]_vars PROVE IInv'
  OBVIOUS
<1> USE PlaylistsAssumption
<1> USE DEF Fits
<1>t. TypeOK /\ Busy /\ NoOrphans /\ LikedRows /\ AtMostOne /\ OnLiked
  BY DEF IInv
<1>j. \A p \in Procs : pc[p] # "idle" => job[p] \in Job
  BY <1>t DEF TypeOK, Busy
<1>k. tracks \subseteq Track /\ \A t \in tracks : owner[t.list] # None /\ t.song \in catalog
  BY <1>t DEF TypeOK, NoOrphans
<1>1. ASSUME NEW p \in Procs, NEW op \in Ops, NEW u \in Users, NEW s \in Songs,
             BeginLiked(p, op, u, s)
      PROVE  IInv'
  <2>1. [op |-> op, user |-> u, list |-> None, song |-> s] \in Job
    BY DEF Job
  <2>2. /\ UNCHANGED <<user, catalog, owner, liked, tracks>>
        /\ pc' \in [Procs -> Location] /\ job' \in [Procs -> Job \cup {None}]
        /\ seen' \in [Procs -> Nat \cup {-1}]
        /\ \A q \in Procs \ {p} : pc'[q] = pc[q] /\ job'[q] = job[q]
        /\ pc'[p] = "find" /\ job'[p] \in Job
    BY <1>1, <1>t, <2>1 DEF BeginLiked, TypeOK, Goto, rows, Location
  <2> QED
    BY <1>k, <2>2, LocalStep
<1>2. ASSUME NEW p \in Procs, NEW op \in Ops, NEW u \in Users, NEW l \in Lists, NEW s \in Songs,
             BeginOwned(p, op, u, l, s)
      PROVE  IInv'
  <2> DEFINE j == [op |-> op, user |-> u, list |-> l, song |-> s]
  <2>1. j \in Job /\ j.list # None /\ j.op \in {"add", "remove"}
    BY <1>2 DEF Job, BeginOwned
  <2>2. job' = [job EXCEPT ![p] = j] /\ Operate(p, j.op)
        /\ UNCHANGED <<user, catalog, owner, liked, tracks>>
    BY <1>2 DEF BeginOwned, rows
  <2> HIDE DEF j
  <2>3. /\ pc' \in [Procs -> Location] /\ job' \in [Procs -> Job \cup {None}]
        /\ seen' \in [Procs -> Nat \cup {-1}]
        /\ \A q \in Procs \ {p} : pc'[q] = pc[q] /\ job'[q] = job[q]
        /\ pc'[p] \in {"max", "delete"} /\ job'[p] = j
    BY <1>t, <2>1, <2>2, Begins
  <2> QED
    BY <1>k, <2>1, <2>2, <2>3, LocalStep
<1>3. ASSUME NEW p \in Procs, NEW u \in Users, NEW l \in Lists, BeginAlbum(p, u, l)
      PROVE  IInv'
  <2>1. [op |-> "album", user |-> u, list |-> l, song |-> None] \in Job
    BY DEF Job, Ops
  <2>2. /\ UNCHANGED <<user, catalog, owner, liked, tracks>>
        /\ pc' \in [Procs -> Location] /\ job' \in [Procs -> Job \cup {None}]
        /\ seen' \in [Procs -> Nat \cup {-1}]
        /\ \A q \in Procs \ {p} : pc'[q] = pc[q] /\ job'[q] = job[q]
        /\ pc'[p] = "track" /\ job'[p] \in Job /\ job'[p].op = "album" /\ job'[p].list # None
    BY <1>3, <1>t, <2>1 DEF BeginAlbum, TypeOK, Goto, rows, Location
  <2> QED
    BY <1>k, <2>2, LocalStep
<1>4. ASSUME NEW p \in Procs, NEW s \in Songs, AddTrack(p, s)
      PROVE  IInv'
  <2>1. /\ pc[p] = "track" /\ pc' = [pc EXCEPT ![p] = "max"]
        /\ job' = [job EXCEPT ![p].song = s]
        /\ UNCHANGED <<user, catalog, owner, liked, tracks, seen>>
    BY <1>4 DEF AddTrack, Goto, rows
  <2>2. job[p] \in Job
    BY <1>j, <2>1
  <2>3. /\ job' \in [Procs -> Job \cup {None}] /\ job'[p] \in Job
        /\ \A q \in Procs \ {p} : job'[q] = job[q]
        /\ job'[p].op = job[p].op /\ job'[p].list = job[p].list
    BY <1>t, <2>1, <2>2, WithSong
  <2>4. /\ pc' \in [Procs -> Location] /\ seen' \in [Procs -> Nat \cup {-1}]
        /\ \A q \in Procs \ {p} : pc'[q] = pc[q]
    BY <1>t, <2>1 DEF TypeOK, Location
  <2>5. job[p].op = "album" /\ job[p].list # None
    BY <1>t, <2>1 DEF Busy
  <2> QED
    BY <1>k, <2>1, <2>3, <2>4, <2>5, LocalStep
<1>5. ASSUME NEW p \in Procs, EndOfAlbum(p)
      PROVE  IInv'
  <2>1. job[p] \in Job /\ Finish(p) /\ UNCHANGED <<user, catalog, owner, liked, tracks>>
    BY <1>5, <1>j DEF EndOfAlbum, rows
  <2> QED
    BY <1>k, <1>t, <2>1, Ends, LocalStep
<1>6. ASSUME NEW p \in Procs, FindLiked(p)
      PROVE  IInv'
  <2>1. pc[p] = "find" /\ job[p] \in Job /\ UNCHANGED <<user, catalog, owner, liked, tracks>>
    BY <1>6, <1>j DEF FindLiked, rows
  <2>2. CASE LikedOf(job[p].user) = {}
    <3>1. pc' = [pc EXCEPT ![p] = "create"] /\ UNCHANGED <<job, seen>>
      BY <1>6, <2>2 DEF FindLiked, Goto
    <3> QED
      BY <1>k, <1>t, <2>1, <3>1, LocalStep DEF TypeOK, Location
  <2>3. CASE LikedOf(job[p].user) # {} /\ job[p].op = "list"
    <3>1. Finish(p)
      BY <1>6, <2>3 DEF FindLiked
    <3> QED
      BY <1>k, <1>t, <2>1, <3>1, Ends, LocalStep
  <2>4. CASE LikedOf(job[p].user) # {} /\ job[p].op # "list"
    <3>1. PICK l \in LikedOf(job[p].user) :
            job' = [job EXCEPT ![p].list = l] /\ Operate(p, job[p].op)
      BY <1>6, <2>4 DEF FindLiked
    <3> QED
      BY <1>t, <2>1, <2>4, <3>1, Given
  <2> QED
    BY <2>2, <2>3, <2>4
<1>7. ASSUME NEW p \in Procs, Reload(p)
      PROVE  IInv'
  <2>1. pc[p] = "reload" /\ job[p] \in Job /\ UNCHANGED <<user, catalog, owner, liked, tracks>>
    BY <1>7, <1>j DEF Reload, rows
  <2>2. CASE LikedOf(job[p].user) = {} \/ job[p].op = "list"
    <3>1. Finish(p)
      BY <1>7, <2>2 DEF Reload
    <3> QED
      BY <1>k, <1>t, <2>1, <3>1, Ends, LocalStep
  <2>3. CASE LikedOf(job[p].user) # {} /\ job[p].op # "list"
    <3>1. PICK l \in LikedOf(job[p].user) :
            job' = [job EXCEPT ![p].list = l] /\ Operate(p, job[p].op)
      BY <1>7, <2>3 DEF Reload
    <3> QED
      BY <1>t, <2>1, <2>3, <3>1, Given
  <2> QED
    BY <2>2, <2>3
<1>8. ASSUME NEW p \in Procs, GetCreated(p)
      PROVE  IInv'
  <2>1. pc[p] = "get" /\ job[p] \in Job /\ UNCHANGED <<user, catalog, owner, liked, tracks>>
    BY <1>8, <1>j DEF GetCreated, rows
  <2>2. CASE owner[job[p].list] = None \/ job[p].op = "list"
    <3>1. Finish(p)
      BY <1>8, <2>2 DEF GetCreated
    <3> QED
      BY <1>k, <1>t, <2>1, <3>1, Ends, LocalStep
  <2>3. CASE owner[job[p].list] # None /\ job[p].op # "list"
    <3>1. UNCHANGED <<job, seen>> /\ pc' \in [Procs -> Location]
          /\ pc'[p] \in {"max", "delete"} /\ \A q \in Procs \ {p} : pc'[q] = pc[q]
      BY <1>8, <1>t, <2>3 DEF GetCreated, Operate, Goto, TypeOK, Location
    <3>2. (job[p].op \in {"like", "unlike"} /\ user[job[p].user] = "row")
             => job[p].list \in liked /\ owner[job[p].list] = job[p].user
      BY <1>t, <2>1 DEF OnLiked, LikedOf
    <3> QED
      BY <1>k, <1>t, <2>1, <3>1, <3>2, LocalStep DEF TypeOK, Busy
  <2> QED
    BY <2>2, <2>3
<1>9. ASSUME NEW p \in Procs, NEW m \in Positions(job[p].list) \cup {-1}, ReadMaxPosition(p, m)
      PROVE  IInv'
  <2>1. /\ pc[p] = "max" /\ pc' = [pc EXCEPT ![p] = "insert"]
        /\ UNCHANGED <<user, catalog, owner, liked, tracks, job>>
        /\ seen' = [seen EXCEPT ![p] = m]
    BY <1>9 DEF ReadMaxPosition, Goto, rows
  <2>2. m \in Nat \cup {-1}
    BY <1>k DEF Positions, Track
  <2>3. (job[p].op \in {"like", "unlike"} /\ user[job[p].user] = "row")
           => job[p].list \in liked /\ owner[job[p].list] = job[p].user
    BY <1>t, <2>1 DEF OnLiked, LikedOf
  <2>4. pc' \in [Procs -> Location] /\ seen' \in [Procs -> Nat \cup {-1}] /\ job[p] \in Job
        /\ pc'[p] = "insert" /\ \A q \in Procs \ {p} : pc'[q] = pc[q]
    BY <1>j, <1>t, <2>1, <2>2 DEF TypeOK, Location
  <2> QED
    BY <1>k, <1>t, <2>1, <2>3, <2>4, LocalStep DEF TypeOK, Busy
<1>10. ASSUME NEW p \in Procs, InsertTrack(p) \/ DeleteTrack(p)
       PROVE  IInv'
  <2>1. /\ pc[p] \in {"insert", "delete"} /\ UNCHANGED <<user, catalog, owner, liked>>
        /\ Finish(p) \/ NextTrack(p)
    BY <1>10 DEF InsertTrack, DeleteTrack
  <2>2. job[p] \in Job /\ job[p].list # None
    BY <1>t, <2>1 DEF Busy
  <2>3. tracks' \subseteq Track /\ \A t \in tracks' : owner[t.list] # None /\ t.song \in catalog
    <3>1. CASE InsertTrack(p) /\ Accepts(job[p].list, job[p].song)
      <4> DEFINE new == [list |-> job[p].list, song |-> job[p].song, pos |-> seen[p] + 1]
      <4>1. tracks' = tracks \cup {new}
        BY <3>1 DEF InsertTrack
      <4>2. owner[new.list] # None /\ new.song \in catalog
        BY <3>1 DEF Accepts
      <4>3. new.song \in Songs /\ new.list \in Lists \cup {None}
        BY <1>t, <2>2, <4>2 DEF TypeOK, Job
      <4>4. job[p].list # None
        BY <1>t, <3>1 DEF Busy, InsertTrack
      <4>5. new \in Track
        BY <1>t, <4>3, <4>4 DEF TypeOK, Track
      <4> QED
        BY <1>k, <4>1, <4>2, <4>5
    <3>2. CASE tracks' \subseteq tracks
      BY <1>k, <3>2
    <3> QED
      BY <1>10, <3>1, <3>2 DEF InsertTrack, DeleteTrack
  <2> QED
    BY <1>t, <2>1, <2>2, <2>3, Ends, LocalStep
<1>11. ASSUME NEW p \in Procs, NEW l \in Lists, CreateLiked(p, l)
       PROVE  IInv'
  <2>1. pc[p] = "create" /\ job[p] \in Job /\ UNCHANGED <<user, catalog, tracks>>
    BY <1>11, <1>j DEF CreateLiked
  <2>2. CASE user[job[p].user] = "gone"
    <3>1. Finish(p) /\ UNCHANGED <<owner, liked>>
      BY <1>11, <2>2 DEF CreateLiked
    <3> QED
      BY <1>k, <1>t, <2>1, <3>1, Ends, LocalStep
  <2>3. CASE user[job[p].user] = "row" /\ LikedOf(job[p].user) # {}
    <3>1. pc' = [pc EXCEPT ![p] = "reload"] /\ UNCHANGED <<owner, liked, job, seen>>
      BY <1>11, <2>3 DEF CreateLiked, Goto
    <3> QED
      BY <1>k, <1>t, <2>1, <3>1, LocalStep DEF TypeOK, Location
  <2>4. CASE user[job[p].user] = "row" /\ LikedOf(job[p].user) = {}
    <3>1. /\ owner' = [owner EXCEPT ![l] = job[p].user] /\ liked' = liked \cup {l}
          /\ job' = [job EXCEPT ![p].list = l] /\ pc' = [pc EXCEPT ![p] = "get"]
          /\ UNCHANGED seen
      BY <1>11, <2>4 DEF CreateLiked, Goto
    <3>2. owner[l] = None /\ job[p].user \in Users /\ l # None
      BY <1>11, <2>1 DEF CreateLiked, Fresh, Job
    <3>3. PICK j \in Job : /\ job' = [job EXCEPT ![p] = j]
                           /\ j.op = job[p].op /\ j.user = job[p].user /\ j.list = l
      BY <1>t, <2>1, <3>1, WithList
    <3>4. job'[p] = j /\ pc'[p] = "get"
          /\ \A q \in Procs \ {p} : job'[q] = job[q] /\ pc'[q] = pc[q]
      BY <1>t, <3>1, <3>3 DEF TypeOK
    <3>5. owner'[l] = job[p].user /\ \A m \in Lists \ {l} : owner'[m] = owner[m]
      BY <1>t, <3>1 DEF TypeOK
    <3>6. TypeOK'
      BY <1>t, <2>1, <3>1, <3>2, <3>3 DEF TypeOK, Location
    <3>7. Busy'
      BY <1>t, <3>2, <3>3, <3>4 DEF Busy
    <3>8. NoOrphans'
      BY <1>k, <1>t, <2>1, <2>4, <3>2, <3>5 DEF NoOrphans, Track
    <3>9. LikedRows' /\ AtMostOne'
      BY <1>t, <2>4, <3>1, <3>2, <3>5 DEF LikedRows, AtMostOne, LikedOf, TypeOK
    <3>10. ASSUME NEW q \in Procs, pc'[q] \in {"get", "max", "insert", "delete"},
                  job'[q].op \in {"like", "unlike"}, user'[job'[q].user] = "row"
           PROVE  (job[q].list \in LikedOf(job[q].user))'
      <4>1. CASE q = p
        BY <3>1, <3>3, <3>4, <3>5, <4>1 DEF LikedOf
      <4>2. CASE q # p
        <5>1. job[q].list \in LikedOf(job[q].user) /\ job[q].user \in Users
              /\ job'[q] = job[q] /\ job[q].list \in Lists
          BY <1>j, <1>t, <2>1, <3>4, <3>10, <4>2 DEF OnLiked, LikedOf, Job, TypeOK
        <5>2. job[q].list # l
          BY <3>2, <5>1 DEF LikedOf
        <5> QED
          BY <3>1, <3>5, <5>1, <5>2 DEF LikedOf
      <4> QED
        BY <4>1, <4>2
    <3>11. OnLiked'
      BY <3>10 DEF OnLiked
    <3> QED
      BY <3>6, <3>7, <3>8, <3>9, <3>11 DEF IInv
  <2> QED
    BY <1>t, <2>1, <2>2, <2>3, <2>4 DEF TypeOK, Job
<1>12. ASSUME NEW u \in Users, NEW l \in Lists, Create(u, l)
       PROVE  IInv'
  <2>1. /\ user[u] = "row" /\ owner[l] = None /\ owner' = [owner EXCEPT ![l] = u]
        /\ UNCHANGED <<user, catalog, liked, tracks, pc, job, seen>>
    BY <1>12 DEF Create, Fresh
  <2>2. owner'[l] = u /\ u # None /\ \A m \in Lists \ {l} : owner'[m] = owner[m]
    BY <1>t, <2>1 DEF TypeOK
  <2>3. l \notin liked
    BY <1>t, <2>1 DEF LikedRows
  <2>4. TypeOK' /\ Busy'
    BY <1>t, <2>1 DEF TypeOK, Busy
  <2>5. NoOrphans'
    BY <1>k, <1>t, <2>1, <2>2 DEF NoOrphans, Track
  <2>6. LikedRows' /\ AtMostOne' /\ OnLiked'
    BY <1>t, <2>1, <2>2, <2>3 DEF LikedRows, AtMostOne, OnLiked, LikedOf, TypeOK
  <2> QED
    BY <2>4, <2>5, <2>6 DEF IInv
<1>13. ASSUME NEW L \in SUBSET Lists, Drop(L), UNCHANGED <<catalog, pc, job, seen>>,
              \/ user' = user /\ L \cap liked = {}
              \/ \E u \in Users : /\ user' = [user EXCEPT ![u] = "gone"]
                                  /\ L = {l \in Lists : owner[l] = u}
       PROVE  IInv'
  <2>1. /\ owner' = [l \in Lists |-> IF l \in L THEN None ELSE owner[l]]
        /\ liked' = liked \ L /\ tracks' = {t \in tracks : t.list \notin L}
    BY <1>13 DEF Drop
  <2>2. TypeOK' /\ Busy'
    BY <1>t, <1>13, <2>1 DEF TypeOK, Busy
  <2>3. NoOrphans'
    BY <1>k, <1>t, <1>13, <2>1 DEF NoOrphans, Track, TypeOK
  <2>4. LikedRows' /\ AtMostOne'
    BY <1>t, <2>1 DEF LikedRows, AtMostOne, TypeOK
  <2>5. ASSUME NEW q \in Procs, pc[q] \in {"get", "max", "insert", "delete"},
               job[q].op \in {"like", "unlike"}, user'[job[q].user] = "row"
        PROVE  (job[q].list \in LikedOf(job[q].user))'
    <3>1. job[q].user \in Users
      BY <1>j, <2>5 DEF Job
    <3>2. user[job[q].user] = "row" /\ (L \cap liked = {} \/ \A m \in L : owner[m] # job[q].user)
      BY <1>t, <1>13, <2>5, <3>1 DEF TypeOK
    <3>3. job[q].list \in LikedOf(job[q].user)
      BY <1>t, <2>5, <3>2 DEF OnLiked
    <3> QED
      BY <1>13, <1>t, <2>1, <3>2, <3>3 DEF LikedOf, TypeOK
  <2>6. OnLiked'
    BY <1>13, <2>5 DEF OnLiked
  <2> QED
    BY <2>2, <2>3, <2>4, <2>6 DEF IInv
<1>14. ASSUME NEW s \in Songs, DeleteSong(s)
       PROVE  IInv'
  <2>1. TypeOK' /\ Busy'
    BY <1>t, <1>14 DEF DeleteSong, TypeOK, Busy
  <2>2. NoOrphans'
    BY <1>t, <1>14 DEF DeleteSong, NoOrphans
  <2>3. LikedRows' /\ AtMostOne' /\ OnLiked'
    BY <1>t, <1>14 DEF DeleteSong, LikedRows, AtMostOne, OnLiked, LikedOf
  <2> QED
    BY <2>1, <2>2, <2>3 DEF IInv
<1>15. CASE UNCHANGED vars
  BY <1>t, <1>15 DEF vars, rows, IInv, TypeOK, Busy, NoOrphans, LikedRows, AtMostOne, OnLiked,
     LikedOf
<1>16. ASSUME NEW l \in Lists, Delete(l)
       PROVE  IInv'
  <2>1. Drop({l}) /\ {l} \cap liked = {} /\ UNCHANGED <<user, catalog, pc, job, seen>>
    BY <1>16 DEF Delete
  <2> QED
    BY <1>13, <2>1
<1>17. ASSUME NEW u \in Users, DeleteUser(u)
       PROVE  IInv'
  BY <1>13, <1>17 DEF DeleteUser
<1> QED
  BY <1>1, <1>2, <1>3, <1>4, <1>5, <1>6, <1>7, <1>8, <1>9, <1>10, <1>11, <1>12, <1>14, <1>15,
     <1>16, <1>17 DEF Next

\* Every reachable state of the playlists and of the goroutines that change
\* them has its declared shape, and every one of them knows what it holds.
THEOREM PlaylistsInvariance == Spec => []IInv
  BY InitIInv, NextIInv, PTL DEF Spec

\* However many workers and handlers find no liked playlist at the same
\* time, the unique index leaves each user with at most one.
THEOREM OneLikedEach == Spec => []OneLiked
<1>1. IInv => OneLiked
  <2> SUFFICES ASSUME IInv, NEW u \in Users PROVE Cardinality(LikedOf(u)) <= 1
    BY DEF OneLiked
  <2>1. CASE LikedOf(u) = {}
    BY <2>1, FS_EmptySet
  <2>2. CASE LikedOf(u) # {}
    <3>1. PICK l : LikedOf(u) = {l}
      BY <2>2 DEF IInv, AtMostOne, LikedOf
    <3>2. Cardinality({l}) = 1
      BY FS_Singleton
    <3> QED
      BY <3>1, <3>2
  <2> QED
    BY <2>1, <2>2
<1> QED
  BY <1>1, PlaylistsInvariance, PTL

\* A worker that lost the race to create the liked playlist, or waited
\* through any other step, writes to the one its user sees.
THEOREM LikesReachLiked == Spec => []LikesGoToLiked
<1>1. IInv => LikesGoToLiked
  BY DEF IInv, LikesGoToLiked, OnLiked, AtMostOne, LikedOf
<1> QED
  BY <1>1, PlaylistsInvariance, PTL

\* No row of a playlist outlives the playlist, the song or the account.
THEOREM NothingOrphaned == Spec => []NoOrphans
<1>1. IInv => NoOrphans
  BY DEF IInv
<1> QED
  BY <1>1, PlaylistsInvariance, PTL
==============================================================================
