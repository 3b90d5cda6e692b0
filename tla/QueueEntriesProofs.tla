-------------------------- MODULE QueueEntriesProofs --------------------------
(***************************************************************************)
(* Theorems about QueueEntries for every number of accounts, songs and     *)
(* goroutines: the per-user mutex keeps the positions of a user's entries  *)
(* distinct, although onUserDeleted drops mutexes that are in use and      *)
(* cascades delete rows without any mutex; and therefore the service       *)
(* implements PlayQueue.  At the end, theorems about Player, the page that *)
(* plays the queue: the music goes on.                                     *)
(***************************************************************************)
EXTENDS QueueEntries, Player, SequenceTheorems, WellFoundedInduction, TLAPS

\* Init establishes the invariant: there is no row and no goroutine at work.
LEMMA InitIInv == Init => IInv
<1> SUFFICES ASSUME Init PROVE IInv
  OBVIOUS
<1>1. TypeOK
  BY DEF Init, TypeOK, RowState, NoStats, Stats, Location, Locked, Entry
<1>2. JobInv /\ PointerInv /\ HolderInv /\ SeenInv /\ UniquePositions /\ UniqueSongs
  BY DEF Init, JobInv, PointerInv, HolderInv, SeenInv, UniquePositions, UniqueSongs, Busy, Locked
<1> QED
  BY <1>1, <1>2 DEF IInv

-----------------------------------------------------------------------------
(* Type correctness, action by action.                                     *)

LEMMA TypeStep == IInv /\ [Next]_vars => TypeOK'
<1> SUFFICES ASSUME IInv, [Next]_vars PROVE TypeOK'
  OBVIOUS
<1> USE DEF IInv
<1>1. ASSUME NEW u \in Users, Register(u) PROVE TypeOK'
  BY <1>1 DEF TypeOK, Register, SetUser, RowState, lockVars
<1>2. ASSUME NEW u \in Users, DeleteUser(u) PROVE TypeOK'
  BY <1>2 DEF TypeOK, DeleteUser, SetUser, SetSongs, Cascade, RowState, lockVars, Stats, NoStats
<1>3. ASSUME NEW u \in Users, OnUserDeleted(u) PROVE TypeOK'
  BY <1>3 DEF TypeOK, OnUserDeleted, dbVars
<1>4. ASSUME NEW s \in Songs, DeleteSong(s) PROVE TypeOK'
  BY <1>4 DEF TypeOK, DeleteSong, SetSongs, Cascade, RowState, lockVars, Stats, NoStats
<1>5. ASSUME NEW s \in Songs, NEW r \in Users \cup {None}, InsertSongStub(s, r)
      PROVE TypeOK'
  BY <1>5 DEF TypeOK, InsertSongStub, SetSongs, RowState, lockVars
<1>6. ASSUME NEW s \in Songs, NEW u \in Users, UpdateSongRequester(s, u)
      PROVE TypeOK'
  BY <1>6 DEF TypeOK, UpdateSongRequester, lockVars
<1>7. ASSUME Crash PROVE TypeOK'
  BY <1>7 DEF TypeOK, Crash, dbVars, Location
<1>8. ASSUME NEW p \in Procs, NEW op \in Ops, NEW u \in Users, NEW s \in Songs,
             Begin(p, op, u, s)
      PROVE TypeOK'
  BY <1>8, OpsAssumption DEF TypeOK, Begin, Goto, Job, Location, dbVars, lockVars
<1>9. ASSUME NEW p \in Procs, Acquire(p) PROVE TypeOK'
  BY <1>9 DEF TypeOK, Acquire, Goto, Location, Locked, dbVars
<1>10. ASSUME NEW p \in Procs, Busy(p), Work(p) PROVE TypeOK'
  <2> DEFINE j == job[p]
  <2>0. j \in Job /\ j.user \in Users /\ j.song \in Songs
    BY <1>10 DEF JobInv, Job
  <2>1. ASSUME NEW m \in Mutexes, GetMutex(p, m) PROVE TypeOK'
    BY <2>0, <2>1 DEF TypeOK, GetMutex, Goto, Location, dbVars
  <2>2. CASE Promote(p)
    <3>1. \A e \in entries : [e EXCEPT !.status = "ready"] \in Entry
      BY DEF TypeOK, Entry
    <3>2. entries' \subseteq Entry
      BY <2>2, <3>1 DEF Promote, EntryOf, TypeOK
    <3> QED
      BY <2>2, <3>2 DEF TypeOK, Promote, Goto, Location, Locked, lockVars
  <2>3. ASSUME NEW m \in Positions(job[p].user) \cup {-1}, ReadMaxPosition(p, m)
        PROVE TypeOK'
    <3>1. m \in Nat \cup {-1}
      BY DEF Positions, Queue, TypeOK, Entry
    <3> QED
      BY <2>3, <3>1 DEF TypeOK, ReadMaxPosition, Goto, Location, Locked, dbVars, lockVars
  <2>4. CASE InsertEntry(p)
    <3>1. seen[p] + 1 \in Nat
      BY DEF TypeOK
    <3>2. NewEntry(p) \in Entry
      BY <2>0, <3>1 DEF NewEntry, Entry
    <3>3. entries' \subseteq Entry
      BY <2>4, <3>2 DEF InsertEntry, TypeOK
    <3> QED
      BY <2>4, <3>3 DEF TypeOK, InsertEntry, Goto, Location, Locked, lockVars
  <2>5. CASE RemoveEntry(p)
    BY <2>5 DEF TypeOK, RemoveEntry, Goto, Location, Locked, lockVars
  <2>6. CASE MarkAndRemove(p)
    <3>1. ASSUME NEW st \in Stats PROVE Marked(j, st) \in Stats
      <4> DEFINE skipped == IF j.op = "skip" THEN TRUE ELSE st.skipped
                 listens == IF j.op = "finish" THEN st.listens + 1 ELSE st.listens
      <4>1. st.skipped \in BOOLEAN /\ st.listens \in Nat
        BY DEF Stats
      <4>2. skipped \in BOOLEAN
        BY <4>1
      <4>3. listens \in Nat
        BY <4>1
      <4>4. Marked(j, st) = [skipped |-> skipped, listens |-> listens]
        BY DEF Marked
      <4> HIDE DEF skipped, listens
      <4> QED
        BY <4>2, <4>3, <4>4 DEF Stats
    <3>2. stats' \in [Users -> [Songs -> Stats]]
      <4>1. CASE ParentsExist(j.user, j.song)
        <5>1. stats' = [stats EXCEPT ![j.user] =
                          [stats[j.user] EXCEPT ![j.song] =
                             Marked(j, stats[j.user][j.song])]]
          BY <2>6, <4>1 DEF MarkAndRemove
        <5>2. Marked(j, stats[j.user][j.song]) \in Stats
          BY <2>0, <3>1 DEF TypeOK
        <5> HIDE DEF j
        <5> QED
          BY <2>0, <5>1, <5>2 DEF TypeOK
      <4>2. CASE ~ParentsExist(j.user, j.song)
        BY <2>6, <4>2 DEF MarkAndRemove, TypeOK
      <4> QED
        BY <4>1, <4>2
    <3>3. entries' \subseteq Entry
      BY <2>6 DEF MarkAndRemove, TypeOK
    <3> QED
      BY <2>6, <3>2, <3>3 DEF TypeOK, MarkAndRemove, Goto, Location, Locked, lockVars
  <2>7. CASE Unlock(p)
    BY <2>7 DEF TypeOK, Unlock, Goto, Location, dbVars
  <2> QED
    BY <1>10, <2>1, <2>2, <2>3, <2>4, <2>5, <2>6, <2>7 DEF Work
<1>11. CASE UNCHANGED vars
  BY <1>11 DEF TypeOK, vars
<1> QED
  BY <1>1, <1>2, <1>3, <1>4, <1>5, <1>6, <1>7, <1>8, <1>9, <1>10, <1>11
     DEF Next, Environment
-----------------------------------------------------------------------------
(* The statements that only delete rows, or touch no queue at all.         *)

\* What every step but Begin, GetMutex, Acquire, ReadMaxPosition,
\* InsertEntry, Unlock and Crash leaves of the goroutines and their locks.
Idling == UNCHANGED <<pc, job, mutex, holder, seen>>

\* Accounts only lose their mutex once they are gone, and never come back.
Departing ==
  \A u \in Users :
    /\ user'[u] = "row" /\ user[u] # "new" => user[u] = "row" /\ userLocks'[u] = userLocks[u]
    /\ user[u] # "new" => user'[u] # "new"

\* Deleting rows and accounts while goroutines stand still preserves IInv.
LEMMA IdleStep ==
  ASSUME IInv, TypeOK', Idling, Departing, entries' \subseteq entries
  PROVE  IInv'
<1> USE DEF IInv, Idling, Departing
<1>1. JobInv'
  BY DEF JobInv, Busy, Job
<1>2. PointerInv'
  BY DEF PointerInv, JobInv, Busy, Locked, Job
<1>3. HolderInv'
  BY DEF HolderInv
<1>4. SeenInv'
  BY DEF SeenInv, JobInv, Busy, Job, Positions, Queue
<1>5. UniquePositions' /\ UniqueSongs'
  BY DEF UniquePositions, UniqueSongs
<1> QED
  BY <1>1, <1>2, <1>3, <1>4, <1>5

\* The critical sections of one existing account exclude each other.
LEMMA IInvExclusion == IInv => MutualExclusion
BY DEF IInv, PointerInv, HolderInv, MutualExclusion, Locked

\* IInv is preserved by every step.
LEMMA NextIInv == IInv /\ [Next]_vars => IInv'
<1> SUFFICES ASSUME IInv, [Next]_vars PROVE IInv'
  OBVIOUS
<1>0. TypeOK'
  BY TypeStep
<1> USE DEF IInv
<1>1. ASSUME NEW u \in Users, Register(u) PROVE IInv'
  <2>1. Idling /\ Departing /\ entries' \subseteq entries
    BY <1>1 DEF Register, SetUser, Idling, Departing, lockVars, TypeOK
  <2> QED
    BY <1>0, <2>1, IdleStep
<1>2. ASSUME NEW u \in Users, DeleteUser(u) PROVE IInv'
  <2>1. Idling /\ Departing /\ entries' \subseteq entries
    BY <1>2 DEF DeleteUser, SetUser, Cascade, Idling, Departing, lockVars, TypeOK
  <2> QED
    BY <1>0, <2>1, IdleStep
<1>3. ASSUME NEW u \in Users, OnUserDeleted(u) PROVE IInv'
  <2>1. Idling /\ Departing /\ entries' \subseteq entries
    BY <1>3 DEF OnUserDeleted, Idling, Departing, dbVars, TypeOK
  <2> QED
    BY <1>0, <2>1, IdleStep
<1>4. ASSUME NEW s \in Songs, DeleteSong(s) PROVE IInv'
  <2>1. Idling /\ Departing /\ entries' \subseteq entries
    BY <1>4 DEF DeleteSong, Cascade, Idling, Departing, lockVars, TypeOK
  <2> QED
    BY <1>0, <2>1, IdleStep
<1>5. ASSUME NEW s \in Songs, NEW r \in Users \cup {None}, InsertSongStub(s, r)
      PROVE IInv'
  <2>1. Idling /\ Departing /\ entries' \subseteq entries
    BY <1>5 DEF InsertSongStub, Idling, Departing, lockVars, TypeOK
  <2> QED
    BY <1>0, <2>1, IdleStep
<1>6. ASSUME NEW s \in Songs, NEW u \in Users, UpdateSongRequester(s, u)
      PROVE IInv'
  <2>1. Idling /\ Departing /\ entries' \subseteq entries
    BY <1>6 DEF UpdateSongRequester, Idling, Departing, lockVars, TypeOK
  <2> QED
    BY <1>0, <2>1, IdleStep
<1>7. ASSUME Crash PROVE IInv'
  BY <1>0, <1>7 DEF Crash, dbVars, JobInv, PointerInv, HolderInv, SeenInv,
                    UniquePositions, UniqueSongs, Busy, Locked
<1>8. ASSUME NEW p \in Procs, NEW op \in Ops, NEW u \in Users, NEW s \in Songs,
             Begin(p, op, u, s)
      PROVE IInv'
  <2> USE <1>8 DEF Begin, Goto, dbVars, lockVars
  <2>1. JobInv'
    BY OpsAssumption DEF JobInv, Busy, Job, TypeOK
  <2>2. PointerInv' /\ HolderInv'
    BY DEF PointerInv, HolderInv, Locked, TypeOK
  <2>3. SeenInv'
    BY DEF SeenInv, TypeOK, Positions, Queue
  <2>4. UniquePositions' /\ UniqueSongs'
    BY DEF UniquePositions, UniqueSongs
  <2> QED
    BY <1>0, <2>1, <2>2, <2>3, <2>4
<1>9. ASSUME NEW p \in Procs, Acquire(p) PROVE IInv'
  <2> USE <1>9 DEF Acquire, Goto, dbVars
  <2>1. JobInv'
    BY DEF JobInv, Busy, Job, TypeOK
  <2>2. PointerInv'
    BY DEF PointerInv, Locked, TypeOK
  <2>3. HolderInv'
    BY NoneAssumption DEF HolderInv, PointerInv, Locked, TypeOK
  <2>4. SeenInv' /\ UniquePositions' /\ UniqueSongs'
    BY DEF SeenInv, UniquePositions, UniqueSongs, TypeOK, Positions, Queue
  <2> QED
    BY <1>0, <2>1, <2>2, <2>3, <2>4
<1>10. ASSUME NEW p \in Procs, Busy(p), Work(p) PROVE IInv'
  <2> DEFINE j == job[p]
  <2>0. j \in Job /\ j.user \in Users /\ j.song \in Songs /\ user[j.user] # "new"
    BY <1>10 DEF JobInv, Job
  <2>1. ASSUME NEW m \in Mutexes, GetMutex(p, m) PROVE IInv'
    <3> USE <2>1 DEF GetMutex, Goto, dbVars
    <3>1. JobInv'
      BY <2>0 DEF JobInv, Busy, TypeOK
    <3>2. PointerInv'
      BY <2>0, NoneAssumption DEF PointerInv, JobInv, Busy, Job, Locked, TypeOK
    <3>3. HolderInv'
      BY DEF HolderInv, Locked, TypeOK
    <3>4. SeenInv' /\ UniquePositions' /\ UniqueSongs'
      BY DEF SeenInv, UniquePositions, UniqueSongs, TypeOK, Positions, Queue
    <3> QED
      BY <1>0, <3>1, <3>2, <3>3, <3>4
  <2>2. CASE Promote(p)
    <3> USE <2>2 DEF Promote, Goto, lockVars
    <3>1. JobInv' /\ PointerInv' /\ HolderInv'
      BY <2>0 DEF JobInv, PointerInv, HolderInv, Busy, Locked, TypeOK
    <3> DEFINE E == EntryOf(j.user, j.song)
               Ready(e) == [e EXCEPT !.status = "ready"]
    <3>a. ASSUME NEW e \in entries
          PROVE  Ready(e).user = e.user /\ Ready(e).pos = e.pos /\ Ready(e).song = e.song
      BY DEF TypeOK, Entry
    <3>b. entries' = (entries \ E) \cup {Ready(e) : e \in E} /\ E \subseteq entries
      BY DEF EntryOf
    <3> HIDE DEF E, Ready
    <3>2. \A f \in entries' : \E e \in entries : /\ f.user = e.user /\ f.pos = e.pos /\ f.song = e.song
                                                /\ f = IF e \in E THEN Ready(e) ELSE e
      BY <3>a, <3>b
    <3>3. UniquePositions' /\ UniqueSongs'
      BY <3>2 DEF UniquePositions, UniqueSongs
    <3>4. \A u \in Users : \A n \in Positions(u)' : n \in Positions(u)
      BY <3>2 DEF Positions, Queue
    <3>5. SeenInv'
      BY <2>0, <3>4 DEF SeenInv, JobInv, Busy, Job, TypeOK
    <3> QED
      BY <1>0, <3>1, <3>3, <3>5
  <2>3. ASSUME NEW m \in Positions(job[p].user) \cup {-1}, ReadMaxPosition(p, m)
        PROVE IInv'
    <3> USE <2>3 DEF ReadMaxPosition, Goto, dbVars, lockVars
    <3>1. JobInv' /\ PointerInv' /\ HolderInv'
      BY <2>0 DEF JobInv, PointerInv, HolderInv, Busy, Locked, TypeOK
    <3>2. SeenInv'
      BY DEF SeenInv, IsMaxPosition, TypeOK, Positions, Queue
    <3>3. UniquePositions' /\ UniqueSongs'
      BY DEF UniquePositions, UniqueSongs
    <3> QED
      BY <1>0, <3>1, <3>2, <3>3
  <2>4. CASE InsertEntry(p)
    <3> USE <2>4 DEF InsertEntry, Goto, lockVars
    <3>1. JobInv' /\ PointerInv' /\ HolderInv'
      BY <2>0 DEF JobInv, PointerInv, HolderInv, Busy, Locked, TypeOK
    <3>2. CASE entries' = entries
      BY <1>0, <3>1, <3>2 DEF SeenInv, UniquePositions, UniqueSongs, TypeOK, Positions, Queue
    <3>3. CASE /\ user[j.user] = "row"
               /\ EntryOf(j.user, j.song) = {}
               /\ entries' = entries \cup {NewEntry(p)}
      <4>1. /\ NewEntry(p).user = j.user /\ NewEntry(p).pos = seen[p] + 1
            /\ NewEntry(p).song = j.song
        BY DEF NewEntry
      <4>2. \A e \in entries : e.user = j.user => e.pos \in Nat /\ e.pos <= seen[p]
        BY <3>3 DEF SeenInv, Positions, Queue, TypeOK, Entry
      <4>3. UniquePositions'
        BY <3>3, <4>1, <4>2 DEF UniquePositions, TypeOK
      <4>5. UniqueSongs'
        BY <3>3, <4>1 DEF UniqueSongs, EntryOf
      <4>4. SeenInv'
        <5> SUFFICES ASSUME NEW q \in Procs, pc'[q] = "insert",
                            user[job[q].user] = "row",
                            NEW n \in Positions(job[q].user)'
                     PROVE  n <= seen[q]
          BY DEF SeenInv, Positions, Queue
        <5>1. q # p /\ pc[q] = "insert"
          BY DEF TypeOK
        <5>2. job[q].user # j.user
          BY <5>1, <3>3, IInvExclusion DEF MutualExclusion, Locked
        <5>3. n \in Positions(job[q].user)
          BY <3>3, <4>1, <5>2 DEF Positions, Queue
        <5> QED
          BY <5>1, <5>3 DEF SeenInv
      <4> QED
        BY <1>0, <3>1, <4>3, <4>4, <4>5
    <3> QED
      BY <3>2, <3>3 DEF ParentsExist
  <2>5. CASE RemoveEntry(p)
    <3> USE <2>5 DEF RemoveEntry, Goto, lockVars
    <3>1. JobInv' /\ PointerInv' /\ HolderInv'
      BY <2>0 DEF JobInv, PointerInv, HolderInv, Busy, Locked, TypeOK
    <3>2. SeenInv' /\ UniquePositions' /\ UniqueSongs'
      BY DEF SeenInv, UniquePositions, UniqueSongs, TypeOK, Positions, Queue
    <3> QED
      BY <1>0, <3>1, <3>2
  <2>6. CASE MarkAndRemove(p)
    <3> USE <2>6 DEF MarkAndRemove, Goto, lockVars
    <3>1. JobInv' /\ PointerInv' /\ HolderInv'
      BY <2>0 DEF JobInv, PointerInv, HolderInv, Busy, Locked, TypeOK
    <3>2. SeenInv' /\ UniquePositions' /\ UniqueSongs'
      BY DEF SeenInv, UniquePositions, UniqueSongs, TypeOK, Positions, Queue
    <3> QED
      BY <1>0, <3>1, <3>2
  <2>7. CASE Unlock(p)
    <3> USE <2>7 DEF Unlock, Goto, dbVars
    <3>1. JobInv'
      BY DEF JobInv, Busy, TypeOK
    <3>2. PointerInv'
      BY DEF PointerInv, Locked, TypeOK
    <3>3. HolderInv'
      BY DEF HolderInv, PointerInv, Locked, TypeOK
    <3>4. SeenInv' /\ UniquePositions' /\ UniqueSongs'
      BY DEF SeenInv, UniquePositions, UniqueSongs, TypeOK, Positions, Queue
    <3> QED
      BY <1>0, <3>1, <3>2, <3>3, <3>4
  <2> QED
    BY <1>10, <2>1, <2>2, <2>3, <2>4, <2>5, <2>6, <2>7 DEF Work
<1>11. CASE UNCHANGED vars
  BY <1>0, <1>11 DEF vars, JobInv, PointerInv, HolderInv, SeenInv, UniquePositions, UniqueSongs,
                     Busy, Positions, Queue
<1> QED
  BY <1>1, <1>2, <1>3, <1>4, <1>5, <1>6, <1>7, <1>8, <1>9, <1>10, <1>11
     DEF Next, Environment

-----------------------------------------------------------------------------

\* The strengthened invariant holds of every reachable state.
THEOREM Invariance == Spec => []IInv
<1>1. Init => IInv
  BY InitIInv
<1>2. IInv /\ [Next]_vars => IInv'
  BY NextIInv
<1> QED
  BY <1>1, <1>2, PTL DEF Spec

\* Every variable keeps its type, whatever the number of goroutines.
THEOREM TypeCorrect == Spec => []TypeOK
<1>1. IInv => TypeOK
  BY DEF IInv
<1> QED
  BY <1>1, Invariance, PTL

\* The per-user mutex does its work: two entries of one user never share a
\* position, so the order GetQueue lists them in is total.
THEOREM PositionsAreUnique == Spec => []UniquePositions
<1>1. IInv => UniquePositions
  BY DEF IInv
<1> QED
  BY <1>1, Invariance, PTL

\* onUserDeleted can drop a mutex that is in use, but never lets two
\* goroutines into the critical section of an account that still exists.
THEOREM LocksExclude == Spec => []MutualExclusion
<1>1. IInv => MutualExclusion
  BY IInvExclusion
<1> QED
  BY <1>1, Invariance, PTL

-----------------------------------------------------------------------------
(* Every step is a step of PlayQueue.                                      *)

List == [u \in Users |-> Listed(u)]

\* The entries of the songs S disappear from the queue of u.
LEMMA SongsLeave ==
  ASSUME IInv, NEW u \in Users, NEW S, Queue(u)' = {e \in Queue(u) : e.song \notin S}
  PROVE  Listed(u)' = Abstract!Without(Listed(u), S)
BY DEF Listed, Abstract!Without

\* A queue whose entries keep song and position is listed as before.
LEMMA SameList ==
  ASSUME NEW u \in Users,
         \A f \in Queue(u)' : \E e \in Queue(u) : f.song = e.song /\ f.pos = e.pos,
         \A e \in Queue(u) : \E f \in Queue(u)' : f.song = e.song /\ f.pos = e.pos
  PROVE  Listed(u)' = Listed(u)
<1>1. ASSUME NEW x \in Songs \X Songs
      PROVE  x \in Listed(u)' <=> x \in Listed(u)
  BY DEF Listed
<1> QED
  BY <1>1 DEF Listed

\* A list has the songs of its entries.
LEMMA SongsListed ==
  ASSUME IInv, NEW u \in Users
  PROVE  Abstract!SongsOf(Listed(u)) = {e.song : e \in Queue(u)}
<1>1. \A e \in Queue(u) : e.song \in Songs /\ e.pos \in Nat
  BY DEF IInv, TypeOK, Entry, Queue
<1>2. ASSUME NEW s \in Songs
      PROVE  <<s, s>> \in Listed(u) <=> \E e \in Queue(u) : e.song = s
  BY <1>1 DEF Listed
<1> QED
  BY <1>1, <1>2 DEF Abstract!SongsOf

LEMMA ListStep == IInv /\ [Next]_vars => [Abstract!Next]_List
<1> SUFFICES ASSUME IInv, [Next]_vars, List' # List PROVE Abstract!Next
  BY DEF List, Abstract!Next
<1>0. List = [u \in Users |-> Listed(u)] /\ List' = [u \in Users |-> Listed(u)']
  BY DEF List
<1>1. ASSUME UNCHANGED entries PROVE FALSE
  <2>1. \A u \in Users : Listed(u)' = Listed(u)
    BY <1>1 DEF Listed, Queue
  <2> QED
    BY <1>0, <2>1
<1>2. ASSUME NEW u \in Users, DeleteUser(u) PROVE Abstract!Next
  <2> DEFINE S == {s \in Songs : song[s] = "row" /\ requester[s] = u}
  <2>1. entries' = {e \in entries : e.user # u /\ e.song \notin S}
    BY <1>2 DEF DeleteUser, Cascade
  <2>2. Listed(u)' = {}
    BY <2>1 DEF Listed, Queue
  <2>3. ASSUME NEW v \in Users, v # u PROVE Listed(v)' = Abstract!Without(Listed(v), S)
    <3>1. Queue(v)' = {e \in Queue(v) : e.song \notin S}
      BY <2>1, <2>3 DEF Queue
    <3> HIDE DEF S
    <3> QED
      BY <3>1, SongsLeave
  <2>4. S \in SUBSET Songs
    OBVIOUS
  <2> HIDE DEF S
  <2>5. Abstract!DropUser(u, S)
    BY <1>0, <2>2, <2>3 DEF Abstract!DropUser, List
  <2> QED
    BY <2>4, <2>5 DEF Abstract!Next, List
<1>3. ASSUME NEW s \in Songs, DeleteSong(s) PROVE Abstract!Next
  <2>1. entries' = {e \in entries : e.song \notin {s}}
    BY <1>3 DEF DeleteSong, Cascade
  <2>2. ASSUME NEW v \in Users PROVE Listed(v)' = Abstract!Without(Listed(v), {s})
    <3>1. Queue(v)' = {e \in Queue(v) : e.song \notin {s}}
      BY <2>1 DEF Queue
    <3> QED
      BY <3>1, SongsLeave
  <2>3. Abstract!DropSong(s)
    BY <1>0, <2>2 DEF Abstract!DropSong, List
  <2> QED
    BY <2>3 DEF Abstract!Next, List
<1>4. ASSUME NEW p \in Procs, Busy(p), Work(p) PROVE Abstract!Next
  <2>0. PICK u \in Users, s \in Songs : job[p].user = u /\ job[p].song = s
    BY <1>4 DEF IInv, JobInv, Job
  <2>1. CASE Promote(p)
    <3> DEFINE E == EntryOf(u, s)
               Ready(e) == [e EXCEPT !.status = "ready"]
    <3>1. ASSUME NEW e \in entries
          PROVE  Ready(e).user = e.user /\ Ready(e).pos = e.pos /\ Ready(e).song = e.song
      BY DEF IInv, TypeOK, Entry
    <3>2. entries' = (entries \ E) \cup {Ready(e) : e \in E} /\ E \subseteq entries
      BY <2>0, <2>1 DEF Promote, EntryOf
    <3> HIDE DEF E, Ready
    <3>3. ASSUME NEW v \in Users PROVE Listed(v)' = Listed(v)
      <4>1. \A f \in Queue(v)' : \E e \in Queue(v) : f.song = e.song /\ f.pos = e.pos
        BY <3>1, <3>2 DEF Queue
      <4>2. \A e \in Queue(v) : \E f \in Queue(v)' : f.song = e.song /\ f.pos = e.pos
        BY <3>1, <3>2 DEF Queue
      <4> QED
        BY <4>1, <4>2, SameList
    <3> QED
      BY <1>0, <3>3
  <2>2. CASE InsertEntry(p)
    <3>1. /\ user[u] = "row" /\ EntryOf(u, s) = {} /\ pc[p] = "insert"
          /\ entries' = entries \cup {NewEntry(p)}
      BY <1>1, <2>0, <2>2 DEF InsertEntry, ParentsExist
    <3> DEFINE new == NewEntry(p)
    <3>2. new.user = u /\ new.song = s /\ new.pos = seen[p] + 1
      BY <2>0 DEF NewEntry
    <3>3. \A e \in Queue(u) : e.song # s /\ e.song \in Songs /\ e.pos \in Nat /\ e.pos < new.pos
      <4> TAKE e \in Queue(u)
      <4>1. e \in entries /\ e.user = u /\ e.song \in Songs /\ e.pos \in Nat /\ seen[p] \in Int
        BY DEF Queue, IInv, TypeOK, Entry
      <4>2. e.song # s
        BY <3>1, <4>1 DEF EntryOf
      <4>3. e.pos <= seen[p]
        BY <2>0, <3>1, <4>1 DEF IInv, SeenInv, Positions, Queue
      <4> QED
        BY <3>2, <4>1, <4>2, <4>3
    <3>4. ASSUME NEW v \in Users, v # u PROVE Listed(v)' = Listed(v)
      <4>1. Queue(v)' = Queue(v)
        BY <3>1, <3>2, <3>4 DEF Queue
      <4> QED
        BY <4>1 DEF Listed
    <3>5. Queue(u)' = Queue(u) \cup {new} /\ new.pos \in Nat
      BY <3>1, <3>2 DEF Queue, IInv, TypeOK
    <3> HIDE DEF new
    <3>6. Abstract!SongsOf(Listed(u)) = {e.song : e \in Queue(u)}
      BY <2>0, SongsListed
    <3>7. ASSUME NEW x \in Songs \X Songs
          PROVE  x \in Listed(u)' <=> x \in Abstract!Appended(Listed(u), s)
      BY <2>0, <3>2, <3>3, <3>5, <3>6 DEF Listed, Abstract!Appended
    <3>8. Listed(u)' = Abstract!Appended(Listed(u), s)
      <4>1. Abstract!Appended(Listed(u), s) \subseteq Songs \X Songs
        BY <2>0 DEF Listed, Abstract!Appended, Abstract!SongsOf
      <4>2. Listed(u)' \subseteq Songs \X Songs
        BY DEF Listed
      <4> QED
        BY <3>7, <4>1, <4>2
    <3>9. s \notin Abstract!SongsOf(Listed(u))
      BY <3>3, <3>6
    <3>10. Abstract!Add(u, s)
      BY <1>0, <2>0, <3>4, <3>8, <3>9 DEF Abstract!Add, List
    <3> QED
      BY <2>0, <3>10 DEF Abstract!Next, List
  <2>3. CASE RemoveEntry(p) \/ MarkAndRemove(p)
    <3>1. entries' = entries \ EntryOf(u, s)
      BY <1>1, <2>0, <2>3 DEF RemoveEntry, MarkAndRemove
    <3>2. ASSUME NEW v \in Users, v # u PROVE Listed(v)' = Listed(v)
      <4>1. Queue(v)' = Queue(v)
        BY <3>1, <3>2 DEF Queue, EntryOf
      <4> QED
        BY <4>1 DEF Listed
    <3>3. Listed(u)' = Abstract!Without(Listed(u), {s})
      <4>1. Queue(u)' = {e \in Queue(u) : e.song \notin {s}}
        BY <3>1 DEF Queue, EntryOf
      <4> QED
        BY <2>0, <4>1, SongsLeave
    <3>4. Abstract!Remove(u, s)
      BY <1>0, <2>0, <3>2, <3>3 DEF Abstract!Remove, List
    <3> QED
      BY <2>0, <3>4 DEF Abstract!Next, List
  <2>4. CASE (\E m \in Mutexes : GetMutex(p, m)) \/ Unlock(p)
              \/ \E m \in Positions(job[p].user) \cup {-1} : ReadMaxPosition(p, m)
    BY <1>1, <2>4 DEF GetMutex, Unlock, ReadMaxPosition, dbVars
  <2> QED
    BY <1>4, <2>1, <2>2, <2>3, <2>4 DEF Work
<1>5. ASSUME NEW u \in Users, Register(u) \/ OnUserDeleted(u) PROVE FALSE
  BY <1>1, <1>5 DEF Register, OnUserDeleted, dbVars
<1>6. ASSUME NEW s \in Songs, NEW r \in Users \cup {None}, InsertSongStub(s, r) PROVE FALSE
  BY <1>1, <1>6 DEF InsertSongStub
<1>7. ASSUME NEW s \in Songs, NEW u \in Users, UpdateSongRequester(s, u) PROVE FALSE
  BY <1>1, <1>7 DEF UpdateSongRequester
<1>8. ASSUME Crash \/ UNCHANGED vars PROVE FALSE
  BY <1>1, <1>8 DEF Crash, dbVars, vars
<1>9. ASSUME NEW p \in Procs, NEW op \in Ops, NEW u \in Users, NEW s \in Songs,
             Begin(p, op, u, s)
      PROVE FALSE
  BY <1>1, <1>9 DEF Begin, dbVars
<1>10. ASSUME NEW p \in Procs, Acquire(p) PROVE FALSE
  BY <1>1, <1>10 DEF Acquire, dbVars
<1> QED
  BY <1>2, <1>3, <1>4, <1>5, <1>6, <1>7, <1>8, <1>9, <1>10 DEF Next, Environment

\* For every number of accounts, songs, goroutines and mutexes, the queue
\* service implements PlayQueue: an insertion lands after everything the
\* user had, also when songs, accounts or the process disappear meanwhile.
THEOREM QueueImplementsPlayQueue == Spec => ImplementsPlayQueue
<1>1. Init => Abstract!Init
  BY DEF Init, Abstract!Init, Listed, Queue
<1>2. IInv /\ [Next]_vars => [Abstract!Next]_List
  BY ListStep
<1> QED
  BY <1>1, <1>2, Invariance, PTL DEF Spec, ImplementsPlayQueue, Abstract!Spec, List

\* What GetQueue lists is a list: each song once, in one total order.
THEOREM QueuesAreLists == Spec => [](\A u \in Users : Abstract!IsList(Listed(u)))
<1>1. ASSUME IInv, NEW u \in Users PROVE Abstract!IsList(Listed(u))
  <2>1. Abstract!SongsOf(Listed(u)) = {e.song : e \in Queue(u)}
    BY <1>1, SongsListed
  <2>2. \A e \in Queue(u) : e.song \in Songs /\ e.pos \in Nat
    BY <1>1 DEF IInv, TypeOK, Entry, Queue
  <2>3. /\ \A e, f \in Queue(u) : e.song = f.song => e = f
        /\ \A e, f \in Queue(u) : e.pos = f.pos => e = f
    BY <1>1 DEF IInv, UniqueSongs, UniquePositions, Queue
  <2>4. \A e, f \in Queue(u) : <<e.song, f.song>> \in Listed(u) <=> e.pos <= f.pos
    BY <2>2, <2>3 DEF Listed
  <2>5. Listed(u) \subseteq Abstract!SongsOf(Listed(u)) \X Abstract!SongsOf(Listed(u))
    BY <2>1 DEF Listed
  <2>6. \A s, t \in Abstract!SongsOf(Listed(u)) :
          /\ <<s, t>> \in Listed(u) \/ <<t, s>> \in Listed(u)
          /\ <<s, t>> \in Listed(u) /\ <<t, s>> \in Listed(u) => s = t
    <3> SUFFICES ASSUME NEW e \in Queue(u), NEW f \in Queue(u)
                 PROVE  /\ <<e.song, f.song>> \in Listed(u) \/ <<f.song, e.song>> \in Listed(u)
                        /\ <<e.song, f.song>> \in Listed(u) /\ <<f.song, e.song>> \in Listed(u)
                             => e.song = f.song
      BY <2>1
    <3>1. e.pos \in Nat /\ f.pos \in Nat
      BY <2>2
    <3>2. (e.pos <= f.pos \/ f.pos <= e.pos) /\ (e.pos <= f.pos /\ f.pos <= e.pos => e = f)
      BY <2>3, <3>1
    <3> QED
      BY <2>4, <3>2
  <2>7. \A s, t, w \in Abstract!SongsOf(Listed(u)) :
          <<s, t>> \in Listed(u) /\ <<t, w>> \in Listed(u) => <<s, w>> \in Listed(u)
    <3> SUFFICES ASSUME NEW e \in Queue(u), NEW f \in Queue(u), NEW g \in Queue(u),
                        <<e.song, f.song>> \in Listed(u), <<f.song, g.song>> \in Listed(u)
                 PROVE  <<e.song, g.song>> \in Listed(u)
      BY <2>1
    <3>1. e.pos <= f.pos /\ f.pos <= g.pos
      BY <2>4
    <3> QED
      BY <2>2, <2>4, <3>1
  <2> QED
    BY <2>5, <2>6, <2>7 DEF Abstract!IsList
<1>2. IInv => \A u \in Users : Abstract!IsList(Listed(u))
  BY <1>1
<1> QED
  BY <1>2, Invariance, PTL

-----------------------------------------------------------------------------
(* The page that plays those entries: Player for every set of songs and    *)
(* every number of tasks and listeners.  First, bags and sequences.        *)

TaskBags == UNION {[T -> Nat \ {0}] : T \in SUBSET Task}

\* TypeOK says it with the domain of the bag.
LEMMA AreTaskBags ==
  ASSUME NEW B
  PROVE  B \in TaskBags <=> B \in [DOMAIN B -> Nat \ {0}] /\ DOMAIN B \subseteq Task
BY DEF TaskBags

\* A call that waits at an await is one more task.
LEMMA Added ==
  ASSUME NEW B \in TaskBags, NEW t \in Task
  PROVE  BagOps!BagAdd(B, t) \in TaskBags /\ DOMAIN BagOps!BagAdd(B, t) = DOMAIN B \cup {t}
<1>1. PICK T \in SUBSET Task : B \in [T -> Nat \ {0}]
  BY DEF TaskBags
<1>2. BagOps!BagAdd(B, t) \in [T \cup {t} -> Nat \ {0}]
  BY <1>1 DEF BagOps!BagAdd
<1> QED
  BY <1>1, <1>2 DEF TaskBags

\* One whose answer has come is one task less, and only its own.
LEMMA Removed ==
  ASSUME NEW B \in TaskBags, NEW t \in Task
  PROVE  /\ BagOps!BagRemove(B, t) \in TaskBags
         /\ DOMAIN BagOps!BagRemove(B, t) \subseteq DOMAIN B
         /\ DOMAIN B \subseteq DOMAIN BagOps!BagRemove(B, t) \cup {t}
<1>1. PICK T \in SUBSET Task : B \in [T -> Nat \ {0}]
  BY DEF TaskBags
<1>2. CASE t \in T /\ B[t] = 1
  <2>1. BagOps!BagRemove(B, t) = [e \in T \ {t} |-> B[e]]
    BY <1>1, <1>2 DEF BagOps!BagRemove
  <2>2. BagOps!BagRemove(B, t) \in [T \ {t} -> Nat \ {0}]
    BY <1>1, <2>1
  <2> QED
    BY <1>1, <2>2 DEF TaskBags
<1>3. CASE t \in T /\ B[t] # 1
  <2>1. BagOps!BagRemove(B, t) = [e \in T |-> IF e = t THEN B[e] - 1 ELSE B[e]]
    BY <1>1, <1>3 DEF BagOps!BagRemove
  <2>2. BagOps!BagRemove(B, t) \in [T -> Nat \ {0}]
    BY <1>1, <1>3, <2>1
  <2> QED
    BY <1>1, <2>2 DEF TaskBags
<1>4. CASE t \notin T
  BY <1>1, <1>4 DEF BagOps!BagRemove
<1> QED
  BY <1>2, <1>3, <1>4

\* A set of numbers has a least one.
LEMMA Least ==
  ASSUME NEW T \in SUBSET Nat, T # {}
  PROVE  \E n \in T : \A m \in T : n <= m
<1>1. PICK n \in T : \A m \in T : <<m, n>> \notin OpToRel(<, Nat)
  BY WFMin, NatLessThanWellFounded, Zenon
<1>2. \A m \in T : ~(m < n)
  BY <1>1 DEF OpToRel
<1> QED
  BY <1>2

\* IndexOf is -1 or counts from 0.
LEMMA IndexOfRange ==
  ASSUME NEW q \in Seq(Songs), NEW s
  PROVE  IndexOf(q, s) \in Int /\ IndexOf(q, s) >= -1
<1> DEFINE I == {i \in 1..Len(q) : q[i] = s}
<1>1. IndexOf(q, s) = (IF I # {} THEN Min(I) ELSE 0) - 1
  BY DEF IndexOf, SelectInSeq
<1>2. Len(q) \in Nat
  OBVIOUS
<1>3. I # {} => Min(I) \in I
  <2> SUFFICES ASSUME I # {} PROVE Min(I) \in I
    OBVIOUS
  <2>1. I \in SUBSET Nat
    BY <1>2
  <2>2. \E n \in I : \A m \in I : n <= m
    BY <2>1, Least
  <2> HIDE DEF I
  <2> QED
    BY <2>2 DEF Min
<1>4. I # {} => Min(I) \in Nat
  BY <1>2, <1>3
<1> HIDE DEF I
<1> QED
  BY <1>1, <1>4

\* RemoveFirst, which removes a row of the server's list, leaves a list.
LEMMA RowRemoved ==
  ASSUME NEW q \in Seq(Songs), NEW s
  PROVE  RemoveFirst(q, s) \in Seq(Songs)
<1> DEFINE I == {i \in 1..Len(q) : q[i] = s}
<1>2. Len(q) \in Nat
  OBVIOUS
<1>3. I # {} => Min(I) \in I
  <2> SUFFICES ASSUME I # {} PROVE Min(I) \in I
    OBVIOUS
  <2>1. I \in SUBSET Nat
    BY <1>2
  <2>2. \E n \in I : \A m \in I : n <= m
    BY <2>1, Least
  <2> HIDE DEF I
  <2> QED
    BY <2>2 DEF Min
<1>4. CASE I = {}
  <2>1. RemoveFirst(q, s) = q
    BY <1>4 DEF RemoveFirst
  <2> QED
    BY <2>1
<1>5. CASE I # {}
  <2> DEFINE n == Min(I)
  <2>1. RemoveFirst(q, s) = SubSeq(q, 1, n - 1) \o SubSeq(q, n + 1, Len(q))
    BY <1>5 DEF RemoveFirst, RemoveAt, SelectInSeq
  <2>2. n \in 1..Len(q)
    BY <1>3, <1>5
  <2> HIDE DEF n
  <2>3. SubSeq(q, 1, n - 1) \in Seq(Songs) /\ SubSeq(q, n + 1, Len(q)) \in Seq(Songs)
    BY <2>2, SubSeqProperties
  <2> QED
    BY <2>1, <2>3, ConcatProperties
<1> QED
  BY <1>4, <1>5

-----------------------------------------------------------------------------
(* The synchronous functions, for any run they may be called with.         *)

Pages == {p \in Page : p.index >= -1 /\ (p.src = None => p.audio = "empty")}
Runs  == [p : Pages, tasks : TaskBags]

UnderWayIn(B) ==
  \E t \in DOMAIN B : \/ t.at \in {"blob", "caught", "drop"}
                      \/ t.at \in {"ask", "told"} /\ t.gives

\* Music sounds, or is under way.
Going(r) == r.p.audio \in {"loading", "playing"} \/ UnderWayIn(r.tasks)

\* The function that turned r into q ended no task, and did nothing to the
\* sound but to resume it.
Moves(r, q) ==
  /\ q \in Runs
  /\ DOMAIN r.tasks \subseteq DOMAIN q.tasks
  /\ \/ q.p.audio = r.p.audio
     \/ r.p.audio \in {"playing", "paused", "ended"} /\ q.p.audio = "playing"

\* So the music that is under way is not lost in a function that moves on ...
LEMMA StillGoing ==
  ASSUME NEW r \in Runs, NEW q, Moves(r, q), Going(r)
  PROVE  Going(q)
BY DEF Moves, Going, UnderWayIn

\* ... nor in one that calls another.
LEMMA MovesOn ==
  ASSUME NEW r \in Runs, NEW q, NEW w, Moves(r, q), Moves(q, w)
  PROVE  Moves(r, w)
BY DEF Moves

\* The assignments to the fields of the two stores (player.js, queue.js).
LEMMA PageUpdates ==
  ASSUME NEW p \in Pages
  PROVE  /\ \A b \in BOOLEAN : /\ [p EXCEPT !.navigating = b] \in Pages
                               /\ [p EXCEPT !.ending = b] \in Pages
                               /\ [p EXCEPT !.asked = b] \in Pages
         /\ \A i \in Int : i >= -1 => [p EXCEPT !.index = i] \in Pages
         /\ \A q \in Seq(Songs) : [p EXCEPT !.queue = q] \in Pages
         /\ \A s \in Songs : [p EXCEPT !.current = s] \in Pages
BY DEF Pages, Page

\* A function called without await leaves a task behind.
LEMMA Calls ==
  ASSUME NEW r \in Runs, NEW t \in Task
  PROVE  /\ Moves(r, Call(r, t)) /\ Call(r, t).p = r.p
         /\ t \in DOMAIN Call(r, t).tasks
<1>1. BagOps!BagAdd(r.tasks, t) \in TaskBags /\ DOMAIN BagOps!BagAdd(r.tasks, t) = DOMAIN r.tasks \cup {t}
  BY Added DEF Runs
<1>2. Call(r, t) = [p |-> r.p, tasks |-> BagOps!BagAdd(r.tasks, t)]
  BY DEF Call, Runs
<1> QED
  BY <1>1, <1>2 DEF Moves, Runs

\* markCurrentSongAsSkipped() reports the song left and does no more.
LEMMA MarkSkippedMoves ==
  ASSUME NEW r \in Runs
  PROVE  Moves(r, MarkSkipped(r)) /\ MarkSkipped(r).p = r.p
<1>1. CASE r.p.current = None \/ r.p.ending
  BY <1>1 DEF MarkSkipped, Moves
<1>2. CASE ~(r.p.current = None \/ r.p.ending)
  <2>1. r.p.current \in Songs
    BY <1>2 DEF Runs, Pages, Page
  <2>2. Mark(r.p.current) \in Task
    BY <2>1 DEF Mark, Task
  <2> QED
    BY <1>2, <2>2, Calls DEF MarkSkipped
<1> QED
  BY <1>1, <1>2

\* resume() goes on with a sound that plays, is paused or has ended.
LEMMA ResumeMoves ==
  ASSUME NEW r \in Runs
  PROVE  /\ Moves(r, Resume(r)) /\ Resume(r).p.asked = r.p.asked
         /\ r.p.audio \in {"playing", "ended"} => Going(Resume(r))
<1>1. CASE r.p.audio \notin {"playing", "paused", "ended"}
  BY <1>1 DEF Resume, Moves
<1>2. CASE r.p.audio \in {"playing", "paused", "ended"}
  <2> DEFINE p == [r.p EXCEPT !.audio = "playing", !.playing = TRUE]
  <2>1. Resume(r) = [p |-> p, tasks |-> r.tasks]
    BY <1>2 DEF Resume, Runs, Pages, Page
  <2>2. p \in Pages /\ p.audio = "playing" /\ p.asked = r.p.asked
    BY <1>2 DEF Runs, Pages, Page
  <2> HIDE DEF p
  <2> QED
    BY <1>2, <2>1, <2>2 DEF Moves, Runs, Going
<1> QED
  BY <1>1, <1>2

\* Two updates of the same record are one.
LEMMA Flags ==
  ASSUME NEW r \in Runs, NEW b \in BOOLEAN, NEW c \in BOOLEAN
  PROVE  /\ [r EXCEPT !.p.ending = b, !.p.navigating = c]
               = [p |-> [r.p EXCEPT !.ending = b, !.navigating = c], tasks |-> r.tasks]
         /\ [r EXCEPT !.p.navigating = c]
               = [p |-> [r.p EXCEPT !.navigating = c], tasks |-> r.tasks]
         /\ [r EXCEPT !.p.ending = c]
               = [p |-> [r.p EXCEPT !.ending = c], tasks |-> r.tasks]
<1> DEFINE p == [r.p EXCEPT !.ending = b]
           q == [r EXCEPT !.p.ending = b]
<1>1. q = [p |-> p, tasks |-> r.tasks]
  BY DEF Runs
<1>2. p \in Pages
  BY PageUpdates DEF Runs
<1>3. q \in Runs
  BY <1>1, <1>2 DEF Runs
<1>4. [r EXCEPT !.p.ending = b, !.p.navigating = c] = [q EXCEPT !.p.navigating = c]
  OBVIOUS
<1>5. [r.p EXCEPT !.ending = b, !.navigating = c] = [p EXCEPT !.navigating = c]
  OBVIOUS
<1> HIDE DEF q, p
<1>6. [q EXCEPT !.p.navigating = c] = [p |-> [q.p EXCEPT !.navigating = c], tasks |-> q.tasks]
  BY <1>3 DEF Runs
<1>7. /\ [r EXCEPT !.p.navigating = c]
            = [p |-> [r.p EXCEPT !.navigating = c], tasks |-> r.tasks]
      /\ [r EXCEPT !.p.ending = c]
            = [p |-> [r.p EXCEPT !.ending = c], tasks |-> r.tasks]
  BY DEF Runs
<1> QED
  BY <1>1, <1>4, <1>5, <1>6, <1>7

\* play(song) of another song, or of one that is heard, has music under way.
LEMMA PlayMoves ==
  ASSUME NEW r \in Runs, NEW s \in Songs
  PROVE  /\ Moves(r, Play(r, s)) /\ Play(r, s).p.asked = r.p.asked
         /\ r.p.current # s \/ r.p.audio \in {"playing", "ended"} => Going(Play(r, s))
<1>1. CASE r.p.current = s /\ r.p.src # None
  BY <1>1, ResumeMoves DEF Play
<1>2. CASE ~(r.p.current = s /\ r.p.src # None)
  <2> DEFINE left   == r.p.current \notin {None, s} /\ ~r.p.navigating
             marked == IF left THEN MarkSkipped(r) ELSE r
             told   == [marked EXCEPT !.p.ending = FALSE, !.p.navigating = FALSE]
             p      == [r.p EXCEPT !.ending = FALSE, !.navigating = FALSE]
  <2>1. Play(r, s) = Call(told, Blob(s))
    BY <1>2 DEF Play
  <2>2. Moves(r, r) /\ Moves(r, marked) /\ marked.p = r.p
    BY MarkSkippedMoves DEF Moves
  <2>3. marked \in Runs
    BY <2>2 DEF Moves
  <2> HIDE DEF marked
  <2>4. told = [p |-> p, tasks |-> marked.tasks]
    BY <2>2, <2>3, Flags
  <2>5. p \in Pages /\ p.audio = r.p.audio /\ p.asked = r.p.asked
    BY DEF Runs, Pages, Page
  <2> HIDE DEF p
  <2>6. Moves(r, told) /\ told.p = p
    BY <2>2, <2>3, <2>4, <2>5 DEF Moves, Runs
  <2> HIDE DEF told
  <2>7. Blob(s) \in Task /\ Blob(s).at = "blob"
    BY DEF Blob, Task
  <2>8. /\ Moves(told, Call(told, Blob(s))) /\ Call(told, Blob(s)).p = p
        /\ Blob(s) \in DOMAIN Call(told, Blob(s)).tasks
    BY <2>6, <2>7, Calls DEF Moves
  <2>9. Going(Play(r, s))
    BY <2>1, <2>7, <2>8 DEF Going, UnderWayIn
  <2> QED
    BY <2>1, <2>5, <2>6, <2>8, <2>9, MovesOn
<1> QED
  BY <1>1, <1>2

\* The same of next() and previous() once they know the index.
LEMMA GoToMoves ==
  ASSUME NEW r \in Runs, NEW i \in Nat
  PROVE  /\ Moves(r, GoTo(r, i)) /\ GoTo(r, i).p.asked = r.p.asked
         /\ i < Len(r.p.queue) /\ (r.p.current = None \/ r.p.audio \in {"playing", "ended"})
              => Going(GoTo(r, i))
<1> DEFINE there == [r EXCEPT !.p.index = i]
           p     == [r.p EXCEPT !.index = i]
<1>1. there = [p |-> p, tasks |-> r.tasks]
  BY DEF Runs
<1>2. p \in Pages /\ p.audio = r.p.audio /\ p.asked = r.p.asked /\ p.current = r.p.current
  BY DEF Runs, Pages, Page
<1>3. there \in Runs /\ Moves(r, there) /\ there.p = p
  BY <1>1, <1>2 DEF Moves, Runs
<1>4. GoTo(r, i) = IF i < Len(r.p.queue) THEN Play(there, r.p.queue[i + 1]) ELSE there
  BY DEF GoTo
<1> HIDE DEF there, p
<1>5. CASE i < Len(r.p.queue)
  <2>1. r.p.queue \in Seq(Songs)
    BY DEF Runs, Pages, Page
  <2>2. i + 1 \in 1..Len(r.p.queue)
    BY <1>5, <2>1
  <2>3. r.p.queue[i + 1] \in Songs
    BY <2>1, <2>2
  <2>4. None \notin Songs
    BY NoneAssumption
  <2> QED
    BY <1>2, <1>3, <1>4, <1>5, <2>3, <2>4, PlayMoves, MovesOn
<1>6. CASE ~(i < Len(r.p.queue))
  BY <1>2, <1>3, <1>4, <1>6
<1> QED
  BY <1>5, <1>6

\* Quiet: the user's wish for music is not made up.
Quiet(r, q) == q.p.asked => r.p.asked

\* isNavigating is set before the song is left.
LEMMA Navigates ==
  ASSUME NEW r \in Runs
  PROVE  LET q == [r EXCEPT !.p.navigating = TRUE]
         IN  /\ Moves(r, q) /\ q.p.asked = r.p.asked /\ q.p.current = r.p.current
             /\ q.p.audio = r.p.audio /\ q.p.queue = r.p.queue /\ q.p.index = r.p.index
             /\ q.p.ending = r.p.ending
<1> DEFINE p == [r.p EXCEPT !.navigating = TRUE]
           q == [r EXCEPT !.p.navigating = TRUE]
<1>1. q = [p |-> p, tasks |-> r.tasks]
  BY Flags
<1>2. p \in Pages
  BY PageUpdates DEF Runs
<1>3. /\ p.asked = r.p.asked /\ p.current = r.p.current /\ p.audio = r.p.audio
      /\ p.queue = r.p.queue /\ p.index = r.p.index /\ p.ending = r.p.ending
  BY DEF Runs, Pages, Page
<1> HIDE DEF p
<1> QED
  BY <1>1, <1>2, <1>3 DEF Moves, Runs

\* next() with a queue and without repeat-one.
LEMMA StepOn ==
  ASSUME NEW r \in Runs, NEW i \in Nat
  PROVE  LET left == MarkSkipped([r EXCEPT !.p.navigating = TRUE])
         IN  /\ Moves(r, left) /\ left.p.asked = r.p.asked
             /\ Moves(r, GoTo(left, i)) /\ GoTo(left, i).p.asked = r.p.asked
             /\ i < Len(r.p.queue) /\ (r.p.current = None \/ r.p.audio \in {"playing", "ended"})
                  => Going(GoTo(left, i))
<1> DEFINE q    == [r EXCEPT !.p.navigating = TRUE]
           left == MarkSkipped(q)
<1>1. /\ Moves(r, q) /\ q.p.asked = r.p.asked /\ q.p.current = r.p.current
      /\ q.p.audio = r.p.audio /\ q.p.queue = r.p.queue
  BY Navigates
<1>2. q \in Runs
  BY <1>1 DEF Moves
<1> HIDE DEF q
<1>3. Moves(q, left) /\ left.p = q.p
  BY <1>2, MarkSkippedMoves
<1>4. left \in Runs /\ Moves(r, left)
  BY <1>1, <1>2, <1>3, MovesOn DEF Moves
<1> HIDE DEF left
<1>5. /\ Moves(left, GoTo(left, i)) /\ GoTo(left, i).p.asked = left.p.asked
      /\ i < Len(left.p.queue) /\ (left.p.current = None \/ left.p.audio \in {"playing", "ended"})
           => Going(GoTo(left, i))
  BY <1>4, GoToMoves
<1>6. Moves(r, GoTo(left, i))
  BY <1>4, <1>5, MovesOn
<1> QED
  BY <1>1, <1>3, <1>4, <1>5, <1>6 DEF q, left

\* next() and previous() with repeat one play the song again.
LEMMA RepeatsOne ==
  ASSUME NEW r \in Runs, r.p.current # None
  PROVE  LET q == Play([r EXCEPT !.p.navigating = TRUE], r.p.current)
         IN  Moves(r, q) /\ q.p.asked = r.p.asked
<1> DEFINE q == [r EXCEPT !.p.navigating = TRUE]
<1>1. Moves(r, q) /\ q.p.asked = r.p.asked
  BY Navigates
<1>2. q \in Runs /\ r.p.current \in Songs
  BY <1>1 DEF Moves, Runs, Pages, Page
<1> HIDE DEF q
<1>3. Moves(q, Play(q, r.p.current)) /\ Play(q, r.p.current).p.asked = q.p.asked
  BY <1>2, PlayMoves
<1> QED
  BY <1>1, <1>2, <1>3, MovesOn DEF q

\* Only the history variable changes.
LEMMA Unasked ==
  ASSUME NEW r \in Runs, NEW b \in BOOLEAN
  PROVE  LET q == [r EXCEPT !.p.asked = b]
         IN  /\ Moves(r, q) /\ q.p.asked = b /\ q.p.current = r.p.current
             /\ q.p.audio = r.p.audio /\ q.p.queue = r.p.queue
<1> DEFINE p == [r.p EXCEPT !.asked = b]
           q == [r EXCEPT !.p.asked = b]
<1>1. q = [p |-> p, tasks |-> r.tasks]
  BY DEF Runs
<1>2. p \in Pages
  BY PageUpdates DEF Runs
<1>3. p.asked = b /\ p.current = r.p.current /\ p.audio = r.p.audio /\ p.queue = r.p.queue
  BY DEF Runs, Pages, Page
<1> HIDE DEF p
<1> QED
  BY <1>1, <1>2, <1>3 DEF Moves, Runs

\* next() with nothing current, or after a song that has ended, goes on to a
\* song or finds none.
LEMMA GoNextMoves ==
  ASSUME NEW r \in Runs
  PROVE  /\ Moves(r, GoNext(r)) /\ Quiet(r, GoNext(r))
         /\ repeat = "off" /\ (r.p.current = None \/ r.p.audio \in {"playing", "ended"})
              => ~GoNext(r).p.asked \/ Going(GoNext(r))
<1> DEFINE left == MarkSkipped([r EXCEPT !.p.navigating = TRUE])
<1>0. r.p.queue \in Seq(Songs) /\ r.p.index \in Int /\ r.p.index >= -1
  BY DEF Runs, Pages, Page
<1>1. CASE repeat = "one" /\ r.p.current # None
  <2>1. GoNext(r) = Play([r EXCEPT !.p.navigating = TRUE], r.p.current)
    BY <1>1 DEF GoNext
  <2> QED
    BY <1>1, <2>1, RepeatsOne DEF Quiet
<1>2. CASE ~(repeat = "one" /\ r.p.current # None) /\ r.p.queue = <<>>
  <2>1. GoNext(r) = [r EXCEPT !.p.asked = FALSE]
    BY <1>2 DEF GoNext
  <2> QED
    BY <2>1, Unasked DEF Quiet
<1>3. CASE ~(repeat = "one" /\ r.p.current # None) /\ r.p.queue # <<>>
  <2>1. GoNext(r) = IF ~HasNext(r.p) THEN GoTo(left, 0)
                    ELSE IF r.p.index + 1 < Len(r.p.queue) THEN GoTo(left, r.p.index + 1)
                    ELSE left
    BY <1>3 DEF GoNext
  <2>2. 0 < Len(r.p.queue) /\ Len(r.p.queue) \in Nat
    BY <1>0, <1>3
  <2>3. CASE ~HasNext(r.p)
    <3>1. GoNext(r) = GoTo(left, 0)
      BY <2>1, <2>3
    <3> QED
      BY <2>2, <3>1, StepOn, 0 \in Nat DEF Quiet
  <2>4. CASE HasNext(r.p) /\ r.p.index + 1 < Len(r.p.queue)
    <3> DEFINE i == r.p.index + 1
    <3>1. GoNext(r) = GoTo(left, i)
      BY <2>1, <2>4
    <3>2. i \in Nat /\ i < Len(r.p.queue)
      BY <1>0, <2>4
    <3> HIDE DEF i
    <3> QED
      BY <3>1, <3>2, StepOn DEF Quiet
  <2>5. CASE HasNext(r.p) /\ ~(r.p.index + 1 < Len(r.p.queue))
    <3>1. GoNext(r) = left
      BY <2>1, <2>5
    <3>2. repeat # "off"
      BY <1>0, <2>2, <2>5 DEF HasNext
    <3>3. Moves(r, left) /\ left.p.asked = r.p.asked
      BY StepOn, 0 \in Nat
    <3> QED
      BY <3>1, <3>2, <3>3 DEF Quiet
  <2> QED
    BY <2>3, <2>4, <2>5
<1> QED
  BY <1>1, <1>2, <1>3

\* previous() is only ever clicked.
LEMMA GoPreviousMoves ==
  ASSUME NEW r \in Runs
  PROVE  Moves(r, GoPrevious(r)) /\ Quiet(r, GoPrevious(r))
<1> DEFINE left == MarkSkipped([r EXCEPT !.p.navigating = TRUE])
<1>0. r.p.index \in Int
  BY DEF Runs, Pages, Page
<1>1. CASE repeat = "one" /\ r.p.current # None
  <2>1. GoPrevious(r) = Play([r EXCEPT !.p.navigating = TRUE], r.p.current)
    BY <1>1 DEF GoPrevious
  <2> QED
    BY <1>1, <2>1, RepeatsOne DEF Quiet
<1>2. CASE ~(repeat = "one" /\ r.p.current # None)
  <2>1. GoPrevious(r) = IF HasPrev(r.p)
                          THEN IF r.p.index > 0 THEN GoTo(left, r.p.index - 1) ELSE left
                        ELSE left
    BY <1>2 DEF GoPrevious
  <2>2. CASE HasPrev(r.p) /\ r.p.index > 0
    <3> DEFINE i == r.p.index - 1
    <3>1. GoPrevious(r) = GoTo(left, i) /\ i \in Nat
      BY <1>0, <2>1, <2>2
    <3> HIDE DEF i
    <3>2. Moves(r, GoTo(left, i)) /\ GoTo(left, i).p.asked = r.p.asked
      BY <3>1, StepOn
    <3> QED
      BY <3>1, <3>2 DEF Quiet
  <2>3. CASE ~(HasPrev(r.p) /\ r.p.index > 0)
    <3>1. GoPrevious(r) = left
      BY <2>1, <2>3
    <3> QED
      BY <3>1, StepOn DEF Quiet
  <2> QED
    BY <2>2, <2>3
<1> QED
  BY <1>1, <1>2

\* A function that only changes what the page remembers.
LEMMA Remembers ==
  ASSUME NEW r \in Runs, NEW p \in Pages, p.audio = r.p.audio
  PROVE  /\ Moves(r, [p |-> p, tasks |-> r.tasks])
         /\ [p |-> p, tasks |-> r.tasks] \in Runs
BY DEF Moves, Runs

\* handleSongEnd asks for the music to go on.
LEMMA EndFlags ==
  ASSUME NEW r \in Runs, NEW b \in BOOLEAN, NEW c \in BOOLEAN
  PROVE  LET q == [r EXCEPT !.p.ending = b, !.p.asked = c]
         IN  /\ Moves(r, q) /\ q.p.asked = c /\ q.p.current = r.p.current
             /\ q.p.audio = r.p.audio
<1> DEFINE q == [r EXCEPT !.p.ending = b]
           p == [r.p EXCEPT !.ending = b]
           w == [q EXCEPT !.p.asked = c]
<1>1. q = [p |-> p, tasks |-> r.tasks]
  BY Flags
<1>2. p \in Pages /\ p.audio = r.p.audio /\ p.current = r.p.current
  BY PageUpdates DEF Runs, Pages, Page
<1> HIDE DEF p
<1>3. Moves(r, q) /\ q \in Runs
  BY <1>1, <1>2, Remembers
<1>4. q.p.audio = r.p.audio /\ q.p.current = r.p.current
  BY <1>1, <1>2
<1>5. [r EXCEPT !.p.ending = b, !.p.asked = c] = w
  OBVIOUS
<1> HIDE DEF q
<1>6. Moves(q, w) /\ w.p.asked = c /\ w.p.current = q.p.current /\ w.p.audio = q.p.audio
  BY <1>3, Unasked
<1> QED
  BY <1>3, <1>4, <1>5, <1>6, MovesOn

\* Its finally resets its flags.
LEMMA Settles ==
  ASSUME NEW r \in Runs, NEW b \in BOOLEAN, NEW c \in BOOLEAN
  PROVE  /\ Moves(r, [r EXCEPT !.p.ending = b])
         /\ Moves(r, [r EXCEPT !.p.navigating = b, !.p.ending = c])
<1>1. [r.p EXCEPT !.ending = b] \in Pages /\ [r.p EXCEPT !.ending = b].audio = r.p.audio
  BY PageUpdates DEF Runs, Pages, Page
<1>2. Moves(r, [r EXCEPT !.p.ending = b])
  <2>1. [r EXCEPT !.p.ending = b] = [p |-> [r.p EXCEPT !.ending = b], tasks |-> r.tasks]
    BY Flags
  <2> QED
    BY <1>1, <2>1, Remembers
<1> DEFINE q == [r EXCEPT !.p.navigating = b]
           w == [q EXCEPT !.p.ending = c]
<1>3. [r.p EXCEPT !.navigating = b] \in Pages /\ [r.p EXCEPT !.navigating = b].audio = r.p.audio
  BY PageUpdates DEF Runs, Pages, Page
<1>4. Moves(r, q) /\ q \in Runs
  <2>1. q = [p |-> [r.p EXCEPT !.navigating = b], tasks |-> r.tasks]
    BY Flags
  <2> QED
    BY <1>3, <2>1, Remembers
<1>5. [r EXCEPT !.p.navigating = b, !.p.ending = c] = w
  OBVIOUS
<1> HIDE DEF q
<1>7. Moves(q, w)
  <2> DEFINE e == [q.p EXCEPT !.ending = c]
  <2>1. w = [p |-> e, tasks |-> q.tasks]
    BY <1>4, Flags
  <2>2. e \in Pages /\ e.audio = q.p.audio
    BY <1>4, PageUpdates DEF Runs, Pages, Page
  <2> HIDE DEF e
  <2>3. Moves(q, [p |-> e, tasks |-> q.tasks])
    BY <1>4, <2>2, Remembers
  <2> QED
    BY <2>1, <2>3
<1> QED
  BY <1>2, <1>4, <1>5, <1>7, MovesOn

\* handleSongEnd goes on to the next song, in whichever order the listeners
\* of the element run it.
LEMMA SongEndMoves ==
  ASSUME NEW r \in Runs
  PROVE  /\ Moves(r, SongEnd(r))
         /\ repeat = "off" /\ r.p.audio \in {"playing", "ended"}
              => ~SongEnd(r).p.asked \/ Going(SongEnd(r))
<1> DEFINE ended    == [r EXCEPT !.p.ending = TRUE, !.p.asked = TRUE]
           reported == IF r.p.current = None THEN ended
                       ELSE Call(ended, Mark(r.p.current))
<1>1. /\ Moves(r, ended) /\ ended.p.current = r.p.current
      /\ ended.p.audio = r.p.audio
  BY EndFlags
<1>2. ended \in Runs
  BY <1>1 DEF Moves
<1>a. SongEnd(r) = IF repeat # "one" THEN GoNext(reported)
        ELSE IF r.p.current = None
               THEN [reported EXCEPT !.p.navigating = TRUE, !.p.ending = FALSE]
        ELSE [Play([reported EXCEPT !.p.navigating = TRUE], r.p.current)
                EXCEPT !.p.ending = FALSE]
  BY DEF SongEnd
<1> HIDE DEF ended
<1>3. /\ Moves(ended, reported) /\ reported.p.current = r.p.current
      /\ reported.p.audio = r.p.audio
  <2>1. CASE r.p.current = None
    BY <1>1, <1>2, <2>1 DEF Moves
  <2>2. CASE r.p.current # None
    <3>1. r.p.current \in Songs
      BY <2>2 DEF Runs, Pages, Page
    <3>2. Mark(r.p.current) \in Task
      BY <3>1 DEF Mark, Task
    <3> QED
      BY <1>1, <1>2, <2>2, <3>2, Calls
  <2> QED
    BY <2>1, <2>2
<1>4. reported \in Runs /\ Moves(r, reported)
  BY <1>1, <1>2, <1>3, MovesOn DEF Moves
<1> HIDE DEF reported
<1>5. CASE repeat # "one"
  <2>1. SongEnd(r) = GoNext(reported)
    BY <1>a, <1>5
  <2> QED
    BY <1>3, <1>4, <2>1, GoNextMoves, MovesOn
<1>6. CASE repeat = "one" /\ r.p.current = None
  <2>1. SongEnd(r) = [reported EXCEPT !.p.navigating = TRUE, !.p.ending = FALSE]
    BY <1>a, <1>6
  <2>2. Moves(reported, SongEnd(r))
    BY <1>4, <2>1, Settles
  <2> QED
    BY <1>4, <1>6, <2>2, MovesOn
<1>7. CASE repeat = "one" /\ r.p.current # None
  <2> DEFINE again == Play([reported EXCEPT !.p.navigating = TRUE], r.p.current)
  <2>1. SongEnd(r) = [again EXCEPT !.p.ending = FALSE]
    BY <1>a, <1>7
  <2>2. Moves(reported, again)
    BY <1>3, <1>4, <1>7, RepeatsOne
  <2>3. again \in Runs
    BY <2>2 DEF Moves
  <2> HIDE DEF again
  <2>4. Moves(again, SongEnd(r))
    BY <2>1, <2>3, Settles
  <2> QED
    BY <1>4, <1>7, <2>2, <2>3, <2>4, MovesOn
<1> QED
  BY <1>5, <1>6, <1>7

\* What failed is given up: the next song is on its way, or there is none.
LEMMA GiveUpGoesOn ==
  ASSUME NEW r \in Runs
  PROVE  /\ GiveUp(r) \in Runs
         /\ repeat = "off" => ~GiveUp(r).p.asked \/ Going(GiveUp(r))
<1> DEFINE silent == [r EXCEPT !.p.current = None, !.p.playing = FALSE]
           p == [r.p EXCEPT !.current = None, !.playing = FALSE]
<1>1. silent = [p |-> p, tasks |-> r.tasks]
  <2> DEFINE q == [r EXCEPT !.p.current = None]
             w == [r.p EXCEPT !.current = None]
  <2>1. q = [p |-> w, tasks |-> r.tasks]
    BY DEF Runs
  <2>2. silent = [q EXCEPT !.p.playing = FALSE]
    OBVIOUS
  <2>3. p = [w EXCEPT !.playing = FALSE]
    OBVIOUS
  <2> HIDE DEF q, w, silent, p
  <2>4. \A b \in BOOLEAN :
          [q EXCEPT !.p.playing = b] = [p |-> [w EXCEPT !.playing = b], tasks |-> r.tasks]
    BY <2>1
  <2> QED
    BY <2>2, <2>3, <2>4
<1>2. p \in Pages /\ p.current = None /\ p.audio = r.p.audio
  BY DEF Runs, Pages, Page
<1>3. silent \in Runs /\ silent.p.current = None
  BY <1>1, <1>2, Remembers
<1>4. GiveUp(r) = IF r.p.queue = <<>> THEN [silent EXCEPT !.p.asked = FALSE]
                  ELSE GoNext([silent EXCEPT !.p.asked = TRUE])
  BY DEF GiveUp
<1> HIDE DEF silent
<1>5. CASE r.p.queue = <<>>
  <2>1. GiveUp(r) = [silent EXCEPT !.p.asked = FALSE]
    BY <1>4, <1>5
  <2>2. /\ Moves(silent, [silent EXCEPT !.p.asked = FALSE])
        /\ ~[silent EXCEPT !.p.asked = FALSE].p.asked
    BY <1>3, Unasked
  <2> QED
    BY <2>1, <2>2 DEF Moves
<1>6. CASE r.p.queue # <<>>
  <2> DEFINE q == [silent EXCEPT !.p.asked = TRUE]
  <2>1. GiveUp(r) = GoNext(q)
    BY <1>4, <1>6
  <2>2. q \in Runs /\ q.p.current = None
    BY <1>3, Unasked DEF Moves
  <2> HIDE DEF q
  <2> QED
    BY <2>1, <2>2, GoNextMoves DEF Moves
<1> QED
  BY <1>5, <1>6

\* Selecting the first song of a queue that was fetched starts nothing.
LEMMA SelectFirstMoves ==
  ASSUME NEW r \in Runs
  PROVE  Moves(r, SelectFirst(r)) /\ SelectFirst(r).p.asked = r.p.asked
<1>1. CASE r.p.queue = <<>> \/ r.p.current # None
  BY <1>1 DEF SelectFirst, Moves
<1>2. CASE ~(r.p.queue = <<>> \/ r.p.current # None)
  <2> DEFINE s == r.p.queue[1]
             w == [r.p EXCEPT !.index = 0]
             p == [w EXCEPT !.current = s]
             q == [r EXCEPT !.p.index = 0]
  <2>1. SelectFirst(r) = [q EXCEPT !.p.current = s]
    BY <1>2 DEF SelectFirst
  <2>2. q = [p |-> w, tasks |-> r.tasks]
    BY DEF Runs
  <2>3. s \in Songs
    <3>1. r.p.queue \in Seq(Songs)
      BY DEF Runs, Pages, Page
    <3> QED
      BY <1>2, <3>1
  <2>4. w \in Pages
    <3>1. r.p \in Pages /\ 0 \in Int /\ 0 >= -1
      BY DEF Runs
    <3> QED
      BY <3>1, PageUpdates
  <2>5. w.audio = r.p.audio /\ w.asked = r.p.asked
    BY DEF Runs, Pages, Page
  <2> HIDE DEF w, s
  <2>6. p \in Pages /\ p.audio = r.p.audio /\ p.asked = r.p.asked
    BY <2>3, <2>4, <2>5, PageUpdates DEF Pages, Page
  <2>7. SelectFirst(r) = [p |-> p, tasks |-> r.tasks]
    BY <2>1, <2>2
  <2> HIDE DEF p
  <2> QED
    BY <2>6, <2>7, Remembers
<1> QED
  BY <1>1, <1>2

\* fetchQueue moves the index with the current song, and starts nothing.
LEMMA SyncedMoves ==
  ASSUME NEW r \in Runs, NEW t \in Task, t.at = "told"
  PROVE  Moves(r, Synced(r, t)) /\ Synced(r, t).p.asked = r.p.asked
<1> DEFINE got == [r EXCEPT !.p.queue = t.songs]
           p == [r.p EXCEPT !.queue = t.songs]
           i == IndexOf(t.songs, r.p.current)
<1>1. t.songs \in Seq(Songs)
  BY DEF Task
<1>2. got = [p |-> p, tasks |-> r.tasks]
  BY DEF Runs
<1>3. p \in Pages /\ p.audio = r.p.audio /\ p.asked = r.p.asked
  BY <1>1, PageUpdates DEF Runs, Pages, Page
<1>4. i \in Int /\ i >= -1
  BY <1>1, IndexOfRange
<1>5. Synced(r, t) = IF r.p.current # None
                       THEN IF i < 0 THEN got ELSE [got EXCEPT !.p.index = i]
                     ELSE IF t.skip THEN got ELSE SelectFirst(got)
  BY DEF Synced
<1> HIDE DEF p, i
<1>6. got \in Runs /\ Moves(r, got) /\ got.p = p
  BY <1>2, <1>3, Remembers
<1> HIDE DEF got
<1>7. [got EXCEPT !.p.index = i] = [p |-> [p EXCEPT !.index = i], tasks |-> got.tasks]
  BY <1>6 DEF Runs
<1>8. /\ [p EXCEPT !.index = i] \in Pages /\ [p EXCEPT !.index = i].audio = r.p.audio
      /\ [p EXCEPT !.index = i].asked = r.p.asked
  BY <1>3, <1>4, PageUpdates DEF Pages, Page
<1>9. Moves(got, [got EXCEPT !.p.index = i]) /\ [got EXCEPT !.p.index = i].p.asked = r.p.asked
  <2> DEFINE w == [p EXCEPT !.index = i]
  <2>1. w \in Pages /\ w.audio = got.p.audio /\ w.asked = r.p.asked
    BY <1>3, <1>6, <1>8
  <2>2. [got EXCEPT !.p.index = i] = [p |-> w, tasks |-> got.tasks]
    BY <1>7
  <2> HIDE DEF w
  <2>3. [p |-> w, tasks |-> got.tasks].p = w
    OBVIOUS
  <2> QED
    BY <1>6, <2>1, <2>2, <2>3, Remembers
<1>10. Moves(got, SelectFirst(got)) /\ SelectFirst(got).p.asked = r.p.asked
  BY <1>3, <1>6, SelectFirstMoves
<1> QED
  BY <1>3, <1>5, <1>6, <1>9, <1>10, MovesOn

\* A load() under a pending play() leaves the rejection to its catch.
LEMMA InterruptedMoves ==
  ASSUME NEW r \in Runs
  PROVE  Moves(r, Interrupted(r)) /\ Interrupted(r).p = r.p
<1>1. CASE r.p.audio = "loading"
  <2>1. r.p.src \in Songs
    BY <1>1 DEF Runs, Pages, Page
  <2>2. Caught(r.p.src, FALSE) \in Task
    BY <2>1 DEF Caught, Task
  <2> QED
    BY <1>1, <2>2, Calls DEF Interrupted
<1>2. CASE r.p.audio # "loading"
  BY <1>2 DEF Interrupted, Moves
<1> QED
  BY <1>1, <1>2

-----------------------------------------------------------------------------
(* The invariant, and the actions.                                         *)

Shape ==
  /\ page \in Pages /\ tasks \in TaskBags
  /\ repeat \in {"off", "all", "one"}
  /\ server \in Seq(Songs)
  /\ ears \in 1..EarBound /\ ringing \in 0..EarBound

\* The listeners run before anything else, so the element is as it was when
\* the song ended, or the same song plays again.
Rung == ringing > 0 => page.audio \in {"ended", "playing"}

Follows == page.asked /\ ringing = 0 /\ repeat = "off" => Going(Run(page))

PlayerInv == Shape /\ Rung /\ Follows

\* A fresh page is silent, and nobody asked it for music.
LEMMA InitPlayer == PlayerInit => PlayerInv
<1> SUFFICES ASSUME PlayerInit PROVE PlayerInv
  OBVIOUS
<1>1. tasks \in TaskBags
  <2>1. tasks = [e \in {} |-> 1]
    BY DEF PlayerInit
  <2>2. [e \in {} |-> 1] \in [{} -> Nat \ {0}]
    OBVIOUS
  <2> QED
    BY <2>1, <2>2 DEF TaskBags
<1>2. page \in Pages
  BY DEF PlayerInit, Pages, Page
<1>3. ears \in 1..EarBound /\ ringing \in 0..EarBound
  BY PlayerAssumption DEF PlayerInit
<1>4. server \in Seq(Songs) /\ repeat = "off" /\ ~page.asked /\ ringing = 0
  BY DEF PlayerInit
<1> QED
  BY <1>1, <1>2, <1>3, <1>4 DEF PlayerInv, Shape, Rung, Follows

\* What the page and its tasks are is what a function may be called with.
LEMMA Here ==
  ASSUME PlayerInv
  PROVE  Run(page) \in Runs /\ Run(page).p = page /\ Run(page).tasks = tasks
BY DEF PlayerInv, Shape, Run, Runs

\* A script between two ends of songs.
LEMMA Scripts ==
  ASSUME PlayerInv, ringing = 0, NEW r \in Runs, Do(r), server' \in Seq(Songs),
         ears' \in 1..EarBound, UNCHANGED <<repeat, ringing>>,
         repeat = "off" /\ r.p.asked => Going(r)
  PROVE  PlayerInv'
<1>1. page' = r.p /\ tasks' = r.tasks /\ repeat' = repeat /\ ringing' = 0
  BY DEF Do
<1>2. Shape'
  BY <1>1 DEF PlayerInv, Shape, Runs
<1>3. Run(page)' = [p |-> r.p, tasks |-> r.tasks]
  BY <1>1 DEF Run
<1>4. Follows'
  BY <1>1, <1>3 DEF Follows, Going
<1> QED
  BY <1>1, <1>2, <1>4 DEF PlayerInv, Rung

\* A script that a click starts, and that moves on.
LEMMA Clicks ==
  ASSUME PlayerInv, ringing = 0, NEW r \in Runs, NEW q, Moves(r, q), Quiet(r, q),
         r.p.asked => page.asked, Moves(Run(page), r), Do(q), Rest
  PROVE  PlayerInv'
<1>1. Moves(Run(page), q) /\ Run(page) \in Runs
  BY Here, MovesOn
<1>2. repeat = "off" /\ q.p.asked => Going(q)
  BY <1>1, StillGoing DEF PlayerInv, Follows, Quiet
<1>3. q \in Runs
  BY DEF Moves
<1>4. server' \in Seq(Songs) /\ ears' \in 1..EarBound /\ UNCHANGED <<repeat, ringing>>
  BY DEF Rest, PlayerInv, Shape
<1> QED
  BY <1>2, <1>3, <1>4, Scripts

\* An answer ends one task; the report of a skip or finish, or the refresh of
\* a view, was no music under way.
LEMMA Returns ==
  ASSUME PlayerInv, NEW t \in DOMAIN tasks
  PROVE  /\ t \in Task /\ Returned(t) \in Runs /\ Returned(t).p = page
         /\ t.at = "mark" /\ Going(Run(page)) => Going(Returned(t))
         /\ t.at \in {"ask", "told"} /\ ~t.gives /\ Going(Run(page)) => Going(Returned(t))
<1>1. tasks \in TaskBags /\ page \in Pages
  BY DEF PlayerInv, Shape
<1>2. t \in Task
  BY <1>1, AreTaskBags
<1>3. /\ BagOps!BagRemove(tasks, t) \in TaskBags
      /\ DOMAIN tasks \subseteq DOMAIN BagOps!BagRemove(tasks, t) \cup {t}
  BY <1>1, <1>2, Removed
<1>4. Returned(t) = [p |-> page, tasks |-> BagOps!BagRemove(tasks, t)]
  BY DEF Returned
<1>5. Returned(t) \in Runs /\ Returned(t).p = page
  BY <1>1, <1>3, <1>4 DEF Runs
<1>6. ASSUME Going(Run(page)), t.at = "mark"
      PROVE  Going(Returned(t))
  BY <1>3, <1>4, <1>6, Here DEF Going, UnderWayIn
<1>7. ASSUME Going(Run(page)), t.at \in {"ask", "told"}, ~t.gives
      PROVE  Going(Returned(t))
  BY <1>3, <1>4, <1>7, Here DEF Going, UnderWayIn
<1> QED
  BY <1>2, <1>5, <1>6, <1>7

\* The lists a user can play are not empty.
LEMMA ListsAreSongs ==
  ASSUME NEW q \in Lists
  PROVE  q \in Seq(Songs) /\ q # <<>> /\ Head(q) \in Songs
<1>1. PICK m \in Nat : q \in [1..m -> Songs]
  BY DEF Lists, SeqOf
<1>2. q \in Seq(Songs) /\ q # <<>>
  BY <1>1 DEF Lists
<1> QED
  BY <1>2

\* The clicks: none of them asks for music that does not come.
LEMMA UserSteps ==
  ASSUME PlayerInv,
         \/ \E s \in Songs : Click(s)
         \/ \E list \in Lists : PlayAll(list)
         \/ ClickNext \/ ClickPrevious \/ TogglePlay \/ ToggleRepeat \/ Shuffle
         \/ \E skip \in BOOLEAN : Refresh(skip)
  PROVE  PlayerInv'
<1> DEFINE r == Run(page)
<1>0. /\ r \in Runs /\ r.p = page /\ r.tasks = tasks /\ Moves(r, r)
      /\ page \in Pages /\ tasks \in TaskBags
  BY Here DEF Moves, PlayerInv, Shape
<1>1. ASSUME NEW s \in Songs, Click(s) PROVE PlayerInv'
  <2>1. ringing = 0 /\ Do(Play(r, s)) /\ Rest
    BY <1>1 DEF Click, Idle
  <2>2. Moves(r, Play(r, s)) /\ Quiet(r, Play(r, s))
    BY <1>0, PlayMoves DEF Quiet
  <2> HIDE DEF r
  <2> QED
    BY <1>0, <2>1, <2>2, Clicks DEF r
<1>2. ASSUME NEW list \in Lists, PlayAll(list) PROVE PlayerInv'
  <2> DEFINE p == [page EXCEPT !.queue = list, !.index = 0]
             w == Run(p)
  <2>1. ringing = 0 /\ Do(Play(w, Head(list))) /\ Rest
    BY <1>2 DEF PlayAll, Idle
  <2>a. list \in Seq(Songs) /\ Head(list) \in Songs
    BY ListsAreSongs
  <2>2. p \in Pages /\ p.audio = page.audio /\ p.asked = page.asked
    <3> DEFINE x == [page EXCEPT !.queue = list]
    <3>1. x \in Pages /\ x.audio = page.audio /\ x.asked = page.asked
      BY <1>0, <2>a, PageUpdates DEF Pages, Page
    <3>2. p = [x EXCEPT !.index = 0]
      OBVIOUS
    <3> HIDE DEF x
    <3>3. 0 \in Int /\ 0 >= -1
      OBVIOUS
    <3>4. [x EXCEPT !.index = 0] \in Pages
      BY <3>1, <3>3, PageUpdates
    <3> QED
      BY <3>1, <3>2, <3>4 DEF Pages, Page
  <2>3. w = [p |-> p, tasks |-> r.tasks]
    BY <1>0 DEF Run
  <2> HIDE DEF p
  <2>4. w \in Runs /\ Moves(r, w) /\ w.p.asked = page.asked
    BY <1>0, <2>2, <2>3, Remembers
  <2> HIDE DEF w
  <2>5. Moves(w, Play(w, Head(list))) /\ Quiet(w, Play(w, Head(list)))
    BY <2>4, <2>a, PlayMoves DEF Quiet
  <2> QED
    BY <1>0, <2>1, <2>4, <2>5, Clicks
<1>3. ASSUME ClickNext PROVE PlayerInv'
  BY <1>0, <1>3, GoNextMoves, Clicks DEF ClickNext, Idle
<1>4. ASSUME ClickPrevious PROVE PlayerInv'
  BY <1>0, <1>4, GoPreviousMoves, Clicks DEF ClickPrevious, Idle
<1>5. ASSUME TogglePlay PROVE PlayerInv'
  <2>1. ringing = 0 /\ Rest
    BY <1>5 DEF TogglePlay, Idle
  <2>2. CASE page.playing
    <3> DEFINE q == Interrupted(r)
               a == IF page.audio \in {"loading", "playing"} THEN "paused" ELSE page.audio
               w == [q EXCEPT !.p.audio = a, !.p.playing = FALSE, !.p.asked = FALSE]
    <3>1. Do(w)
      BY <1>5, <2>2 DEF TogglePlay
    <3>2. q \in Runs /\ q.p = page
      BY <1>0, InterruptedMoves DEF Moves
    <3>3. a \in {"empty", "loading", "playing", "paused", "ended", "dead"}
          /\ (a = "empty" <=> page.audio = "empty")
      BY <1>0 DEF Pages, Page
    <3> HIDE DEF q, a
    <3>4. w.p = [page EXCEPT !.audio = a, !.playing = FALSE, !.asked = FALSE]
          /\ w.tasks = q.tasks /\ w = [p |-> w.p, tasks |-> w.tasks]
      <4> DEFINE x == [q EXCEPT !.p.audio = a]
                 y == [x EXCEPT !.p.playing = FALSE]
      <4>1. x = [p |-> [page EXCEPT !.audio = a], tasks |-> q.tasks]
        BY <3>2 DEF Runs
      <4>2. w = [y EXCEPT !.p.asked = FALSE]
        OBVIOUS
      <4> HIDE DEF x, w
      <4>3. y = [p |-> [x.p EXCEPT !.playing = FALSE], tasks |-> q.tasks]
        BY <4>1
      <4> HIDE DEF y
      <4>4. w = [p |-> [y.p EXCEPT !.asked = FALSE], tasks |-> q.tasks]
        BY <4>2, <4>3
      <4> QED
        BY <4>1, <4>3, <4>4
    <3>5. w.p \in Pages /\ ~w.p.asked
      BY <1>0, <3>3, <3>4 DEF Pages, Page
    <3>6. w \in Runs
      BY <3>2, <3>4, <3>5 DEF Runs
    <3> HIDE DEF w
    <3>7. server' \in Seq(Songs) /\ ears' \in 1..EarBound /\ UNCHANGED <<repeat, ringing>>
      BY <2>1 DEF Rest, PlayerInv, Shape
    <3> QED
      BY <2>1, <3>1, <3>5, <3>6, <3>7, Scripts
  <2>3. CASE ~page.playing
    <3>1. Do(Resume(r))
      BY <1>5, <2>3 DEF TogglePlay
    <3>2. Moves(r, Resume(r)) /\ Quiet(r, Resume(r))
      BY <1>0, ResumeMoves DEF Quiet
    <3> HIDE DEF r
    <3> QED
      BY <1>0, <2>1, <3>1, <3>2, Clicks DEF r
  <2> QED
    BY <2>2, <2>3
<1>6. ASSUME ToggleRepeat PROVE PlayerInv'
  <2>1. page' \in Pages /\ ~page'.asked /\ page'.audio = page.audio
    BY <1>0, <1>6 DEF ToggleRepeat, Pages, Page
  <2>2. repeat' \in {"off", "all", "one"}
    BY <1>6 DEF ToggleRepeat, PlayerInv, Shape
  <2> QED
    BY <1>6, <2>1, <2>2 DEF ToggleRepeat, PlayerInv, Shape, Rung, Follows
<1>7. ASSUME Shuffle PROVE PlayerInv'
  <2>1. PICK q \in Lists : page' = [page EXCEPT !.queue = q, !.index = IndexOf(q, page.current)]
    BY <1>7 DEF Shuffle
  <2>2. q \in Seq(Songs) /\ IndexOf(q, page.current) \in Int /\ IndexOf(q, page.current) >= -1
    BY ListsAreSongs, IndexOfRange
  <2>3. page' \in Pages /\ page'.audio = page.audio /\ page'.asked = page.asked
    BY <1>0, <2>1, <2>2 DEF Pages, Page
  <2>4. ringing = 0 /\ Rest /\ tasks' = tasks
    BY <1>7 DEF Shuffle, Idle
  <2> DEFINE w == [p |-> page', tasks |-> r.tasks]
  <2>5. Moves(r, w) /\ Quiet(r, w) /\ Do(w)
    BY <1>0, <2>3, <2>4, Remembers DEF Quiet, Do
  <2> HIDE DEF w
  <2> QED
    BY <1>0, <2>4, <2>5, Clicks
<1>8. ASSUME NEW skip \in BOOLEAN, Refresh(skip) PROVE PlayerInv'
  <2> DEFINE c == Ask(skip, FALSE)
             q == Call(r, c)
  <2>1. c \in Task
    BY DEF Ask, Task
  <2>a. tasks' = BagOps!BagAdd(tasks, c) /\ page' = page /\ ringing = 0 /\ Rest
    BY <1>8 DEF Refresh, Idle
  <2> HIDE DEF r, c
  <2>2. q = [p |-> r.p, tasks |-> BagOps!BagAdd(r.tasks, c)]
    BY <1>0 DEF Call, Runs
  <2> HIDE DEF q
  <2>3. Do(q) /\ ringing = 0 /\ Rest
    BY <1>0, <2>a, <2>2 DEF Do
  <2>4. Moves(r, q) /\ Quiet(r, q)
    BY <1>0, <2>1, Calls DEF Quiet, q
  <2> HIDE DEF q
  <2> QED
    BY <1>0, <2>3, <2>4, Clicks DEF r
<1> QED
  BY <1>1, <1>2, <1>3, <1>4, <1>5, <1>6, <1>7, <1>8

\* A view that opens replaces the element.  A play() that was pending is then
\* under way to its catch, and music that was under way still is.
LEMMA ViewOpens ==
  ASSUME PlayerInv, OpenView
  PROVE  PlayerInv'
<1> DEFINE r == Interrupted(Run(page))
           b == page.asked /\ (page.audio # "playing" \/ UnderWay)
           w == [r EXCEPT !.p.src = None, !.p.audio = "empty",
                          !.p.asked = @ /\ (page.audio # "playing" \/ UnderWay)]
<1>1. /\ ringing = 0 /\ ears' = 1 /\ UNCHANGED <<repeat, ringing, server>>
      /\ Do(w)
  BY DEF OpenView
<1>2. r \in Runs /\ r.p = page /\ DOMAIN tasks \subseteq DOMAIN r.tasks
  BY Here, InterruptedMoves DEF Moves
<1>3. page.audio = "loading" => UnderWayIn(r.tasks)
  <2> SUFFICES ASSUME page.audio = "loading" PROVE UnderWayIn(r.tasks)
    OBVIOUS
  <2>1. page.src \in Songs
    BY DEF PlayerInv, Shape, Pages, Page
  <2>2. Caught(page.src, FALSE) \in Task /\ Caught(page.src, FALSE).at = "caught"
    BY <2>1 DEF Caught, Task
  <2>3. r = Call(Run(page), Caught(page.src, FALSE))
    BY Here DEF Interrupted
  <2> QED
    BY <2>2, <2>3, Here, Calls DEF UnderWayIn
<1>4. UnderWay => UnderWayIn(r.tasks)
  BY <1>2 DEF UnderWay, UnderWayIn, At
<1> HIDE DEF r
<1>5. b \in BOOLEAN /\ (repeat = "off" /\ b => UnderWayIn(r.tasks))
  <2>1. repeat = "off" /\ b => page.audio \in {"loading", "playing"} \/ UnderWayIn(tasks)
    BY <1>1, Here DEF PlayerInv, Follows, Going
  <2>2. UnderWayIn(tasks) => UnderWayIn(r.tasks)
    BY <1>2 DEF UnderWayIn
  <2> QED
    BY <1>3, <1>4, <2>1, <2>2
<1>6. w = [p |-> [page EXCEPT !.src = None, !.audio = "empty", !.asked = b], tasks |-> r.tasks]
  <2> DEFINE x == [r EXCEPT !.p.src = None]
             y == [x EXCEPT !.p.audio = "empty"]
  <2>1. x = [p |-> [page EXCEPT !.src = None], tasks |-> r.tasks]
    BY <1>2 DEF Runs
  <2>2. w = [y EXCEPT !.p.asked = @ /\ (page.audio # "playing" \/ UnderWay)]
    OBVIOUS
  <2> HIDE DEF x, w
  <2>3. y = [p |-> [x.p EXCEPT !.audio = "empty"], tasks |-> r.tasks]
    BY <2>1
  <2>4. y.p.asked = page.asked
    BY <2>1, <2>3 DEF PlayerInv, Shape, Pages, Page
  <2> HIDE DEF y
  <2>5. w = [p |-> [y.p EXCEPT !.asked = b], tasks |-> r.tasks]
    BY <2>2, <2>3, <2>4
  <2> QED
    BY <2>1, <2>3, <2>5
<1> HIDE DEF b, w
<1>7. w.p \in Pages /\ w.p.asked = b /\ w.tasks = r.tasks
  BY <1>5, <1>6 DEF PlayerInv, Shape, Pages, Page
<1>8. w \in Runs
  BY <1>2, <1>6, <1>7 DEF Runs
<1>9. repeat = "off" /\ w.p.asked => Going(w)
  BY <1>5, <1>7 DEF Going
<1>10. server' \in Seq(Songs) /\ ears' \in 1..EarBound
  BY <1>1, PlayerAssumption DEF PlayerInv, Shape
<1> QED
  BY <1>1, <1>8, <1>9, <1>10, Scripts

\* The element's events, among them the end of a song under several listeners.
LEMMA ElementSteps ==
  ASSUME PlayerInv,
         Start \/ StartFails \/ Ended \/ Ring
  PROVE  PlayerInv'
<1> DEFINE r == Run(page)
<1>0. /\ r \in Runs /\ r.p = page /\ r.tasks = tasks /\ Moves(r, r)
      /\ page \in Pages /\ tasks \in TaskBags /\ server \in Seq(Songs)
      /\ ears \in 1..EarBound /\ ringing \in 0..EarBound
  BY Here DEF Moves, PlayerInv, Shape
<1>a. Metadata => ears' \in 1..EarBound
  BY <1>0, PlayerAssumption DEF Metadata
<1>1. ASSUME Start PROVE PlayerInv'
  <2> DEFINE p == [page EXCEPT !.audio = "playing", !.playing = TRUE]
             w == [p |-> p, tasks |-> tasks]
  <2>1. p \in Pages /\ p.audio = "playing"
    BY <1>0, <1>1 DEF Start, Pages, Page
  <2>2. w \in Runs /\ Going(w)
    BY <1>0, <2>1 DEF Runs, Going
  <2>3. Do(w) /\ ringing = 0 /\ UNCHANGED <<repeat, ringing>> /\ ears' \in 1..EarBound
        /\ server' \in Seq(Songs)
    BY <1>0, <1>1, <1>a DEF Start, Do
  <2> HIDE DEF w
  <2> QED
    BY <2>2, <2>3, Scripts
<1>2. ASSUME StartFails PROVE PlayerInv'
  <2>1. PICK a \in {"dead", "paused"}, broken \in BOOLEAN :
          /\ IF a = "dead" THEN UNCHANGED ears ELSE Metadata
          /\ Do(Call(Run([page EXCEPT !.audio = a]), Caught(page.src, broken)))
    BY <1>2 DEF StartFails
  <2> DEFINE p == [page EXCEPT !.audio = a]
             w == Run(p)
             q == Call(w, Caught(page.src, broken))
  <2>2. page.audio = "loading" /\ ringing = 0 /\ UNCHANGED <<repeat, ringing, server>>
    BY <1>2 DEF StartFails
  <2>3. page.src \in Songs
    BY <1>0, <2>2 DEF Pages, Page
  <2>4. Caught(page.src, broken) \in Task /\ Caught(page.src, broken).at = "caught"
    BY <2>3 DEF Caught, Task
  <2>5. p \in Pages
    BY <1>0, <2>3, NoneAssumption DEF Pages, Page
  <2>6. w \in Runs
    BY <1>0, <2>5 DEF Run, Runs
  <2> HIDE DEF w
  <2>7. q \in Runs /\ Going(q)
    BY <2>4, <2>6, Calls DEF Moves, Going, UnderWayIn
  <2>8. Do(q)
    BY <2>1 DEF w
  <2> HIDE DEF q
  <2>9. ears' \in 1..EarBound /\ server' \in Seq(Songs)
    BY <1>0, <1>a, <2>1, <2>2
  <2> QED
    BY <2>2, <2>7, <2>8, <2>9, Scripts
<1>3. ASSUME Ended PROVE PlayerInv'
  <2>1. page' \in Pages /\ page'.audio = "ended"
    BY <1>0, <1>3 DEF Ended, Pages, Page
  <2>2. ringing' \in 0..EarBound /\ ringing' # 0
    BY PlayerAssumption, <1>0, <1>3 DEF Ended
  <2> QED
    BY <1>0, <1>3, <2>1, <2>2 DEF Ended, PlayerInv, Shape, Rung, Follows
<1>4. ASSUME Ring PROVE PlayerInv'
  <2> DEFINE q == SongEnd(r)
  <2>1. page.audio \in {"ended", "playing"}
    BY <1>4 DEF Ring, PlayerInv, Rung
  <2>2. Moves(r, q) /\ (repeat = "off" => ~q.p.asked \/ Going(q))
    BY <1>0, <2>1, SongEndMoves
  <2>3. page' = q.p /\ tasks' = q.tasks /\ UNCHANGED <<repeat, ears, server>>
    BY <1>4 DEF Ring, Do
  <2> HIDE DEF q
  <2>4. q \in Runs /\ q.p.audio \in {"ended", "playing"}
    BY <1>0, <2>1, <2>2 DEF Moves
  <2>5. ringing' \in 0..EarBound
    BY PlayerAssumption, <1>0, <1>4 DEF Ring
  <2>6. Shape'
    BY <2>3, <2>4, <2>5 DEF PlayerInv, Shape, Runs
  <2>7. Run(page)' = [p |-> q.p, tasks |-> q.tasks]
    BY <2>3 DEF Run
  <2>8. Follows'
    BY <2>2, <2>3, <2>7 DEF Follows, Going
  <2> QED
    BY <2>3, <2>4, <2>6, <2>8 DEF PlayerInv, Rung
<1> QED
  BY <1>1, <1>2, <1>3, <1>4

\* The answers, in whatever order they come.
LEMMA AnswerSteps ==
  ASSUME PlayerInv,
         \/ BlobArrives \/ BlobFails \/ Catch \/ Dropped \/ DropFails
         \/ MarkReturns \/ MarkFails \/ GetQueue \/ FetchReturns \/ FetchFails
  PROVE  PlayerInv'
<1>0. /\ server \in Seq(Songs) /\ ears \in 1..EarBound
      /\ \A s : RemoveFirst(server, s) \in Seq(Songs)
      /\ repeat = "off" /\ ringing = 0 /\ page.asked => Going(Run(page))
  BY RowRemoved DEF PlayerInv, Shape, Follows
<1>1. ASSUME BlobArrives PROVE PlayerInv'
  <2>1. PICK t \in At("blob") :
          /\ ringing = 0 /\ Rest
          /\ Do([Interrupted(Returned(t)) EXCEPT !.p.current = t.song, !.p.src = t.song,
                                                 !.p.audio = "loading"])
    BY <1>1 DEF BlobArrives
  <2> DEFINE r == Interrupted(Returned(t))
             q == [r EXCEPT !.p.current = t.song, !.p.src = t.song, !.p.audio = "loading"]
  <2>2. t \in DOMAIN tasks /\ t.at = "blob"
    BY DEF At
  <2>3. t \in Task /\ Returned(t) \in Runs
    BY <2>2, Returns
  <2>4. t.song \in Songs
    BY <2>2, <2>3 DEF Task
  <2>5. r \in Runs
    BY <2>3, InterruptedMoves DEF Moves
  <2> HIDE DEF r
  <2>6. q.p = [r.p EXCEPT !.current = t.song, !.src = t.song, !.audio = "loading"]
        /\ q.tasks = r.tasks /\ q = [p |-> q.p, tasks |-> q.tasks]
    <3> DEFINE x == [r EXCEPT !.p.current = t.song]
               y == [x EXCEPT !.p.src = t.song]
    <3>1. x = [p |-> [r.p EXCEPT !.current = t.song], tasks |-> r.tasks]
      BY <2>5 DEF Runs
    <3>2. q = [y EXCEPT !.p.audio = "loading"]
      OBVIOUS
    <3> HIDE DEF x, q
    <3>3. y = [p |-> [x.p EXCEPT !.src = t.song], tasks |-> r.tasks]
      BY <3>1
    <3> HIDE DEF y
    <3>4. q = [p |-> [y.p EXCEPT !.audio = "loading"], tasks |-> r.tasks]
      BY <3>2, <3>3
    <3> QED
      BY <3>1, <3>3, <3>4
  <2>7. q.p \in Pages /\ q.p.audio = "loading"
    BY <2>4, <2>5, <2>6, NoneAssumption DEF Runs, Pages, Page
  <2>8. q \in Runs /\ Going(q)
    BY <2>5, <2>6, <2>7 DEF Runs, Going
  <2>9. Do(q)
    BY <2>1 DEF r
  <2> HIDE DEF q
  <2> QED
    BY <1>0, <2>1, <2>8, <2>9, Scripts DEF Rest
<1>2. ASSUME BlobFails PROVE PlayerInv'
  <2>1. PICK t \in At("blob") :
          ringing = 0 /\ Rest /\ Do(Call(Returned(t), Caught(t.song, TRUE)))
    BY <1>2 DEF BlobFails
  <2> DEFINE c == Caught(t.song, TRUE)
             q == Call(Returned(t), c)
  <2>2. t \in DOMAIN tasks /\ t.at = "blob"
    BY DEF At
  <2>3. t \in Task /\ Returned(t) \in Runs
    BY <2>2, Returns
  <2>4. c \in Task /\ c.at = "caught"
    BY <2>2, <2>3 DEF Task, Caught
  <2> HIDE DEF c
  <2>5. q \in Runs /\ Going(q)
    BY <2>3, <2>4, Calls DEF Moves, Going, UnderWayIn
  <2>6. Do(q)
    BY <2>1 DEF c
  <2> HIDE DEF q
  <2> QED
    BY <1>0, <2>1, <2>5, <2>6, Scripts DEF Rest
<1>3. ASSUME Catch PROVE PlayerInv'
  <2>1. PICK t \in At("caught") :
          /\ ringing = 0 /\ Rest
          /\ Do(IF t.broken THEN Call(Returned(t), Drop(t.song))
                   ELSE GiveUp(Returned(t)))
    BY <1>3 DEF Catch
  <2>2. t \in DOMAIN tasks /\ t.at = "caught"
    BY DEF At
  <2>3. t \in Task /\ Returned(t) \in Runs
    BY <2>2, Returns
  <2>4. CASE t.broken
    <3> DEFINE c == Drop(t.song)
               q == Call(Returned(t), c)
    <3>1. c \in Task /\ c.at = "drop"
      BY <2>2, <2>3 DEF Task, Drop
    <3>2. Do(q)
      BY <2>1, <2>4
    <3> HIDE DEF c
    <3>3. q \in Runs /\ Going(q)
      BY <2>3, <3>1, Calls DEF Moves, Going, UnderWayIn
    <3> HIDE DEF q
    <3> QED
      BY <1>0, <2>1, <3>2, <3>3, Scripts DEF Rest
  <2>5. CASE ~t.broken
    <3>1. Do(GiveUp(Returned(t)))
      BY <2>1, <2>5
    <3> QED
      BY <1>0, <2>1, <2>3, <3>1, GiveUpGoesOn, Scripts DEF Rest
  <2> QED
    BY <2>4, <2>5
<1>4. ASSUME Dropped PROVE PlayerInv'
  <2>1. PICK t \in At("drop") :
          /\ ringing = 0 /\ server' = RemoveFirst(server, t.song)
          /\ Do(Call(Returned(t), Ask(FALSE, TRUE)))
          /\ UNCHANGED <<repeat, ears, ringing>>
    BY <1>4 DEF Dropped
  <2> DEFINE c == Ask(FALSE, TRUE)
             q == Call(Returned(t), c)
  <2>2. t \in DOMAIN tasks
    BY DEF At
  <2>3. t \in Task /\ Returned(t) \in Runs
    BY <2>2, Returns
  <2>4. c \in Task /\ c.at = "ask" /\ c.gives
    BY DEF Task, Ask
  <2> HIDE DEF c
  <2>5. q \in Runs /\ Going(q)
    BY <2>3, <2>4, Calls DEF Moves, Going, UnderWayIn
  <2>6. Do(q)
    BY <2>1 DEF c
  <2> HIDE DEF q
  <2> QED
    BY <1>0, <2>1, <2>5, <2>6, Scripts
<1>5. ASSUME DropFails PROVE PlayerInv'
  <2>1. PICK t \in At("drop") : ringing = 0 /\ Rest /\ Do(GiveUp(Returned(t)))
    BY <1>5 DEF DropFails
  <2>2. t \in DOMAIN tasks
    BY DEF At
  <2>3. Returned(t) \in Runs
    BY <2>2, Returns
  <2> QED
    BY <1>0, <2>1, <2>3, GiveUpGoesOn, Scripts DEF Rest
<1>6. ASSUME MarkReturns PROVE PlayerInv'
  <2>1. PICK t \in At("mark") :
          /\ ringing = 0 /\ server' = RemoveFirst(server, t.song)
          /\ Do(Call(Returned(t), Ask(FALSE, FALSE)))
          /\ UNCHANGED <<repeat, ears, ringing>>
    BY <1>6 DEF MarkReturns
  <2> DEFINE c == Ask(FALSE, FALSE)
             r == Returned(t)
             q == Call(r, c)
  <2>2. t \in DOMAIN tasks /\ t.at = "mark"
    BY DEF At
  <2>3. r \in Runs /\ r.p = page /\ (Going(Run(page)) => Going(r))
    BY <2>2, Returns
  <2>4. c \in Task
    BY DEF Task, Ask
  <2>6. Do(q)
    BY <2>1
  <2> HIDE DEF c, r
  <2>5. Moves(r, q) /\ q.p = page
    BY <2>3, <2>4, Calls
  <2> HIDE DEF q
  <2>7. q \in Runs /\ (repeat = "off" /\ q.p.asked => Going(q))
    BY <1>0, <2>1, <2>3, <2>5, StillGoing DEF Moves
  <2> QED
    BY <1>0, <2>1, <2>6, <2>7, Scripts
<1>7. ASSUME MarkFails PROVE PlayerInv'
  <2>1. PICK t \in At("mark") : ringing = 0 /\ Do(Returned(t)) /\ Rest
    BY <1>7 DEF MarkFails
  <2>2. t \in DOMAIN tasks /\ t.at = "mark"
    BY DEF At
  <2> DEFINE r == Returned(t)
  <2>3. r \in Runs /\ r.p = page /\ (Going(Run(page)) => Going(r))
    BY <2>2, Returns
  <2>4. Do(r)
    BY <2>1
  <2> HIDE DEF r
  <2> QED
    BY <1>0, <2>1, <2>3, <2>4, Scripts DEF Rest
<1>8. ASSUME GetQueue PROVE PlayerInv'
  <2>1. PICK t \in At("ask") :
          /\ ringing = 0 /\ Rest
          /\ Do(Call(Returned(t), [at |-> "told", skip |-> t.skip, gives |-> t.gives,
                                   songs |-> server]))
    BY <1>8 DEF GetQueue
  <2> DEFINE c == [at |-> "told", skip |-> t.skip, gives |-> t.gives, songs |-> server]
             r == Returned(t)
             q == Call(r, c)
  <2>2. t \in DOMAIN tasks /\ t.at = "ask"
    BY DEF At
  <2>3. t \in Task /\ r \in Runs /\ r.p = page /\ (~t.gives /\ Going(Run(page)) => Going(r))
    BY <2>2, Returns
  <2>4. c \in Task /\ c.at = "told" /\ c.gives = t.gives
    BY <1>0, <2>2, <2>3 DEF Task
  <2>6. Do(q)
    BY <2>1
  <2> HIDE DEF c, r
  <2>5. Moves(r, q) /\ q.p = page /\ c \in DOMAIN q.tasks
    BY <2>3, <2>4, Calls
  <2> HIDE DEF q
  <2>7. q \in Runs /\ (repeat = "off" /\ q.p.asked => Going(q))
    <3>1. CASE t.gives
      BY <2>4, <2>5, <3>1 DEF Moves, Going, UnderWayIn
    <3>2. CASE ~t.gives
      BY <1>0, <2>1, <2>3, <2>5, <3>2, StillGoing DEF Moves
    <3> QED
      BY <3>1, <3>2
  <2> QED
    BY <1>0, <2>1, <2>6, <2>7, Scripts DEF Rest
<1>9. ASSUME FetchReturns PROVE PlayerInv'
  <2>1. PICK t \in At("told") :
          /\ ringing = 0 /\ Rest
          /\ Do(IF t.gives THEN GiveUp(Synced(Returned(t), t))
                   ELSE Synced(Returned(t), t))
    BY <1>9 DEF FetchReturns
  <2> DEFINE r == Returned(t)
             q == Synced(r, t)
  <2>2. t \in DOMAIN tasks /\ t.at = "told"
    BY DEF At
  <2>3. t \in Task /\ r \in Runs /\ r.p = page /\ (~t.gives /\ Going(Run(page)) => Going(r))
    BY <2>2, Returns
  <2>4. Do(IF t.gives THEN GiveUp(q) ELSE q)
    BY <2>1
  <2> HIDE DEF r
  <2>5. Moves(r, q) /\ q.p.asked = page.asked
    BY <2>2, <2>3, SyncedMoves
  <2>6. q \in Runs
    BY <2>5 DEF Moves
  <2> HIDE DEF q
  <2>7. CASE t.gives
    BY <1>0, <2>1, <2>4, <2>6, <2>7, GiveUpGoesOn, Scripts DEF Rest
  <2>8. CASE ~t.gives
    <3>1. repeat = "off" /\ q.p.asked => Going(q)
      BY <1>0, <2>1, <2>3, <2>5, <2>8, StillGoing
    <3> QED
      BY <1>0, <2>1, <2>4, <2>6, <2>8, <3>1, Scripts DEF Rest
  <2> QED
    BY <2>7, <2>8
<1>10. ASSUME FetchFails PROVE PlayerInv'
  <2>1. PICK t \in At("ask") :
          /\ ringing = 0 /\ Rest
          /\ Do(IF t.gives THEN GiveUp(Returned(t)) ELSE Returned(t))
    BY <1>10 DEF FetchFails
  <2> DEFINE r == Returned(t)
  <2>2. t \in DOMAIN tasks /\ t.at = "ask"
    BY DEF At
  <2>3. r \in Runs /\ r.p = page /\ (~t.gives /\ Going(Run(page)) => Going(r))
    BY <2>2, Returns
  <2>4. Do(IF t.gives THEN GiveUp(r) ELSE r)
    BY <2>1
  <2> HIDE DEF r
  <2>7. CASE t.gives
    BY <1>0, <2>1, <2>3, <2>4, <2>7, GiveUpGoesOn, Scripts DEF Rest
  <2>8. CASE ~t.gives
    BY <1>0, <2>1, <2>3, <2>4, <2>8, Scripts DEF Rest
  <2> QED
    BY <2>7, <2>8
<1> QED
  BY <1>1, <1>2, <1>3, <1>4, <1>5, <1>6, <1>7, <1>8, <1>9, <1>10

\* Every step of the page and of the server preserves the invariant.
LEMMA PlayerStep ==
  ASSUME PlayerInv, [PlayerNext]_playerVars
  PROVE  PlayerInv'
<1>1. ASSUME NEW s \in Songs, RowAppended(s) PROVE PlayerInv'
  <2>1. server' \in Seq(Songs)
    BY <1>1 DEF RowAppended, PlayerInv, Shape
  <2> QED
    BY <1>1, <2>1 DEF RowAppended, PlayerInv, Shape, Rung, Follows, Run, Going
<1>2. CASE UNCHANGED playerVars
  BY <1>2 DEF playerVars, PlayerInv, Shape, Rung, Follows, Run, Going
<1>3. ASSUME \/ \E s \in Songs : Click(s)
             \/ \E list \in Lists : PlayAll(list)
             \/ ClickNext \/ ClickPrevious \/ TogglePlay \/ ToggleRepeat \/ Shuffle
             \/ \E skip \in BOOLEAN : Refresh(skip)
      PROVE  PlayerInv'
  BY <1>3, UserSteps
<1>4. ASSUME Start \/ StartFails \/ Ended \/ Ring
      PROVE  PlayerInv'
  BY <1>4, ElementSteps
<1>5. ASSUME \/ BlobArrives \/ BlobFails \/ Catch \/ Dropped \/ DropFails
             \/ MarkReturns \/ MarkFails \/ GetQueue \/ FetchReturns \/ FetchFails
      PROVE  PlayerInv'
  BY <1>5, AnswerSteps
<1>6. ASSUME OpenView PROVE PlayerInv'
  BY <1>6, ViewOpens
<1> QED
  BY <1>1, <1>2, <1>3, <1>4, <1>5, <1>6 DEF PlayerNext

\* The inductive invariant of the page.
THEOREM PlayerInvariance == PlayerSpec => []PlayerInv
<1>1. PlayerInit => PlayerInv
  BY InitPlayer
<1>2. PlayerInv /\ [PlayerNext]_playerVars => PlayerInv'
  BY PlayerStep
<1> QED
  BY <1>1, <1>2, PTL DEF PlayerSpec

\* Once a song has ended or could not be played, the music goes on or a play()
\* is under way, however answers, events and clicks interleave, until the user
\* pauses, opens a view while it sounds and no play() is under way, or the
\* queue is empty (player.js: handleSongEnd, next, catch of play; App.vue).
THEOREM MusicGoesOn == PlayerSpec => []SongsFollow
<1>1. PlayerInv => SongsFollow
  <2> SUFFICES ASSUME PlayerInv, page.asked, ringing = 0, repeat = "off"
               PROVE  Sounds \/ UnderWay
    BY DEF SongsFollow
  <2>1. Going(Run(page))
    BY DEF PlayerInv, Follows
  <2>2. CASE page.audio \in {"loading", "playing"}
    BY <2>2 DEF Sounds
  <2>3. CASE UnderWayIn(tasks)
    <3>1. PICK t \in DOMAIN tasks : \/ t.at \in {"blob", "caught", "drop"}
                                    \/ t.at \in {"ask", "told"} /\ t.gives
      BY <2>3 DEF UnderWayIn
    <3> QED
      BY <3>1 DEF UnderWay, At
  <2> QED
    BY <2>1, <2>2, <2>3, Here DEF Going
<1> QED
  BY <1>1, PlayerInvariance, PTL

\* The stores and the tasks have their shapes (player.js, queue.js).
THEOREM PageTyped == PlayerSpec => []PlayerTypeOK
<1>1. PlayerInv => PlayerTypeOK
  BY AreTaskBags DEF PlayerInv, Shape, Pages, PlayerTypeOK
<1> QED
  BY <1>1, PlayerInvariance, PTL
=============================================================================
