---------------------------- MODULE QueueEntries ----------------------------
(***************************************************************************)
(* The per-user play queue: the rows of queue_entries and queue_user_songs *)
(* and the mutex of internal/queue/service.go that serialises the          *)
(* goroutines working on one user's queue.                                 *)
(*                                                                         *)
(* A process of Procs is a goroutine running one operation at a time: an   *)
(* HTTP handler, the queue/loaded-song worker or the                       *)
(* queue/request-download worker.  Each SQL statement is one step, because *)
(* the pool has a single connection; everything between two statements may *)
(* be interleaved with the other goroutines, with the cascades of          *)
(* DELETE FROM auth_users and DELETE FROM queue_songs, and with a crash.   *)
(***************************************************************************)
EXTENDS Catalog, Integers, FiniteSets

CONSTANTS
  Users,    \* ids of accounts
  Procs,    \* goroutines that may work on queues at the same time
  Mutexes,  \* addresses a sync.Mutex of userLocks can have
  Ops,      \* the operations a run enables, of those that insert, move or remove entries
  PosBound, \* bound: no append starts once a position has reached it
  MaxPlays  \* bound: no finish starts at this listen_count

AllOps == {"append", "loaded", "probe", "remove", "skip", "finish"}

ASSUME NoneAssumption == None \notin Users \cup Songs \cup Procs \cup Mutexes
ASSUME OpsAssumption == Ops \subseteq AllOps
ASSUME BoundAssumption == PosBound \in Nat /\ MaxPlays \in Nat

VARIABLES
  user,       \* [Users -> row state]: rows of auth_users
  song,       \* [Songs -> row state]: rows of queue_songs
  requester,  \* [Songs -> Users]: queue_songs.requesting_user_id, None for NULL
  entries,    \* the rows of queue_entries
  stats,      \* [Users -> [Songs -> ...]]: the rows of queue_user_songs
  userLocks,  \* [Users -> Mutexes]: Service.userLocks, None when absent
  holder,     \* [Mutexes -> Procs]: the goroutine that has the mutex locked
  pc, job,    \* per goroutine: where it is, and the operation it runs
  mutex,      \* [Procs -> Mutexes]: the pointer lockFor returned to it
  seen        \* [Procs -> Nat]: the MAX(position) it read, -1 for NULL

dbVars   == <<user, song, requester, entries, stats>>
lockVars == <<userLocks, holder, mutex>>
vars     == <<user, song, requester, entries, stats,
              userLocks, holder, pc, job, mutex, seen>>

\* An id is a fresh UUID: it gets a row at most once and never comes back.
RowState == {"new", "row", "gone"}
Job      == [op : AllOps, user : Users, song : Songs]
Entry    == [user : Users, song : Songs, pos : Nat,
             status : {"probing", "ready"}]
NoStats  == [skipped |-> FALSE, listens |-> 0]
Stats    == [skipped : BOOLEAN, listens : Nat]

\* Where a goroutine can be, and where it can be with the mutex locked.
Locked   == {"locked", "max", "insert", "unlock"}
Location == {"idle", "want", "lock"} \cup Locked

TypeOK ==
  /\ user \in [Users -> RowState]
  /\ song \in [Songs -> RowState]
  /\ requester \in [Songs -> Users \cup {None}]
  /\ entries \subseteq Entry
  /\ stats \in [Users -> [Songs -> Stats]]
  /\ userLocks \in [Users -> Mutexes \cup {None}]
  /\ holder \in [Mutexes -> Procs \cup {None}]
  /\ pc \in [Procs -> Location]
  /\ job \in [Procs -> Job \cup {None}]
  /\ mutex \in [Procs -> Mutexes \cup {None}]
  /\ seen \in [Procs -> Nat \cup {-1}]

Init ==
  /\ user = [u \in Users |-> "new"]
  /\ song = [s \in Songs |-> "new"]
  /\ requester = [s \in Songs |-> None]
  /\ entries = {}
  /\ stats = [u \in Users |-> [s \in Songs |-> NoStats]]
  /\ userLocks = [u \in Users |-> None]
  /\ holder = [m \in Mutexes |-> None]
  /\ pc = [p \in Procs |-> "idle"]
  /\ job = [p \in Procs |-> None]
  /\ mutex = [p \in Procs |-> None]
  /\ seen = [p \in Procs |-> -1]

-----------------------------------------------------------------------------
(* Rows.                                                                   *)

Queue(u)       == {e \in entries : e.user = u}
EntryOf(u, s)  == {e \in entries : e.user = u /\ e.song = s}
Positions(u)   == {e.pos : e \in Queue(u)}

\* SELECT MAX(position): -1 stands for the NULL of an empty queue, so that
\* the position after it is 0, as in the code.
IsMaxPosition(u, m) ==
  /\ m \in Positions(u) \cup {-1}
  /\ \A n \in Positions(u) : n <= m

\* The foreign keys of queue_entries and queue_user_songs.
ParentsExist(u, s) == user[u] = "row" /\ song[s] = "row"

\* ON DELETE CASCADE: the rows of the users U and the songs S disappear.
Cascade(U, S) ==
  /\ entries' = {e \in entries : e.user \notin U /\ e.song \notin S}
  /\ stats' = [u \in Users |-> [s \in Songs |->
                 IF u \in U \/ s \in S THEN NoStats ELSE stats[u][s]]]

SetUser(u, state) == user' = [user EXCEPT ![u] = state]
SetSongs(S, state) ==
  song' = [s \in Songs |-> IF s \in S THEN state ELSE song[s]]

-----------------------------------------------------------------------------
(* Statements other parts of the program run without the mutex.            *)

Register(u) ==
  /\ user[u] = "new"
  /\ SetUser(u, "row")
  /\ UNCHANGED <<song, requester, entries, stats, lockVars, pc, job, seen>>

\* Deleting an account takes the songs it requested with it, and so the
\* entries of these songs in other users' queues.
DeleteUser(u) ==
  LET S == {s \in Songs : song[s] = "row" /\ requester[s] = u} IN
  /\ user[u] = "row"
  /\ SetUser(u, "gone")
  /\ SetSongs(S, "gone")
  /\ Cascade({u}, S)
  /\ UNCHANGED <<requester, lockVars, pc, job, seen>>

\* The requester is NULL only in rows older than the column.
InsertSongStub(s, r) ==
  /\ song[s] = "new"
  /\ r # None => user[r] = "row"
  /\ SetSongs({s}, "row")
  /\ requester' = [requester EXCEPT ![s] = r]
  /\ UNCHANGED <<user, entries, stats, lockVars, pc, job, seen>>

\* searchAcquire, reusing a catalog row for the user who searches now.
UpdateSongRequester(s, u) ==
  /\ ParentsExist(u, s)
  /\ requester' = [requester EXCEPT ![s] = u]
  /\ UNCHANGED <<user, song, entries, stats, lockVars, pc, job, seen>>

\* onLoadedSong for error and not_found: no mutex is taken.
DeleteSong(s) ==
  /\ song[s] = "row"
  /\ SetSongs({s}, "gone")
  /\ Cascade({}, {s})
  /\ UNCHANGED <<user, requester, lockVars, pc, job, seen>>

-----------------------------------------------------------------------------
(* lockFor and the release of the mutex.                                   *)

Goto(p, l) == pc' = [pc EXCEPT ![p] = l]

\* An HTTP handler works for the caller, whose account existed when the
\* token was checked; a worker works for the requester it has just read,
\* before it takes the lock.
Begin(p, op, u, s) ==
  /\ pc[p] = "idle"
  /\ op \in Ops
  /\ user[u] = "row"
  /\ song[s] # "new"
  /\ op \in {"loaded", "probe"} => song[s] = "row" /\ requester[s] = u
  /\ op \in {"append", "loaded", "probe"} => \A n \in Positions(u) : n < PosBound
  /\ op = "finish" => stats[u][s].listens < MaxPlays
  /\ Goto(p, "want")
  /\ job' = [job EXCEPT ![p] = [op |-> op, user |-> u, song |-> s]]
  /\ UNCHANGED <<dbVars, lockVars, seen>>

\* A new sync.Mutex has an address nothing points to any more.
Fresh(m) == /\ \A u \in Users : userLocks[u] # m
            /\ \A q \in Procs : mutex[q] # m

\* Mutant: lockFor forgets to store the mutex it creates.
ForgetfulGetMutex(p, m) ==
  LET u == job[p].user IN
  /\ pc[p] = "want"
  /\ IF userLocks[u] # None THEN m = userLocks[u] ELSE Fresh(m)
  /\ mutex' = [mutex EXCEPT ![p] = m]
  /\ Goto(p, "lock")
  /\ UNCHANGED <<dbVars, userLocks, holder, job, seen>>

\* The section of lockFor under muUsers: look the mutex up, or create it.
GetMutex(p, m) ==
  LET u == job[p].user IN
  /\ pc[p] = "want"
  /\ IF userLocks[u] # None THEN m = userLocks[u] ELSE Fresh(m)
  /\ userLocks' = [userLocks EXCEPT ![u] = m]
  /\ mutex' = [mutex EXCEPT ![p] = m]
  /\ Goto(p, "lock")
  /\ UNCHANGED <<dbVars, holder, job, seen>>

\* Mutant: TryLock, its result ignored.
TryAcquire(p) ==
  /\ pc[p] = "lock"
  /\ holder' = [holder EXCEPT ![mutex[p]] = IF @ = None THEN p ELSE @]
  /\ Goto(p, "locked")
  /\ UNCHANGED <<dbVars, userLocks, job, mutex, seen>>

Acquire(p) ==
  /\ pc[p] = "lock"
  /\ holder[mutex[p]] = None
  /\ holder' = [holder EXCEPT ![mutex[p]] = p]
  /\ Goto(p, "locked")
  /\ UNCHANGED <<dbVars, userLocks, job, mutex, seen>>

\* Mutant: a return path without the unlock.
LeakyUnlock(p) ==
  /\ pc[p] = "unlock"
  /\ mutex' = [mutex EXCEPT ![p] = None]
  /\ job' = [job EXCEPT ![p] = None]
  /\ seen' = [seen EXCEPT ![p] = -1]
  /\ Goto(p, "idle")
  /\ UNCHANGED <<dbVars, userLocks, holder>>

\* The deferred unlock; the goroutine forgets its pointer.
Unlock(p) ==
  /\ pc[p] = "unlock"
  /\ holder' = [holder EXCEPT ![mutex[p]] = None]
  /\ mutex' = [mutex EXCEPT ![p] = None]
  /\ job' = [job EXCEPT ![p] = None]
  /\ seen' = [seen EXCEPT ![p] = -1]
  /\ Goto(p, "idle")
  /\ UNCHANGED <<dbVars, userLocks>>

\* Mutant: UserDeleted published before the account's row is gone.
EarlyOnUserDeleted(u) ==
  /\ userLocks[u] # None
  /\ userLocks' = [userLocks EXCEPT ![u] = None]
  /\ UNCHANGED <<dbVars, holder, mutex, pc, job, seen>>

\* onUserDeleted drops the map entry, whoever waits for or has the mutex.
\* The event is published after the account's row is gone, maybe repeatedly.
OnUserDeleted(u) ==
  /\ user[u] = "gone"
  /\ userLocks[u] # None
  /\ userLocks' = [userLocks EXCEPT ![u] = None]
  /\ UNCHANGED <<dbVars, holder, mutex, pc, job, seen>>

-----------------------------------------------------------------------------
(* The statements run with the mutex locked.                               *)

\* appendForRequester first tries to promote a probing entry.  The relaxed
\* flag it sets is a label no other statement reads; it is left out.
Promote(p) ==
  LET j == job[p]
      E == EntryOf(j.user, j.song) IN
  /\ pc[p] = "locked"
  /\ j.op = "loaded"
  /\ entries' = (entries \ E) \cup
        {[e EXCEPT !.status = "ready"] : e \in E}
  /\ Goto(p, IF E # {} THEN "unlock" ELSE "max")
  /\ UNCHANGED <<user, song, requester, stats, lockVars, job, seen>>

\* First statement of appendEntry and InsertProbingEntry.
ReadMaxPosition(p, m) ==
  /\ \/ pc[p] = "locked" /\ job[p].op \in {"append", "probe"}
     \/ pc[p] = "max"
  /\ IsMaxPosition(job[p].user, m)
  /\ seen' = [seen EXCEPT ![p] = m]
  /\ Goto(p, "insert")
  /\ UNCHANGED <<dbVars, lockVars, job>>

NewEntry(p) ==
  [user |-> job[p].user, song |-> job[p].song, pos |-> seen[p] + 1,
   status |-> IF job[p].op = "probe" THEN "probing" ELSE "ready"]

\* Mutant: INSERT OR REPLACE.
InsertOrReplace(p) ==
  LET j == job[p] IN
  /\ pc[p] = "insert"
  /\ entries' = IF ParentsExist(j.user, j.song)
                THEN (entries \ EntryOf(j.user, j.song)) \cup {NewEntry(p)}
                ELSE entries
  /\ Goto(p, "unlock")
  /\ UNCHANGED <<user, song, requester, stats, lockVars, job, seen>>

\* Second statement: UNIQUE (user_id, song_id) and the foreign keys decide.
InsertEntry(p) ==
  LET j == job[p] IN
  /\ pc[p] = "insert"
  /\ entries' = IF ParentsExist(j.user, j.song) /\ EntryOf(j.user, j.song) = {}
                THEN entries \cup {NewEntry(p)} ELSE entries
  /\ Goto(p, "unlock")
  /\ UNCHANGED <<user, song, requester, stats, lockVars, job, seen>>

RemoveEntry(p) ==
  LET j == job[p] IN
  /\ pc[p] = "locked"
  /\ j.op = "remove"
  /\ entries' = entries \ EntryOf(j.user, j.song)
  /\ Goto(p, "unlock")
  /\ UNCHANGED <<user, song, requester, stats, lockVars, job, seen>>

\* MarkSkipped and MarkFinished: one transaction upserts the statistics and
\* deletes the entry.  A missing entry is tolerated; a missing parent row
\* fails the upsert and rolls back.
Marked(j, st) ==
  [skipped |-> IF j.op = "skip" THEN TRUE ELSE st.skipped,
   listens |-> IF j.op = "finish" THEN st.listens + 1 ELSE st.listens]

MarkAndRemove(p) ==
  LET j == job[p] IN
  /\ pc[p] = "locked"
  /\ j.op \in {"skip", "finish"}
  /\ IF ParentsExist(j.user, j.song)
     THEN /\ stats' = [stats EXCEPT ![j.user][j.song] = Marked(j, @)]
          /\ entries' = entries \ EntryOf(j.user, j.song)
     ELSE UNCHANGED <<stats, entries>>
  /\ Goto(p, "unlock")
  /\ UNCHANGED <<user, song, requester, lockVars, job, seen>>

\* The process dies and starts again: the rows stay, the memory is empty.
Crash ==
  /\ userLocks' = [u \in Users |-> None]
  /\ holder' = [m \in Mutexes |-> None]
  /\ pc' = [p \in Procs |-> "idle"]
  /\ job' = [p \in Procs |-> None]
  /\ mutex' = [p \in Procs |-> None]
  /\ seen' = [p \in Procs |-> -1]
  /\ UNCHANGED dbVars

-----------------------------------------------------------------------------

Work(p) ==
  \/ \E m \in Mutexes : GetMutex(p, m)
  \/ Promote(p)
  \/ \E m \in Positions(job[p].user) \cup {-1} : ReadMaxPosition(p, m)
  \/ InsertEntry(p)
  \/ RemoveEntry(p)
  \/ MarkAndRemove(p)
  \/ Unlock(p)

Busy(p) == pc[p] # "idle"

Environment ==
  \/ \E u \in Users : Register(u) \/ DeleteUser(u) \/ OnUserDeleted(u)
  \/ \E s \in Songs : DeleteSong(s)
  \/ \E s \in Songs, r \in Users \cup {None} : InsertSongStub(s, r)
  \/ \E s \in Songs, u \in Users : UpdateSongRequester(s, u)
  \/ Crash

Next ==
  \/ Environment
  \/ \E p \in Procs, op \in Ops, u \in Users, s \in Songs : Begin(p, op, u, s)
  \/ \E p \in Procs : Acquire(p) \/ (Busy(p) /\ Work(p))

Spec == Init /\ [][Next]_vars

\* A goroutine with work to do is scheduled; sync.Mutex hands a contended
\* lock to a waiter of more than 1 ms, so no waiter starves.
FairSpec ==
  Spec /\ \A p \in Procs : WF_vars(Busy(p) /\ Work(p)) /\ SF_vars(Acquire(p))

-----------------------------------------------------------------------------

\* Two entries of a user never share a position, so ListEntries' ORDER BY
\* position is a total order: what the mutex of queue/service.go is for.
UniquePositions ==
  \A e, f \in entries : e.user = f.user /\ e.pos = f.pos => e = f

\* While an account exists, at most one goroutine is between lockFor and
\* the unlock for it, whatever onUserDeleted drops from the map.
MutualExclusion ==
  \A p, q \in Procs :
    (/\ pc[p] \in Locked /\ pc[q] \in Locked
     /\ job[p].user = job[q].user /\ user[job[p].user] = "row") => p = q

(* The inductive invariant behind UniquePositions.                         *)

\* A working goroutine has an operation, for an account that was registered.
JobInv ==
  \A p \in Procs : Busy(p) => job[p] \in Job /\ user[job[p].user] # "new"

\* All goroutines that went through lockFor for an existing account point
\* to one mutex, the one in the map: only a deleted account loses its entry.
PointerInv ==
  \A p \in Procs : pc[p] \in Locked \cup {"lock"} =>
    /\ mutex[p] \in Mutexes
    /\ user[job[p].user] = "row" => mutex[p] = userLocks[job[p].user]

\* A goroutine in its critical section has its mutex locked.
HolderInv ==
  \A p \in Procs : pc[p] \in Locked => holder[mutex[p]] = p

\* The maximum a goroutine has read is still an upper bound when it inserts.
SeenInv ==
  \A p \in Procs : pc[p] = "insert" /\ user[job[p].user] = "row" =>
    \A n \in Positions(job[p].user) : n <= seen[p]

\* One entry of a user for a song, as UNIQUE (user_id, song_id) says.
UniqueSongs ==
  \A e, f \in entries : e.user = f.user /\ e.song = f.song => e = f

IInv == TypeOK /\ JobInv /\ PointerInv /\ HolderInv /\ SeenInv /\ UniquePositions /\ UniqueSongs

\* The abstract queue of a user: its songs in the order of ListEntries.
Listed(u) ==
  {x \in Songs \X Songs :
     \E e, f \in Queue(u) : e.song = x[1] /\ f.song = x[2] /\ e.pos <= f.pos}

Abstract == INSTANCE PlayQueue WITH queue <- [u \in Users |-> Listed(u)]

\* Every queue is the list PlayQueue describes: an insertion lands after
\* all the entries the user had, and nothing else reorders the queue.
ImplementsPlayQueue == Abstract!Spec

\* A goroutine that asks for a user's mutex finishes its operation (or the
\* process dies), however many others queue for the same mutex.
OperationFinishes ==
  \A p \in Procs : pc[p] = "want" ~> pc[p] = "idle"
=============================================================================
