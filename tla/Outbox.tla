------------------------------- MODULE Outbox -------------------------------
(***************************************************************************)
(* The transactional outbox of internal/bus: the rows of table outbox, the *)
(* dispatcher goroutine, the buffered channel of each subscriber and the   *)
(* worker that empties it, with the order in which cmd/muzika starts them, *)
(* graceful shutdown and crashes.                                          *)
(*                                                                         *)
(* An event is its row id: the table's AUTOINCREMENT never reuses one, so  *)
(* a table is a set of ids, which a pass takes in the order of the ids.    *)
(***************************************************************************)
EXTENDS Integers, Sequences, FiniteSets

CONSTANTS
  Types,       \* event types a publisher writes to the outbox
  Poison,      \* an event type or a payload dispatchByType cannot decode
  Startup,     \* subscribers in the order StartWorkers registers them
  Listens,     \* [subscriber -> Types]: one channel has one event type
  Buffer,      \* capacity of a subscriber's channel (BusBufferSize)
  Batch,       \* LIMIT of the dispatcher's SELECT
  None,        \* a worker that handles nothing
  MaxRows,     \* bound: rows ever written
  MaxErrors,   \* bound: handler errors
  MaxRestarts  \* bound: crashes and shutdowns

Subscribers == {Startup[k] : k \in DOMAIN Startup}
Ids         == 1..MaxRows

ASSUME ConstantsAssumption ==
  /\ Poison \notin Types
  /\ Startup \in Seq(Subscribers)
  /\ \A j, k \in DOMAIN Startup : Startup[j] = Startup[k] => j = k
  /\ Listens \in [Subscribers -> Types]
  /\ Buffer \in Nat \ {0} /\ Batch \in Nat \ {0}
  /\ {MaxRows, MaxErrors, MaxRestarts} \subseteq Nat
  /\ None \notin Ids

VARIABLES
  outbox,     \* the ids in table outbox
  type,       \* Seq(type): the event_type of every row ever written
  phase,      \* "starting", "up" or "stopping" (ctx is cancelled)
  started,    \* how many subscribers of Startup have subscribed
  chan,       \* [Subscribers -> Seq(Ids)]: their channels
  busy,       \* [Subscribers -> Ids]: the event their worker handles
  wake,       \* the wake channel has its one token
  owed,       \* publishers between COMMIT and Wake
  dpc,        \* the dispatcher: wait, select, row, send, delete, return, stopped
  batch,      \* rows of the last SELECT still to process
  targets,    \* positions in Startup of those to whom the current row still goes
  errors, restarts,
  born,       \* history: the last id written before this process started
  sent,       \* history: [Subscribers -> SUBSET Ids] sends of this process
  taken,      \* history: [Subscribers -> Seq(Ids)] receives of this process
  done        \* history: [Subscribers -> SUBSET Ids] handled without error

tableVars == <<outbox, type>>
ends      == <<restarts, born>>
dispatch  == <<dpc, batch, targets>>
workVars  == <<busy, taken, done, errors>>
vars == <<outbox, type, phase, started, chan, busy, wake, owed, dpc, batch,
          targets, errors, restarts, born, sent, taken, done>>

TypeOK ==
  /\ outbox \subseteq 1..Len(type)
  /\ type \in Seq(Types \cup {Poison}) /\ Len(type) <= MaxRows
  /\ phase \in {"starting", "up", "stopping"}
  /\ started \in 0..Len(Startup)
  /\ chan \in [Subscribers -> Seq(Ids)]
  /\ \A b \in Subscribers : Len(chan[b]) <= Buffer
  /\ busy \in [Subscribers -> Ids \cup {None}]
  /\ wake \in BOOLEAN /\ owed \in 0..MaxRows
  /\ dpc \in {"wait", "select", "row", "send", "delete", "return", "stopped"}
  /\ batch \subseteq outbox
  /\ targets \subseteq 1..started
  /\ errors \in 0..MaxErrors /\ restarts \in 0..MaxRestarts
  /\ born \in 0..Len(type)
  /\ sent \in [Subscribers -> SUBSET (1..Len(type))]
  /\ taken \in [Subscribers -> Seq(Ids)]
  /\ done \in [Subscribers -> SUBSET Ids]

Empty   == [b \in Subscribers |-> <<>>]
Nothing == [b \in Subscribers |-> {}]
AllIdle == [b \in Subscribers |-> None]

Init ==
  /\ outbox = {} /\ type = <<>>
  /\ phase = "starting" /\ started = 0
  /\ chan = Empty /\ busy = AllIdle
  /\ wake = FALSE /\ owed = 0
  /\ dpc = "wait" /\ batch = {} /\ targets = {}
  /\ errors = 0 /\ restarts = 0 /\ born = 0
  /\ sent = Nothing /\ taken = Empty /\ done = Nothing

-----------------------------------------------------------------------------
(* Start-up and publishers.                                                *)

\* The dispatcher already runs while the services subscribe one by one.
Subscribe ==
  /\ phase = "starting"
  /\ started < Len(Startup)
  /\ started' = started + 1
  /\ UNCHANGED <<tableVars, phase, chan, workVars, wake, owed, dispatch,
                 ends, sent>>

\* The HTTP server comes last; only then do requests write events, the
\* last of them while main waits for them in srv.Shutdown.
Serve ==
  /\ phase = "starting"
  /\ started = Len(Startup)
  /\ phase' = "up"
  /\ UNCHANGED <<tableVars, started, chan, workVars, wake, owed, dispatch,
                 ends, sent>>

\* A transaction commits a mutation and its event (InsertOutboxTx).
Commit(t) ==
  /\ phase # "starting" /\ started = Len(Startup)
  /\ Len(type) < MaxRows
  /\ type' = Append(type, t)
  /\ outbox' = outbox \cup {Len(type) + 1}
  /\ owed' = owed + 1
  /\ UNCHANGED <<phase, started, chan, workVars, wake, dispatch, ends, sent>>

\* Mutant: the wake channel has no buffer, so only a waiting dispatcher
\* receives the token.
UnbufferedWake ==
  /\ owed > 0
  /\ owed' = owed - 1
  /\ wake' = (wake \/ dpc = "wait")
  /\ UNCHANGED <<tableVars, phase, started, chan, workVars, dispatch, ends, sent>>

Wake ==
  /\ owed > 0
  /\ owed' = owed - 1
  /\ wake' = TRUE
  /\ UNCHANGED <<tableVars, phase, started, chan, workVars, dispatch, ends, sent>>

-----------------------------------------------------------------------------
(* The dispatcher.                                                         *)

TakeWake ==
  /\ dpc = "wait" /\ wake
  /\ wake' = FALSE
  /\ dpc' = "select"
  /\ UNCHANGED <<tableVars, phase, started, chan, workVars, owed, batch, targets,
                 ends, sent>>

\* The 500 ms ticker.
Tick ==
  /\ dpc = "wait"
  /\ dpc' = "select"
  /\ UNCHANGED <<tableVars, phase, started, chan, workVars, wake, owed, batch,
                 targets, ends, sent>>

\* Mutant: ORDER BY id DESC.
SelectNewest ==
  /\ dpc = "select" /\ phase # "stopping"
  /\ batch' = {i \in outbox : Cardinality({j \in outbox : j > i}) < Batch}
  /\ dpc' = IF outbox = {} THEN "return" ELSE "row"
  /\ UNCHANGED <<tableVars, phase, started, chan, workVars, wake, owed, targets,
                 ends, sent>>

\* SELECT ... ORDER BY id LIMIT; an empty result ends the pass.
Select ==
  /\ dpc = "select" /\ phase # "stopping"
  /\ batch' = {i \in outbox : Cardinality({j \in outbox : j < i}) < Batch}
  /\ dpc' = IF outbox = {} THEN "return" ELSE "row"
  /\ UNCHANGED <<tableVars, phase, started, chan, workVars, wake, owed, targets,
                 ends, sent>>

\* Publish takes a copy of the type's subscribers as they are now.
SubscribersOf(t) == {k \in 1..started : Listens[Startup[k]] = t}

\* The rows of a batch, and the subscribers of a type, are taken in order.
IsFirst(x, S) == x \in S /\ \A y \in S : x <= y

\* Mutant: a row that does not decode ends the pass and stays.
KeepPoisoned ==
  /\ dpc = "row"
  /\ \/ batch = {} /\ dpc' = "select" /\ UNCHANGED targets
     \/ \E i \in batch :
          /\ IsFirst(i, batch)
          /\ targets' = IF type[i] = Poison THEN {} ELSE SubscribersOf(type[i])
          /\ dpc' = IF type[i] = Poison THEN "return"
                    ELSE IF targets' = {} THEN "delete" ELSE "send"
  /\ UNCHANGED <<tableVars, phase, started, chan, workVars, wake, owed, batch,
                 ends, sent>>

\* A row that does not decode has nothing to send and is dropped.
StartRow ==
  /\ dpc = "row"
  /\ \/ batch = {} /\ dpc' = "select" /\ UNCHANGED targets
     \/ \E i \in batch :
          /\ IsFirst(i, batch)
          /\ targets' = IF type[i] = Poison THEN {} ELSE SubscribersOf(type[i])
          /\ dpc' = IF targets' = {} THEN "delete" ELSE "send"
  /\ UNCHANGED <<tableVars, phase, started, chan, workVars, wake, owed, batch,
                 ends, sent>>

\* Mutant: a send that does not wait for room.
SendAnyway ==
  /\ dpc = "send"
  /\ \E i \in batch, k \in targets :
       LET b == Startup[k] IN
       /\ IsFirst(i, batch) /\ IsFirst(k, targets)
       /\ chan' = [chan EXCEPT ![b] = Append(@, i)]
       /\ sent' = [sent EXCEPT ![b] = @ \cup {i}]
       /\ targets' = targets \ {k}
  /\ dpc' = IF targets' = {} THEN "delete" ELSE "send"
  /\ UNCHANGED <<tableVars, phase, started, workVars, wake, owed, batch, ends>>

\* sendOne without a timeout: it waits for room in the channel.
Send ==
  /\ dpc = "send"
  /\ \E i \in batch, k \in targets :
       LET b == Startup[k] IN
       /\ IsFirst(i, batch) /\ IsFirst(k, targets)
       /\ Len(chan[b]) < Buffer
       /\ chan' = [chan EXCEPT ![b] = Append(@, i)]
       /\ sent' = [sent EXCEPT ![b] = @ \cup {i}]
       /\ targets' = targets \ {k}
  /\ dpc' = IF targets' = {} THEN "delete" ELSE "send"
  /\ UNCHANGED <<tableVars, phase, started, workVars, wake, owed, batch, ends>>

\* Mutant: the DELETE runs under a context that shutdown does not cancel.
DeleteUncancelled ==
  /\ dpc = "delete"
  /\ \E i \in batch :
       /\ IsFirst(i, batch)
       /\ outbox' = outbox \ {i} /\ batch' = batch \ {i}
  /\ dpc' = "row"
  /\ UNCHANGED <<type, phase, started, chan, workVars, wake, owed, targets,
                 ends, sent>>

Delete ==
  /\ dpc = "delete" /\ phase # "stopping"
  /\ \E i \in batch :
       /\ IsFirst(i, batch)
       /\ outbox' = outbox \ {i} /\ batch' = batch \ {i}
  /\ dpc' = "row"
  /\ UNCHANGED <<type, phase, started, chan, workVars, wake, owed, targets,
                 ends, sent>>

\* Publish gives up when ctx is done.  drainOnce takes that for a poisoned
\* row and goes on to delete it.
AbortSend ==
  /\ dpc = "send" /\ phase = "stopping"
  /\ dpc' = "delete"
  /\ targets' = {}
  /\ UNCHANGED <<tableVars, phase, started, chan, workVars, wake, owed, batch,
                 ends, sent>>

\* drainOnce returns to the run loop: what was committed after its last
\* SELECT relies on the token that Wake left in the channel.
EndPass ==
  /\ dpc = "return"
  /\ dpc' = "wait"
  /\ UNCHANGED <<tableVars, phase, started, chan, workVars, wake, owed, batch,
                 targets, ends, sent>>

\* Under a cancelled ctx every statement fails: the SELECT, and the DELETE
\* of a row that was sent or given up.  The run loop then sees ctx.Done.
StopDispatcher ==
  /\ phase = "stopping"
  /\ dpc \in {"wait", "select", "delete"}
  /\ dpc' = "stopped"
  /\ UNCHANGED <<tableVars, phase, started, chan, workVars, wake, owed, batch,
                 targets, ends, sent>>

Dispatcher == TakeWake \/ Select \/ StartRow \/ Send \/ Delete
              \/ AbortSend \/ EndPass \/ StopDispatcher

-----------------------------------------------------------------------------
(* Workers: RunPool with one goroutine per channel.                        *)

Receive(b) ==
  /\ busy[b] = None /\ chan[b] # <<>>
  /\ busy' = [busy EXCEPT ![b] = Head(chan[b])]
  /\ chan' = [chan EXCEPT ![b] = Tail(@)]
  /\ taken' = [taken EXCEPT ![b] = Append(@, Head(chan[b]))]
  /\ UNCHANGED <<tableVars, phase, started, wake, owed, dispatch, ends,
                 errors, sent, done>>

Handle(b) ==
  /\ busy[b] # None
  /\ done' = [done EXCEPT ![b] = @ \cup {busy[b]}]
  /\ busy' = [busy EXCEPT ![b] = None]
  /\ UNCHANGED <<tableVars, phase, started, chan, wake, owed, dispatch, ends,
                 errors, sent, taken>>

\* A handler's error is logged and the event forgotten; with ctx cancelled
\* every statement a handler still has to run fails.
HandleError(b) ==
  /\ busy[b] # None
  /\ IF phase = "stopping" THEN UNCHANGED errors
     ELSE errors < MaxErrors /\ errors' = errors + 1
  /\ busy' = [busy EXCEPT ![b] = None]
  /\ UNCHANGED <<tableVars, phase, started, chan, wake, owed, dispatch, ends,
                 sent, taken, done>>

-----------------------------------------------------------------------------
(* The end of a process.                                                   *)

\* SIGTERM cancels ctx; main then waits for the dispatcher and the workers.
Cancel ==
  /\ phase # "stopping" /\ restarts < MaxRestarts
  /\ phase' = "stopping"
  /\ UNCHANGED <<tableVars, started, chan, workVars, wake, owed, dispatch,
                 ends, sent>>

\* A new process keeps the table and nothing else.
Restart ==
  /\ phase' = "starting" /\ started' = 0
  /\ chan' = Empty /\ busy' = AllIdle
  /\ wake' = FALSE /\ owed' = 0
  /\ dpc' = "wait" /\ batch' = {} /\ targets' = {}
  /\ sent' = Nothing /\ taken' = Empty
  /\ restarts' = restarts + 1 /\ born' = Len(type)
  /\ UNCHANGED <<tableVars, errors, done>>

Exit == /\ phase = "stopping" /\ dpc = "stopped"
        /\ \A b \in Subscribers : busy[b] = None
        /\ Restart

Crash == restarts < MaxRestarts /\ Restart

-----------------------------------------------------------------------------

Next ==
  \/ Subscribe \/ Serve \/ Wake \/ Dispatcher \/ Tick
  \/ \E t \in Types \cup {Poison} : Commit(t)
  \/ \E b \in Subscribers : Receive(b) \/ Handle(b) \/ HandleError(b)
  \/ Cancel \/ Exit \/ Crash

Spec == Init /\ [][Next]_vars

\* Goroutines are scheduled; handlers return.  The ticker is only relied on
\* for the rows of an earlier process (born > 0): while the table holds rows
\* of this process alone, Wake must be enough.
FairSpec ==
  /\ Spec
  /\ WF_vars(Subscribe) /\ WF_vars(Serve) /\ WF_vars(Wake) /\ WF_vars(Dispatcher)
  /\ WF_vars(born > 0 /\ Tick) /\ WF_vars(Exit)
  /\ \A b \in Subscribers :
       WF_vars(Receive(b)) /\ WF_vars(Handle(b) \/ HandleError(b))

-----------------------------------------------------------------------------

Wanted(i) == {b \in Subscribers : Listens[b] = type[i]}

\* A row this process wrote leaves the table only when every subscriber of
\* its type has it in its channel, or when nothing can decode it: neither a
\* full channel nor a shutdown in the middle of a publish loses a row.
DeletedOnlyAfterFanout ==
  [][\A i \in outbox \ outbox' :
       i <= born \/ type[i] = Poison \/ \A b \in Wanted(i) : i \in sent[b]]_vars

\* Within a process a subscriber sees events in commit order, none twice.
InOrder ==
  \A b \in Subscribers :
    LET seen == taken[b] \o chan[b] IN
    \A m, n \in DOMAIN seen : m < n => seen[m] < seen[n]

\* Until a process ends or a handler fails, every committed event is
\* handled by every subscriber of its type, whatever is poisoned before it
\* and whichever channel is full; wake-ups alone get it there.
EveryEventHandled ==
  \A i \in Ids : i \in outbox ~>
    \/ restarts > 0 \/ errors > 0 \/ phase = "stopping"
    \/ i <= Len(type) /\ (type[i] = Poison \/ \A b \in Wanted(i) : i \in done[b])

\* No row stays for ever: full channels, poisoned rows and the rows a
\* crash left behind all drain.
OutboxDrains == \A i \in Ids : i \in outbox ~> i \notin outbox

\* Violated by the code.  ARCHITECTURE.md: "the row is still there; it's
\* republished on restart": a decodable row is deleted only when every
\* subscriber the program has for it was sent it.
SurvivorsReachSubscribers ==
  [][\A i \in outbox \ outbox' :
       type[i] = Poison \/ \A b \in Wanted(i) : i \in sent[b] \cup done[b]]_vars
=============================================================================
