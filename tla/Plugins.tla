------------------------------ MODULE Plugins -------------------------------
(***************************************************************************)
(* One plugin bucket of internal/similarity/plugin: the child processes it *)
(* runs one after the other, the calls the engine makes to them, the       *)
(* supervisor that respawns a child that died, and the manager's Close.    *)
(* The manager runs the same machine for every plugin.                     *)
(***************************************************************************)
EXTENDS Integers, Sequences, FiniteSets

CONSTANTS
  Procs,      \* Processes, in the order of their spawns any of them is next
  First,      \* the Process that Load has spawned and greeted
  MaxCalls,   \* bound: calls of Candidates
  NoProc, Garbage, TooLong,
  PipeSize,   \* requests that fit into a child's stdin
  MaxCrashes, \* maxCrashes
  MaxFaults   \* bound: crashes, bad lines, failed spawns and failed hellos

ASSUME PluginsAssumption ==
  /\ First \in Procs /\ NoProc \notin Procs /\ MaxCalls \in Nat
  /\ {Garbage, TooLong} \cap Nat = {}
  /\ PipeSize \in Nat \ {0} /\ MaxCrashes \in Nat /\ MaxFaults \in Nat

\* The request ids.
Calls == 1..MaxCalls

VARIABLES
  child,    \* [Procs -> ChildState]
  stdin,    \* [Procs -> Seq(Calls)]: requests the child has not read
  pending,  \* [Procs -> SUBSET Calls]: requests it has not answered
  stdout,   \* [Procs -> Seq(Lines)]: lines readLoop has not read
  closed,   \* [Procs -> BOOLEAN]: the channel Process.closed is closed
  closing,  \* [Procs -> BOOLEAN]: Close waits for the child
  reader,   \* [Procs -> ReaderState]: readLoop
  inflight, \* [Procs -> SUBSET Calls]
  respCh,   \* [Calls -> {"empty", "response", "closed"}]
  call,     \* [Calls -> CallState]: where each Call is
  target,   \* [Calls -> Procs]: the Process it has read from the bucket
  current,  \* pluginBucket.proc
  super,    \* where the supervisor is
  crashes,  \* its counter
  spawned,  \* the Process it greets or swaps in
  manager,  \* where Manager.Close is; superCtx is done unless "open"
  procs,    \* Manager.procs, and in Close what it goes through
  faults    \* how often something has gone wrong

childVars   == <<child, stdin, pending, stdout>>
procVars    == <<closed, closing, reader, inflight>>
callVars    == <<respCh, call, target>>
superVars   == <<current, super, crashes, spawned>>
managerVars == <<manager, procs, faults>>
vars == <<child, stdin, pending, stdout, closed, closing, reader, inflight, respCh,
          call, target, current, super, crashes, spawned, manager, procs, faults>>

Lines      == Calls \cup {Garbage, TooLong}
\* A call ends in "returned" with a response or without.
CallState  == {"idle", "check", "register", "write", "wait", "returned"}

TypeOK ==
  /\ child \in [Procs -> {"unborn", "alive", "dead"}]
  /\ stdin \in [Procs -> Seq(Calls)] /\ stdout \in [Procs -> Seq(Lines)]
  /\ pending \in [Procs -> SUBSET Calls] /\ inflight \in [Procs -> SUBSET Calls]
  /\ closed \in [Procs -> BOOLEAN] /\ closing \in [Procs -> BOOLEAN]
  /\ reader \in [Procs -> {"none", "scan", "mark", "drain", "done"}]
  /\ respCh \in [Calls -> {"empty", "response", "closed"}]
  /\ call \in [Calls -> CallState]
  /\ target \in [Calls -> Procs \cup {NoProc}]
  /\ current \in Procs \cup {NoProc} /\ spawned \in Procs \cup {NoProc}
  /\ super \in {"watch", "backoff", "hello", "close", "swap", "track", "gone"}
  /\ crashes \in 0..(MaxCrashes + 1)
  /\ manager \in {"open", "cancelled", "closing", "closed"}
  /\ \A p \in Procs : child[p] = "unborn" <=> reader[p] = "none"
  /\ procs \subseteq Procs /\ faults \in 0..MaxFaults

\* After Load.
Init ==
  /\ child = [p \in Procs |-> IF p = First THEN "alive" ELSE "unborn"]
  /\ reader = [p \in Procs |-> IF p = First THEN "scan" ELSE "none"]
  /\ stdin = [p \in Procs |-> <<>>] /\ stdout = [p \in Procs |-> <<>>]
  /\ pending = [p \in Procs |-> {}] /\ inflight = [p \in Procs |-> {}]
  /\ closed = [p \in Procs |-> FALSE] /\ closing = [p \in Procs |-> FALSE]
  /\ respCh = [c \in Calls |-> "empty"]
  /\ call = [c \in Calls |-> "idle"]
  /\ target = [c \in Calls |-> NoProc]
  /\ current = First /\ super = "watch" /\ crashes = 0 /\ spawned = NoProc
  /\ manager = "open" /\ procs = {First} /\ faults = 0

Fault == faults < MaxFaults /\ faults' = faults + 1

-----------------------------------------------------------------------------
(* A call of the engine                                                    *)

\* Call c goes on from one step to the next; what it leaves behind when it
\* returns is its id in inflight, not its channel.
Step(c, from, to) == call[c] = from /\ call' = [call EXCEPT ![c] = to]
Return(c, from) ==
  /\ Step(c, from, "returned")
  /\ target' = [target EXCEPT ![c] = NoProc]
  /\ respCh' = [respCh EXCEPT ![c] = "empty"]

\* Candidates reads the bucket's process ...
Candidates(c) ==
  /\ \A d \in 1..(c - 1) : call[d] # "idle"
  /\ IF current = NoProc
     THEN Return(c, "idle")
     ELSE /\ Step(c, "idle", "check")
          /\ target' = [target EXCEPT ![c] = current]
          /\ UNCHANGED respCh
  /\ UNCHANGED <<childVars, procVars, superVars, managerVars>>

\* ... Call looks whether it is closed ...
Check(c) ==
  /\ call[c] = "check"
  /\ IF closed[target[c]]
     THEN Return(c, "check")
     ELSE Step(c, "check", "register") /\ UNCHANGED <<target, respCh>>
  /\ UNCHANGED <<childVars, procVars, superVars, managerVars>>

\* ... makes a channel for the response ...
Register(c) ==
  /\ Step(c, "register", "write")
  /\ inflight' = [inflight EXCEPT ![target[c]] = @ \cup {c}]
  /\ UNCHANGED <<childVars, closed, closing, reader, respCh, target, superVars,
                 managerVars>>

\* ... writes, which blocks while the pipe is full ...
WriteRequest(c) ==
  LET p == target[c] IN
  /\ Step(c, "write", "wait")
  /\ child[p] = "alive" /\ ~closing[p] /\ Len(stdin[p]) < PipeSize
  /\ stdin' = [stdin EXCEPT ![p] = Append(@, c)]
  /\ UNCHANGED <<child, pending, stdout, procVars, respCh, target, superVars,
                 managerVars>>

\* ... or fails, when the child is gone or Close has closed its stdin ...
WriteFails(c) ==
  LET p == target[c] IN
  /\ Return(c, "write")
  /\ child[p] = "dead" \/ closing[p]
  /\ inflight' = [inflight EXCEPT ![p] = @ \ {c}]
  /\ UNCHANGED <<childVars, closed, closing, reader, superVars, managerVars>>

\* ... and waits for the response, for the end of the process or its time.
Receive(c) ==
  /\ respCh[c] # "empty"
  /\ Return(c, "wait")
  /\ UNCHANGED <<childVars, procVars, superVars, managerVars>>

\* Mutant: callTimeout is not applied.
NoTimeout(c) ==
  /\ FALSE
  /\ UNCHANGED vars

Timeout(c) ==
  /\ Return(c, "wait")
  /\ UNCHANGED <<childVars, procVars, superVars, managerVars>>

-----------------------------------------------------------------------------
(* The child: what it writes when nobody reads it any more is left out.    *)

ChildReads(p) ==
  /\ child[p] = "alive" /\ stdin[p] # <<>>
  /\ stdin' = [stdin EXCEPT ![p] = Tail(@)]
  /\ pending' = [pending EXCEPT ![p] =
                   IF reader[p] = "scan" THEN @ \cup {Head(stdin[p])} ELSE @]
  /\ UNCHANGED <<child, stdout, procVars, callVars, superVars, managerVars>>

\* It answers in any order, late or never.
ChildAnswers(p, c) ==
  /\ c \in pending[p]
  /\ pending' = [pending EXCEPT ![p] = @ \ {c}]
  /\ stdout' = [stdout EXCEPT ![p] = Append(@, c)]
  /\ UNCHANGED <<child, stdin, procVars, callVars, superVars, managerVars>>

\* A line that is no response, or one longer than the scanner's buffer.
ChildBabbles(p) ==
  /\ child[p] = "alive" /\ reader[p] = "scan" /\ stdout[p] = <<>>
  /\ Fault
  /\ \E line \in {Garbage, TooLong} :
       stdout' = [stdout EXCEPT ![p] = <<line>>]
  /\ UNCHANGED <<child, stdin, pending, procVars, callVars, superVars, manager,
                 procs>>

\* The child is gone, what it wrote can still be read.
Die(p) ==
  /\ child' = [child EXCEPT ![p] = "dead"]
  /\ stdin' = [stdin EXCEPT ![p] = <<>>]
  /\ pending' = [pending EXCEPT ![p] = {}]

\* Bound: only while there is another to be spawned.
ChildCrashes(p) ==
  /\ Fault
  /\ child[p] = "alive" /\ \E q \in Procs : child[q] = "unborn"
  /\ Die(p)
  /\ UNCHANGED <<stdout, procVars, callVars, superVars, manager, procs>>

\* Mutant: the child is not bound to a context.
NotKilled(p) == FALSE /\ UNCHANGED vars

\* exec.CommandContext: when the context it was spawned under is done.
\* That of the first child is done before Close is called.
KilledByContext(p) ==
  /\ manager # "open" /\ child[p] = "alive"
  /\ Die(p)
  /\ UNCHANGED <<stdout, procVars, callVars, superVars, managerVars>>

-----------------------------------------------------------------------------
(* readLoop                                                                *)

LeaveLoop(p) ==
  /\ reader' = [reader EXCEPT ![p] = "mark"]
  /\ stdout' = [stdout EXCEPT ![p] = <<>>]
  /\ pending' = [pending EXCEPT ![p] = {}]

\* The calls that still wait for their channel find this in it.
Deliver(cs, what) ==
  respCh' = [c \in Calls |-> IF c \in cs /\ call[c] # "returned" THEN what ELSE respCh[c]]

\* One line: it goes to its call or is dropped. A line that is too long ends
\* the loop, with the child alive.
ReadLine(p) ==
  /\ reader[p] = "scan" /\ stdout[p] # <<>>
  /\ LET line == Head(stdout[p]) IN
       /\ inflight' = [inflight EXCEPT ![p] = @ \ {line}]
       /\ Deliver({line} \cap inflight[p], "response")
       /\ IF line = TooLong
          THEN LeaveLoop(p)
          ELSE stdout' = [stdout EXCEPT ![p] = Tail(@)] /\ UNCHANGED <<reader,
                                                                       pending>>
  /\ UNCHANGED <<child, stdin, closed, closing, call, target, superVars,
                 managerVars>>

\* The pipe is at its end; Close's cmd.Wait closes it with what is in it.
ReadEnd(p) ==
  /\ reader[p] = "scan" /\ child[p] = "dead"
  /\ stdout[p] = <<>> \/ closed[p]
  /\ LeaveLoop(p)
  /\ UNCHANGED <<child, stdin, closed, closing, inflight, callVars, superVars,
                 managerVars>>

\* Mutant: only Close closes the channel.
MarkNothing(p) ==
  /\ reader[p] = "mark"
  /\ reader' = [reader EXCEPT ![p] = "drain"]
  /\ UNCHANGED <<childVars, closed, closing, inflight, callVars, superVars,
                 managerVars>>

\* The deferred markClosed; a Do under way in Close is waited for.
MarkClosed(p) ==
  /\ reader[p] = "mark" /\ ~closing[p]
  /\ reader' = [reader EXCEPT ![p] = "drain"]
  /\ closed' = [closed EXCEPT ![p] = TRUE]
  /\ UNCHANGED <<childVars, closing, inflight, callVars, superVars, managerVars>>

DrainInflight(p) ==
  /\ reader[p] = "drain"
  /\ reader' = [reader EXCEPT ![p] = "done"]
  /\ Deliver(inflight[p], "closed")
  /\ inflight' = [inflight EXCEPT ![p] = {}]
  /\ UNCHANGED <<childVars, closed, closing, call, target, superVars, managerVars>>

-----------------------------------------------------------------------------
(* Process.Close, for the supervisor and the manager                       *)

\* The first caller closes channel and stdin; a Process whose readLoop has
\* ended is closed already.
BeginClose(p) ==
  /\ ~closed[p]
  /\ closed' = [closed EXCEPT ![p] = TRUE]
  /\ closing' = [closing EXCEPT ![p] = TRUE]

\* The child has ended by itself, or is killed after two seconds.
EndClose(p) ==
  /\ closing[p]
  /\ closing' = [closing EXCEPT ![p] = FALSE]
  /\ Die(p)
  /\ UNCHANGED <<stdout, closed, reader, inflight, callVars, superVars,
                 managerVars>>

HasClosed(p) == closed[p] /\ ~closing[p]

-----------------------------------------------------------------------------
(* The supervisor                                                          *)

Cancelled == manager # "open"

SuperGoto(step) == super' = step

\* The head of the loop: without a process there is nothing to watch.
SuperLeave ==
  /\ \/ super = "watch" /\ (current = NoProc \/ Cancelled)
     \/ super = "backoff" /\ Cancelled
  /\ SuperGoto("gone")
  /\ UNCHANGED <<childVars, procVars, callVars, current, crashes, spawned,
                 managerVars>>

\* WaitClosed fires: another crash, the last one when there were too many.
NoticeCrash ==
  /\ super = "watch" /\ current # NoProc /\ ~Cancelled
  /\ closed[current]
  /\ crashes' = crashes + 1
  /\ IF crashes' > MaxCrashes
     THEN SuperGoto("gone") /\ current' = NoProc
     ELSE SuperGoto("backoff") /\ UNCHANGED current
  /\ UNCHANGED <<childVars, procVars, callVars, spawned, managerVars>>

\* Mutant: the spawn does not start readLoop.
SpawnUnread(p) ==
  /\ super = "backoff" /\ ~Cancelled
  /\ child[p] = "unborn"
  /\ child' = [child EXCEPT ![p] = "alive"]
  /\ spawned' = p
  /\ SuperGoto("hello")
  /\ UNCHANGED <<stdin, pending, stdout, procVars, callVars, current, crashes,
                 managerVars>>

\* The backoff has passed.
SpawnProcess(p) ==
  /\ super = "backoff" /\ ~Cancelled
  /\ child[p] = "unborn"
  /\ child' = [child EXCEPT ![p] = "alive"]
  /\ reader' = [reader EXCEPT ![p] = "scan"]
  /\ spawned' = p
  /\ SuperGoto("hello")
  /\ UNCHANGED <<stdin, pending, stdout, closed, closing, inflight, callVars,
                 current, crashes, managerVars>>

\* The respawn has failed: the bucket has no process.
GiveBack ==
  /\ current' = NoProc /\ spawned' = NoProc
  /\ SuperGoto("watch")

SpawnFails ==
  /\ super = "backoff"
  /\ IF Cancelled \/ \A p \in Procs : child[p] # "unborn" THEN UNCHANGED faults ELSE Fault
  /\ GiveBack
  /\ UNCHANGED <<childVars, procVars, callVars, crashes, manager, procs>>

HelloSucceeds ==
  /\ super = "hello"
  /\ child[spawned] = "alive"
  /\ SuperGoto("swap")
  /\ UNCHANGED <<childVars, procVars, callVars, current, crashes, spawned,
                 managerVars>>

\* Mutant: the process whose hello failed is not closed.
HelloGivesUp ==
  /\ super = "hello" /\ Fault
  /\ GiveBack
  /\ UNCHANGED <<childVars, procVars, callVars, crashes, manager, procs>>

\* The child dies, is silent for helloTimeout, or says something else.
HelloFails ==
  /\ super = "hello"
  /\ IF child[spawned] = "dead" \/ reader[spawned] # "scan" \/ Cancelled
     THEN UNCHANGED faults
     ELSE Fault
  /\ SuperGoto("close")
  /\ UNCHANGED <<childVars, procVars, callVars, current, crashes, spawned, manager,
                 procs>>

CloseSpawned ==
  /\ super = "close" /\ BeginClose(spawned)
  /\ UNCHANGED <<childVars, reader, inflight, callVars, superVars, managerVars>>

SpawnedClosed ==
  /\ super = "close" /\ HasClosed(spawned)
  /\ GiveBack
  /\ UNCHANGED <<childVars, procVars, callVars, crashes, managerVars>>

\* setProc, then the manager's list, then the counter.
SetProc ==
  /\ super = "swap"
  /\ current' = spawned
  /\ SuperGoto("track")
  /\ UNCHANGED <<childVars, procVars, callVars, crashes, spawned, managerVars>>

\* Once Close has taken the list, the new one is never read.
TrackProc ==
  /\ super = "track"
  /\ procs' = IF manager \in {"open", "cancelled"} THEN procs \cup {spawned} ELSE procs
  /\ crashes' = 0 /\ spawned' = NoProc
  /\ SuperGoto("watch")
  /\ UNCHANGED <<childVars, procVars, callVars, current, manager, faults>>

-----------------------------------------------------------------------------
(* Manager.Close                                                           *)

SuperCancel ==
  /\ manager = "open" /\ manager' = "cancelled"
  /\ UNCHANGED <<childVars, procVars, callVars, superVars, procs, faults>>

TakeProcs ==
  /\ manager = "cancelled" /\ manager' = "closing"
  /\ UNCHANGED <<childVars, procVars, callVars, superVars, procs, faults>>

CloseProc(p) ==
  /\ manager = "closing" /\ p \in procs
  /\ \A q \in procs : ~closing[q]
  /\ BeginClose(p)
  /\ UNCHANGED <<childVars, reader, inflight, callVars, superVars, managerVars>>

\* wg.Wait, after the last Close.
AwaitSupervisors ==
  /\ manager = "closing" /\ \A p \in procs : HasClosed(p)
  /\ super = "gone"
  /\ manager' = "closed"
  /\ UNCHANGED <<childVars, procVars, callVars, superVars, procs, faults>>

-----------------------------------------------------------------------------

Calling(c) == Check(c) \/ Register(c) \/ WriteRequest(c) \/ WriteFails(c) \/ Receive(c)
              \/ Timeout(c)
ReadLoop(p) == ReadLine(p) \/ ReadEnd(p) \/ MarkClosed(p) \/ DrainInflight(p)
Supervise == \/ SuperLeave \/ NoticeCrash  \/ SpawnFails
             \/ HelloSucceeds \/ HelloFails \/ CloseSpawned \/ SpawnedClosed
             \/ SetProc \/ TrackProc
             \/ \E p \in Procs : SpawnProcess(p)
Closing == TakeProcs \/ AwaitSupervisors \/ \E p \in Procs : CloseProc(p)

Next ==
  \/ \E c \in Calls : Candidates(c) \/ Calling(c)
  \/ \E p \in Procs :
       \/ ChildReads(p) \/ ChildBabbles(p) \/ ChildCrashes(p) \/ KilledByContext(p)
       \/ ReadLoop(p) \/ EndClose(p)
       \/ \E c \in Calls : ChildAnswers(p, c)
  \/ Supervise \/ Closing \/ SuperCancel

Spec == Init /\ [][Next]_vars

\* What must go on: goroutines are scheduled, time passes, contexts kill, and
\* a child reads its stdin while it lives. It need not answer, nobody has to
\* call or crash, and the service need not stop.
Progress ==
  \/ \E c \in Calls : Calling(c)
  \/ \E p \in Procs : ReadLoop(p) \/ EndClose(p) \/ ChildReads(p) \/ KilledByContext(p)
  \/ Supervise \/ Closing

\* Each of these steps is taken finitely often, so it is enough that one is
\* taken while there is one to take.
FairSpec == Spec /\ WF_vars(Progress)

-----------------------------------------------------------------------------

\* No child that is listened to is lost: while the service runs, each one is
\* in the list Close goes through, or the supervisor holds it and will put it
\* there or close it (manager.go:163-182, 230-260). One whose line was too
\* long is lost when that ends its hello: Close finds it closed.
NoChildLost ==
  manager = "open" =>
    \A p \in Procs : child[p] = "alive" /\ reader[p] = "scan" => p \in procs \cup {spawned}

\* A call returns whatever becomes of its process: it may be closed, drained
\* or respawned between any two steps of the call (process.go:169-233).
EveryCallReturns == \A c \in Calls : call[c] = "check" ~> call[c] = "returned"

\* The bucket does not keep a dead process for good: the supervisor replaces
\* it or gives up, or the service stops (manager.go:184-260).
DeadIsReplaced ==
  \A p \in Procs : current = p /\ child[p] = "dead" ~> current # p \/ Cancelled

\* Close comes to an end in any state of the supervisor, with every child
\* dead, also one that was spawned but not yet in the list
\* (manager.go:275-296).
CloseTakesAll ==
  manager = "cancelled" ~> manager = "closed" /\ \A p \in Procs : child[p] # "alive"
=============================================================================
