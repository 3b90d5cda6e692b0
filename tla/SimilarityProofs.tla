---------------------------- MODULE SimilarityProofs ---------------------------
(***************************************************************************)
(* Proofs about similar mode.  Plugins: its states have their types, and   *)
(* no child that is listened to is lost while the service runs, for any    *)
(* number of processes, calls and faults.  Similarity, the engine that     *)
(* calls them: its worker forgets no stub, the merge adds up whatever the  *)
(* order in which the buckets come, a pick is justified, and a graph is    *)
(* balanced.                                                               *)
(***************************************************************************)
EXTENDS Plugins, Similarity, SequenceTheorems, FiniteSetTheorems,
        WellFoundedInduction, TLAPS

\* What has the shape it was declared with, as far as it is needed.
Shapes ==
  /\ child \in [Procs -> {"unborn", "alive", "dead"}]
  /\ reader \in [Procs -> {"none", "scan", "mark", "drain", "done"}]
  /\ closed \in [Procs -> BOOLEAN] /\ closing \in [Procs -> BOOLEAN]
  /\ procs \subseteq Procs
  /\ \A p \in Procs : child[p] = "unborn" <=> reader[p] = "none"

\* The supervisor holds a process from its spawn until it is tracked or closed.
Holding == super \in {"hello", "close", "swap", "track"}

Held == /\ Holding => spawned \in Procs /\ child[spawned] # "unborn"
        /\ ~Holding => spawned = NoProc
        /\ super \in {"watch", "backoff", "hello", "close", "swap", "track", "gone"}

\* Nobody closes what was never spawned, and what has been closed is dead or
\* not listened to.
Closes ==
  /\ \A p \in procs : child[p] # "unborn"
  /\ \A p \in Procs : child[p] = "unborn" => ~closed[p] /\ ~closing[p]
  /\ \A p \in Procs : HasClosed(p) => child[p] = "dead" \/ reader[p] # "scan"

PInv == Shapes /\ Held /\ Closes /\ NoChildLost

LEMMA InitPInv == Init => PInv
BY PluginsAssumption
   DEF Init, PInv, Shapes, Held, Holding, Closes, HasClosed, NoChildLost

\* A step of a call, or of a child that lives.
LEMMA CallStep ==
  ASSUME PInv, UNCHANGED <<child, reader, closed, closing, procs, super, spawned, manager>>
  PROVE  PInv'
BY DEF PInv, Shapes, Held, Holding, Closes, HasClosed, NoChildLost

\* The child of p dies, its readLoop goes on, or its Close ends.
LEMMA ProcStep ==
  ASSUME PInv, NEW p \in Procs,
         \/ ChildCrashes(p) \/ KilledByContext(p) \/ EndClose(p) \/ ReadLoop(p)
  PROVE  PInv'
<1> USE DEF PInv, Shapes, Held, Holding, Closes, HasClosed, NoChildLost
<1>1. CASE ChildCrashes(p) \/ KilledByContext(p)
  <2>1. /\ child[p] = "alive" /\ child' = [child EXCEPT ![p] = "dead"]
        /\ UNCHANGED <<reader, closed, closing, procs, super, spawned, manager>>
    BY <1>1 DEF ChildCrashes, KilledByContext, Die, Fault, procVars, superVars, managerVars
  <2> QED
    BY <2>1
<1>2. CASE EndClose(p)
  <2>1. /\ closing[p] /\ closing' = [closing EXCEPT ![p] = FALSE]
        /\ child' = [child EXCEPT ![p] = "dead"]
        /\ UNCHANGED <<reader, closed, procs, super, spawned, manager>>
    BY <1>2 DEF EndClose, Die, superVars, managerVars
  <2> QED
    BY <2>1
<1>3. CASE ReadLine(p) \/ ReadEnd(p)
  <2>1. /\ reader[p] = "scan"
        /\ reader' = reader \/ reader' = [reader EXCEPT ![p] = "mark"]
        /\ UNCHANGED <<child, closed, closing, procs, super, spawned, manager>>
    BY <1>3 DEF ReadLine, ReadEnd, LeaveLoop, superVars, managerVars
  <2> QED
    BY <2>1
<1>4. CASE MarkClosed(p)
  <2>1. /\ reader[p] = "mark" /\ reader' = [reader EXCEPT ![p] = "drain"]
        /\ closed' = [closed EXCEPT ![p] = TRUE]
        /\ UNCHANGED <<child, closing, procs, super, spawned, manager>>
    BY <1>4 DEF MarkClosed, childVars, superVars, managerVars
  <2> QED
    BY <2>1
<1>5. CASE DrainInflight(p)
  <2>1. /\ reader[p] = "drain" /\ reader' = [reader EXCEPT ![p] = "done"]
        /\ UNCHANGED <<child, closed, closing, procs, super, spawned, manager>>
    BY <1>5 DEF DrainInflight, childVars, superVars, managerVars
  <2> QED
    BY <2>1
<1> QED
  BY <1>1, <1>2, <1>3, <1>4, <1>5 DEF ReadLoop

LEMMA SuperviseStep ==
  ASSUME PInv, Supervise
  PROVE  PInv'
<1> USE DEF PInv, Shapes, Held, Holding, Closes, HasClosed, NoChildLost
<1>1. CASE SuperLeave
  BY <1>1 DEF SuperLeave, SuperGoto, childVars, procVars, managerVars
<1>2. CASE NoticeCrash
  BY <1>2 DEF NoticeCrash, SuperGoto, childVars, procVars, managerVars
<1>3. CASE SpawnFails
  BY <1>3 DEF SpawnFails, GiveBack, SuperGoto, childVars, procVars, managerVars
<1>4. CASE HelloSucceeds
  BY <1>4 DEF HelloSucceeds, SuperGoto, childVars, procVars, managerVars
<1>5. CASE HelloFails
  BY <1>5 DEF HelloFails, SuperGoto, childVars, procVars
<1>6. CASE CloseSpawned
  BY <1>6 DEF CloseSpawned, BeginClose, childVars, superVars, managerVars
<1>7. CASE SpawnedClosed
  BY <1>7 DEF SpawnedClosed, GiveBack, SuperGoto, childVars, procVars, managerVars
<1>8. CASE SetProc
  BY <1>8 DEF SetProc, SuperGoto, childVars, procVars, managerVars
<1>9. CASE TrackProc
  BY <1>9 DEF TrackProc, SuperGoto, childVars, procVars
<1>10. ASSUME NEW p \in Procs, SpawnProcess(p) PROVE PInv'
  BY <1>10, PluginsAssumption DEF SpawnProcess, SuperGoto, managerVars
<1> QED
  BY <1>1, <1>2, <1>3, <1>4, <1>5, <1>6, <1>7, <1>8, <1>9, <1>10 DEF Supervise

LEMMA CloseStep ==
  ASSUME PInv, Closing \/ SuperCancel
  PROVE  PInv'
<1> USE DEF PInv, Shapes, Held, Holding, Closes, HasClosed, NoChildLost
<1>1. CASE TakeProcs \/ SuperCancel
  BY <1>1 DEF TakeProcs, SuperCancel, childVars, procVars, superVars
<1>2. CASE AwaitSupervisors
  BY <1>2 DEF AwaitSupervisors, childVars, procVars, superVars
<1>3. ASSUME NEW p \in Procs, CloseProc(p) PROVE PInv'
  BY <1>3 DEF CloseProc, BeginClose, childVars, superVars, managerVars
<1> QED
  BY <1>1, <1>2, <1>3 DEF Closing

LEMMA NextPInv == PInv /\ [Next]_vars => PInv'
<1> SUFFICES ASSUME PInv, [Next]_vars PROVE PInv'
  OBVIOUS
<1>1. ASSUME NEW c \in Calls, Candidates(c) \/ Calling(c) PROVE PInv'
  <2>1. UNCHANGED <<child, reader, closed, closing, procs, super, spawned, manager>>
    BY <1>1 DEF Candidates, Calling, Check, Register, WriteRequest, WriteFails, Receive,
                Timeout, childVars, procVars, superVars, managerVars
  <2> QED
    BY <2>1, CallStep
<1>2. ASSUME NEW p \in Procs,
             \/ ChildReads(p) \/ ChildBabbles(p)
             \/ \E c \in Calls : ChildAnswers(p, c)
      PROVE  PInv'
  <2>1. UNCHANGED <<child, reader, closed, closing, procs, super, spawned, manager>>
    BY <1>2 DEF ChildReads, ChildBabbles, ChildAnswers, procVars, superVars, managerVars
  <2> QED
    BY <2>1, CallStep
<1>3. CASE UNCHANGED vars
  BY <1>3, CallStep DEF vars
<1> QED
  BY <1>1, <1>2, <1>3, ProcStep, SuperviseStep, CloseStep DEF Next

\* While the service runs, each child that is listened to is in the list that
\* Manager.Close goes through or in the supervisor's hands, however spawns,
\* failed hellos, crashes and closes interleave (manager.go:163-260).
THEOREM ListenedToIsKept == Spec => []NoChildLost
<1>1. PInv => NoChildLost
  BY DEF PInv
<1> QED
  BY <1>1, InitPInv, NextPInv, PTL DEF Spec

-----------------------------------------------------------------------------
(* The shapes of the rest: a call under way has a process it has read from *)
(* the bucket, and a supervisor that has not left has not given up.        *)

PipesTyped ==
  /\ stdin \in [Procs -> Seq(Calls)] /\ stdout \in [Procs -> Seq(Lines)]
  /\ pending \in [Procs -> SUBSET Calls] /\ inflight \in [Procs -> SUBSET Calls]

CallsTyped ==
  /\ respCh \in [Calls -> {"empty", "response", "closed"}]
  /\ call \in [Calls -> CallState]
  /\ target \in [Calls -> Procs \cup {NoProc}]
  /\ \A c \in Calls : call[c] \notin {"idle", "returned"} => target[c] \in Procs

SuperTyped ==
  /\ current \in Procs \cup {NoProc}
  /\ crashes \in 0..(MaxCrashes + 1)
  /\ super # "gone" => crashes =< MaxCrashes
  /\ manager \in {"open", "cancelled", "closing", "closed"}
  /\ faults \in 0..MaxFaults

TInv == PipesTyped /\ CallsTyped /\ SuperTyped

LEMMA InitTInv == Init => TInv
<1> SUFFICES ASSUME Init PROVE TInv
  OBVIOUS
<1>1. PipesTyped
  BY EmptySeq DEF Init, PipesTyped
<1>2. CallsTyped
  BY DEF Init, CallsTyped, CallState
<1>3. SuperTyped
  BY PluginsAssumption DEF Init, SuperTyped
<1> QED
  BY <1>1, <1>2, <1>3 DEF TInv

\* A call goes on or returns.
LEMMA CallGoesOn ==
  ASSUME CallsTyped, NEW c \in Calls, NEW from, NEW to \in CallState \ {"idle"},
         Step(c, from, to), from # "idle", from # "returned", UNCHANGED <<target, respCh>>
  PROVE  CallsTyped'
BY DEF CallsTyped, Step

LEMMA CallReturns ==
  ASSUME CallsTyped, NEW c \in Calls, NEW from, Return(c, from)
  PROVE  CallsTyped'
BY DEF CallsTyped, Return, Step, CallState

LEMMA CallTyped ==
  ASSUME TInv, NEW c \in Calls, Candidates(c) \/ Calling(c)
  PROVE  TInv'
<1> USE DEF TInv
<1>1. SuperTyped'
  BY DEF Candidates, Calling, Check, Register, WriteRequest, WriteFails, Receive, Timeout,
         superVars, managerVars, SuperTyped
<1>2. CASE Candidates(c)
  <2>1. ASSUME Return(c, "idle") PROVE CallsTyped'
    BY <2>1, CallReturns
  <2>2. ASSUME Step(c, "idle", "check"), current # NoProc,
               target' = [target EXCEPT ![c] = current], UNCHANGED respCh
        PROVE  CallsTyped'
    BY <2>2 DEF CallsTyped, SuperTyped, Step, CallState
  <2>3. PipesTyped'
    BY <1>2 DEF Candidates, PipesTyped, childVars, procVars
  <2> QED
    BY <1>1, <1>2, <2>1, <2>2, <2>3 DEF Candidates
<1>3. CASE Check(c)
  <2>1. CallsTyped'
    BY <1>3, CallReturns, CallGoesOn DEF Check, CallState
  <2>2. PipesTyped'
    BY <1>3 DEF Check, PipesTyped, childVars, procVars
  <2> QED
    BY <1>1, <2>1, <2>2
<1>4. CASE Register(c)
  <2>1. CallsTyped'
    BY <1>4, CallGoesOn DEF Register, CallState
  <2>2. PipesTyped'
    BY <1>4 DEF Register, PipesTyped, childVars
  <2> QED
    BY <1>1, <2>1, <2>2
<1>5. CASE WriteRequest(c)
  <2>1. CallsTyped'
    BY <1>5, CallGoesOn DEF WriteRequest, CallState
  <2>2. PipesTyped'
    <3>1. stdin' = [stdin EXCEPT ![target[c]] = Append(@, c)]
          /\ UNCHANGED <<stdout, pending, inflight>>
      BY <1>5 DEF WriteRequest, procVars
    <3> QED
      BY <3>1, AppendProperties DEF PipesTyped
  <2> QED
    BY <1>1, <2>1, <2>2
<1>6. CASE WriteFails(c)
  <2>1. CallsTyped'
    BY <1>6, CallReturns DEF WriteFails
  <2>2. PipesTyped'
    BY <1>6 DEF WriteFails, PipesTyped, childVars
  <2> QED
    BY <1>1, <2>1, <2>2
<1>7. CASE Receive(c) \/ Timeout(c)
  <2>1. CallsTyped'
    BY <1>7, CallReturns DEF Receive, Timeout
  <2>2. PipesTyped'
    BY <1>7 DEF Receive, Timeout, PipesTyped, childVars, procVars
  <2> QED
    BY <1>1, <2>1, <2>2
<1> QED
  BY <1>2, <1>3, <1>4, <1>5, <1>6, <1>7 DEF Calling

LEMMA DeliverTyped ==
  ASSUME CallsTyped, NEW cs, NEW what \in {"response", "closed"}, Deliver(cs, what),
         UNCHANGED <<call, target>>
  PROVE  CallsTyped'
BY DEF CallsTyped, Deliver

LEMMA PipeTyped ==
  ASSUME TInv, NEW p \in Procs,
         \/ ChildReads(p) \/ ChildBabbles(p) \/ ChildCrashes(p) \/ KilledByContext(p)
         \/ ReadLoop(p) \/ EndClose(p)
         \/ \E c \in Calls : ChildAnswers(p, c)
  PROVE  TInv'
<1> USE DEF TInv
<1>1. SuperTyped'
  BY PluginsAssumption
     DEF ChildReads, ChildBabbles, ChildCrashes, KilledByContext, EndClose, ChildAnswers,
         ReadLoop, ReadLine, ReadEnd, MarkClosed, DrainInflight, Fault, superVars,
         managerVars, SuperTyped
<1>2. CASE ChildReads(p)
  <2>1. /\ stdin[p] # <<>> /\ stdin' = [stdin EXCEPT ![p] = Tail(@)]
        /\ \/ pending' = pending
           \/ pending' = [pending EXCEPT ![p] = @ \cup {Head(stdin[p])}]
        /\ UNCHANGED <<stdout, inflight, respCh, call, target>>
    BY <1>2 DEF ChildReads, procVars, callVars, PipesTyped
  <2>2. Head(stdin[p]) \in Calls /\ Tail(stdin[p]) \in Seq(Calls)
    BY <2>1, HeadTailProperties DEF PipesTyped
  <2>3. stdin' \in [Procs -> Seq(Calls)] /\ pending' \in [Procs -> SUBSET Calls]
    BY <2>1, <2>2 DEF PipesTyped
  <2>4. PipesTyped' /\ CallsTyped'
    BY <2>1, <2>3 DEF PipesTyped, CallsTyped
  <2> QED
    BY <1>1, <2>4
<1>3. ASSUME NEW c \in Calls, ChildAnswers(p, c) PROVE TInv'
  <2>1. /\ pending' = [pending EXCEPT ![p] = @ \ {c}]
        /\ stdout' = [stdout EXCEPT ![p] = Append(@, c)]
        /\ UNCHANGED <<stdin, inflight, respCh, call, target>>
    BY <1>3 DEF ChildAnswers, procVars, callVars
  <2>2. Append(stdout[p], c) \in Seq(Lines)
    BY AppendProperties DEF PipesTyped, Lines
  <2>3. PipesTyped' /\ CallsTyped'
    BY <2>1, <2>2 DEF PipesTyped, CallsTyped
  <2> QED
    BY <1>1, <2>3
<1>4. CASE ChildBabbles(p)
  <2>1. PICK line \in {Garbage, TooLong} : stdout' = [stdout EXCEPT ![p] = <<line>>]
    BY <1>4 DEF ChildBabbles
  <2>2. <<line>> \in Seq(Lines)
    BY DEF Lines
  <2>3. UNCHANGED <<stdin, pending, inflight, respCh, call, target>>
    BY <1>4 DEF ChildBabbles, procVars, callVars
  <2>4. PipesTyped' /\ CallsTyped'
    BY <2>1, <2>2, <2>3 DEF PipesTyped, CallsTyped
  <2> QED
    BY <1>1, <2>4
<1>5. CASE ChildCrashes(p) \/ KilledByContext(p) \/ EndClose(p)
  <2>1. Die(p) /\ UNCHANGED <<stdout, inflight, respCh, call, target>>
    BY <1>5 DEF ChildCrashes, KilledByContext, EndClose, procVars, callVars
  <2>2. PipesTyped' /\ CallsTyped'
    BY <2>1, EmptySeq DEF Die, PipesTyped, CallsTyped
  <2> QED
    BY <1>1, <2>2
<1>6. CASE ReadLine(p)
  <2>1. /\ stdout[p] # <<>>
        /\ stdout' = [stdout EXCEPT ![p] = <<>>] \/ stdout' = [stdout EXCEPT ![p] = Tail(@)]
        /\ pending' = [pending EXCEPT ![p] = {}] \/ pending' = pending
        /\ inflight' = [inflight EXCEPT ![p] = @ \ {Head(stdout[p])}]
        /\ Deliver({Head(stdout[p])} \cap inflight[p], "response")
        /\ UNCHANGED <<stdin, call, target>>
    BY <1>6 DEF ReadLine, LeaveLoop
  <2>2. Tail(stdout[p]) \in Seq(Lines) /\ <<>> \in Seq(Lines)
    BY <2>1, HeadTailProperties, EmptySeq DEF PipesTyped
  <2>3. PipesTyped'
    BY <2>1, <2>2 DEF PipesTyped
  <2> QED
    BY <1>1, <2>1, <2>3, DeliverTyped
<1>7. CASE ReadEnd(p)
  <2>1. LeaveLoop(p) /\ UNCHANGED <<stdin, inflight, respCh, call, target>>
    BY <1>7 DEF ReadEnd, callVars
  <2>2. PipesTyped' /\ CallsTyped'
    BY <2>1, EmptySeq DEF LeaveLoop, PipesTyped, CallsTyped
  <2> QED
    BY <1>1, <2>2
<1>8. CASE MarkClosed(p)
  BY <1>1, <1>8 DEF MarkClosed, PipesTyped, CallsTyped, childVars, callVars
<1>9. CASE DrainInflight(p)
  <2>1. Deliver(inflight[p], "closed") /\ UNCHANGED <<call, target>>
    BY <1>9 DEF DrainInflight
  <2>2. PipesTyped'
    BY <1>9 DEF DrainInflight, PipesTyped, childVars
  <2> QED
    BY <1>1, <2>1, <2>2, DeliverTyped
<1> QED
  BY <1>2, <1>3, <1>4, <1>5, <1>6, <1>7, <1>8, <1>9 DEF ReadLoop

LEMMA SuperStepTyped ==
  ASSUME PInv, TInv, Supervise \/ Closing \/ SuperCancel
  PROVE  TInv'
<1> USE DEF TInv
<1>1. UNCHANGED <<stdin, stdout, pending, inflight, respCh, call, target>>
  BY DEF Supervise, SuperLeave, NoticeCrash, SpawnFails, HelloSucceeds, HelloFails,
         CloseSpawned, SpawnedClosed, SetProc, TrackProc, SpawnProcess, Closing, TakeProcs,
         AwaitSupervisors, CloseProc, SuperCancel, childVars, procVars, callVars
<1>2. PipesTyped' /\ CallsTyped'
  BY <1>1 DEF PipesTyped, CallsTyped
<1>3. SuperTyped'
  <2> USE PluginsAssumption DEF SuperTyped
  <2>1. CASE SuperLeave
    BY <2>1 DEF SuperLeave, SuperGoto, managerVars
  <2>2. CASE NoticeCrash
    BY <2>2 DEF NoticeCrash, SuperGoto, managerVars
  <2>3. CASE SpawnFails \/ SpawnedClosed
    BY <2>3 DEF SpawnFails, SpawnedClosed, GiveBack, SuperGoto, Fault, managerVars
  <2>4. CASE HelloSucceeds \/ HelloFails
    BY <2>4 DEF HelloSucceeds, HelloFails, SuperGoto, Fault, managerVars
  <2>5. CASE SetProc \/ TrackProc
    <3>1. spawned \in Procs
      BY <2>5 DEF SetProc, TrackProc, PInv, Held, Holding
    <3> QED
      BY <2>5, <3>1 DEF SetProc, TrackProc, SuperGoto, managerVars
  <2>6. CASE CloseSpawned \/ (\E p \in Procs : SpawnProcess(p) \/ CloseProc(p))
    BY <2>6 DEF CloseSpawned, SpawnProcess, CloseProc, SuperGoto, superVars, managerVars
  <2>7. CASE TakeProcs \/ AwaitSupervisors \/ SuperCancel
    BY <2>7 DEF TakeProcs, AwaitSupervisors, SuperCancel, superVars
  <2> QED
    BY <2>1, <2>2, <2>3, <2>4, <2>5, <2>6, <2>7 DEF Supervise, Closing
<1> QED
  BY <1>2, <1>3

LEMMA NextTInv == PInv /\ TInv /\ [Next]_vars => TInv'
<1>1. TInv /\ UNCHANGED vars => TInv'
  BY DEF TInv, PipesTyped, CallsTyped, SuperTyped, vars
<1> QED
  BY <1>1, CallTyped, PipeTyped, SuperStepTyped DEF Next

\* Every variable of the bucket, its children, calls and supervisor keeps
\* its shape, and a child runs from its spawn on with a reader
\* (process.go:96-233, manager.go:184-260).
THEOREM PluginsTyped == Spec => []TypeOK
<1>1. PInv /\ TInv => TypeOK
  BY DEF PInv, Shapes, Held, TInv, PipesTyped, CallsTyped, SuperTyped, Holding, TypeOK
<1> QED
  BY <1>1, InitPInv, NextPInv, InitTInv, NextTInv, PTL DEF Spec

-----------------------------------------------------------------------------
(* The engine that calls the plugins: Similarity, for any users, songs,    *)
(* stubs and Discogs.  What its worker knows of stubs.                     *)

\* An intent names a stub, and a stub is in the channel or with the worker,
\* never both; the channel of the model has room for one.
IntentInv ==
  /\ stub \in [Stubs -> {"new", "waiting", "requested", "reaped"}]
  /\ \/ intents = <<>>
     \/ \E i \in Stubs : \E u, s : intents = <<[stub |-> i, user |-> u, song |-> s]>>
  /\ at # "idle" => job.stub \in Stubs
  /\ at # "idle" => \A k \in DOMAIN intents : intents[k].stub # job.stub

StubInv == IntentInv /\ NoStubForgotten

LEMMA InitStubInv == EngineInit => StubInv
<1> SUFFICES ASSUME EngineInit PROVE StubInv
  OBVIOUS
<1>1. stub = [i \in Stubs |-> "new"] /\ intents = <<>> /\ at = "idle"
  BY DEF EngineInit
<1> QED
  BY <1>1 DEF StubInv, IntentInv, NoStubForgotten

\* Handlers, the queue, a bucket that answers and a graph touch no stub, and
\* not the worker's intent.
LEMMA StubsAlone ==
  ASSUME StubInv, UNCHANGED <<stub, intents, job, at>>
  PROVE  StubInv'
BY DEF StubInv, IntentInv, NoStubForgotten

\* The refiller inserts a stub and sends its intent.
LEMMA RefillStep ==
  ASSUME StubInv, NEW u \in Users, Refill(u)
  PROVE  StubInv'
<1>1. PICK i \in Stubs, s \in seeds[u] :
        /\ stub[i] = "new" /\ stub' = [stub EXCEPT ![i] = "waiting"]
        /\ intents' = <<[stub |-> i, user |-> u, song |-> s]>>
  BY DEF Refill
<1>2. intents = <<>> /\ UNCHANGED <<job, at>>
  BY DEF Refill
<1>3. DOMAIN intents' = {1} /\ intents'[1].stub = i
  BY <1>1
<1>4. at # "idle" => job.stub # i
  BY <1>1 DEF StubInv, NoStubForgotten
<1>5. IntentInv'
  BY <1>1, <1>2, <1>3, <1>4 DEF StubInv, IntentInv
<1>6. ASSUME NEW j \in Stubs
      PROVE  (stub[j] = "waiting" <=> \/ at # "idle" /\ job.stub = j
                                      \/ \E k \in DOMAIN intents : intents[k].stub = j)'
  BY <1>1, <1>2, <1>3, <1>4 DEF StubInv, IntentInv, NoStubForgotten
<1> QED
  BY <1>5, <1>6 DEF StubInv, NoStubForgotten

\* The worker takes the intent out of the channel.
LEMMA TakeStep ==
  ASSUME StubInv, TakeIntent
  PROVE  StubInv'
<1>1. PICK i \in Stubs : \E u, s : intents = <<[stub |-> i, user |-> u, song |-> s]>>
  BY DEF TakeIntent, StubInv, IntentInv
<1>2. DOMAIN intents = {1} /\ intents[1].stub = i
  BY <1>1
<1>3. /\ at = "idle" /\ at' = "read" /\ stub' = stub
      /\ job'.stub = i /\ intents' = <<>> /\ DOMAIN intents' = {}
  BY <1>1 DEF TakeIntent
<1> QED
  BY <1>2, <1>3 DEF StubInv, IntentInv, NoStubForgotten

\* The pick ends, well or badly, and its stub with it.
LEMMA StubEnds ==
  ASSUME StubInv, at # "idle", at' = "idle", NEW end \in {"requested", "reaped"},
         stub' = [stub EXCEPT ![job.stub] = end], UNCHANGED intents
  PROVE  StubInv'
<1>1. IntentInv'
  BY DEF StubInv, IntentInv
<1>2. ASSUME NEW j \in Stubs
      PROVE  stub'[j] = "waiting" <=> \E k \in DOMAIN intents : intents[k].stub = j
  BY DEF StubInv, IntentInv, NoStubForgotten
<1> QED
  BY <1>1, <1>2 DEF StubInv, NoStubForgotten

LEMMA EngineStep == StubInv /\ [EngineNext]_engineVars => StubInv'
<1> SUFFICES ASSUME StubInv, [EngineNext]_engineVars PROVE StubInv'
  OBVIOUS
<1>1. ASSUME NEW u \in Users,
             \/ Set(u) \/ AddSeed(u) \/ RemoveSeed(u)
             \/ ClearLastError(u) \/ Reply(u)
             \/ PutWeights(u) \/ PutGraphSettings(u)
             \/ PutPreferences(u) \/ Graph(u)
      PROVE  StubInv'
  <2>1. UNCHANGED <<stub, intents, job, at>>
    BY <1>1 DEF Set, AddSeed, RemoveSeed, WroteSeeds,
                ClearLastError, Reply, PutWeights,
                PutGraphSettings, PutPreferences, Graph,
                workerVars, pickVars
  <2> QED
    BY <2>1, StubsAlone
<1>2. ASSUME \/ \E s \in Songs : DeleteSong(s)
             \/ QueueAdds \/ QueueDrops
             \/ BucketReturns \/ CheckEntry \/ GenresFor
             \/ UNCHANGED engineVars
      PROVE  StubInv'
  <2>1. UNCHANGED <<stub, intents, job, at>>
    BY <1>2 DEF DeleteSong, QueueAdds, QueueDrops,
                BucketReturns, CheckEntry, GenresFor,
                engineVars, workerVars, pickVars
  <2> QED
    BY <2>1, StubsAlone
<1>3. CASE ReadSeed
  <2>1. at = "read" /\ UNCHANGED intents
    BY <1>3 DEF ReadSeed
  <2>2. CASE Fail
    BY <2>1, <2>2, StubEnds DEF Fail, Rest
  <2>3. CASE ~Fail
    <3>1. at' = "weigh" /\ job' = job /\ stub' = stub
      BY <1>3, <2>3 DEF ReadSeed
    <3> QED
      BY <2>1, <3>1 DEF StubInv, IntentInv, NoStubForgotten
  <2> QED
    BY <2>2, <2>3
<1>4. CASE NoCandidates
  BY <1>4, StubEnds DEF NoCandidates, Deduped, Fail, Rest
<1>5. CASE PublishRequest
  BY <1>5, StubEnds DEF PublishRequest, Rest
<1>6. CASE FanOut \/ ReadPins \/ Choose
  <2>1. /\ at # "idle" /\ at' # "idle" /\ job'.stub = job.stub
        /\ UNCHANGED <<stub, intents>>
    BY <1>6 DEF FanOut, ReadPins, Deduped, Choose
  <2> QED
    BY <2>1 DEF StubInv, IntentInv, NoStubForgotten
<1> QED
  BY <1>1, <1>2, <1>3, <1>4, <1>5, <1>6, RefillStep, TakeStep DEF EngineNext, Worker

\* No stub is forgotten, also when its seed was deleted or has no title, when
\* Discogs says nothing, or while the user changes the settings: it waits in the
\* channel or with the worker, or it was requested or reaped
\* (similarity/service.go: onDiscoveryIntent, cleanupOrphanedStub).
THEOREM StubsAreKept == EngineSpec => []NoStubForgotten
<1>1. StubInv => NoStubForgotten
  BY DEF StubInv
<1> QED
  BY <1>1, InitStubInv, EngineStep, PTL DEF EngineSpec

-----------------------------------------------------------------------------
(* The loops of Ranking.                                                   *)

\* A set of numbers has a least one.
LEMMA LeastNumber ==
  ASSUME NEW T \in SUBSET Nat, T # {}
  PROVE  \E n \in T : \A m \in T : n <= m
<1>1. PICK n \in T : \A m \in T : <<m, n>> \notin OpToRel(<, Nat)
  BY WFMin, NatLessThanWellFounded, Zenon
<1>2. \A m \in T : ~(m < n)
  BY <1>1 DEF OpToRel
<1> QED
  BY <1>2

\* The loop over the candidates of a bucket: what is merged after the first n.
Merging(f, m, w, h, cands, k) ==
  f = [n \in 0..k |-> IF n = 0 THEN m ELSE MergeOne(f[n - 1], w, h, cands[n])]

\* The loop is defined for any number of candidates: a least number for which it
\* were not would follow one for which it is.
LEMMA MergingExists ==
  ASSUME NEW m, NEW w, NEW h, NEW cands, NEW N \in Nat
  PROVE  \E f : Merging(f, m, w, h, cands, N)
<1> DEFINE T == {n \in Nat : ~\E f : Merging(f, m, w, h, cands, n)}
<1> SUFFICES ASSUME T # {} PROVE FALSE
  OBVIOUS
<1>1. PICK k \in T : \A n \in T : k <= n
  BY LeastNumber
<1>2. CASE k = 0
  <2> DEFINE g == [n \in 0..0 |-> m]
  <2>1. Merging(g, m, w, h, cands, 0)
    BY DEF Merging
  <2> QED
    BY <1>1, <1>2, <2>1
<1>3. CASE k # 0
  <2>1. k \in Nat /\ k - 1 \in Nat /\ k - 1 \notin T
    BY <1>1, <1>3
  <2>2. PICK f : Merging(f, m, w, h, cands, k - 1)
    BY <2>1
  <2> DEFINE g == [n \in 0..k |-> IF n = k THEN MergeOne(f[k - 1], w, h, cands[k]) ELSE f[n]]
  <2>3. \A n \in 0..k : g[n] = IF n = 0 THEN m ELSE MergeOne(g[n - 1], w, h, cands[n])
    BY <1>3, <2>1, <2>2 DEF Merging
  <2>4. Merging(g, m, w, h, cands, k)
    BY <2>3 DEF Merging
  <2> QED
    BY <1>1, <2>4
<1> QED
  BY <1>2, <1>3

\* So MergeInto is its last value, from m on, one candidate at a time.
LEMMA MergeIntoSteps ==
  ASSUME NEW m, NEW w, NEW h, NEW cands, Len(cands) \in Nat
  PROVE  \E f : /\ MergeInto(m, w, h, cands) = f[Len(cands)]
                /\ f[0] = m
                /\ \A n \in 1..Len(cands) : f[n] = MergeOne(f[n - 1], w, h, cands[n])
<1> DEFINE f == CHOOSE g : Merging(g, m, w, h, cands, Len(cands))
<1>1. Merging(f, m, w, h, cands, Len(cands))
  BY MergingExists
<1>2. MergeInto(m, w, h, cands) = f[Len(cands)]
  BY DEF MergeInto, Merging
<1>3. \A n \in 0..Len(cands) : f[n] = IF n = 0 THEN m ELSE MergeOne(f[n - 1], w, h, cands[n])
  <2> HIDE DEF f
  <2> QED
    BY <1>1 DEF Merging
<1> HIDE DEF f
<1> QED
  BY <1>2, <1>3

\* The same of the loop that drops the artist of the seed.
Dropping(f, cands, h, k) ==
  f = [n \in 0..k |->
        IF n = 0 THEN <<>>
        ELSE IF ArtistOf[cands[n].track] = ArtistOf[h.track] THEN f[n - 1]
        ELSE Append(f[n - 1], cands[n])]

\* The loop of DropSameArtist, in the same way.
LEMMA DroppingExists ==
  ASSUME NEW h, NEW cands, NEW N \in Nat
  PROVE  \E f : Dropping(f, cands, h, N)
<1> DEFINE T == {n \in Nat : ~\E f : Dropping(f, cands, h, n)}
<1> SUFFICES ASSUME T # {} PROVE FALSE
  OBVIOUS
<1>1. PICK k \in T : \A n \in T : k <= n
  BY LeastNumber
<1>2. CASE k = 0
  <2> DEFINE g == [n \in 0..0 |-> <<>>]
  <2>1. Dropping(g, cands, h, 0)
    BY DEF Dropping
  <2> QED
    BY <1>1, <1>2, <2>1
<1>3. CASE k # 0
  <2>1. k \in Nat /\ k - 1 \in Nat /\ k - 1 \notin T
    BY <1>1, <1>3
  <2>2. PICK f : Dropping(f, cands, h, k - 1)
    BY <2>1
  <2> DEFINE last == IF ArtistOf[cands[k].track] = ArtistOf[h.track] THEN f[k - 1]
                     ELSE Append(f[k - 1], cands[k])
             g == [n \in 0..k |-> IF n = k THEN last ELSE f[n]]
  <2>3. \A n \in 0..k :
          g[n] = IF n = 0 THEN <<>>
                 ELSE IF ArtistOf[cands[n].track] = ArtistOf[h.track] THEN g[n - 1]
                 ELSE Append(g[n - 1], cands[n])
    <3> SUFFICES ASSUME NEW n \in 0..k
                 PROVE  g[n] = IF n = 0 THEN <<>>
                               ELSE IF ArtistOf[cands[n].track] = ArtistOf[h.track] THEN g[n - 1]
                               ELSE Append(g[n - 1], cands[n])
      OBVIOUS
    <3>1. CASE n = k
      <4>1. g[k] = last /\ g[k - 1] = f[k - 1]
        BY <1>3, <2>1
      <4> QED
        BY <1>3, <3>1, <4>1
    <3>2. CASE n # k
      <4>1. n \in 0..(k - 1) /\ g[n] = f[n] /\ (n # 0 => n - 1 \in 0..(k - 1) /\ g[n - 1] = f[n - 1])
        BY <3>2, <2>1
      <4>2. f[n] = IF n = 0 THEN <<>>
                   ELSE IF ArtistOf[cands[n].track] = ArtistOf[h.track] THEN f[n - 1]
                   ELSE Append(f[n - 1], cands[n])
        BY <2>2, <4>1 DEF Dropping
      <4> QED
        BY <4>1, <4>2
    <3> QED
      BY <3>1, <3>2
  <2>4. Dropping(g, cands, h, k)
    BY <2>3 DEF Dropping
  <2> QED
    BY <1>1, <2>4
<1> QED
  BY <1>2, <1>3

\* What is left are candidates by other artists.
LEMMA DropSameArtistDrops ==
  ASSUME NEW h, NEW cands \in Seq(Candidate)
  PROVE  DropSameArtist(cands, h) \in Seq({c \in Candidate : ArtistOf[c.track] # ArtistOf[h.track]})
<1> DEFINE f == CHOOSE g : Dropping(g, cands, h, Len(cands))
           Others == {c \in Candidate : ArtistOf[c.track] # ArtistOf[h.track]}
           T == {n \in 0..Len(cands) : f[n] \notin Seq(Others)}
<1>0. Len(cands) \in Nat /\ \A n \in 1..Len(cands) : cands[n] \in Candidate
  OBVIOUS
<1>1. Dropping(f, cands, h, Len(cands))
  BY <1>0, DroppingExists
<1>2. DropSameArtist(cands, h) = f[Len(cands)]
  BY DEF DropSameArtist, Dropping
<1> HIDE DEF f
<1>3. \A n \in 0..Len(cands) :
          f[n] = IF n = 0 THEN <<>>
                 ELSE IF ArtistOf[cands[n].track] = ArtistOf[h.track] THEN f[n - 1]
                 ELSE Append(f[n - 1], cands[n])
  BY <1>1 DEF Dropping
<1>4. T = {}
  <2> SUFFICES ASSUME T # {} PROVE FALSE
    OBVIOUS
  <2>0. T \in SUBSET Nat
    BY <1>0
  <2>1. PICK k \in T : \A n \in T : k <= n
    <3> HIDE DEF T
    <3> QED
      BY <2>0, LeastNumber
  <2>2. k # 0
    <3>1. f[0] = <<>> /\ <<>> \in Seq(Others)
      BY <1>0, <1>3
    <3> HIDE DEF Others
    <3> QED
      BY <3>1
  <2>3. k - 1 \in 0..Len(cands) /\ f[k - 1] \in Seq(Others)
    BY <1>0, <2>1, <2>2
  <2>4. k \in 1..Len(cands) /\ cands[k] \in Candidate
    BY <1>0, <2>1, <2>2
  <2>5. ArtistOf[cands[k].track] # ArtistOf[h.track] => Append(f[k - 1], cands[k]) \in Seq(Others)
    BY <2>3, <2>4
  <2>6. f[k] \in Seq(Others)
    BY <1>3, <2>2, <2>3, <2>4, <2>5
  <2> QED
    BY <2>1, <2>6
<1> QED
  BY <1>0, <1>2, <1>4

-----------------------------------------------------------------------------
\* What the buckets answer.

\* A bucket asks Discogs finitely many queries.
LEMMA AskIsFinite ==
  ASSUME NEW kind, NEW V, IsFiniteSet(V)
  PROVE  IsFiniteSet(Ask(kind, V))
<1> DEFINE W == V \ {None}
           f == [v \in W |-> [kind |-> kind, value |-> v]]
<1>1. IsFiniteSet(W)
  BY FS_Difference
<1>2. f \in Surjection(W, Ask(kind, V))
  BY DEF Surjection, Ask
<1> HIDE DEF f
<1> QED
  BY <1>1, <1>2, FS_Surjection

\* A song's seed has the features of a release, or has no match.
LEMMA SeedIsFinite ==
  ASSUME NEW s, NEW h \in Hydrations(s)
  PROVE  /\ h.track = TrackOf[s]
         /\ IsFiniteSet(h.styles) /\ IsFiniteSet(h.genres)
<1>1. CASE h = Unmatched(TrackOf[s])
  BY <1>1, FS_EmptySet DEF Unmatched
<1>2. CASE \E r \in FirstHits : h = [Matched(r) EXCEPT !.track = TrackOf[s]]
  <2>1. PICK r \in FirstHits : h = [Matched(r) EXCEPT !.track = TrackOf[s]]
    BY <1>2
  <2>2. IsFiniteSet(r.styles) /\ IsFiniteSet(r.genres)
    BY SimilarityAssumption, RankingAssumption
  <2> QED
    BY <2>1, <2>2 DEF Matched
<1> QED
  BY <1>1, <1>2 DEF Hydrations

\* A seed has finitely many styles, genres and credits to ask for.
LEMMA QueriesAreFinite ==
  ASSUME NEW s, NEW h \in Hydrations(s), NEW b \in DOMAIN Queries(h)
  PROVE  IsFiniteSet(Queries(h)[b])
<1>1. \A kind, v : IsFiniteSet(Ask(kind, {v}))
  BY AskIsFinite, FS_Singleton
<1>2. IsFiniteSet(SameArtist(h))
  BY <1>1 DEF SameArtist
<1>3. IsFiniteSet(SameLabelEra(h))
  BY <1>1, FS_EmptySet DEF SameLabelEra, Dated
<1>4. IsFiniteSet(SameStyleEra(h))
  BY AskIsFinite, SeedIsFinite, FS_EmptySet DEF SameStyleEra, Dated
<1>5. IsFiniteSet(SameGenreEra(h))
  BY AskIsFinite, SeedIsFinite, FS_EmptySet DEF SameGenreEra, Dated
<1>6. IsFiniteSet(Collaborators(h))
  <2> DEFINE I == (1..Len(h.credits)) \cap (1..CreditsCap)
             A == {h.credits[i] : i \in I}
             f == [i \in I |-> h.credits[i]]
  <2>1. IsFiniteSet(I)
    <3>1. CreditsCap \in Nat
      BY RankingAssumption
    <3>2. IsFiniteSet(1..CreditsCap)
      BY <3>1, FS_Interval
    <3> QED
      BY <3>2, FS_Subset
  <2>2. f \in Surjection(I, A)
    BY DEF Surjection
  <2>3. IsFiniteSet(A)
    <3> HIDE DEF f, A, I
    <3> QED
      BY <2>1, <2>2, FS_Surjection
  <2> QED
    BY <2>3, AskIsFinite DEF Collaborators
<1> QED
  BY <1>2, <1>3, <1>4, <1>5, <1>6 DEF Queries

\* In whatever order the results come, each is a release of a track.
LEMMA ArrivalsAreHits ==
  ASSUME NEW b, NEW h, NEW Q, IsFiniteSet(Q), NEW f \in Arrivals(b, h, Q)
  PROVE  \E n \in Nat : /\ DOMAIN f = 1..n
                        /\ \A i \in 1..n : f[i].hit \in Releases /\ f[i].hit.track \in Tracks
<1> DEFINE X == UNION {{[query |-> q, hit |-> r] : r \in Hits(b, h, q)} : q \in Q}
           all == [x \in Q \X Releases |-> [query |-> x[1], hit |-> x[2]]]
           All == {[query |-> x[1], hit |-> x[2]] : x \in Q \X Releases}
<1>1. IsFiniteSet(Q \X Releases)
  BY RankingAssumption, FS_Product
<1>2. all \in Surjection(Q \X Releases, All)
  BY DEF Surjection
<1>3. IsFiniteSet(All)
  <2> HIDE DEF all, All
  <2> QED
    BY <1>1, <1>2, FS_Surjection
<1>4. ASSUME NEW x \in X
      PROVE  x \in All /\ x.hit \in Releases /\ x.hit.track # Nameless
  <2>0. PICK q \in Q : \E r \in Hits(b, h, q) : x = [query |-> q, hit |-> r]
    OBVIOUS
  <2>1. PICK r \in Hits(b, h, q) : x = [query |-> q, hit |-> r]
    BY <2>0
  <2>2. r \in Releases /\ r.track # Nameless
    BY DEF Hits
  <2>3. <<q, r>> \in Q \X Releases /\ x = [query |-> <<q, r>>[1], hit |-> <<q, r>>[2]]
    BY <2>1, <2>2
  <2>4. x.hit = r
    BY <2>1
  <2> QED
    BY <2>2, <2>3, <2>4
<1>5. X \subseteq All
  BY <1>4
<1>6. Cardinality(X) \in Nat
  <2> HIDE DEF X, All
  <2> QED
    BY <1>3, <1>5, FS_Subset, FS_CardinalityType
<1>7. f \in [1..Cardinality(X) -> X]
  BY DEF Arrivals, SetToSeqs
<1> HIDE DEF X
<1> QED
  BY <1>4, <1>6, <1>7, RankingAssumption

\* Every bucket, also a plugin, answers a sequence of candidates.
LEMMA AnswersTyped ==
  ASSUME NEW s, NEW h \in Hydrations(s), NEW b, NEW cands \in Answers(b, h)
  PROVE  cands \in Seq(Candidate)
<1>1. CASE b \notin DOMAIN Queries(h)
  BY <1>1, RankingAssumption DEF Answers
<1>2. CASE b \in DOMAIN Queries(h)
  <2>1. PICK Q \in SUBSET Queries(h)[b] : \E f \in Arrivals(b, h, Q) :
          cands = [i \in DOMAIN f |-> [track |-> f[i].hit.track, release |-> f[i].hit.id, conf |-> 0]]
    BY <1>2 DEF Answers
  <2>2. PICK f \in Arrivals(b, h, Q) :
          cands = [i \in DOMAIN f |-> [track |-> f[i].hit.track, release |-> f[i].hit.id, conf |-> 0]]
    BY <2>1
  <2>3. IsFiniteSet(Q)
    BY <1>2, <2>1, QueriesAreFinite, FS_Subset
  <2>4. PICK n \in Nat : DOMAIN f = 1..n /\ \A i \in 1..n : f[i].hit \in Releases /\ f[i].hit.track \in Tracks
    BY <2>3, ArrivalsAreHits
  <2>5. \A i \in 1..n : [track |-> f[i].hit.track, release |-> f[i].hit.id, conf |-> 0] \in Candidate
    BY <2>4, RankingAssumption DEF Candidate
  <2>6. cands \in [1..n -> Candidate]
    BY <2>2, <2>4, <2>5
  <2> QED
    BY <2>6
<1> QED
  BY <1>1, <1>2

\* So does every entry of the table.
LEMMA AnswersToTyped ==
  ASSUME NEW s \in Songs, NEW h \in Hydrations(s), NEW b \in Buckets, NEW cands \in AnswersTo[b][h]
  PROVE  cands \in Seq(Candidate)
<1> DEFINE H == UNION {Hydrations(x) : x \in Songs}
<1>1. h \in H
  OBVIOUS
<1>2. AnswersTo[b][h] = Answers(b, h)
  <2>1. AnswersTo = [c \in Buckets |-> [g \in H |-> Answers(c, g)]]
    BY DEF AnswersTo
  <2> HIDE DEF H
  <2> QED
    BY <1>1, <2>1
<1> QED
  BY <1>2, AnswersTyped

-----------------------------------------------------------------------------
(* The merge.  s says what each bucket proposed, W is the weights, e the   *)
(* seed's track, and P the proposals merged so far, <<bucket, index>>.     *)

\* What a proposal is worth, the proposals of a track, and their points.
Worth(s, W, x) == BucketWeight(x[1], W) * CandidateConfidence(s[x[1]][x[2]])
NamedIn(s, P, t) == {x \in P : s[x[1]][x[2]].track = t}
PointPairs(s, W, X) == UNION {{x} \X (1..Worth(s, W, x)) : x \in X}

\* The scores of m are sums, and its releases known ones, over P.
TrackSummed(m, s, W, P, t) ==
  LET X == NamedIn(s, P, t)
  IN /\ IsFiniteSet(PointPairs(s, W, X))
     /\ m[t].score = Cardinality(PointPairs(s, W, X))
     /\ m[t].release \in {s[x[1]][x[2]].release : x \in X}
     /\ m[t].release = 0 => \A x \in X : s[x[1]][x[2]].release = 0

\* The merge has the tracks that are proposed, each with its sum.
Summed(m, s, W, e, P) ==
  /\ m \in [DOMAIN m -> [score : Nat, release : Nat]]
  /\ IsFiniteSet(DOMAIN m)
  /\ DOMAIN m = {t \in Tracks \ {e} : NamedIn(s, P, t) # {}}
  /\ \A t \in DOMAIN m : TrackSummed(m, s, W, P, t)

\* A missing or negative confidence counts as full: none is negative.
LEMMA ConfidenceType ==
  ASSUME NEW c \in Candidate
  PROVE  CandidateConfidence(c) \in Nat
BY DEF Candidate, CandidateConfidence, Sure

\* No weight that a pick reads is negative, stored or default.
LEMMA WeightType ==
  ASSUME NEW W \in Tunings, NEW b \in Buckets
  PROVE  BucketWeight(b, W) \in Nat
<1>1. CASE W = Empty
  BY <1>1, RankingAssumption DEF Empty, BucketWeight, Buckets
<1>2. ASSUME NEW w \in WeightChoices, W = Stored(w)
      PROVE  BucketWeight(b, W) \in Nat
  <2>1. \A x \in DOMAIN w : w[x] \in Int
    BY SimilarityAssumption
  <2>2. DOMAIN W = DOMAIN w /\ \A x \in DOMAIN W : W[x] \in Nat
    BY <1>2, <2>1 DEF Stored
  <2> QED
    BY <2>2, RankingAssumption DEF BucketWeight, Buckets
<1> QED
  BY <1>1, <1>2 DEF Tunings

\* The product of two numbers, which the solver needs to be told.
LEMMA ProductType == ASSUME NEW a \in Nat, NEW b \in Nat PROVE a * b \in Nat
OBVIOUS

\* One more proposal brings as many points as it is worth.
LEMMA PointsAdd ==
  ASSUME NEW s, NEW W, NEW X, NEW x, x \notin X, Worth(s, W, x) \in Nat,
         IsFiniteSet(PointPairs(s, W, X))
  PROVE  /\ IsFiniteSet(PointPairs(s, W, X \cup {x}))
         /\ Cardinality(PointPairs(s, W, X \cup {x})) = Cardinality(PointPairs(s, W, X)) + Worth(s, W, x)
<1> DEFINE A == PointPairs(s, W, X)
           n == Worth(s, W, x)
           B == {x} \X (1..n)
<1>1. PointPairs(s, W, X \cup {x}) = A \cup B
  BY DEF PointPairs
<1>2. A \cap B = {}
  BY DEF PointPairs
<1>3. IsFiniteSet(1..n) /\ Cardinality(1..n) = n
  BY FS_Interval
<1>4. IsFiniteSet({x}) /\ Cardinality({x}) = 1
  BY FS_Singleton
<1>5. IsFiniteSet(B) /\ Cardinality(B) = n
  <2>1. IsFiniteSet(B) /\ Cardinality(B) = Cardinality({x}) * Cardinality(1..n)
    BY <1>3, <1>4, FS_Product
  <2> QED
    BY <1>3, <1>4, <2>1
<1> HIDE DEF A, B
<1>6. IsFiniteSet(A \cup B) /\ Cardinality(A \cup B) = Cardinality(A) + Cardinality(B) - Cardinality({})
  BY <1>2, <1>5, FS_Union DEF A
<1>7. Cardinality({}) = 0 /\ Cardinality(A) \in Nat
  BY FS_EmptySet, FS_CardinalityType DEF A
<1>8. A = PointPairs(s, W, X)
  BY DEF A
<1> HIDE DEF n
<1>9. n \in Nat
  BY DEF n
<1>10. Cardinality(A \cup B) = Cardinality(A) + n
  BY <1>5, <1>6, <1>7, <1>9
<1> QED
  BY <1>1, <1>6, <1>8, <1>10 DEF n

\* No proposals, no points.
LEMMA NoPoints ==
  ASSUME NEW s, NEW W
  PROVE  IsFiniteSet(PointPairs(s, W, {})) /\ Cardinality(PointPairs(s, W, {})) = 0
<1>1. PointPairs(s, W, {}) = {}
  BY DEF PointPairs
<1> QED
  BY <1>1, FS_EmptySet

\* MergeOne merges one proposal.
LEMMA MergeOneSums ==
  ASSUME NEW m, NEW s, NEW W, NEW h, NEW P, NEW x, x \notin P,
         Summed(m, s, W, h.track, P),
         s[x[1]][x[2]] \in Candidate, BucketWeight(x[1], W) \in Nat
  PROVE  Summed(MergeOne(m, BucketWeight(x[1], W), h, s[x[1]][x[2]]), s, W, h.track, P \cup {x})
<1> DEFINE c == s[x[1]][x[2]]
           e == h.track
           w == BucketWeight(x[1], W)
           M == MergeOne(m, w, h, c)
           Q == P \cup {x}
           points == w * CandidateConfidence(c)
<1> SUFFICES Summed(M, s, W, e, Q)
  OBVIOUS
<1>1. points \in Nat /\ points = Worth(s, W, x)
  BY ConfidenceType, ProductType DEF Worth
<1>2. \A t : NamedIn(s, Q, t) = IF t = c.track THEN NamedIn(s, P, t) \cup {x} ELSE NamedIn(s, P, t)
  BY DEF NamedIn
<1>3. c.track \in Tracks \cup {Nameless} /\ c.release \in Nat
  BY DEF Candidate
<1>4. CASE c.track \in {Nameless, e}
  <2>1. M = m
    BY <1>4 DEF MergeOne
  <2>2. \A t \in Tracks \ {e} : NamedIn(s, Q, t) = NamedIn(s, P, t)
    BY <1>2, <1>4, RankingAssumption
  <2>3. \A t \in DOMAIN m : t \in Tracks \ {e}
    BY DEF Summed
  <2>4. \A t \in DOMAIN m : TrackSummed(m, s, W, Q, t)
    <3> HIDE DEF M, Q
    <3> QED
      BY <2>2, <2>3 DEF Summed, TrackSummed
  <2>5. DOMAIN m = {t \in Tracks \ {e} : NamedIn(s, Q, t) # {}}
    <3> HIDE DEF M, Q
    <3> QED
      BY <2>2 DEF Summed
  <2> HIDE DEF M, Q
  <2> QED
    BY <2>1, <2>4, <2>5 DEF Summed
<1>5. CASE c.track \notin {Nameless, e}
  <2> DEFINE k == c.track
             known == k \in DOMAIN m
             one == [score |-> points + IF known THEN m[k].score ELSE 0,
                     release |-> IF known /\ m[k].release # 0 THEN m[k].release ELSE c.release]
             X == NamedIn(s, P, k)
  <2>1. M = [t \in DOMAIN m \cup {k} |-> IF t # k THEN m[t] ELSE one]
    BY <1>5 DEF MergeOne
  <2>2. k \in Tracks \ {e}
    BY <1>3, <1>5
  <2>3. DOMAIN M = DOMAIN m \cup {k} /\ M[k] = one /\ \A t \in DOMAIN m \ {k} : M[t] = m[t]
    BY <2>1
  <2>4. known => TrackSummed(m, s, W, P, k) /\ m[k] \in [score : Nat, release : Nat]
    BY DEF Summed
  <2>5. ~known => X = {}
    BY <2>2 DEF Summed
  <2>6. one \in [score : Nat, release : Nat]
    BY <1>1, <1>3, <2>4
  <2>7. M \in [DOMAIN M -> [score : Nat, release : Nat]]
    <3>1. \A t \in DOMAIN m : m[t] \in [score : Nat, release : Nat]
      BY DEF Summed
    <3> HIDE DEF one, M
    <3> QED
      BY <2>1, <2>3, <2>6, <3>1
  <2>8. IsFiniteSet(DOMAIN M)
    <3>1. IsFiniteSet(DOMAIN m)
      BY DEF Summed
    <3> QED
      BY <2>3, <3>1, FS_AddElement
  <2>9. DOMAIN M = {t \in Tracks \ {e} : NamedIn(s, Q, t) # {}}
    <3>1. DOMAIN m = {t \in Tracks \ {e} : NamedIn(s, P, t) # {}}
      BY DEF Summed
    <3> HIDE DEF M, Q
    <3> QED
      BY <1>2, <2>2, <2>3, <3>1
  <2>10. TrackSummed(M, s, W, Q, k)
    <3>1. x \notin X /\ NamedIn(s, Q, k) = X \cup {x}
      BY <1>2 DEF NamedIn
    <3>2. IsFiniteSet(PointPairs(s, W, X)) /\ Cardinality(PointPairs(s, W, X)) = IF known THEN m[k].score ELSE 0
      BY <2>4, <2>5, NoPoints DEF TrackSummed
    <3>3. /\ IsFiniteSet(PointPairs(s, W, X \cup {x}))
          /\ Cardinality(PointPairs(s, W, X \cup {x})) = Cardinality(PointPairs(s, W, X)) + points
      <4> HIDE DEF points, X
      <4> QED
        BY <1>1, <3>1, <3>2, PointsAdd
    <3>4. one.score = Cardinality(PointPairs(s, W, X \cup {x}))
      <4>1. known => m[k].score \in Nat
        BY <2>4
      <4>2. one.score = points + IF known THEN m[k].score ELSE 0
        OBVIOUS
      <4> HIDE DEF points, one
      <4> QED
        BY <1>1, <3>2, <3>3, <4>1, <4>2
    <3>5. one.release \in {s[y[1]][y[2]].release : y \in X \cup {x}}
      <4>1. CASE known /\ m[k].release # 0
        BY <2>4, <4>1 DEF TrackSummed
      <4>2. CASE ~(known /\ m[k].release # 0)
        BY <4>2
      <4> QED
        BY <4>1, <4>2
    <3>6. one.release = 0 => \A y \in X \cup {x} : s[y[1]][y[2]].release = 0
      <4>1. known /\ m[k].release = 0 => \A y \in X : s[y[1]][y[2]].release = 0
        BY <2>4 DEF TrackSummed
      <4> QED
        BY <2>5, <4>1
    <3> HIDE DEF one, X, Q, M
    <3> QED
      BY <2>3, <3>1, <3>3, <3>4, <3>5, <3>6 DEF TrackSummed
  <2>11. ASSUME NEW t \in DOMAIN M, t # k
         PROVE  TrackSummed(M, s, W, Q, t)
    <3>1. TrackSummed(m, s, W, P, t) /\ M[t] = m[t] /\ NamedIn(s, Q, t) = NamedIn(s, P, t)
      BY <1>2, <2>3, <2>11 DEF Summed
    <3> HIDE DEF M, Q
    <3> QED
      BY <3>1 DEF TrackSummed
  <2> HIDE DEF M, Q
  <2> QED
    BY <2>7, <2>8, <2>9, <2>10, <2>11 DEF Summed
<1> QED
  BY <1>4, <1>5

\* MergeInto merges all that bucket b proposed.
LEMMA MergeIntoSums ==
  ASSUME NEW m, NEW s, NEW W, NEW h, NEW P, NEW b,
         Summed(m, s, W, h.track, P), \A x \in P : x[1] # b,
         s[b] \in Seq(Candidate), BucketWeight(b, W) \in Nat
  PROVE  Summed(MergeInto(m, BucketWeight(b, W), h, s[b]), s, W, h.track, P \cup ({b} \X DOMAIN s[b]))
<1> DEFINE w == BucketWeight(b, W)
           N == Len(s[b])
           Upto(n) == P \cup ({b} \X (1..n))
<1>1. N \in Nat /\ DOMAIN s[b] = 1..N /\ \A n \in 1..N : s[b][n] \in Candidate
  OBVIOUS
<1>2. PICK f : /\ MergeInto(m, w, h, s[b]) = f[N]
               /\ f[0] = m
               /\ \A n \in 1..N : f[n] = MergeOne(f[n - 1], w, h, s[b][n])
  <2> DEFINE cands == s[b]
  <2>1. Len(cands) \in Nat
    BY <1>1
  <2> HIDE DEF w, cands
  <2>2. \E f : /\ MergeInto(m, w, h, cands) = f[Len(cands)]
               /\ f[0] = m
               /\ \A n \in 1..Len(cands) : f[n] = MergeOne(f[n - 1], w, h, cands[n])
    BY <2>1, MergeIntoSteps
  <2> QED
    BY <2>2 DEF cands
<1> DEFINE T == {n \in 0..N : ~Summed(f[n], s, W, h.track, Upto(n))}
<1>3. T = {}
  <2> SUFFICES ASSUME T # {} PROVE FALSE
    OBVIOUS
  <2>1. T \in SUBSET Nat
    BY <1>1
  <2>2. PICK k \in T : \A n \in T : k <= n
    <3> HIDE DEF T
    <3> QED
      BY <2>1, LeastNumber
  <2>3. k # 0
    <3>1. Upto(0) = P
      OBVIOUS
    <3>2. Summed(f[0], s, W, h.track, Upto(0))
      BY <1>2, <3>1
    <3> HIDE DEF Upto
    <3> QED
      BY <2>2, <3>2
  <2>4. k \in 1..N /\ k - 1 \in 0..N /\ k - 1 \notin T
    <3>1. k \in 0..N
      OBVIOUS
    <3>2. k \in 1..N /\ k - 1 \in 0..N /\ ~(k <= k - 1)
      BY <1>1, <2>3, <3>1
    <3> HIDE DEF T
    <3> QED
      BY <2>2, <3>2
  <2>5. Summed(f[k - 1], s, W, h.track, Upto(k - 1))
    <3> HIDE DEF Upto
    <3> QED
      BY <2>4
  <2> DEFINE x == <<b, k>>
  <2>6. x \notin Upto(k - 1) /\ Upto(k - 1) \cup {x} = Upto(k)
    BY <1>1, <2>4
  <2>7. x[1] = b /\ s[x[1]][x[2]] = s[b][k] /\ s[b][k] \in Candidate
    BY <1>1, <2>4
  <2>8. f[k] = MergeOne(f[k - 1], BucketWeight(x[1], W), h, s[x[1]][x[2]])
    BY <1>2, <2>4, <2>7
  <2>9. Summed(f[k], s, W, h.track, Upto(k))
    <3> HIDE DEF Upto, x
    <3>1. BucketWeight(x[1], W) \in Nat /\ s[x[1]][x[2]] \in Candidate
      BY <2>7
    <3>2. Summed(MergeOne(f[k - 1], BucketWeight(x[1], W), h, s[x[1]][x[2]]), s, W, h.track, Upto(k - 1) \cup {x})
      BY <2>5, <2>6, <3>1, MergeOneSums
    <3> QED
      BY <2>6, <2>8, <3>2
  <2> HIDE DEF Upto
  <2> QED
    BY <2>2, <2>9
<1>4. Summed(f[N], s, W, h.track, Upto(N))
  <2> HIDE DEF Upto
  <2> QED
    BY <1>1, <1>3
<1> QED
  BY <1>1, <1>2, <1>4

-----------------------------------------------------------------------------
(* The engine's states.                                                    *)

\* Settings, the channel and the worker's intent have their shapes.
EngineShape ==
  /\ EngineTypeOK
  /\ tuned \in [Users -> Tunings]
  /\ intents \in Seq(Intents)
  /\ at \in {"read", "weigh"} => job \in Intents
  /\ at \in {"fanout", "filter", "publish"} =>
       job \in [stub : Stubs, user : Users, song : Songs, weights : Tunings]
  /\ lost \in [pins : BOOLEAN, entry : SUBSET Tracks, genres : SUBSET Tracks]

\* Nothing is merged before the buckets are asked, nothing is sifted before
\* they have answered, and no genre is asked for before the pins are read.
Fresh ==
  /\ at \in {"idle", "read", "weigh"} => merge = Empty /\ said = Empty
  /\ at \in {"idle", "read", "weigh"} \/ (at = "fanout" /\ running # {}) =>
       seen = {} /\ pool = {}
  /\ at \in {"idle", "read", "weigh", "fanout"} => kept = {}

\* From the fan-out on: only enabled buckets are asked, and the merge is the
\* sum of what has been answered.
Picking ==
  /\ at = "weigh" => seed \in Hydrations(job.song)
  /\ at \in {"fanout", "filter", "publish"} =>
       /\ seed \in Hydrations(job.song)
       /\ running \subseteq Enabled(job.weights) /\ DOMAIN said \subseteq Enabled(job.weights)
       /\ said \in [DOMAIN said -> Seq(Candidate)]
       /\ Summed(merge, said, job.weights, seed.track, Proposals)

\* The inductive invariant.
EInv == EngineShape /\ Fresh /\ Picking

\* No pick has started.
LEMMA InitEInv == EngineInit => EInv
<1> SUFFICES ASSUME EngineInit PROVE EInv
  OBVIOUS
<1>1. EngineTypeOK
  BY RankingAssumption DEF EngineInit, EngineTypeOK, Empty, NoSeed
<1>2. tuned \in [Users -> Tunings]
  BY DEF EngineInit, Tunings
<1>3. at = "idle" /\ intents \in Seq(Intents)
  BY DEF EngineInit
<1>4. Fresh
  BY DEF EngineInit, Fresh
<1>5. lost \in [pins : BOOLEAN, entry : SUBSET Tracks, genres : SUBSET Tracks]
  BY DEF EngineInit, NoneLost
<1> QED
  BY <1>1, <1>2, <1>3, <1>4, <1>5 DEF EInv, EngineShape, Picking

\* Nobody but the worker touches a pick.
LEMMA PickingAlone ==
  ASSUME Fresh, Picking,
         UNCHANGED <<job, at, seed, running, merge, said, seen, pool, kept>>
  PROVE  Fresh' /\ Picking'
<1>1. Fresh'
  BY DEF Fresh
<1>2. Picking'
  BY DEF Picking, Proposals
<1> QED
  BY <1>1, <1>2

\* The handlers of the seed set.
LEMMA SeedHandlers ==
  ASSUME EInv, NEW u \in Users, Set(u) \/ AddSeed(u) \/ RemoveSeed(u)
  PROVE  EInv'
<1>1. /\ http[u] = "idle" /\ http' = [http EXCEPT ![u] = "clear"]
      /\ UNCHANGED <<songVars, settings, lastErr, workerVars, graph>>
  BY DEF Set, AddSeed, RemoveSeed, WroteSeeds
<1>2. seeds' \in [Users -> SUBSET songs]
  <2>1. seeds \in [Users -> SUBSET songs]
    BY DEF EInv, EngineShape, EngineTypeOK
  <2>2. CASE Set(u)
    BY <2>1, <2>2 DEF Set, ReplaceSeeds
  <2>3. CASE AddSeed(u)
    BY <2>1, <2>3 DEF AddSeed, InsertSeed
  <2>4. CASE RemoveSeed(u)
    BY <2>1, <2>4 DEF RemoveSeed, DeleteSeed
  <2> QED
    BY <2>2, <2>3, <2>4
<1>3. EngineTypeOK'
  BY <1>1, <1>2 DEF EInv, EngineShape, EngineTypeOK, songVars, settings, workerVars, pickVars, sieve
<1> QED
  BY <1>1, <1>3, PickingAlone DEF EInv, EngineShape, settings, workerVars, pickVars, sieve

\* The other handlers: a stored weight is not negative, a stored limit is bounded.
LEMMA SettingHandlers ==
  ASSUME EInv, NEW u \in Users,
         \/ ClearLastError(u) \/ Reply(u) \/ PutWeights(u) \/ PutGraphSettings(u)
         \/ PutPreferences(u) \/ Graph(u)
  PROVE  EInv'
<1>1. UNCHANGED <<songVars, seeds, pickVars>>
  BY DEF ClearLastError, Reply, PutWeights, PutGraphSettings, PutPreferences, Graph, workerVars
<1>2. http' \in [Users -> {"idle", "clear", "reply"}]
  <2>1. http \in [Users -> {"idle", "clear", "reply"}]
    BY DEF EInv, EngineShape, EngineTypeOK
  <2> QED
    BY <2>1 DEF ClearLastError, Reply, PutWeights, PutGraphSettings, PutPreferences, Graph
<1>3. lastErr' \in [Users -> Songs \cup {None}]
  <2>1. lastErr \in [Users -> Songs \cup {None}]
    BY DEF EInv, EngineShape, EngineTypeOK
  <2> QED
    BY <2>1 DEF ClearLastError, Reply, PutWeights, PutGraphSettings, PutPreferences, Graph
<1>4. limit' \in [Users -> 0..MaxLimit]
  <2>1. limit \in [Users -> 0..MaxLimit]
    BY DEF EInv, EngineShape, EngineTypeOK
  <2>2. ASSUME NEW n \in LimitChoices, SetGraphLimit(u, n)
        PROVE  limit' \in [Users -> 0..MaxLimit]
    <3>1. (IF n < 1 THEN 0 ELSE SmallerOf(n, MaxLimit)) \in 0..MaxLimit
      BY RankingAssumption, SimilarityAssumption DEF SmallerOf
    <3> QED
      BY <2>1, <2>2, <3>1 DEF SetGraphLimit
  <2>3. CASE PutGraphSettings(u)
    BY <2>2, <2>3 DEF PutGraphSettings
  <2>4. CASE ~PutGraphSettings(u)
    <3>1. limit' = limit
      BY <2>4 DEF ClearLastError, Reply, PutWeights, PutPreferences, Graph, settings
    <3> QED
      BY <2>1, <3>1
  <2> QED
    BY <2>3, <2>4
<1>5. tuned' \in [Users -> Tunings]
  <2>1. tuned \in [Users -> Tunings]
    BY DEF EInv, EngineShape
  <2>2. CASE PutWeights(u)
    BY <2>1, <2>2 DEF PutWeights, SetWeights, Tunings
  <2>3. CASE ~PutWeights(u)
    <3>1. tuned' = tuned
      BY <2>3 DEF ClearLastError, Reply, PutGraphSettings, PutPreferences, Graph, settings
    <3> QED
      BY <2>1, <3>1
  <2> QED
    BY <2>2, <2>3
<1>6. \A W \in Tunings : \A b \in DOMAIN W : W[b] \in Nat
  BY SimilarityAssumption DEF Tunings, Stored, Empty
<1>7. EngineTypeOK'
  BY <1>1, <1>2, <1>3, <1>4, <1>5, <1>6
     DEF EInv, EngineShape, EngineTypeOK, songVars, pickVars, sieve
<1> QED
  BY <1>1, <1>5, <1>7, PickingAlone DEF EInv, EngineShape, pickVars, sieve

\* The refiller, the cascade and the queue.
LEMMA SurroundingsStep ==
  ASSUME EInv,
         \/ \E u \in Users : Refill(u)
         \/ \E s \in Songs : DeleteSong(s)
         \/ QueueAdds \/ QueueDrops \/ UNCHANGED engineVars
  PROVE  EInv'
<1>1. CASE \E u \in Users : Refill(u)
  <2>1. PICK u \in Users : Refill(u)
    BY <1>1
  <2>2. PICK i \in Stubs, s \in seeds[u] :
          /\ stub' = [stub EXCEPT ![i] = "waiting"]
          /\ intents' = <<[stub |-> i, user |-> u, song |-> s]>>
    BY <2>1 DEF Refill
  <2>3. s \in Songs
    BY DEF EInv, EngineShape, EngineTypeOK
  <2>4. intents' \in Seq(Intents) /\ Len(intents') = 1
    BY <2>2, <2>3 DEF Intents
  <2>5. EngineTypeOK'
    BY <2>1, <2>2, <2>4 DEF Refill, EInv, EngineShape, EngineTypeOK, songVars, settings, sieve
  <2> QED
    BY <2>1, <2>4, <2>5, PickingAlone DEF Refill, EInv, EngineShape, settings, sieve
<1>2. CASE \E s \in Songs : DeleteSong(s)
  <2>1. PICK s \in Songs : DeleteSong(s)
    BY <1>2
  <2>2. songs' \subseteq Songs /\ seeds' \in [Users -> SUBSET songs']
    BY <2>1 DEF DeleteSong, EInv, EngineShape, EngineTypeOK
  <2>3. EngineTypeOK'
    BY <2>1, <2>2 DEF DeleteSong, EInv, EngineShape, EngineTypeOK, settings, workerVars, pickVars, sieve
  <2> QED
    BY <2>1, <2>3, PickingAlone DEF DeleteSong, EInv, EngineShape, settings, workerVars, pickVars, sieve
<1>3. CASE QueueAdds \/ QueueDrops
  <2>1. entries' \cup asked' \subseteq Users \X Tracks
    BY <1>3 DEF QueueAdds, QueueDrops, EInv, EngineShape, EngineTypeOK
  <2>2. EngineTypeOK'
    BY <1>3, <2>1 DEF QueueAdds, QueueDrops, EInv, EngineShape, EngineTypeOK, settings, pickVars, sieve
  <2> QED
    BY <1>3, <2>2, PickingAlone DEF QueueAdds, QueueDrops, EInv, EngineShape, settings, pickVars, sieve
<1>4. CASE UNCHANGED engineVars
  <2>1. EngineTypeOK'
    BY <1>4 DEF engineVars, songVars, settings, workerVars, pickVars, sieve, EInv, EngineShape, EngineTypeOK
  <2> QED
    BY <1>4, <2>1, PickingAlone DEF engineVars, settings, workerVars, pickVars, sieve, EInv, EngineShape
<1> QED
  BY <1>1, <1>2, <1>3, <1>4

\* The worker takes an intent.
LEMMA TakeIntentTyped ==
  ASSUME EInv, TakeIntent
  PROVE  EInv'
<1>1. intents \in Seq(Intents) /\ intents # <<>> /\ Len(intents) <= 1
  BY DEF TakeIntent, EInv, EngineShape, EngineTypeOK
<1>2. job' \in Intents /\ intents' \in Seq(Intents) /\ Len(intents') <= 1
  BY <1>1 DEF TakeIntent
<1>3. job' # None
  BY <1>2, SimilarityAssumption DEF Jobs
<1>4. EngineTypeOK'
  BY <1>2, <1>3 DEF TakeIntent, EInv, EngineShape, EngineTypeOK, songVars, settings, sieve
<1> QED
  BY <1>2, <1>4 DEF TakeIntent, EInv, EngineShape, Fresh, Picking, settings, sieve

\* Whatever ends a pick leaves the worker idle.
LEMMA PickEnds ==
  ASSUME EInv, at # "idle", Rest, NEW end \in {"requested", "reaped"},
         stub' = [stub EXCEPT ![job.stub] = end],
         lastErr' \in [Users -> Songs \cup {None}], asked' \subseteq Users \X Tracks,
         UNCHANGED <<songs, entries, seeds, settings, intents, http>>
  PROVE  EInv'
<1>1. stub' \in [Stubs -> {"new", "waiting", "requested", "reaped"}]
  BY DEF EInv, EngineShape, EngineTypeOK
<1>2. EngineTypeOK'
  BY <1>1 DEF Rest, NoSeed, Empty, EInv, EngineShape, EngineTypeOK, settings
<1>3. Fresh' /\ Picking'
  BY DEF Rest, Fresh, Picking
<1>4. lost' \in [pins : BOOLEAN, entry : SUBSET Tracks, genres : SUBSET Tracks]
  BY DEF Rest, NoneLost
<1> QED
  BY <1>2, <1>3, <1>4 DEF Rest, EInv, EngineShape, settings

\* What the worker has names a stub, a user and a song.
LEMMA JobTyped ==
  ASSUME EInv, at # "idle"
  PROVE  job.stub \in Stubs /\ job.user \in Users /\ job.song \in Songs
BY DEF EInv, EngineShape, EngineTypeOK, Intents

\* A pick that fails leaves nothing of it behind.
LEMMA FailTyped ==
  ASSUME EInv, at # "idle", Fail, UNCHANGED <<songVars, seeds, settings, intents, http>>
  PROVE  EInv'
<1>1. lastErr' \in [Users -> Songs \cup {None}]
  BY JobTyped DEF Fail, EInv, EngineShape, EngineTypeOK
<1>2. asked' \subseteq Users \X Tracks
  BY DEF songVars, EInv, EngineShape, EngineTypeOK
<1> QED
  BY <1>1, <1>2, PickEnds DEF Fail, songVars

\* At the start nothing has been proposed.
LEMMA NothingSummed ==
  ASSUME NEW W, NEW e
  PROVE  Summed(Empty, Empty, W, e, {})
BY FS_EmptySet DEF Summed, Empty, NamedIn

\* The seed is read.
LEMMA ReadSeedTyped ==
  ASSUME EInv, ReadSeed
  PROVE  EInv'
<1>1. at = "read" /\ UNCHANGED <<songVars, seeds, settings, intents, http, graph>>
  BY DEF ReadSeed
<1>2. CASE Fail
  BY <1>1, <1>2, FailTyped
<1>3. CASE ~Fail
  <2>1. /\ at' = "weigh" /\ seed' \in Hydrations(job.song)
        /\ UNCHANGED <<lastErr, stub, job, running, merge, said, sieve>>
    BY <1>3 DEF ReadSeed
  <2>2. merge = Empty
    BY <1>1 DEF EInv, Fresh
  <2>3. EngineTypeOK'
    BY <1>1, <2>1, <2>2 DEF Empty, EInv, EngineShape, EngineTypeOK, songVars, settings, sieve
  <2> QED
    BY <1>1, <2>1, <2>3 DEF EInv, EngineShape, Fresh, Picking, settings, sieve
<1> QED
  BY <1>2, <1>3

\* The buckets are asked with the weights of that moment or the defaults, and
\* nothing merged.
LEMMA FanOutTyped ==
  ASSUME EInv, FanOut
  PROVE  EInv'
<1>1. /\ at = "weigh" /\ at' = "fanout"
      /\ UNCHANGED <<songVars, seeds, settings, lastErr, stub, intents, seed, merge, said, sieve,
                     http, graph>>
  BY DEF FanOut
<1>2. PICK w \in {tuned[job.user], Empty} :
        /\ job' = [stub |-> job.stub, user |-> job.user, song |-> job.song, weights |-> w]
        /\ running' = Enabled(w)
  BY DEF FanOut
<1>3. w \in Tunings
  BY <1>1, JobTyped DEF EInv, EngineShape, Tunings
<1>4. job' \in [stub : Stubs, user : Users, song : Songs, weights : Tunings]
  BY <1>1, <1>2, <1>3, JobTyped
<1>5. job' # None
  BY <1>4, SimilarityAssumption DEF Jobs
<1>6. merge = Empty /\ said = Empty /\ seen = {} /\ pool = {} /\ kept = {}
  BY <1>1 DEF EInv, Fresh
<1>7. EngineTypeOK'
  BY <1>1, <1>5, <1>6 DEF Empty, EInv, EngineShape, EngineTypeOK, songVars, settings, sieve
<1>8. DOMAIN said' = {} /\ Proposals' = {}
  BY <1>1, <1>6 DEF Empty, Proposals
<1>9. Picking'
  <2>1. Summed(merge', said', job'.weights, seed'.track, Proposals')
    BY <1>1, <1>6, <1>8, NothingSummed
  <2>2. job'.song = job.song /\ job'.weights = w
    BY <1>2
  <2>3. said' \in [DOMAIN said' -> Seq(Candidate)]
    BY <1>1, <1>6 DEF Empty
  <2> QED
    BY <1>1, <1>2, <1>8, <2>1, <2>2, <2>3 DEF EInv, Picking
<1>10. Fresh'
  BY <1>1, <1>6 DEF Fresh, sieve
<1> QED
  BY <1>1, <1>4, <1>7, <1>9, <1>10 DEF EInv, EngineShape, settings, sieve

\* A bucket's answer is merged whole.
LEMMA BucketReturnsTyped ==
  ASSUME EInv, BucketReturns
  PROVE  EInv'
<1>1. /\ at = "fanout" /\ at' = "fanout"
      /\ UNCHANGED <<songVars, seeds, settings, lastErr, stub, intents, job, seed, sieve, http, graph>>
  BY DEF BucketReturns
<1>0. PICK b \in running : \E cands \in AnswersTo[b][seed] \cup {<<>>} :
        /\ running' = running \ {b}
        /\ merge' = MergeInto(merge, BucketWeight(b, job.weights), seed, cands)
        /\ said' = [x \in DOMAIN said \cup {b} |-> IF x = b THEN cands ELSE said[x]]
  BY DEF BucketReturns
<1>2. PICK cands \in AnswersTo[b][seed] \cup {<<>>} :
        /\ running' = running \ {b}
        /\ merge' = MergeInto(merge, BucketWeight(b, job.weights), seed, cands)
        /\ said' = [x \in DOMAIN said \cup {b} |-> IF x = b THEN cands ELSE said[x]]
  BY <1>0
<1> DEFINE W == job.weights
<1>3. W \in Tunings /\ job.song \in Songs
  BY <1>1 DEF EInv, EngineShape
<1>4. /\ seed \in Hydrations(job.song)
      /\ running \subseteq Enabled(W) /\ DOMAIN said \subseteq Enabled(W)
      /\ said \in [DOMAIN said -> Seq(Candidate)]
      /\ Summed(merge, said, W, seed.track, Proposals)
  BY <1>1 DEF EInv, Picking
<1>5. running \cap DOMAIN said = {}
  BY DEF EInv, EngineShape, EngineTypeOK
<1>6. b \in Enabled(W) /\ b \in Buckets /\ b \notin DOMAIN said
  BY <1>4, <1>5 DEF Enabled
<1>7. cands \in Seq(Candidate)
  <2>1. CASE cands = <<>>
    BY <2>1
  <2>2. CASE cands \in AnswersTo[b][seed]
    <3> DEFINE cs == Seq(Candidate)
    <3> HIDE DEF cs
    <3>1. cands \in cs
      BY <1>3, <1>4, <1>6, <2>2, AnswersToTyped DEF cs
    <3> QED
      BY <3>1 DEF cs
  <2> QED
    BY <2>1, <2>2
<1>8. BucketWeight(b, W) \in Nat
  BY <1>3, <1>6, WeightType
<1>9. DOMAIN said' = DOMAIN said \cup {b} /\ said'[b] = cands /\ \A x \in DOMAIN said : said'[x] = said[x]
  BY <1>2, <1>6
<1>10. Proposals' = Proposals \cup ({b} \X DOMAIN cands)
  BY <1>6, <1>9 DEF Proposals
<1>11. \A x \in Proposals : x[1] \in DOMAIN said
  BY DEF Proposals
<1>12. Summed(merge, said', W, seed.track, Proposals)
  <2>1. \A x \in Proposals : said'[x[1]] = said[x[1]]
    BY <1>9, <1>11
  <2>2. \A t : NamedIn(said', Proposals, t) = NamedIn(said, Proposals, t)
    BY <2>1 DEF NamedIn
  <2>3. ASSUME NEW t
        PROVE  TrackSummed(merge, said, W, Proposals, t) => TrackSummed(merge, said', W, Proposals, t)
    <3> DEFINE X == NamedIn(said, Proposals, t)
    <3>1. \A x \in X : said'[x[1]][x[2]] = said[x[1]][x[2]]
      BY <2>1 DEF NamedIn
    <3>2. PointPairs(said', W, X) = PointPairs(said, W, X)
      <4>1. \A x \in X : Worth(said', W, x) = Worth(said, W, x)
        BY <3>1 DEF Worth
      <4> HIDE DEF X
      <4> QED
        BY <4>1 DEF PointPairs
    <3>3. {said'[x[1]][x[2]].release : x \in X} = {said[x[1]][x[2]].release : x \in X}
      <4> HIDE DEF X
      <4> QED
        BY <3>1
    <3>4. NamedIn(said', Proposals, t) = X
      BY <2>2
    <3> HIDE DEF X
    <3> QED
      BY <3>1, <3>2, <3>3, <3>4 DEF TrackSummed, X
  <2> QED
    BY <1>4, <2>2, <2>3 DEF Summed
<1>13. Summed(merge', said', W, seed.track, Proposals')
  <2>1. \A x \in Proposals : x[1] # b
    BY <1>6, <1>11
  <2>2. Summed(MergeInto(merge, BucketWeight(b, W), seed, said'[b]), said', W, seed.track,
               Proposals \cup ({b} \X DOMAIN said'[b]))
    BY <1>7, <1>8, <1>9, <1>12, <2>1, MergeIntoSums
  <2> QED
    BY <1>2, <1>9, <1>10, <2>2
<1>14. said' \in [DOMAIN said' -> Seq(Candidate)]
  BY <1>2, <1>4, <1>7, <1>9
<1>15. running' \cap DOMAIN said' = {}
  BY <1>2, <1>5, <1>9
<1>16. DOMAIN merge' \subseteq Tracks \ {seed.track}
  BY <1>13 DEF Summed
<1>17. seen = {} /\ pool = {} /\ kept = {}
  BY <1>0, <1>1 DEF EInv, Fresh
<1>18. EngineTypeOK'
  BY <1>1, <1>15, <1>16, <1>17 DEF EInv, EngineShape, EngineTypeOK, songVars, settings, sieve
<1>19. Picking'
  BY <1>1, <1>2, <1>4, <1>6, <1>9, <1>13, <1>14 DEF Picking
<1>20. Fresh'
  BY <1>1, <1>17 DEF Fresh, sieve
<1> QED
  BY <1>1, <1>18, <1>19, <1>20 DEF EInv, EngineShape, settings, sieve

\* The merge is looked up in the queue, then the pins are read.
LEMMA QueueAndPinsTyped ==
  ASSUME EInv, CheckEntry \/ ReadPins
  PROVE  EInv'
<1>1. /\ at = "fanout" /\ running = {} /\ at' \in {"fanout", "filter"}
      /\ UNCHANGED <<songVars, seeds, settings, lastErr, stub, intents, job, seed, running,
                     merge, said, kept, picked, http, graph>>
  BY DEF CheckEntry, ReadPins, Deduped
<1>2. seen' \subseteq DOMAIN merge /\ pool \subseteq pool' /\ pool' \subseteq DOMAIN merge
  BY DEF CheckEntry, ReadPins, EInv, EngineShape, EngineTypeOK
<1>3. lost' \in [pins : BOOLEAN, entry : SUBSET Tracks, genres : SUBSET Tracks]
  <2>1. lost \in [pins : BOOLEAN, entry : SUBSET Tracks, genres : SUBSET Tracks]
    BY DEF EInv, EngineShape
  <2>2. CASE CheckEntry
    <3>1. PICK t \in DOMAIN merge \ seen, failed \in BOOLEAN :
            lost' = IF failed THEN [lost EXCEPT !.entry = @ \cup {t}] ELSE lost
      BY <2>2 DEF CheckEntry
    <3>2. t \in Tracks
      BY DEF EInv, EngineShape, EngineTypeOK
    <3> QED
      BY <2>1, <3>1, <3>2
  <2>3. CASE ReadPins
    <3>1. lost' = [lost EXCEPT !.pins = pinned' # pins[job.user]]
      BY <2>3 DEF ReadPins
    <3> QED
      BY <2>1, <3>1
  <2> QED
    BY <2>2, <2>3
<1>4. EngineTypeOK'
  BY <1>1, <1>2 DEF EInv, EngineShape, EngineTypeOK, songVars, settings
<1>5. Fresh'
  BY <1>1 DEF EInv, Fresh
<1>6. Picking'
  BY <1>1 DEF EInv, Picking, Proposals
<1> QED
  BY <1>1, <1>3, <1>4, <1>5, <1>6 DEF EInv, EngineShape, settings

\* Discogs is asked for the genres of a survivor.
LEMMA GenresForTyped ==
  ASSUME EInv, GenresFor
  PROVE  EInv'
<1>1. /\ at = "filter" /\ at' = "filter"
      /\ UNCHANGED <<songVars, seeds, settings, lastErr, stub, intents, job, seed, running,
                     merge, said, pool, picked, http, graph>>
  BY DEF GenresFor
<1>2. PICK t \in pool \ seen, failed \in BOOLEAN :
        /\ seen' = seen \cup {t} /\ kept' \in {kept, kept \cup {t}}
        /\ lost' = IF failed THEN [lost EXCEPT !.genres = @ \cup {t}] ELSE lost
  BY DEF GenresFor
<1>3. t \in Tracks /\ t \in DOMAIN merge
  BY DEF EInv, EngineShape, EngineTypeOK
<1>4. lost' \in [pins : BOOLEAN, entry : SUBSET Tracks, genres : SUBSET Tracks]
  BY <1>2, <1>3 DEF EInv, EngineShape
<1>5. EngineTypeOK'
  BY <1>1, <1>2, <1>3 DEF EInv, EngineShape, EngineTypeOK, songVars, settings
<1>6. Fresh' /\ Picking'
  BY <1>1 DEF EInv, Fresh, Picking, Proposals
<1> QED
  BY <1>1, <1>4, <1>5, <1>6 DEF EInv, EngineShape, settings

\* A track of what is left is chosen.
LEMMA ChooseTyped ==
  ASSUME EInv, Choose
  PROVE  EInv'
<1>1. /\ at = "filter" /\ at' = "publish"
      /\ seen' = {} /\ pool' = {} /\ kept' = {}
      /\ UNCHANGED <<songVars, seeds, settings, stub, intents, job, seed, running, merge, said,
                     lost, http, graph>>
  BY DEF Choose
<1>2. picked' \in DOMAIN merge
  BY DEF Choose, Window, EInv, EngineShape, EngineTypeOK
<1>3. lastErr' \in [Users -> Songs \cup {None}]
  BY DEF Choose, EInv, EngineShape, EngineTypeOK
<1>4. EngineTypeOK'
  BY <1>1, <1>2, <1>3 DEF EInv, EngineShape, EngineTypeOK, songVars, settings
<1>5. Fresh' /\ Picking'
  BY <1>1 DEF EInv, Fresh, Picking, Proposals
<1> QED
  BY <1>1, <1>4, <1>5 DEF EInv, EngineShape, settings

\* A pick that ends requests a track of the merge.
LEMMA PublishTyped ==
  ASSUME EInv, PublishRequest
  PROVE  EInv'
<1>1. /\ at = "publish" /\ Rest
      /\ UNCHANGED <<songs, entries, seeds, settings, lastErr, intents, http>>
  BY DEF PublishRequest
<1>2. picked \in Tracks /\ job.user \in Users
  BY <1>1, JobTyped DEF EInv, EngineShape, EngineTypeOK
<1>3. asked' \subseteq Users \X Tracks
  BY <1>2 DEF PublishRequest, EInv, EngineShape, EngineTypeOK
<1>4. lastErr' \in [Users -> Songs \cup {None}] /\ stub' = [stub EXCEPT ![job.stub] = "requested"]
  BY <1>1 DEF PublishRequest, EInv, EngineShape, EngineTypeOK
<1> QED
  BY <1>1, <1>3, <1>4, PickEnds

\* Every step keeps the invariant.
LEMMA NextEInv == EInv /\ [EngineNext]_engineVars => EInv'
<1> SUFFICES ASSUME EInv, [EngineNext]_engineVars PROVE EInv'
  OBVIOUS
<1>1. CASE NoCandidates
  BY <1>1, FailTyped DEF NoCandidates, Deduped
<1> QED
  BY <1>1, SeedHandlers, SettingHandlers, SurroundingsStep, TakeIntentTyped, ReadSeedTyped,
     FanOutTyped, BucketReturnsTyped, QueueAndPinsTyped, GenresForTyped, ChooseTyped, PublishTyped
     DEF EngineNext, Worker

\* EInv holds in every reachable state of the engine: settings, channel and
\* intent have their shapes, and the merge adds up to what the buckets that have
\* answered proposed (similarity/engine.go:99-187).
THEOREM EngineInvariance == EngineSpec => []EInv
BY InitEInv, NextEInv, PTL DEF EngineSpec

\* The engine's states have their types: stored weights are not negative, the
\* graph limit is within its bound, seeds are songs that exist, no bucket answers
\* twice, and the merge never holds the seed (repo.go, engine.go).
THEOREM EngineTyped == EngineSpec => []EngineTypeOK
<1>1. EInv => EngineTypeOK
  BY DEF EInv, EngineShape
<1> QED
  BY <1>1, EngineInvariance, PTL

\* When all buckets are done, in whatever order they came and whichever of them
\* failed, the merge is the sum of what the others proposed (engine.go:117-187).
THEOREM MergeAddsUp == EngineSpec => []MergeIsSum
<1>1. EInv => MergeIsSum
  <2> SUFFICES ASSUME EInv, at \in {"fanout", "filter", "publish"} PROVE MergeIsSum
    BY DEF MergeIsSum
  <2>1. Summed(merge, said, job.weights, seed.track, Proposals)
    BY DEF EInv, Picking
  <2>2. \A t : Naming(t) = NamedIn(said, Proposals, t)
    BY DEF Naming, NamedIn
  <2>3. \A t : UNION {{x} \X (1..Points(x)) : x \in Naming(t)} = PointPairs(said, job.weights, NamedIn(said, Proposals, t))
    BY <2>2 DEF PointPairs, Points, Worth
  <2>4. DOMAIN merge = {t \in Tracks \ {seed.track} : Naming(t) # {}}
    BY <2>1, <2>2 DEF Summed
  <2>5. ASSUME NEW t \in DOMAIN merge
        PROVE  /\ merge[t].score = Cardinality(UNION {{x} \X (1..Points(x)) : x \in Naming(t)})
               /\ merge[t].release \in {said[x[1]][x[2]].release : x \in Naming(t)}
               /\ merge[t].release = 0 => \A x \in Naming(t) : said[x[1]][x[2]].release = 0
    <3>1. TrackSummed(merge, said, job.weights, Proposals, t)
      BY <2>1 DEF Summed
    <3> QED
      BY <2>2, <2>3, <3>1 DEF TrackSummed
  <2> QED
    BY <2>4, <2>5 DEF MergeIsSum
<1> QED
  BY <1>1, EngineInvariance, PTL

-----------------------------------------------------------------------------
(* The reads of a pick.                                                    *)

\* While the queue is read: the pins and the queue of now are among those of
\* the reading, and each candidate was sorted by what was read of it.
Reading ==
  at = "fanout" /\ running = {} =>
    /\ pins[job.user] \in during.pins
    /\ {t \in Tracks : <<job.user, t>> \in entries} \subseteq during.taken
    /\ {t \in Tracks : <<job.user, t>> \notin entries} \subseteq during.free
    /\ pool \subseteq during.free \cup lost.entry
    /\ seen \ pool \subseteq during.taken

\* While Discogs is asked: what was read stays true of the reading, however
\* long ago it was, and each survivor was sorted by its genres.
Filtering ==
  at = "filter" =>
    /\ pinned \in MaybePins
    /\ pool \subseteq during.free \cup lost.entry
    /\ DOMAIN merge \ during.taken \subseteq pool
    /\ \A t \in kept : /\ pinned # {}
                       /\ merge[t].release = 0 \/ GenresOf(merge[t].release) \cap pinned # {}
    /\ \A t \in seen \ kept : /\ merge[t].release # 0
                              /\ \/ t \in lost.genres
                                 \/ GenresOf(merge[t].release) \cap pinned = {}

\* What is about to be requested is justified.
Chosen == at = "publish" => Justified(picked)

\* The strengthening of the property: the sorting a pick has done so far.
Sifted == Reading /\ Filtering /\ Chosen

\* Who rivals whom depends on the merge and on what was read.
LEMMA RivalsStay ==
  ASSUME UNCHANGED <<merge, lost, during>>
  PROVE  MaybePins' = MaybePins /\ \A P : Rivals(P)' = Rivals(P)
BY DEF MaybePins, Rivals

\* A handler or the queue may change what the worker reads; the history keeps
\* the moment.
LEMMA OthersWhileSifting ==
  ASSUME Sifted, Record, UNCHANGED pickVars
  PROVE  Sifted'
<1> USE DEF pickVars, sieve
<1>1. Reading'
  <2> SUFFICES ASSUME at = "fanout", running = {} PROVE Reading'
    BY DEF Reading
  <2> DEFINE u == job.user
             taken == {t \in Tracks : <<u, t>> \in entries'}
  <2>1. during' = [pins |-> during.pins \cup {pins'[u]}, taken |-> during.taken \cup taken,
                   free |-> during.free \cup (Tracks \ taken)]
    BY DEF Record
  <2>2. /\ pins'[u] \in during'.pins
        /\ during.free \subseteq during'.free /\ during.taken \subseteq during'.taken
        /\ taken \subseteq during'.taken /\ Tracks \ taken \subseteq during'.free
    BY <2>1
  <2>3. pool \subseteq during.free \cup lost.entry /\ seen \ pool \subseteq during.taken
    BY DEF Sifted, Reading
  <2>4. UNCHANGED <<job, seen, pool, lost>>
    OBVIOUS
  <2> QED
    BY <2>2, <2>3, <2>4 DEF Reading
<1>2. CASE ~(at = "fanout" /\ running = {})
  <2>1. during' = during
    BY <1>2 DEF Record
  <2>2. Filtering'
    BY <2>1 DEF Sifted, Filtering, MaybePins
  <2>3. Chosen'
    BY <2>1, RivalsStay DEF Sifted, Chosen, Justified
  <2> QED
    BY <1>1, <2>2, <2>3 DEF Sifted
<1>3. CASE at = "fanout"
  BY <1>1, <1>3 DEF Sifted, Filtering, Chosen
<1> QED
  BY <1>2, <1>3

\* Steps that touch neither the pick nor what it reads.
LEMMA NothingSifted ==
  ASSUME Sifted, UNCHANGED <<pins, entries, job, at, seed, running, merge, said, sieve, during>>
  PROVE  Sifted'
<1> USE DEF sieve
<1>1. Reading'
  BY DEF Sifted, Reading
<1>2. Filtering'
  BY DEF Sifted, Filtering, MaybePins
<1>3. Chosen'
  BY RivalsStay DEF Sifted, Chosen, Justified
<1> QED
  BY <1>1, <1>2, <1>3 DEF Sifted

\* The last bucket answers, or none is enabled: the reading begins.
LEMMA ReadingBegins ==
  ASSUME EInv, FanOut \/ BucketReturns
  PROVE  Sifted'
<1>1. at' = "fanout" /\ Record /\ job'.user = job.user /\ seen' = {} /\ pool' = {}
  <2>1. at = "weigh" \/ (at = "fanout" /\ running # {})
    BY DEF FanOut, BucketReturns
  <2>2. seen = {} /\ pool = {}
    BY <2>1 DEF EInv, Fresh
  <2>3. CASE FanOut
    <3>1. PICK w : job' = [stub |-> job.stub, user |-> job.user, song |-> job.song, weights |-> w]
      BY <2>3 DEF FanOut
    <3> QED
      BY <2>2, <2>3, <3>1 DEF FanOut, sieve
  <2>4. CASE BucketReturns
    BY <2>2, <2>4 DEF BucketReturns, sieve
  <2> QED
    BY <2>3, <2>4
<1>2. Reading'
  <2> SUFFICES ASSUME running' = {} PROVE Reading'
    BY DEF Reading
  <2> DEFINE u == job'.user
             taken == {t \in Tracks : <<u, t>> \in entries'}
  <2>1. during' = [pins |-> during.pins \cup {pins'[u]}, taken |-> during.taken \cup taken,
                   free |-> during.free \cup (Tracks \ taken)]
    BY <1>1 DEF Record
  <2>2. /\ pins'[u] \in during'.pins
        /\ taken \subseteq during'.taken /\ Tracks \ taken \subseteq during'.free
    BY <2>1
  <2> QED
    BY <1>1, <2>2 DEF Reading
<1> QED
  BY <1>1, <1>2 DEF Sifted, Filtering, Chosen

\* A candidate in the queue was taken at that moment, one that is not was free.
LEMMA CheckEntrySifts ==
  ASSUME EInv, Sifted, CheckEntry
  PROVE  Sifted'
<1>1. /\ at = "fanout" /\ at' = "fanout" /\ running = {} /\ running' = {}
      /\ UNCHANGED <<songVars, settings, job, during>>
  BY DEF CheckEntry
<1>2. PICK t \in DOMAIN merge \ seen, failed \in BOOLEAN :
        /\ failed => HasEntry(job.user, t)
        /\ seen' = seen \cup {t}
        /\ pool' = IF HasEntry(job.user, t) /\ ~failed THEN pool ELSE pool \cup {t}
        /\ lost' = IF failed THEN [lost EXCEPT !.entry = @ \cup {t}] ELSE lost
  BY DEF CheckEntry
<1>3. t \in Tracks /\ lost \in [pins : BOOLEAN, entry : SUBSET Tracks, genres : SUBSET Tracks]
  BY DEF EInv, EngineShape, EngineTypeOK
<1>4. /\ pool \subseteq during.free \cup lost.entry /\ seen \ pool \subseteq during.taken
      /\ HasEntry(job.user, t) => t \in during.taken
      /\ ~HasEntry(job.user, t) => t \in during.free
  BY <1>1, <1>3 DEF Sifted, Reading, HasEntry
<1>5. lost.entry \subseteq lost'.entry /\ (failed => t \in lost'.entry)
  BY <1>2, <1>3
<1>6. pool' \subseteq during.free \cup lost'.entry /\ seen' \ pool' \subseteq during.taken
  BY <1>2, <1>4, <1>5
<1> QED
  BY <1>1, <1>6 DEF Sifted, Reading, Filtering, Chosen, songVars, settings

\* The pins are those of that moment, or not known.
LEMMA ReadPinsSifts ==
  ASSUME EInv, Sifted, ReadPins
  PROVE  Sifted'
<1>1. /\ at = "fanout" /\ running = {} /\ seen = DOMAIN merge
      /\ at' = "filter" /\ seen' = {} /\ pinned' \in {pins[job.user], {}}
      /\ lost' = [lost EXCEPT !.pins = pinned' # pins[job.user]]
      /\ UNCHANGED <<merge, pool, kept, during>>
  BY DEF ReadPins, Deduped
<1>2. lost \in [pins : BOOLEAN, entry : SUBSET Tracks, genres : SUBSET Tracks] /\ kept = {}
  BY <1>1 DEF EInv, EngineShape, Fresh
<1>3. lost'.entry = lost.entry /\ lost'.pins = (pinned' # pins[job.user])
  BY <1>1, <1>2
<1>4. pins[job.user] \in during.pins /\ seen \ pool \subseteq during.taken
      /\ pool \subseteq during.free \cup lost.entry
  BY <1>1 DEF Sifted, Reading
<1>5. pinned' \in MaybePins'
  BY <1>1, <1>3, <1>4 DEF MaybePins
<1> QED
  BY <1>1, <1>2, <1>3, <1>4, <1>5 DEF Sifted, Reading, Filtering, Chosen

\* A survivor passes by its genres, or is dropped for them or for a lookup
\* that failed.
LEMMA GenresForSifts ==
  ASSUME EInv, Sifted, GenresFor
  PROVE  Sifted'
<1>1. /\ at = "filter" /\ at' = "filter" /\ pinned # {}
      /\ UNCHANGED <<merge, pool, pinned, during>>
  BY DEF GenresFor
<1>2. PICK t \in pool \ seen, failed \in BOOLEAN :
        /\ failed => merge[t].release # 0
        /\ seen' = seen \cup {t}
        /\ kept' = IF Passes(merge[t], pinned, failed) THEN kept \cup {t} ELSE kept
        /\ lost' = IF failed THEN [lost EXCEPT !.genres = @ \cup {t}] ELSE lost
  BY DEF GenresFor
<1>3. lost \in [pins : BOOLEAN, entry : SUBSET Tracks, genres : SUBSET Tracks]
  BY DEF EInv, EngineShape
<1>4. /\ lost'.pins = lost.pins /\ lost'.entry = lost.entry
      /\ lost.genres \subseteq lost'.genres /\ (failed => t \in lost'.genres)
  BY <1>2, <1>3
<1>5. MaybePins' = MaybePins
  BY <1>1, <1>4 DEF MaybePins
<1>6. ASSUME NEW x \in kept'
      PROVE  merge[x].release = 0 \/ GenresOf(merge[x].release) \cap pinned # {}
  BY <1>1, <1>2, <1>6 DEF Passes, Sifted, Filtering
<1>7. ASSUME NEW x \in seen' \ kept'
      PROVE  /\ merge[x].release # 0
             /\ x \in lost'.genres \/ GenresOf(merge[x].release) \cap pinned = {}
  <2>1. CASE x = t
    BY <1>2, <1>4, <1>7, <2>1 DEF Passes
  <2>2. CASE x # t
    BY <1>1, <1>2, <1>4, <1>7, <2>2 DEF Sifted, Filtering
  <2> QED
    BY <2>1, <2>2
<1>8. Filtering'
  BY <1>1, <1>4, <1>5, <1>6, <1>7 DEF Sifted, Filtering
<1> QED
  BY <1>1, <1>8 DEF Sifted, Reading, Chosen

\* What is chosen is justified by what was read.
LEMMA ChoiceIsJustified ==
  ASSUME EInv, Sifted, Choose
  PROVE  Justified(picked')
<1> DEFINE t == picked'
           S == IF kept = {} THEN pool ELSE kept
           R == Rivals(pinned)
<1>1. at = "filter" /\ (pinned = {} \/ seen = pool) /\ t \in Window(S, merge)
  BY DEF Choose
<1>2. kept \subseteq pool /\ pool \subseteq DOMAIN merge
  BY DEF EInv, EngineShape, EngineTypeOK
<1>3. t \in S /\ t \in pool /\ t \in DOMAIN merge
  BY <1>1, <1>2 DEF Window
<1>4. /\ Summed(merge, said, job.weights, seed.track, Proposals)
      /\ DOMAIN said \subseteq Enabled(job.weights)
  BY <1>1 DEF EInv, Picking
<1>5. /\ pinned \in MaybePins
      /\ pool \subseteq during.free \cup lost.entry
      /\ DOMAIN merge \ during.taken \subseteq pool
      /\ \A x \in kept : /\ pinned # {}
                         /\ merge[x].release = 0 \/ GenresOf(merge[x].release) \cap pinned # {}
      /\ \A x \in seen \ kept : /\ merge[x].release # 0
                                /\ \/ x \in lost.genres
                                   \/ GenresOf(merge[x].release) \cap pinned = {}
  BY <1>1 DEF Sifted, Filtering
<1>6. t # seed.track
  BY <1>3, <1>4 DEF Summed
<1>7. \E b \in DOMAIN said :
        /\ BucketWeight(b, job.weights) > 0
        /\ \E i \in DOMAIN said[b] : said[b][i].track = t
  <2>1. NamedIn(said, Proposals, t) # {}
    BY <1>3, <1>4 DEF Summed
  <2>2. PICK x \in Proposals : said[x[1]][x[2]].track = t
    BY <2>1 DEF NamedIn
  <2>3. x[1] \in DOMAIN said /\ x[2] \in DOMAIN said[x[1]]
    BY DEF Proposals
  <2>4. BucketWeight(x[1], job.weights) > 0
    BY <1>4, <2>3 DEF Enabled
  <2> QED
    BY <2>2, <2>3, <2>4
<1>8. R \subseteq S
  <2> SUFFICES ASSUME NEW u \in R PROVE u \in S
    OBVIOUS
  <2>1. u \in pool
    BY <1>5 DEF Rivals
  <2>2. ASSUME kept # {}
        PROVE  u \in kept
    BY <1>1, <1>5, <2>1, <2>2 DEF Rivals
  <2> QED
    BY <2>1, <2>2
<1>9. Cardinality({u \in R : merge[u].score > merge[t].score}) < TopK
  <2> DEFINE above == {u \in R : merge[u].score > merge[t].score}
             before == {u \in S : RanksBefore(u, t, merge)}
  <2>1. Cardinality(before) < TopK
    BY <1>1 DEF Window
  <2>2. above \subseteq before
    BY <1>8 DEF RanksBefore
  <2>3. before \subseteq DOMAIN merge
    BY <1>2
  <2>4. IsFiniteSet(DOMAIN merge)
    BY <1>4 DEF Summed
  <2> HIDE DEF above, before
  <2>5. IsFiniteSet(before)
    BY <2>3, <2>4, FS_Subset
  <2>6. IsFiniteSet(above) /\ Cardinality(above) <= Cardinality(before)
    BY <2>2, <2>5, FS_Subset
  <2>7. Cardinality(above) \in Nat /\ Cardinality(before) \in Nat /\ TopK \in Nat
    BY <2>5, <2>6, FS_CardinalityType, RankingAssumption
  <2>8. Cardinality(above) < TopK
    BY <2>1, <2>6, <2>7
  <2> QED
    BY <2>8 DEF above
<1>10. ASSUME pinned # {}, merge[t].release # 0, GenresOf(merge[t].release) \cap pinned = {}
       PROVE  R = {}
  <2>1. t \notin kept
    BY <1>5, <1>10
  <2>2. kept = {} /\ seen = pool
    BY <1>1, <1>3, <1>10, <2>1
  <2> QED
    BY <1>5, <1>10, <2>2 DEF Rivals
<1> HIDE DEF t, R
<1>11. \E P \in MaybePins :
         /\ Cardinality({u \in Rivals(P) : merge[u].score > merge[t].score}) < TopK
         /\ P # {} /\ merge[t].release # 0 /\ GenresOf(merge[t].release) \cap P = {}
              => Rivals(P) = {}
  BY <1>5, <1>9, <1>10 DEF R
<1>12. t \in during.free \cup lost.entry
  BY <1>3, <1>5
<1> QED
  BY <1>6, <1>7, <1>11, <1>12 DEF Justified, t

\* Every step of the engine keeps the sorting sound.
LEMMA NextSifted == EInv /\ Sifted /\ [EngineNext]_engineVars => Sifted'
<1> SUFFICES ASSUME EInv, Sifted, [EngineNext]_engineVars PROVE Sifted'
  OBVIOUS
<1>1. CASE (\E u \in Users : PutPreferences(u)) \/ QueueAdds \/ QueueDrops
  BY <1>1, OthersWhileSifting DEF PutPreferences, QueueAdds, QueueDrops
<1>2. ASSUME NEW u \in Users,
             \/ Set(u) \/ AddSeed(u) \/ RemoveSeed(u) \/ ClearLastError(u) \/ Reply(u)
             \/ PutWeights(u) \/ PutGraphSettings(u) \/ Graph(u)
      PROVE  Sifted'
  <2>1. UNCHANGED <<pins, entries, job, at, seed, running, merge, said, sieve, during>>
    BY <1>2 DEF Set, AddSeed, RemoveSeed, WroteSeeds, ClearLastError, Reply, PutWeights,
                PutGraphSettings, Graph, songVars, settings, workerVars, pickVars
  <2> QED
    BY <2>1, NothingSifted
<1>3. ASSUME \/ \E s \in Songs : DeleteSong(s)
             \/ \E u \in Users : Refill(u)
             \/ UNCHANGED engineVars
      PROVE  Sifted'
  <2>1. UNCHANGED <<pins, entries, job, at, seed, running, merge, said, sieve, during>>
    BY <1>3 DEF DeleteSong, Refill, engineVars, songVars, settings, workerVars, pickVars
  <2> QED
    BY <2>1, NothingSifted
<1>4. CASE TakeIntent \/ ReadSeed \/ NoCandidates \/ PublishRequest
  <2>1. at' \in {"idle", "read", "weigh"}
    BY <1>4 DEF TakeIntent, ReadSeed, NoCandidates, PublishRequest, Fail, Rest
  <2> QED
    BY <2>1 DEF Sifted, Reading, Filtering, Chosen
<1>5. CASE Choose
  <2>1. Justified(picked')
    BY <1>5, ChoiceIsJustified
  <2>2. at' = "publish" /\ UNCHANGED <<job, seed, merge, said, lost, during>>
    BY <1>5 DEF Choose
  <2>3. PICK P \in MaybePins :
          /\ Cardinality({u \in Rivals(P) : merge[u].score > merge[picked'].score}) < TopK
          /\ P # {} /\ merge[picked'].release # 0 /\ GenresOf(merge[picked'].release) \cap P = {}
               => Rivals(P) = {}
    BY <2>1 DEF Justified
  <2>4. MaybePins' = MaybePins /\ Rivals(P)' = Rivals(P)
    BY <2>2, RivalsStay
  <2>5. Cardinality({u \in Rivals(P)' : merge'[u].score > merge'[picked'].score}) < TopK
    BY <2>2, <2>3, <2>4
  <2>6. Chosen'
    BY <2>1, <2>2, <2>3, <2>4, <2>5 DEF Chosen, Justified
  <2> QED
    BY <2>2, <2>6 DEF Sifted, Reading, Filtering
<1> QED
  BY <1>1, <1>2, <1>3, <1>4, <1>5, ReadingBegins, CheckEntrySifts, ReadPinsSifts,
     GenresForSifts DEF EngineNext, Worker

\* A request is justified, whatever the user stores, queues or drops while the
\* worker reads the queue and the pins and waits for Discogs: by the merge, and
\* by pins and a queue that were the user's while it read them
\* (engine.go:99-235, service.go:227-267).
THEOREM EveryPickJustified == EngineSpec => PickJustified
<1>1. EngineInit => Sifted
  BY DEF EngineInit, Sifted, Reading, Filtering, Chosen
<1>2. EInv /\ Sifted /\ [EngineNext]_engineVars
        => [\A r \in asked' \ asked : r[1] = job.user /\ Justified(r[2])]_engineVars
  <2> SUFFICES ASSUME Sifted, EngineNext, NEW r \in asked' \ asked
               PROVE  r[1] = job.user /\ Justified(r[2])
    OBVIOUS
  <2>1. CASE PublishRequest
    <3>1. Justified(picked)
      BY <2>1 DEF PublishRequest, Sifted, Chosen
    <3>2. r[1] = job.user /\ r[2] = picked
      BY <2>1 DEF PublishRequest
    <3> QED
      BY <3>1, <3>2
  <2>2. CASE ~PublishRequest
    <3>1. asked' \subseteq asked
      BY <2>2 DEF EngineNext, Worker, Set, AddSeed, RemoveSeed, WroteSeeds, ClearLastError, Reply,
                  PutWeights, PutGraphSettings, PutPreferences, Graph, Refill, DeleteSong,
                  QueueAdds, QueueDrops, TakeIntent, ReadSeed, FanOut, BucketReturns, CheckEntry,
                  NoCandidates, ReadPins, GenresFor, Choose, songVars
    <3> QED
      BY <3>1
  <2> QED
    BY <2>1, <2>2
<1> QED
  BY <1>1, <1>2, NextSifted, EngineInvariance, PTL DEF EngineSpec, PickJustified

-----------------------------------------------------------------------------
(* The graph.                                                              *)

\* The shares of the two buckets are theirs to give, fill the graph as far as
\* it goes, and each has its half or all the bucket has.
LEMMA SharesAdd ==
  ASSUME NEW L \in Nat, NEW C \in Nat, NEW lim \in Nat
  PROVE  LET share == Shares(L, C, lim)
         IN /\ share.label \in 0..L /\ share.collab \in 0..C
            /\ share.label + share.collab = SmallerOf(lim, L + C)
            /\ share.label >= SmallerOf(L, lim \div 2)
            /\ share.collab >= SmallerOf(C, lim - lim \div 2)
<1> DEFINE half == lim \div 2
<1>1. half \in 0..lim
  OBVIOUS
<1> HIDE DEF half
<1>2. LET l == SmallerOf(L, lim - SmallerOf(lim - half, C))
          c == SmallerOf(C, lim - l)
      IN /\ l \in 0..L /\ c \in 0..C /\ l + c = SmallerOf(lim, L + C)
         /\ l >= SmallerOf(L, half) /\ c >= SmallerOf(C, lim - half)
  BY <1>1 DEF SmallerOf
<1> QED
  BY <1>2 DEF Shares, half

\* Where the elements of the two parts end up, and that there is nothing else.
Spread(e, a, b, l, c) ==
  LET n == SmallerOf(l, c)
  IN /\ DOMAIN e = 1..l + c /\ Len(e) = l + c
     /\ \A j \in 1..l : e[IF j <= n THEN 2 * j - 1 ELSE j + n] = a[j]
     /\ \A j \in 1..c : e[IF j <= n THEN 2 * j ELSE j + n] = b[j]
     /\ \A i \in 1..l + c : (\E j \in 1..l : e[i] = a[j]) \/ (\E j \in 1..c : e[i] = b[j])

\* Round robin spreads the two parts.
LEMMA RoundRobinPlaces ==
  ASSUME NEW l \in Nat, NEW c \in Nat, NEW a, NEW b, Len(a) = l, Len(b) = c
  PROVE  Spread(RoundRobin(a, b), a, b, l, c)
<1> DEFINE n == SmallerOf(l, c)
           e == RoundRobin(a, b)
           rest == IF l > n THEN a ELSE b
<1>1. n \in Nat /\ n <= l /\ n <= c /\ (n = l \/ n = c)
  BY DEF SmallerOf
<1>2. e = [i \in 1..l + c |-> IF i > 2 * n THEN rest[i - n]
                              ELSE IF i % 2 = 1 THEN a[(i + 1) \div 2] ELSE b[i \div 2]]
  BY DEF RoundRobin
<1>3. DOMAIN e = 1..l + c /\ Len(e) = l + c
  BY <1>2
<1> HIDE DEF e, n
<1>4. ASSUME NEW j \in 1..l
      PROVE  e[IF j <= n THEN 2 * j - 1 ELSE j + n] = a[j]
  <2>1. CASE j <= n
    <3>1. 2 * j - 1 \in 1..l + c /\ ~(2 * j - 1 > 2 * n)
      BY <1>1, <2>1
    <3>2. (2 * j - 1) % 2 = 1 /\ (2 * j - 1 + 1) \div 2 = j
      OBVIOUS
    <3> QED
      BY <1>2, <2>1, <3>1, <3>2
  <2>2. CASE ~(j <= n)
    <3>1. j + n \in 1..l + c /\ j + n > 2 * n /\ l > n /\ j + n - n = j
      BY <1>1, <2>2
    <3>2. rest = a
      BY <3>1
    <3> HIDE DEF rest
    <3>3. e[j + n] = rest[j + n - n]
      BY <1>1, <1>2, <3>1
    <3> QED
      BY <2>2, <3>1, <3>2, <3>3
  <2> QED
    BY <2>1, <2>2
<1>5. ASSUME NEW j \in 1..c
      PROVE  e[IF j <= n THEN 2 * j ELSE j + n] = b[j]
  <2>1. CASE j <= n
    <3>1. 2 * j \in 1..l + c /\ ~(2 * j > 2 * n)
      BY <1>1, <2>1
    <3>2. (2 * j) % 2 # 1 /\ (2 * j) \div 2 = j
      OBVIOUS
    <3> QED
      BY <1>2, <2>1, <3>1, <3>2
  <2>2. CASE ~(j <= n)
    <3>1. j + n \in 1..l + c /\ j + n > 2 * n /\ ~(l > n) /\ j + n - n = j
      BY <1>1, <2>2
    <3>2. rest = b
      BY <3>1
    <3> HIDE DEF rest
    <3>3. e[j + n] = rest[j + n - n]
      BY <1>1, <1>2, <3>1
    <3> QED
      BY <2>2, <3>1, <3>2, <3>3
  <2> QED
    BY <2>1, <2>2
<1>6. ASSUME NEW i \in 1..l + c
      PROVE  (\E j \in 1..l : e[i] = a[j]) \/ (\E j \in 1..c : e[i] = b[j])
  <2>1. CASE i > 2 * n
    <3>1. i - n \in 1..(IF l > n THEN l ELSE c)
      BY <1>1, <2>1
    <3>2. e[i] = rest[i - n]
      BY <1>2, <2>1
    <3> QED
      BY <3>1, <3>2
  <2>2. CASE ~(i > 2 * n) /\ i % 2 = 1
    <3>1. (i + 1) \div 2 \in 1..n
      BY <1>1, <2>2
    <3>2. e[i] = a[(i + 1) \div 2]
      BY <1>2, <2>2
    <3> QED
      BY <1>1, <3>1, <3>2
  <2>3. CASE ~(i > 2 * n) /\ i % 2 # 1
    <3>1. i \div 2 \in 1..n
      BY <1>1, <2>3
    <3>2. e[i] = b[i \div 2]
      BY <1>2, <2>3
    <3> QED
      BY <1>1, <3>1, <3>2
  <2> QED
    BY <2>1, <2>2, <2>3
<1> QED
  BY <1>3, <1>4, <1>5, <1>6 DEF Spread, e, n

\* A set of places that a part is spread over has room for it.
LEMMA PlacesCount ==
  ASSUME NEW l \in Nat, NEW k \in Nat, NEW n \in Nat, NEW I \in SUBSET (1..k),
         NEW d \in {0, 1},
         \A j \in 1..l : (IF j <= n THEN 2 * j - d ELSE j + n) \in I
  PROVE  Cardinality(I) >= l /\ Cardinality(I) \in Nat
<1> DEFINE f == [j \in 1..l |-> IF j <= n THEN 2 * j - d ELSE j + n]
<1>1. IsFiniteSet(I)
  <2>1. IsFiniteSet(1..k)
    BY FS_Interval
  <2> QED
    BY <2>1, FS_Subset
<1>2. f \in [1..l -> I]
  OBVIOUS
<1>3. \A i, j \in 1..l : f[i] = f[j] => i = j
  OBVIOUS
<1>4. f \in Injection(1..l, I)
  <2> HIDE DEF f
  <2> QED
    BY <1>2, <1>3 DEF Injection, IsInjective
<1> HIDE DEF f
<1>5. Cardinality(1..l) <= Cardinality(I)
  BY <1>1, <1>4, FS_Injection
<1> QED
  BY <1>1, <1>5, FS_Interval, FS_CardinalityType

\* What the bucket gives to the graph: its first k candidates, in their order.
LEMMA FirstTagged ==
  ASSUME NEW S, NEW s \in Seq(S), NEW k \in 0..Len(s), NEW bucket
  PROVE  LET a == Tagged(SubSeq(s, 1, k), bucket)
         IN /\ Len(a) = k
            /\ \A j \in 1..k : a[j].bucket = bucket /\ \E c \in S : a[j].source = c.track
<1> DEFINE p == SubSeq(s, 1, k)
<1>1. Len(s) \in Nat /\ DOMAIN s = 1..Len(s) /\ \A j \in 1..Len(s) : s[j] \in S
  BY LenProperties, ElementOfSeq
<1>2. p \in Seq(S) /\ Len(p) = k /\ DOMAIN p = 1..k /\ \A j \in 1..k : p[j] = s[j]
  <2>1. p = [j \in 1..k |-> s[j]]
    BY <1>1
  <2> HIDE DEF p
  <2>2. \A j \in 1..k : p[j] = s[j] /\ s[j] \in S
    BY <1>1, <2>1
  <2> QED
    BY <1>1, <2>1, <2>2
<1> HIDE DEF p
<1>3. Tagged(p, bucket) = [j \in 1..k |-> [source |-> p[j].track, bucket |-> bucket]]
  BY <1>2 DEF Tagged
<1> QED
  BY <1>1, <1>2, <1>3 DEF p

\* The edges of a graph of at most lim neighbours out of S, when the buckets
\* have L and C of them.
ComposedOf(e, S, L, C, lim) ==
  LET count(b) == Cardinality({i \in DOMAIN e : e[i].bucket = b})
  IN /\ Len(e) = SmallerOf(lim, L + C)
     /\ count("same_label_era") >= SmallerOf(L, lim \div 2)
     /\ count("collaborators") >= SmallerOf(C, lim - lim \div 2)
     /\ \A t \in Nodes(e) : \E c \in S : t = c.track

\* Composing two lists of neighbours: nothing is lost while there is room, each
\* bucket keeps its half, and no track comes from elsewhere (graph.go:172-263).
LEMMA ComposeBalances ==
  ASSUME NEW S, NEW label \in Seq(S), NEW collab \in Seq(S), NEW lim \in Nat
  PROVE  ComposedOf(ComposeGraph(label, collab, lim), S, Len(label), Len(collab), lim)
<1> DEFINE L == Len(label)
           C == Len(collab)
           l == Shares(L, C, lim).label
           c == Shares(L, C, lim).collab
           a == Tagged(SubSeq(label, 1, l), "same_label_era")
           b == Tagged(SubSeq(collab, 1, c), "collaborators")
           e == RoundRobin(a, b)
           n == SmallerOf(l, c)
           In(tag) == {i \in DOMAIN e : e[i].bucket = tag}
<1>1. L \in Nat /\ C \in Nat
  BY LenProperties
<1>2. ComposeGraph(label, collab, lim) = e
  BY DEF ComposeGraph
<1>3. /\ l \in 0..L /\ c \in 0..C /\ l + c = SmallerOf(lim, L + C)
      /\ l >= SmallerOf(L, lim \div 2) /\ c >= SmallerOf(C, lim - lim \div 2)
  <2> HIDE DEF L, C
  <2> QED
    BY <1>1, SharesAdd
<1> HIDE DEF l, c
<1>4. /\ Len(a) = l
      /\ \A j \in 1..l : a[j].bucket = "same_label_era" /\ \E x \in S : a[j].source = x.track
  BY <1>3, FirstTagged
<1>5. /\ Len(b) = c
      /\ \A j \in 1..c : b[j].bucket = "collaborators" /\ \E x \in S : b[j].source = x.track
  BY <1>3, FirstTagged
<1>6. l \in Nat /\ c \in Nat /\ n \in Nat /\ l + c \in Nat
  BY <1>1, <1>3 DEF SmallerOf
<1> HIDE DEF a, b
<1>7. /\ DOMAIN e = 1..l + c /\ Len(e) = l + c
      /\ \A j \in 1..l : e[IF j <= n THEN 2 * j - 1 ELSE j + n] = a[j]
      /\ \A j \in 1..c : e[IF j <= n THEN 2 * j ELSE j + n] = b[j]
      /\ \A i \in 1..l + c : (\E j \in 1..l : e[i] = a[j]) \/ (\E j \in 1..c : e[i] = b[j])
  <2>1. l \in Nat /\ c \in Nat /\ Len(a) = l /\ Len(b) = c
    BY <1>4, <1>5, <1>6
  <2>2. Spread(e, a, b, l, c)
    BY <2>1, RoundRobinPlaces, Zenon
  <2> QED
    BY <2>2, Zenon DEF Spread
<1> HIDE DEF e
<1>8. Cardinality(In("same_label_era")) >= l /\ Cardinality(In("same_label_era")) \in Nat
  <2>1. ASSUME NEW j \in 1..l
        PROVE  (IF j <= n THEN 2 * j - 1 ELSE j + n) \in In("same_label_era")
    <3> DEFINE i == IF j <= n THEN 2 * j - 1 ELSE j + n
    <3>1. i \in 1..l + c
      BY <1>6 DEF SmallerOf
    <3> HIDE DEF i
    <3>2. e[i] = a[j]
      BY <1>7 DEF i
    <3>3. i \in In("same_label_era")
      BY <1>4, <1>7, <3>1, <3>2
    <3> QED
      BY <3>3 DEF i
  <2>2. In("same_label_era") \in SUBSET (1..l + c)
    BY <1>7
  <2> HIDE DEF In, n
  <2> QED
    BY <1>6, <2>1, <2>2, PlacesCount
<1>9. Cardinality(In("collaborators")) >= c /\ Cardinality(In("collaborators")) \in Nat
  <2>1. ASSUME NEW j \in 1..c
        PROVE  (IF j <= n THEN 2 * j - 0 ELSE j + n) \in In("collaborators")
    <3> DEFINE i == IF j <= n THEN 2 * j ELSE j + n
    <3>1. i \in 1..l + c
      BY <1>6 DEF SmallerOf
    <3> HIDE DEF i
    <3>2. e[i] = b[j]
      BY <1>7 DEF i
    <3>3. i \in In("collaborators")
      BY <1>5, <1>7, <3>1, <3>2
    <3> QED
      BY <3>3 DEF i
  <2>2. In("collaborators") \in SUBSET (1..l + c)
    BY <1>7
  <2> HIDE DEF In, n
  <2> QED
    BY <1>6, <2>1, <2>2, PlacesCount
<1>10. \A t \in Nodes(e) : \E x \in S : t = x.track
  <2> SUFFICES ASSUME NEW i \in 1..l + c PROVE \E x \in S : e[i].source = x.track
    BY <1>7 DEF Nodes
  <2> HIDE DEF n
  <2>1. (\E j \in 1..l : e[i] = a[j]) \/ (\E j \in 1..c : e[i] = b[j])
    BY <1>7
  <2>2. CASE \E j \in 1..l : e[i] = a[j]
    BY <1>4, <2>2
  <2>3. CASE \E j \in 1..c : e[i] = b[j]
    BY <1>5, <2>3
  <2> QED
    BY <2>1, <2>2, <2>3
<1>11. /\ Cardinality(In("same_label_era")) >= SmallerOf(L, lim \div 2)
       /\ Cardinality(In("collaborators")) >= SmallerOf(C, lim - lim \div 2)
  <2> DEFINE x == Cardinality(In("same_label_era"))
             y == Cardinality(In("collaborators"))
  <2>1. x \in Nat /\ y \in Nat /\ x >= l /\ y >= c
    BY <1>8, <1>9
  <2> HIDE DEF x, y
  <2>2. x >= SmallerOf(L, lim \div 2) /\ y >= SmallerOf(C, lim - lim \div 2)
    BY <1>1, <1>3, <1>6, <2>1 DEF SmallerOf
  <2> QED
    BY <2>2 DEF x, y
<1> QED
  BY <1>2, <1>3, <1>7, <1>10, <1>11 DEF ComposedOf

\* The neighbours of a bucket, registered or not, are candidates.
LEMMA NeighboursTyped ==
  ASSUME NEW s \in Songs, NEW h \in Hydrations(s), NEW b, NEW cands \in Neighbours(b, h)
  PROVE  cands \in Seq(Candidate)
<1>1. CASE b \in Buckets
  BY <1>1, AnswersToTyped DEF Neighbours
<1>2. CASE b \notin Buckets
  BY <1>2 DEF Neighbours
<1> QED
  BY <1>1, <1>2

\* Every graph that ExploreGraph may answer is balanced, also the empty one of
\* a song without a title.
LEMMA ExploredIsBalanced ==
  ASSUME NEW s \in Songs, NEW lim \in Nat, NEW g \in ExploreGraph(s, lim)
  PROVE  g # None => Balanced(g)
<1>1. CASE TrackOf[s] = Nameless
  <2>1. g = [center |-> s, limit |-> lim, label |-> <<>>, collab |-> <<>>, edges |-> <<>>]
    BY <1>1 DEF ExploreGraph
  <2>2. Len(<<>>) = 0 /\ DOMAIN <<>> = {}
    OBVIOUS
  <2>3. lim \div 2 \in Nat /\ lim - lim \div 2 \in Nat
    OBVIOUS
  <2>4. /\ SmallerOf(lim, 0 + 0) = 0
        /\ SmallerOf(0, lim \div 2) = 0 /\ SmallerOf(0, lim - lim \div 2) = 0
    BY <2>3 DEF SmallerOf
  <2>5. /\ {i \in DOMAIN g.edges : g.edges[i].bucket = "same_label_era"} = {}
        /\ {i \in DOMAIN g.edges : g.edges[i].bucket = "collaborators"} = {}
        /\ Nodes(g.edges) = {}
    BY <2>1, <2>2 DEF Nodes
  <2>6. Cardinality({}) = 0
    BY FS_EmptySet
  <2> QED
    BY <2>1, <2>2, <2>4, <2>5, <2>6 DEF Balanced
<1>2. CASE TrackOf[s] # Nameless
  <2> DEFINE Of(h, a, b) ==
               [center |-> s, limit |-> lim, label |-> DropSameArtist(a, h),
                collab |-> DropSameArtist(b, h),
                edges |-> ComposeGraph(DropSameArtist(a, h), DropSameArtist(b, h), lim)]
  <2>0. PICK h \in Hydrations(s) :
          g \in {Of(h, a, b) : a \in Neighbours("same_label_era", h),
                              b \in Neighbours("collaborators", h)}
    BY <1>2 DEF ExploreGraph
  <2>1. PICK a \in Neighbours("same_label_era", h), b \in Neighbours("collaborators", h) :
          g = Of(h, a, b)
    BY <2>0
  <2> DEFINE label == DropSameArtist(a, h)
             collab == DropSameArtist(b, h)
             Others == {c \in Candidate : ArtistOf[c.track] # ArtistOf[h.track]}
  <2>2. a \in Seq(Candidate) /\ b \in Seq(Candidate)
    BY <2>0, <2>1, NeighboursTyped
  <2>3. label \in Seq(Others) /\ collab \in Seq(Others)
    BY <2>2, DropSameArtistDrops
  <2>4. h.track = TrackOf[s]
    BY <2>0, SeedIsFinite
  <2>5. g.center = s /\ g.limit = lim /\ g.label = label /\ g.collab = collab
        /\ g.edges = ComposeGraph(label, collab, lim)
    BY <2>1
  <2> HIDE DEF label, collab
  <2>6. ComposedOf(g.edges, Others, Len(label), Len(collab), lim)
    BY <2>3, <2>5, ComposeBalances, Zenon
  <2>7. \A t \in Nodes(g.edges) : ArtistOf[t] # ArtistOf[TrackOf[s]]
    BY <2>4, <2>6 DEF ComposedOf
  <2> QED
    BY <2>5, <2>6, <2>7 DEF Balanced, ComposedOf
<1> QED
  BY <1>1, <1>2

\* No request for a graph is ever answered with one that wastes room, starves a
\* bucket or shows the centre's artist, whatever limit was stored or asked for
\* and whichever of the two buckets fails or is not registered
\* (graph.go:88-263, handler.go:419-465).
THEOREM GraphsAreBalanced == EngineSpec => []GraphBalanced
<1>1. EngineInit => GraphBalanced
  BY DEF EngineInit, GraphBalanced
<1>2. EInv /\ GraphBalanced /\ [EngineNext]_engineVars => GraphBalanced'
  <2> SUFFICES ASSUME EInv, GraphBalanced, [EngineNext]_engineVars
               PROVE  GraphBalanced'
    OBVIOUS
  <2>1. ASSUME NEW u \in Users, Graph(u)
        PROVE  GraphBalanced'
    <3>1. PICK s \in songs, n \in {x \in LimitChoices : x >= 1} \cup {limit[u]} :
            graph' \in ExploreGraph(s, ClampLimit(n))
      BY <2>1 DEF Graph
    <3>2. s \in Songs /\ n \in Int
      <4>1. songs \subseteq Songs /\ limit \in [Users -> 0..MaxLimit]
        BY DEF EInv, EngineShape, EngineTypeOK
      <4> QED
        BY <4>1, SimilarityAssumption, RankingAssumption
    <3>3. ClampLimit(n) \in Nat
      BY <3>2, RankingAssumption DEF ClampLimit, SmallerOf
    <3>4. graph' # None => Balanced(graph')
      BY <3>1, <3>2, <3>3, ExploredIsBalanced
    <3> QED
      BY <3>4 DEF GraphBalanced
  <2>2. CASE graph' = None
    BY <2>2 DEF GraphBalanced
  <2>3. CASE graph' = graph
    <3>1. Balanced(graph) <=> Balanced(graph')
      BY <2>3
    <3> QED
      BY <2>3, <3>1 DEF GraphBalanced
  <2>4. (\E u \in Users : Graph(u)) \/ graph' = None \/ graph' = graph
    BY DEF EngineNext, Worker, WroteSeeds, Set, AddSeed, RemoveSeed, ClearLastError, Reply,
           PutWeights, PutGraphSettings, PutPreferences, Refill, DeleteSong, QueueAdds,
           QueueDrops, TakeIntent, ReadSeed, FanOut, BucketReturns, CheckEntry, NoCandidates,
           ReadPins, GenresFor, Choose, PublishRequest, engineVars
  <2> QED
    BY <2>1, <2>2, <2>3, <2>4
<1> QED
  BY <1>1, <1>2, EngineInvariance, PTL DEF EngineSpec
=============================================================================
