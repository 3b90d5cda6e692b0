----------------------------- MODULE Downloads ------------------------------
(***************************************************************************)
(* The download service: a pool of workers that take RequestDownloads,     *)
(* probe, walk the ladder of queries under the gate, start a transfer,     *)
(* poll it, and answer with a LoadedSong through the outbox               *)
(* (internal/download/worker.go); and the adapter to the Soulseek client   *)
(* they share (internal/soulseek/native.go), with its one login, its table *)
(* of file names and the files on the disk.                                *)
(*                                                                         *)
(* A search is one step: between its query and its results the worker      *)
(* touches nothing that is shared.                                         *)
(***************************************************************************)
EXTENDS Gate, Sequences

CONSTANTS
  Workers, None,
  Requests,      \* records [song, strategy, catno, artist, title]
  Strict,        \* Config.Gate
  LadderEnough,  \* Config.LadderEnough
  Features,      \* what a run lets happen
  MaxRequests    \* bound: requests taken

ASSUME DownloadsAssumption ==
  /\ None \notin Workers \cup Requests \cup Offers
  /\ IsFiniteSet(Offers)
  /\ Strict \in Limits
  /\ LadderEnough \in Nat \ {0} /\ MaxRequests \in Nat
  /\ Features \subseteq {"netError", "loginError", "timeout", "stop"}
  /\ \A r \in Requests :
       /\ r.strategy \in {"search", "random"}
       /\ r.catno \in BOOLEAN /\ r.artist \in BOOLEAN /\ r.title \in Title

\* buildLadder: a rung is dropped when the request lacks its fields.
Ladder(r) ==
  (IF r.catno THEN <<"catno">> ELSE <<>>)
    \o (IF r.artist /\ r.title # {} THEN <<"artist_title">> ELSE <<>>)
    \o (IF r.title # {} THEN <<"title">> ELSE <<>>)

VARIABLES
  session,   \* of NativeClient: "none", "in" or "failed", set once
  waiting,   \* requests in the pool's channel
  pc,        \* [Workers -> Step]: where each worker is
  job,       \* [Workers -> Requests]: what it works on
  mode,      \* [Workers -> Mode]: the gate of the pass
  rung,      \* [Workers -> 1..3]: the rung of the pass
  best,      \* [Workers -> Candidate]: the candidate carried across rungs
  late,      \* [Workers -> BOOLEAN]: downloadMaxTimeout is over
  answer,    \* [Workers -> Answer]: the LoadedSong to emit
  transfer,  \* [Requests -> Transfer]: the transfer started for a request
  rawName,   \* requests whose handle is in NativeClient.handleFilenames
  disk,      \* [Names -> Offers]: what each file of the folder holds
  loaded,    \* [Requests -> Answer]: the outbox rows LoadedSong
  stopped,   \* ctx is done
  seen       \* history: [Workers -> Seq([mode, passed])], the ladder under way

worker == <<pc, job, mode, rung, best, late, answer, seen>>
vars == <<session, waiting, pc, job, mode, rung, best, late, answer, transfer,
          rawName, disk, loaded, stopped, seen>>

Step      == {"idle", "probe", "ladder", "start", "wait", "emit"}
Mode      == {"strict", "relaxed"}
Candidate == [file : Offers, count : Nat]
Answer    == [status : {"completed", "error", "not_found"},
              file : Offers \cup {None}, relaxed : BOOLEAN]
Transfer  == [file : Offers, state : {"running", "completed", "failed"}]
Names     == {o.raw : o \in Offers} \cup {o.base : o \in Offers}

\* The base name is what follows the last backslash of the raw one, so a raw
\* name that is some file's base name is its own.
ASSUME NamesAssumption ==
  /\ None \notin Transfer \cup Candidate
  /\ \A o, p \in Offers : o.raw = p.raw => o.base = p.base
  /\ \A o, p \in Offers : o.raw = p.base => o.raw = o.base

TypeOK ==
  /\ session \in {"none", "in", "failed"}
  /\ waiting \subseteq Requests
  /\ pc \in [Workers -> Step]
  /\ job \in [Workers -> Requests \cup {None}]
  /\ mode \in [Workers -> Mode]
  /\ rung \in [Workers -> 1..3]
  /\ best \in [Workers -> Candidate \cup {None}]
  /\ late \in [Workers -> BOOLEAN]
  /\ answer \in [Workers -> Answer \cup {None}]
  /\ transfer \in [Requests -> Transfer \cup {None}]
  /\ rawName \subseteq Requests
  /\ disk \in [Names -> Offers \cup {None}]
  /\ loaded \in [Requests -> Answer \cup {None}]
  /\ stopped \in BOOLEAN
  /\ \A w \in Workers : pc[w] = "ladder" => rung[w] \in 1..Len(Ladder(job[w])) \cup {1}

Init ==
  /\ session = "none" /\ stopped = FALSE
  /\ waiting = Requests
  /\ pc = [w \in Workers |-> "idle"]
  /\ job = [w \in Workers |-> None]
  /\ mode = [w \in Workers |-> "strict"]
  /\ rung = [w \in Workers |-> 1]
  /\ best = [w \in Workers |-> None]
  /\ late = [w \in Workers |-> FALSE]
  /\ answer = [w \in Workers |-> None]
  /\ transfer = [r \in Requests |-> None]
  /\ rawName = {}
  /\ disk = [n \in Names |-> None]
  /\ loaded = [r \in Requests |-> None]
  /\ seen = [w \in Workers |-> <<>>]

-----------------------------------------------------------------------------
(* Queries                                                                 *)

\* bestProbeQuery has something to ask for.
CanProbe(r) == r.title # {} \/ r.catno

\* The backend answers: nobody who needs it is past ensureLogin without.
\* Its matching is fuzzy: any offer may come back for any query.
Results(r) ==
  IF session = "in" /\ ~stopped THEN {FilterByTitle(R, r.title) : R \in SUBSET Offers} ELSE {}

SearchFails == session = "failed" \/ stopped \/ "netError" \in Features

GateOf(m) == IF m = "strict" THEN Strict ELSE Relax(Strict)

-----------------------------------------------------------------------------
(* A worker and its local variables                                        *)

Goto(w, step) == pc' = [pc EXCEPT ![w] = step]

\* Mutant: every relaxed pick is shown to the user.
ReplyAlwaysRelaxed(w, status, f, relaxed) ==
  /\ answer' = [answer EXCEPT ![w] = [status |-> status, file |-> f, relaxed |-> relaxed]]
  /\ Goto(w, "emit")

\* emitCompleted, emitError, emitNotFound up to their transaction.  The
\* relaxation is for users who search only.
Reply(w, status, f, relaxed) ==
  /\ answer' = [answer EXCEPT ![w] =
       [status |-> status, file |-> f,
        relaxed |-> relaxed /\ job[w].strategy = "search"]]
  /\ Goto(w, "emit")

\* onRequestDownload begins: only a user's search is probed.
Take(w, r) ==
  /\ pc[w] = "idle" /\ r \in waiting
  /\ Cardinality(Requests \ waiting) < MaxRequests
  /\ waiting' = waiting \ {r}
  /\ job' = [job EXCEPT ![w] = r]
  /\ Goto(w, IF r.strategy = "search" THEN "probe" ELSE "ladder")
  /\ UNCHANGED <<session, mode, rung, best, late, answer, transfer, rawName, disk, loaded,
                 stopped, seen>>

\* ensureLogin: the first search logs in, the others wait for it, and the
\* outcome holds for the rest of the process.
Login ==
  /\ session = "none"
  /\ \E w \in Workers : pc[w] \in {"probe", "ladder"}
  /\ \/ session' = "in"
     \/ "loginError" \in Features /\ session' = "failed"
  /\ UNCHANGED <<waiting, worker, transfer, rawName, disk, loaded, stopped>>

\* probeAvailability finds a file, without asking for its quality.
ProbeFinds(w) ==
  /\ pc[w] = "probe" /\ CanProbe(job[w])
  /\ \E R \in Results(job[w]) : R # {}
  /\ Goto(w, "ladder")
  /\ UNCHANGED <<session, waiting, job, mode, rung, best, late, answer, transfer,
                 rawName, disk, loaded, stopped, seen>>

\* It finds none, fails, or has nothing to ask for.
ProbeFindsNothing(w) ==
  /\ pc[w] = "probe"
  /\ CanProbe(job[w]) => {} \in Results(job[w]) \/ (session # "none" /\ SearchFails)
  /\ Reply(w, "not_found", None, FALSE)
  /\ UNCHANGED <<session, waiting, job, mode, rung, best, late, transfer, rawName,
                 disk, loaded, stopped, seen>>

\* runLadder returns a file.
Choose(w, f) == best' = [best EXCEPT ![w] = f] /\ Goto(w, "start")

\* The pass goes on to its next rung, with the candidate c.
NextRung(w, c) ==
  /\ rung' = [rung EXCEPT ![w] = @ + 1]
  /\ best' = [best EXCEPT ![w] = c]
  /\ UNCHANGED <<pc, mode, answer>>

\* The strict pass ends; whatever it found is better than a relaxed file.
EndStrict(w, c) ==
  IF c # None
  THEN Choose(w, c) /\ UNCHANGED <<mode, rung, answer>>
  ELSE /\ mode' = [mode EXCEPT ![w] = "relaxed"]
       /\ rung' = [rung EXCEPT ![w] = 1]
       /\ UNCHANGED <<pc, best, answer>>

EndRelaxed(w) ==
  /\ rung' = [rung EXCEPT ![w] = 1]
  /\ Reply(w, "error", None, FALSE)
  /\ UNCHANGED <<mode, best>>

\* Mutant: the last rung that found something is carried on.
CarryLast(c, f, count) == [file |-> f, count |-> count]

\* The candidate of most results, the earlier rung among equals.
Carry(c, f, count) ==
  IF c = None \/ count > c.count THEN [file |-> f, count |-> count] ELSE c

\* Mutant: off by one.
PastTop(w) == rung[w] > Len(Ladder(job[w]))

AtTop(w) == rung[w] = Len(Ladder(job[w]))

\* The rest of a rung whose results were R: with enough under the strict
\* gate, or any under the relaxed one, the ladder ends.
Climb(w, R) ==
  LET passed  == FilterGate(R, GateOf(mode[w]))
      go(c)   == IF AtTop(w) THEN EndStrict(w, c) ELSE NextRung(w, c)
  IN  IF mode[w] = "strict"
      THEN \/ passed = {} /\ go(best[w])
           \/ \E f \in Picks(passed) :
                IF Cardinality(passed) >= LadderEnough
                THEN /\ Choose(w, [file |-> f, count |-> Cardinality(passed)])
                     /\ UNCHANGED <<mode, rung, answer>>
                ELSE go(Carry(best[w], f, Cardinality(passed)))
      ELSE \/ passed = {} /\ (IF AtTop(w) THEN EndRelaxed(w) ELSE NextRung(w, None))
           \/ \E f \in Picks(passed) :
                /\ Choose(w, [file |-> f, count |-> Cardinality(passed)])
                /\ UNCHANGED <<mode, rung, answer>>

\* One rung of runLadder.  A search that fails has found nothing.
RunRung(w) ==
  /\ pc[w] = "ladder" /\ session # "none"
  /\ Ladder(job[w]) # <<>>
  /\ \E R \in Results(job[w]) \cup (IF SearchFails THEN {{}} ELSE {}) :
       /\ Climb(w, R)
       /\ seen' = [seen EXCEPT ![w] = Append(@,
              [mode |-> mode[w], passed |-> FilterGate(R, GateOf(mode[w]))])]
  /\ UNCHANGED <<session, waiting, job, late, transfer, rawName, disk, loaded, stopped>>

\* A request without title and catalog number has no rung.
NoRung(w) ==
  /\ pc[w] = "ladder" /\ Ladder(job[w]) = <<>>
  /\ Reply(w, "error", None, FALSE)
  /\ UNCHANGED <<session, waiting, job, mode, rung, best, late, transfer, rawName,
                 disk, loaded, stopped, seen>>

-----------------------------------------------------------------------------
(* The transfer                                                            *)

\* The variables of runLadder end.
EndLadder(w) ==
  /\ rung' = [rung EXCEPT ![w] = 1]
  /\ best' = [best EXCEPT ![w] = None]
  /\ seen' = [seen EXCEPT ![w] = <<>>]

\* Download returns a handle, and the adapter notes the peer's file name.
StartTransfer(w) ==
  LET r == job[w] IN
  /\ pc[w] = "start"
  /\ transfer' = [transfer EXCEPT ![r] = [file |-> best[w].file, state |-> "running"]]
  /\ rawName' = rawName \cup {r}
  /\ EndLadder(w)
  /\ Goto(w, "wait")
  /\ UNCHANGED <<session, waiting, job, mode, late, answer, disk, loaded, stopped>>

\* Download returns an error.
StartFails(w) ==
  /\ pc[w] = "start" /\ SearchFails
  /\ EndLadder(w)
  /\ Reply(w, "error", None, FALSE)
  /\ UNCHANGED <<session, waiting, job, mode, late, transfer, rawName, disk, loaded, stopped>>

Become(r, state) ==
  transfer' = [transfer EXCEPT ![r] = [file |-> @.file, state |-> state]]

\* The peer sends the file, which is stored under the name it has there;
\* nobody stops a transfer that the worker has given up.
Transferred(r) ==
  /\ transfer[r] # None /\ transfer[r].state = "running"
  /\ \/ /\ Become(r, "completed")
        /\ disk' = [disk EXCEPT ![transfer[r].file.raw] = transfer[r].file]
     \/ Become(r, "failed") /\ UNCHANGED disk
  /\ UNCHANGED <<session, waiting, worker, rawName, loaded, stopped>>

TimeIsUp(w) ==
  /\ "timeout" \in Features
  /\ pc[w] = "wait" /\ ~late[w]
  /\ late' = [late EXCEPT ![w] = TRUE]
  /\ UNCHANGED <<session, waiting, pc, job, mode, rung, best, answer, transfer, rawName,
                 disk, loaded, stopped, seen>>

\* Mutant: the adapter keeps the file under the peer's name.
KeepRawName(r, f) == UNCHANGED disk

\* The client reports a path the file does not have; the adapter renames
\* the file to it unless a file is there already.
Reconcile(r, f) ==
  disk' = IF disk[f.base] = None /\ r \in rawName /\ disk[f.raw] # None
          THEN [disk EXCEPT ![f.base] = disk[f.raw], ![f.raw] = None] ELSE disk

\* waitForDownload polls a transfer that is complete ...
PollCompleted(w) ==
  LET r == job[w]
      f == transfer[r].file
  IN
  /\ pc[w] = "wait" /\ transfer[r].state = "completed"
  /\ Reconcile(r, f)
  /\ rawName' = rawName \ {r}
  /\ Reply(w, "completed", f, mode[w] = "relaxed")
  /\ UNCHANGED <<session, waiting, job, mode, rung, best, late, transfer, loaded,
                 stopped, seen>>

\* ... or that has failed.
PollFailed(w) ==
  /\ pc[w] = "wait" /\ transfer[job[w]].state = "failed"
  /\ rawName' = rawName \ {job[w]}
  /\ Reply(w, "error", None, FALSE)
  /\ UNCHANGED <<session, waiting, job, mode, rung, best, late, transfer, disk, loaded,
                 stopped, seen>>

\* Mutant: no deadline.
WaitForever(w) == stopped

\* Why a worker stops to poll a transfer that runs: its time is up, the
\* process stops, or the client has no status for it.
MayGiveUp(w) == late[w] \/ stopped \/ "netError" \in Features

GiveUp(w) ==
  /\ pc[w] = "wait" /\ transfer[job[w]].state = "running"
  /\ MayGiveUp(w)
  /\ Reply(w, "error", None, FALSE)
  /\ UNCHANGED <<session, waiting, job, mode, rung, best, late, transfer, rawName, disk,
                 loaded, stopped, seen>>

\* The transaction of emit, which a done ctx refuses; in any case the worker
\* returns to its channel and its variables end.
Emit(w) ==
  /\ pc[w] = "emit"
  /\ loaded' = IF stopped THEN loaded ELSE [loaded EXCEPT ![job[w]] = answer[w]]
  /\ job' = [job EXCEPT ![w] = None] /\ answer' = [answer EXCEPT ![w] = None]
  /\ mode' = [mode EXCEPT ![w] = "strict"] /\ late' = [late EXCEPT ![w] = FALSE]
  /\ EndLadder(w)
  /\ Goto(w, "idle")
  /\ UNCHANGED <<session, waiting, transfer, rawName, disk, stopped>>

Stop ==
  /\ "stop" \in Features /\ ~stopped
  /\ stopped' = TRUE
  /\ UNCHANGED <<session, waiting, worker, transfer, rawName, disk, loaded>>

-----------------------------------------------------------------------------

Work(w) ==
  \/ \E r \in Requests : Take(w, r)
  \/ ProbeFinds(w) \/ ProbeFindsNothing(w) \/ RunRung(w) \/ NoRung(w)
  \/ StartTransfer(w) \/ StartFails(w)
  \/ PollCompleted(w) \/ PollFailed(w) \/ GiveUp(w) \/ Emit(w)

Next ==
  \/ \E w \in Workers : Work(w) \/ TimeIsUp(w)
  \/ \E r \in Requests : Transferred(r)
  \/ Login \/ Stop

Spec == Init /\ [][Next]_vars

\* Workers are scheduled, searches return when their window is over, a
\* login returns, and time passes; a transfer may stall for ever.
FairSpec ==
  /\ Spec
  /\ \A w \in Workers : WF_vars(Work(w)) /\ WF_vars(TimeIsUp(w))
  /\ WF_vars(Login)

-----------------------------------------------------------------------------

\* The files of fewest, or most, of a number.
Least(R, num(_)) == {o \in R : \A p \in R : num(o) =< num(p)}

\* Reference for ranksort: best codec, then highest bitrate, then shortest
\* queue of the peer.
BestFiles(R) ==
  LET codec(o) == o.codec  bitrate(o) == -o.bitrate  queue(o) == o.queue
  IN  Least(Least(Least(R, codec), bitrate), queue)

\* Reference for runLadder, from all that its searches have returned.
IsBestOf(f, searches) ==
  LET n        == Len(searches)
      gated(i) == searches[i].passed
      count(i) == Cardinality(gated(i))
  IN
  IF searches[n].mode = "relaxed"
  THEN /\ f \in BestFiles(gated(n))
       /\ \A i \in 1..(n - 1) : gated(i) = {}
  ELSE \E i \in 1..n :
         /\ f \in BestFiles(gated(i))
         /\ \A j \in 1..n : count(j) < count(i) \/ (j >= i /\ count(j) = count(i))
         /\ \A j \in 1..(n - 1) : count(j) < LadderEnough

\* The transfer that starts is of the best file that any search of the
\* ladder has found: of the first rung with enough strict results, else of
\* the strict rung with most, and of a relaxed rung only when all strict
\* ones were empty (worker.go:210-259, gate.go:116-147).
PickIsBest ==
  \A w \in Workers : pc[w] = "start" => IsBestOf(best[w].file, seen[w])

\* A song announced as completed has its file under the announced path,
\* although the client stores it under another name (native.go:163-176).
FileExists ==
  \A r \in Requests :
    loaded[r] # None /\ loaded[r].status = "completed" => disk[loaded[r].file.base] # None

\* Violated by the code: the path leads to the file that was transferred
\* for this song (client.go:31-33).  Paths are base names, and two peers'
\* folders may hold different files of one base name.
OwnFile ==
  \A r \in Requests :
    loaded[r] # None /\ loaded[r].status = "completed"
      => disk[loaded[r].file.base] = loaded[r].file

\* Every request a worker takes is answered, whatever the network does,
\* unless the process stops (worker.go:144-194, 546-571).
Answered ==
  \A r \in Requests : r \notin waiting ~> loaded[r] # None \/ stopped

DownloadService ==
  INSTANCE Verdicts WITH taken <- Requests \ waiting, verdict <- loaded

\* The service answers each request at most once, with a verdict that its
\* kind allows (worker.go:144-194).
ImplementsVerdicts == DownloadService!Spec
=============================================================================
