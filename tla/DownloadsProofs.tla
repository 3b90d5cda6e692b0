-------------------------- MODULE DownloadsProofs ---------------------------
(***************************************************************************)
(* Proofs about Gate and Downloads, for any offers, limits, requests and   *)
(* workers: the relaxed gate admits what the strict one does, ranksort     *)
(* sorts by an order, the pool implements Verdicts, a file that is         *)
(* announced exists, and the file picked is the best that was found.       *)
(***************************************************************************)
EXTENDS Downloads, SequenceTheorems, FiniteSetTheorems, TLAPS

\* An offer that passes a gate passes its relaxation, so the second pass of
\* runLadder can only find more (gate.go:41-48, 65-83).
THEOREM RelaxAdmitsMore ==
  ASSUME NEW o \in Offers, NEW g \in Limits, Passes(o, g)
  PROVE  Passes(o, Relax(g))
<1> DEFINE h == Relax(g)
<1>1. g.minBitrate \in Nat /\ g.minSize \in Nat /\ g.maxSize \in Nat /\ g.maxQueue \in Nat
  BY DEF Limits
<1>2. /\ h.minBitrate = g.minBitrate \div 2 /\ h.minSize = g.minSize \div 2
      /\ h.maxSize = 2 * g.maxSize /\ h.maxQueue = 2 * g.maxQueue
  BY DEF Relax
<1>3. \A n \in Nat : n \div 2 \in Nat /\ n \div 2 =< n
  OBVIOUS
<1>4. o.bitrate \in Nat /\ o.size \in Nat /\ o.queue \in Nat
  BY OfferAssumption
<1>5. h.minBitrate = 0 \/ o.bitrate = 0 \/ o.bitrate >= h.minBitrate
  BY <1>1, <1>2, <1>3, <1>4 DEF Passes
<1>6. h.minSize = 0 \/ o.size = 0 \/ o.size >= h.minSize
  BY <1>1, <1>2, <1>3, <1>4 DEF Passes
<1>7. h.maxSize = 0 \/ o.size =< h.maxSize
  BY <1>1, <1>2, <1>4 DEF Passes
<1>8. h.maxQueue = 0 \/ o.queue =< h.maxQueue
  BY <1>1, <1>2, <1>4 DEF Passes
<1> QED
  BY <1>5, <1>6, <1>7, <1>8 DEF Passes

\* The comparison given to sort.SliceStable is a strict weak order, as the
\* sort requires (gate.go:121-137).
THEOREM RankIsStrictWeakOrder ==
  ASSUME NEW a \in Offers, NEW b \in Offers, NEW c \in Offers
  PROVE  /\ ~Better(a, a)
         /\ Better(a, b) /\ Better(b, c) => Better(a, c)
         /\ Better(a, c) => Better(a, b) \/ Better(b, c)
<1>1. \A o \in {a, b, c} : o.codec \in Int /\ o.bitrate \in Int /\ o.queue \in Int
  BY OfferAssumption
<1> QED
  BY <1>1 DEF Better

-----------------------------------------------------------------------------
(* The invariant of the refinement: a busy worker has a request of its own *)
(* that nobody has answered, and an answer ready to emit is allowed.       *)

WorkerInv(w) ==
  /\ job[w] \in Requests \cup {None}
  /\ pc[w] # "idle" => job[w] \in Requests \ waiting /\ loaded[job[w]] = None
  /\ pc[w] = "idle" => job[w] = None
  /\ pc[w] = "probe" => job[w].strategy = "search"
  /\ pc[w] = "emit" => answer[w] \in DownloadService!Allowed(job[w])
  /\ pc[w] = "start" => best[w].file \in Offers
  /\ best[w] # None => best[w].file \in Offers
  /\ pc[w] = "wait" => transfer[job[w]].file \in Offers

JobsDiffer == \A v, w \in Workers : v # w /\ job[v] # None => job[v] # job[w]

DInv ==
  /\ waiting \subseteq Requests
  /\ pc \in [Workers -> Step] /\ job \in [Workers -> Requests \cup {None}]
  /\ DOMAIN best = Workers /\ DOMAIN answer = Workers
  /\ DOMAIN transfer = Requests /\ DOMAIN loaded = Requests
  /\ \A r \in waiting : loaded[r] = None
  /\ \A w \in Workers : WorkerInv(w)
  /\ JobsDiffer

\* A step of one busy worker that neither takes nor answers a request.
LEMMA LocalStep ==
  ASSUME DInv, NEW w \in Workers, pc[w] # "idle",
         waiting' = waiting, loaded' = loaded, job' = job,
         NEW step \in Step \ {"idle"}, pc' = [pc EXCEPT ![w] = step],
         DOMAIN best' = Workers, DOMAIN answer' = Workers, DOMAIN transfer' = Requests,
         \A v \in Workers \ {w} : best'[v] = best[v] /\ answer'[v] = answer[v],
         \A r \in Requests \ {job[w]} : transfer'[r] = transfer[r],
         step = "probe" => job[w].strategy = "search",
         step = "emit" => answer'[w] \in DownloadService!Allowed(job[w]),
         step = "start" => best'[w].file \in Offers,
         best'[w] # None => best'[w].file \in Offers,
         step = "wait" => transfer'[job[w]].file \in Offers
  PROVE  DInv'
<1>1. pc' \in [Workers -> Step] /\ JobsDiffer'
  BY DEF DInv, JobsDiffer
<1>2. WorkerInv(w)'
  BY DEF DInv, WorkerInv, Step
<1>3. ASSUME NEW v \in Workers, v # w PROVE WorkerInv(v)'
  <2>1. pc'[v] = pc[v] /\ best'[v] = best[v] /\ answer'[v] = answer[v] /\ job'[v] = job[v]
    BY <1>3 DEF DInv
  <2>2. WorkerInv(v)
    BY DEF DInv
  <2>3. pc[v] = "wait" => transfer'[job[v]] = transfer[job[v]]
    <3>1. CASE pc[v] = "wait"
      <4>1. job[v] \in Requests /\ job[w] \in Requests
        BY <2>2, <3>1 DEF DInv, WorkerInv
      <4>2. job[v] # job[w]
        BY <4>1, <1>3, DownloadsAssumption DEF DInv, JobsDiffer
      <4> QED
        BY <4>1, <4>2
    <3> QED
      BY <3>1
  <2> QED
    BY <2>1, <2>2, <2>3 DEF WorkerInv
<1> QED
  BY <1>1, <1>2, <1>3 DEF DInv

\* The answer of a worker that replies is allowed for its request.
LEMMA ReplyAllowed ==
  ASSUME DInv, NEW w \in Workers, pc[w] # "idle",
         NEW status, NEW f, NEW relaxed \in BOOLEAN, Reply(w, status, f, relaxed),
         \/ status = "error" /\ f = None /\ ~relaxed
         \/ status = "not_found" /\ f = None /\ ~relaxed /\ job[w].strategy = "search"
         \/ status = "completed" /\ f \in Offers
  PROVE  /\ DOMAIN answer' = Workers
         /\ answer'[w] \in DownloadService!Allowed(job[w])
         /\ \A v \in Workers \ {w} : answer'[v] = answer[v]
         /\ pc' = [pc EXCEPT ![w] = "emit"]
<1> DEFINE told == relaxed /\ job[w].strategy = "search"
<1>1. /\ DOMAIN answer' = Workers
      /\ answer'[w] = [status |-> status, file |-> f, relaxed |-> told]
      /\ \A v \in Workers \ {w} : answer'[v] = answer[v]
      /\ pc' = [pc EXCEPT ![w] = "emit"]
  BY DEF Reply, Goto, DInv
<1>2. CASE status = "error" /\ f = None /\ ~relaxed
  <2>1. answer'[w] = DownloadService!Failed("error")
    <3>1. told = FALSE
      BY <1>2
    <3> QED
      BY <1>1, <1>2, <3>1 DEF DownloadService!Failed
  <2> QED
    BY <1>1, <2>1 DEF DownloadService!Allowed
<1>3. CASE status = "not_found" /\ f = None /\ ~relaxed /\ job[w].strategy = "search"
  <2>1. answer'[w] = DownloadService!Failed("not_found")
    <3>1. told = FALSE
      BY <1>3
    <3> QED
      BY <1>1, <1>3, <3>1 DEF DownloadService!Failed
  <2> QED
    BY <1>1, <1>3, <2>1 DEF DownloadService!Allowed
<1>4. CASE status = "completed" /\ f \in Offers
  <2>1. CASE told
    <3>1. told = TRUE /\ job[w].strategy = "search"
      BY <2>1
    <3>2. answer'[w] = DownloadService!Completed(f, TRUE)
      BY <1>1, <1>4, <3>1 DEF DownloadService!Completed
    <3> QED
      BY <1>1, <1>4, <3>1, <3>2 DEF DownloadService!Allowed
  <2>2. CASE ~told
    <3>1. told = FALSE
      BY <2>2
    <3>2. answer'[w] = DownloadService!Completed(f, FALSE)
      BY <1>1, <1>4, <3>1 DEF DownloadService!Completed
    <3> QED
      BY <1>1, <1>4, <3>2 DEF DownloadService!Allowed
  <2> QED
    BY <2>1, <2>2
<1> QED
  BY <1>1, <1>2, <1>3, <1>4

-----------------------------------------------------------------------------
(* One lemma per action.                                                   *)

LEMMA InitInv == Init => DInv
  BY DownloadsAssumption DEF Init, DInv, WorkerInv, JobsDiffer, Step

LEMMA TakeStep ==
  ASSUME DInv, NEW w \in Workers, NEW r \in Requests, Take(w, r)
  PROVE  /\ DInv'
         /\ DownloadService!Take(r)
<1> DEFINE step == IF r.strategy = "search" THEN "probe" ELSE "ladder"
<1>1. /\ pc[w] = "idle" /\ r \in waiting /\ waiting' = waiting \ {r}
      /\ job' = [job EXCEPT ![w] = r] /\ pc' = [pc EXCEPT ![w] = step]
      /\ loaded' = loaded /\ best' = best /\ answer' = answer /\ transfer' = transfer
  BY DEF Take, Goto
<1>2. \A v \in Workers : job[v] # r
  BY <1>1, DownloadsAssumption DEF DInv, WorkerInv
<1>3. WorkerInv(w)'
  BY <1>1, DownloadsAssumption DEF DInv, WorkerInv
<1>4. ASSUME NEW v \in Workers, v # w PROVE WorkerInv(v)'
  BY <1>1, <1>2, <1>4 DEF DInv, WorkerInv
<1>5. JobsDiffer'
  BY <1>1, <1>2 DEF DInv, JobsDiffer
<1>6. DInv'
  BY <1>1, <1>3, <1>4, <1>5 DEF DInv, Step
<1>7. DownloadService!Take(r)
  BY <1>1 DEF DownloadService!Take, DInv
<1> QED
  BY <1>6, <1>7

\* A step of a pass: the ladder goes on, ends with a file, or fails.
LEMMA ClimbStep ==
  ASSUME DInv, NEW w \in Workers, pc[w] = "ladder", NEW R \in SUBSET Offers,
         Climb(w, R), UNCHANGED <<waiting, job, transfer, loaded>>
  PROVE  DInv'
<1> DEFINE passed == FilterGate(R, GateOf(mode[w]))
           go(c)  == IF AtTop(w) THEN EndStrict(w, c) ELSE NextRung(w, c)
           count  == Cardinality(passed)
<1>1. \A f \in Picks(passed) : f \in Offers
  BY DEF Picks, FilterGate
<1>2. pc[w] # "idle" /\ DOMAIN best = Workers /\ DOMAIN answer = Workers
      /\ DOMAIN transfer = Requests /\ pc \in [Workers -> Step]
      /\ (best[w] # None => best[w].file \in Offers)
  BY DEF DInv, WorkerInv
<1>3. ASSUME NEW c, c.file \in Offers, Choose(w, c), answer' = answer
      PROVE  DInv'
  <2>1. pc' = [pc EXCEPT ![w] = "start"] /\ best' = [best EXCEPT ![w] = c]
    BY <1>3 DEF Choose, Goto
  <2> QED
    BY <1>2, <1>3, <2>1, LocalStep DEF Step
<1>4. ASSUME NEW c, c # None => c.file \in Offers, NextRung(w, c) PROVE DInv'
  <2>1. pc' = [pc EXCEPT ![w] = "ladder"] /\ best' = [best EXCEPT ![w] = c]
        /\ answer' = answer
    BY <1>2, <1>4 DEF NextRung
  <2> QED
    BY <1>2, <1>4, <2>1, LocalStep DEF Step
<1>5. ASSUME NEW c, c # None => c.file \in Offers, EndStrict(w, c) PROVE DInv'
  <2>1. CASE c # None
    BY <1>3, <1>5, <2>1 DEF EndStrict
  <2>2. CASE c = None
    <3>1. pc' = [pc EXCEPT ![w] = "ladder"] /\ best' = best /\ answer' = answer
      BY <1>2, <1>5, <2>2 DEF EndStrict
    <3> QED
      BY <1>2, <3>1, LocalStep DEF Step
  <2> QED
    BY <2>1, <2>2
<1>6. ASSUME NEW c, c # None => c.file \in Offers, go(c) PROVE DInv'
  BY <1>4, <1>5, <1>6
<1>7. ASSUME EndRelaxed(w) PROVE DInv'
  <2>1. Reply(w, "error", None, FALSE) /\ best' = best
    BY <1>7 DEF EndRelaxed
  <2>2. /\ DOMAIN answer' = Workers
        /\ answer'[w] \in DownloadService!Allowed(job[w])
        /\ \A v \in Workers \ {w} : answer'[v] = answer[v]
        /\ pc' = [pc EXCEPT ![w] = "emit"]
    BY <1>2, <2>1, ReplyAllowed
  <2> QED
    BY <1>2, <2>1, <2>2, LocalStep DEF Step
<1>8. ASSUME NEW f \in Offers PROVE Carry(best[w], f, count).file \in Offers
  BY <1>2, <1>8 DEF Carry
<1>9. CASE mode[w] = "strict"
  <2>1. \/ passed = {} /\ go(best[w])
        \/ \E f \in Picks(passed) :
             IF count >= LadderEnough
             THEN /\ Choose(w, [file |-> f, count |-> count])
                  /\ UNCHANGED <<mode, rung, answer>>
             ELSE go(Carry(best[w], f, count))
    BY <1>9 DEF Climb
  <2>2. CASE go(best[w])
    BY <1>2, <1>6, <2>2
  <2>3. ASSUME NEW f \in Picks(passed), count >= LadderEnough,
               Choose(w, [file |-> f, count |-> count]), UNCHANGED <<mode, rung, answer>>
        PROVE  DInv'
    BY <1>1, <1>3, <2>3
  <2>4. ASSUME NEW f \in Picks(passed), go(Carry(best[w], f, count)) PROVE DInv'
    <3>1. Carry(best[w], f, count).file \in Offers
      BY <1>1, <1>8
    <3> QED
      BY <1>6, <2>4, <3>1
  <2> QED
    BY <2>1, <2>2, <2>3, <2>4
<1>10. CASE mode[w] # "strict"
  <2>1. \/ passed = {} /\ (IF AtTop(w) THEN EndRelaxed(w) ELSE NextRung(w, None))
        \/ \E f \in Picks(passed) :
             /\ Choose(w, [file |-> f, count |-> count])
             /\ UNCHANGED <<mode, rung, answer>>
    BY <1>10 DEF Climb
  <2>2. ASSUME NEW f \in Picks(passed),
               Choose(w, [file |-> f, count |-> count]), UNCHANGED <<mode, rung, answer>>
        PROVE  DInv'
    BY <1>1, <1>3, <2>2
  <2>3. NextRung(w, None) => DInv'
    BY <1>4
  <2> QED
    BY <1>7, <2>1, <2>2, <2>3
<1> QED
  BY <1>9, <1>10

\* A reply that leaves the requests and the ladder alone.
LEMMA ReplyStep ==
  ASSUME DInv, NEW w \in Workers, pc[w] # "idle",
         NEW status, NEW f, NEW relaxed \in BOOLEAN, Reply(w, status, f, relaxed),
         \/ status = "error" /\ f = None /\ ~relaxed
         \/ status = "not_found" /\ f = None /\ ~relaxed /\ job[w].strategy = "search"
         \/ status = "completed" /\ f \in Offers,
         best' = best \/ best' = [best EXCEPT ![w] = None],
         UNCHANGED <<waiting, job, transfer, loaded>>
  PROVE  DInv'
<1>1. /\ DOMAIN answer' = Workers
      /\ answer'[w] \in DownloadService!Allowed(job[w])
      /\ \A v \in Workers \ {w} : answer'[v] = answer[v]
      /\ pc' = [pc EXCEPT ![w] = "emit"]
  BY ReplyAllowed
<1>2. DOMAIN best' = Workers /\ (best'[w] # None => best'[w].file \in Offers)
      /\ \A v \in Workers \ {w} : best'[v] = best[v]
  BY DEF DInv, WorkerInv
<1> QED
  BY <1>1, <1>2, LocalStep DEF DInv, Step

LEMMA ResultsAreOffers ==
  ASSUME NEW r, NEW R \in Results(r) \cup {{}} PROVE R \in SUBSET Offers
  BY DEF Results, FilterByTitle

\* Every step of a worker but Take and Emit only concerns itself.
LEMMA PrivateStep ==
  ASSUME DInv, NEW w \in Workers,
         \/ ProbeFinds(w) \/ ProbeFindsNothing(w) \/ RunRung(w) \/ NoRung(w)
         \/ StartTransfer(w) \/ StartFails(w)
         \/ PollCompleted(w) \/ PollFailed(w) \/ GiveUp(w)
  PROVE  DInv' /\ UNCHANGED <<waiting, loaded>>
<1>1. CASE ProbeFinds(w)
  <2>1. /\ pc[w] = "probe" /\ pc' = [pc EXCEPT ![w] = "ladder"]
        /\ UNCHANGED <<waiting, job, best, answer, transfer, loaded>>
    BY <1>1 DEF ProbeFinds, Goto
  <2>2. best[w] # None => best[w].file \in Offers
    BY DEF DInv, WorkerInv
  <2> QED
    BY <2>1, <2>2, LocalStep DEF DInv, Step
<1>2. CASE ProbeFindsNothing(w)
  <2>1. /\ pc[w] = "probe" /\ Reply(w, "not_found", None, FALSE)
        /\ UNCHANGED <<waiting, job, best, transfer, loaded>>
    BY <1>2 DEF ProbeFindsNothing
  <2>2. job[w].strategy = "search"
    BY <2>1 DEF DInv, WorkerInv
  <2> QED
    BY <2>1, <2>2, ReplyStep
<1>3. CASE RunRung(w)
  <2>1. PICK R \in Results(job[w]) \cup (IF SearchFails THEN {{}} ELSE {}) : Climb(w, R)
    BY <1>3 DEF RunRung
  <2>2. R \in SUBSET Offers
    BY <2>1, ResultsAreOffers
  <2>3. pc[w] = "ladder" /\ UNCHANGED <<waiting, job, transfer, loaded>>
    BY <1>3 DEF RunRung
  <2> QED
    BY <2>1, <2>2, <2>3, ClimbStep
<1>4. CASE NoRung(w)
  <2>1. /\ pc[w] = "ladder" /\ Reply(w, "error", None, FALSE)
        /\ UNCHANGED <<waiting, job, best, transfer, loaded>>
    BY <1>4 DEF NoRung
  <2> QED
    BY <2>1, ReplyStep
<1>5. CASE StartTransfer(w)
  <2>1. /\ pc[w] = "start" /\ pc' = [pc EXCEPT ![w] = "wait"]
        /\ transfer' = [transfer EXCEPT ![job[w]] = [file |-> best[w].file, state |-> "running"]]
        /\ best' = [best EXCEPT ![w] = None]
        /\ UNCHANGED <<waiting, job, answer, loaded>>
    BY <1>5 DEF StartTransfer, EndLadder, Goto
  <2>2. job[w] \in Requests /\ best[w].file \in Offers
    BY <2>1 DEF DInv, WorkerInv
  <2>3. /\ DOMAIN transfer' = Requests /\ transfer'[job[w]].file \in Offers
        /\ \A r \in Requests \ {job[w]} : transfer'[r] = transfer[r]
    BY <2>1, <2>2 DEF DInv
  <2>4. /\ DOMAIN best' = Workers /\ best'[w] = None
        /\ \A v \in Workers \ {w} : best'[v] = best[v]
    BY <2>1 DEF DInv
  <2> QED
    BY <2>1, <2>3, <2>4, LocalStep DEF DInv, Step
<1>6. CASE StartFails(w)
  <2>1. /\ pc[w] = "start" /\ Reply(w, "error", None, FALSE)
        /\ best' = [best EXCEPT ![w] = None]
        /\ UNCHANGED <<waiting, job, transfer, loaded>>
    BY <1>6 DEF StartFails, EndLadder
  <2> QED
    BY <2>1, ReplyStep
<1>7. CASE PollCompleted(w)
  <2>1. /\ pc[w] = "wait"
        /\ Reply(w, "completed", transfer[job[w]].file, mode[w] = "relaxed")
        /\ UNCHANGED <<waiting, job, best, transfer, loaded>>
    BY <1>7 DEF PollCompleted
  <2>2. transfer[job[w]].file \in Offers
    BY <2>1 DEF DInv, WorkerInv
  <2> QED
    BY <2>1, <2>2, ReplyStep
<1>8. CASE PollFailed(w)
  <2>1. /\ pc[w] = "wait" /\ Reply(w, "error", None, FALSE)
        /\ UNCHANGED <<waiting, job, best, transfer, loaded>>
    BY <1>8 DEF PollFailed
  <2> QED
    BY <2>1, ReplyStep
<1>9. CASE GiveUp(w)
  <2>1. /\ pc[w] = "wait" /\ Reply(w, "error", None, FALSE)
        /\ UNCHANGED <<waiting, job, best, transfer, loaded>>
    BY <1>9 DEF GiveUp
  <2> QED
    BY <2>1, ReplyStep
<1> QED
  BY <1>1, <1>2, <1>3, <1>4, <1>5, <1>6, <1>7, <1>8, <1>9

\* Emit answers the request of its worker, or nothing once ctx is done.
LEMMA EmitStep ==
  ASSUME DInv, NEW w \in Workers, Emit(w)
  PROVE  /\ DInv'
         /\ waiting' = waiting
         /\ loaded' = loaded \/ \E r \in Requests : DownloadService!Answer(r)
<1>1. /\ pc[w] = "emit" /\ pc' = [pc EXCEPT ![w] = "idle"]
      /\ loaded' = IF stopped THEN loaded ELSE [loaded EXCEPT ![job[w]] = answer[w]]
      /\ job' = [job EXCEPT ![w] = None] /\ answer' = [answer EXCEPT ![w] = None]
      /\ best' = [best EXCEPT ![w] = None]
      /\ UNCHANGED <<waiting, transfer>>
  BY DEF Emit, EndLadder, Goto
<1>2. /\ job[w] \in Requests \ waiting /\ loaded[job[w]] = None
      /\ answer[w] \in DownloadService!Allowed(job[w])
  BY <1>1 DEF DInv, WorkerInv
<1>3. WorkerInv(w)'
  BY <1>1, DownloadsAssumption DEF DInv, WorkerInv
<1>4. ASSUME NEW v \in Workers, v # w PROVE WorkerInv(v)'
  <2>1. pc'[v] = pc[v] /\ best'[v] = best[v] /\ answer'[v] = answer[v] /\ job'[v] = job[v]
    BY <1>1, <1>4 DEF DInv
  <2>2. WorkerInv(v)
    BY DEF DInv
  <2>3. pc[v] # "idle" => loaded'[job[v]] = loaded[job[v]]
    <3>1. CASE pc[v] # "idle"
      <4>1. job[v] \in Requests /\ job[v] # job[w]
        BY <1>2, <1>4, <2>2, <3>1, DownloadsAssumption DEF DInv, WorkerInv, JobsDiffer
      <4> QED
        BY <1>1, <1>2, <4>1 DEF DInv
    <3> QED
      BY <3>1
  <2> QED
    BY <1>1, <2>1, <2>2, <2>3 DEF WorkerInv
<1>5. JobsDiffer'
  BY <1>1 DEF DInv, JobsDiffer
<1>6. \A r \in waiting : loaded'[r] = None
  BY <1>1, <1>2 DEF DInv
<1>7. DInv'
  BY <1>1, <1>3, <1>4, <1>5, <1>6 DEF DInv, Step
<1>8. CASE ~stopped
  <2>1. loaded' = [loaded EXCEPT ![job[w]] = answer[w]]
    BY <1>1, <1>8
  <2>2. DownloadService!Answer(job[w])
    BY <1>1, <1>2, <2>1 DEF DownloadService!Answer
  <2> QED
    BY <1>1, <1>2, <1>7, <2>2
<1> QED
  BY <1>1, <1>7, <1>8

LEMMA SharedStep ==
  ASSUME DInv,
         \/ \E w \in Workers : TimeIsUp(w)
         \/ \E r \in Requests : Transferred(r)
         \/ Login \/ Stop \/ UNCHANGED vars
  PROVE  DInv' /\ UNCHANGED <<waiting, loaded>>
<1>1. CASE \E w \in Workers : TimeIsUp(w)
  BY <1>1 DEF TimeIsUp, DInv, WorkerInv, JobsDiffer
<1>2. ASSUME NEW r \in Requests, Transferred(r) PROVE DInv' /\ UNCHANGED <<waiting, loaded>>
  <2>1. UNCHANGED <<waiting, pc, job, best, answer, loaded>>
    BY <1>2 DEF Transferred, Become, worker
  <2>2. DOMAIN transfer' = Requests
        /\ \A q \in Requests : transfer[q].file \in Offers => transfer'[q].file \in Offers
    BY <1>2 DEF Transferred, Become, DInv
  <2>3. \A w \in Workers : WorkerInv(w)'
    BY <2>1, <2>2 DEF DInv, WorkerInv
  <2> QED
    BY <2>1, <2>2, <2>3 DEF DInv, JobsDiffer
<1>3. CASE Login
  BY <1>3 DEF Login, worker, DInv, WorkerInv, JobsDiffer
<1>4. CASE Stop
  BY <1>4 DEF Stop, worker, DInv, WorkerInv, JobsDiffer
<1>5. CASE UNCHANGED vars
  BY <1>5 DEF vars, DInv, WorkerInv, JobsDiffer
<1> QED
  BY <1>1, <1>2, <1>3, <1>4, <1>5

\* Every step of the service keeps the invariant and is a step of Verdicts.
LEMMA NextStep ==
  ASSUME DInv, [Next]_vars
  PROVE  DInv' /\ [DownloadService!Next]_<<Requests \ waiting, loaded>>
<1>1. ASSUME NEW w \in Workers, NEW r \in Requests, Take(w, r)
      PROVE  DInv' /\ [DownloadService!Next]_<<Requests \ waiting, loaded>>
  BY <1>1, TakeStep DEF DownloadService!Next
<1>2. ASSUME NEW w \in Workers, Emit(w)
      PROVE  DInv' /\ [DownloadService!Next]_<<Requests \ waiting, loaded>>
  BY <1>2, EmitStep DEF DownloadService!Next
<1>3. ASSUME NEW w \in Workers, Work(w), ~Emit(w), ~(\E r \in Requests : Take(w, r))
      PROVE  DInv' /\ [DownloadService!Next]_<<Requests \ waiting, loaded>>
  BY <1>3, PrivateStep DEF Work
<1>4. CASE \/ \E w \in Workers : TimeIsUp(w)
           \/ \E r \in Requests : Transferred(r)
           \/ Login \/ Stop \/ UNCHANGED vars
  BY <1>4, SharedStep
<1> QED
  BY <1>1, <1>2, <1>3, <1>4 DEF Next, Work

\* The pool answers every request at most once and within what its kind
\* allows: two workers never answer one request, nothing is answered before
\* it is taken, only a search is told not_found or relaxed
\* (worker.go:144-194).
THEOREM ServiceImplementsVerdicts == Spec => ImplementsVerdicts
<1>1. Init => DInv
  BY InitInv
<1>2. Init => DownloadService!Init
  BY DEF Init, DownloadService!Init
<1>3. DInv /\ [Next]_vars => DInv' /\ [DownloadService!Next]_<<Requests \ waiting, loaded>>
  BY NextStep
<1> QED
  BY <1>1, <1>2, <1>3, PTL DEF Spec, ImplementsVerdicts, DownloadService!Spec

-----------------------------------------------------------------------------
(* Files.  A completed transfer has its file under one of its two names,   *)
(* and renaming one file takes no other base name away.                    *)

Stored(f) == disk[f.raw] # None \/ disk[f.base] # None

FInv ==
  /\ disk \in [Names -> Offers \cup {None}]
  /\ transfer \in [Requests -> Transfer \cup {None}]
  /\ \A w \in Workers : pc[w] = "wait" => job[w] \in rawName /\ transfer[job[w]] # None
  /\ \A r \in Requests :
       transfer[r] # None /\ transfer[r].state = "completed" => Stored(transfer[r].file)
  /\ \A w \in Workers :
       pc[w] = "emit" /\ answer[w].status = "completed"
         => answer[w].file \in Offers /\ disk[answer[w].file.base] # None
  /\ \A r \in Requests :
       loaded[r] # None /\ loaded[r].status = "completed"
         => loaded[r].file \in Offers /\ disk[loaded[r].file.base] # None

\* What a change of the disk has to keep.
Kept == \A f \in Offers : /\ disk[f.base] # None => disk'[f.base] # None
                          /\ Stored(f) => Stored(f)'

LEMMA ReconcileKeeps ==
  ASSUME disk \in [Names -> Offers \cup {None}], NEW r, NEW f \in Offers, Reconcile(r, f)
  PROVE  /\ disk' \in [Names -> Offers \cup {None}]
         /\ Kept
         /\ r \in rawName /\ Stored(f) => disk'[f.base] # None
<1>1. \A o \in Offers : o.raw \in Names /\ o.base \in Names
  BY DEF Names
<1>2. CASE ~(disk[f.base] = None /\ r \in rawName /\ disk[f.raw] # None)
  BY <1>2 DEF Reconcile, Kept, Stored
<1>3. CASE disk[f.base] = None /\ r \in rawName /\ disk[f.raw] # None
  <2>1. /\ disk' \in [Names -> Offers \cup {None}]
        /\ disk'[f.base] # None
        /\ \A n \in Names \ {f.raw} : disk[n] # None => disk'[n] # None
    BY <1>1, <1>3 DEF Reconcile
  <2>2. ASSUME NEW g \in Offers PROVE g.base # f.raw
    BY <1>3, NamesAssumption
  <2>3. ASSUME NEW g \in Offers, g.raw = f.raw PROVE disk'[g.base] # None
    BY <2>1, <2>3, NamesAssumption
  <2>4. Kept
    BY <1>1, <2>1, <2>2, <2>3 DEF Kept, Stored
  <2> QED
    BY <2>1, <2>4
<1> QED
  BY <1>2, <1>3

\* A step of one worker that neither starts a transfer nor completes one.
LEMMA FilesLocal ==
  ASSUME DInv, FInv, NEW w \in Workers,
         UNCHANGED <<transfer, disk, loaded>>,
         \A v \in Workers \ {w} : pc'[v] = pc[v] /\ job'[v] = job[v] /\ answer'[v] = answer[v],
         rawName \ {job[w]} \subseteq rawName' \/ rawName' = rawName,
         pc'[w] # "wait" \/ (pc[w] = "wait" /\ job' = job /\ rawName' = rawName),
         pc'[w] = "emit" => answer'[w].status # "completed"
  PROVE  FInv'
<1>1. \A v \in Workers : pc'[v] = "wait" => job'[v] \in rawName' /\ transfer'[job'[v]] # None
  <2>1. ASSUME NEW v \in Workers \ {w}, pc[v] = "wait" PROVE job[v] \in rawName'
    <3>1. job[v] # None /\ job[v] # job[w]
      BY <2>1, DownloadsAssumption DEF DInv, WorkerInv, JobsDiffer
    <3> QED
      BY <2>1, <3>1 DEF FInv
  <2> QED
    BY <2>1 DEF FInv
<1>2. \A v \in Workers :
        pc'[v] = "emit" /\ answer'[v].status = "completed"
          => answer'[v].file \in Offers /\ disk'[answer'[v].file.base] # None
  BY DEF FInv
<1> QED
  BY <1>1, <1>2 DEF FInv, Stored

\* What the answer of a worker is after Reply, and of the others.
LEMMA Replied ==
  ASSUME DInv, NEW w \in Workers, NEW status, NEW f, NEW relaxed, Reply(w, status, f, relaxed)
  PROVE  /\ pc'[w] = "emit" /\ answer'[w].status = status /\ answer'[w].file = f
         /\ \A v \in Workers \ {w} : pc'[v] = pc[v] /\ answer'[v] = answer[v]
BY DEF Reply, Goto, DInv

LEMMA FilesRefused ==
  ASSUME DInv, FInv, NEW w \in Workers, NEW status, status # "completed", NEW f,
         NEW relaxed, Reply(w, status, f, relaxed),
         UNCHANGED <<job, transfer, disk, loaded>>,
         rawName' = rawName \ {job[w]} \/ rawName' = rawName
  PROVE  FInv'
<1>1. /\ pc'[w] = "emit" /\ answer'[w].status # "completed"
      /\ \A v \in Workers \ {w} : pc'[v] = pc[v] /\ answer'[v] = answer[v]
  BY Replied
<1> QED
  BY <1>1, FilesLocal

LEMMA FilesClimb ==
  ASSUME DInv, FInv, NEW w \in Workers, pc[w] = "ladder", NEW R, Climb(w, R),
         UNCHANGED <<transfer, disk, loaded, job, rawName>>
  PROVE  FInv'
<1> USE DEF DInv
<1>1. CASE pc' = pc /\ answer' = answer
  BY <1>1, FilesLocal
<1>2. CASE pc' = [pc EXCEPT ![w] = "start"] /\ answer' = answer
  BY <1>2, FilesLocal
<1>3. CASE Reply(w, "error", None, FALSE)
  BY <1>3, FilesRefused
<1>4. ASSUME NEW c, NextRung(w, c) \/ EndStrict(w, c)
      PROVE  FInv'
  BY <1>1, <1>2, <1>4 DEF NextRung, EndStrict, Choose, Goto
<1>5. ASSUME NEW c, Choose(w, c), answer' = answer PROVE FInv'
  BY <1>2, <1>5 DEF Choose, Goto
<1>6. ASSUME EndRelaxed(w) PROVE FInv'
  BY <1>3, <1>6 DEF EndRelaxed
<1> QED
  BY <1>4, <1>5, <1>6 DEF Climb

LEMMA FilesPrivate ==
  ASSUME DInv, FInv, NEW w \in Workers,
         \/ \E r \in Requests : Take(w, r)
         \/ ProbeFinds(w) \/ ProbeFindsNothing(w) \/ RunRung(w) \/ NoRung(w)
         \/ StartFails(w) \/ PollFailed(w) \/ GiveUp(w)
  PROVE  FInv'
<1> USE DEF DInv
<1>1. ASSUME NEW r \in Requests, Take(w, r) PROVE FInv'
  BY <1>1, FilesLocal DEF Take, Goto
<1>2. CASE ProbeFinds(w)
  BY <1>2, FilesLocal DEF ProbeFinds, Goto
<1>3. CASE RunRung(w)
  BY <1>3, FilesClimb DEF RunRung
<1>4. CASE ProbeFindsNothing(w)
  BY <1>4, FilesRefused DEF ProbeFindsNothing
<1>5. CASE NoRung(w)
  BY <1>5, FilesRefused DEF NoRung
<1>6. CASE StartFails(w)
  BY <1>6, FilesRefused DEF StartFails
<1>7. CASE PollFailed(w)
  BY <1>7, FilesRefused DEF PollFailed
<1>8. CASE GiveUp(w)
  BY <1>8, FilesRefused DEF GiveUp
<1> QED
  BY <1>1, <1>2, <1>3, <1>4, <1>5, <1>6, <1>7, <1>8

LEMMA FilesStart ==
  ASSUME DInv, FInv, NEW w \in Workers, StartTransfer(w)
  PROVE  FInv'
<1> DEFINE t == [file |-> best[w].file, state |-> "running"]
<1>1. /\ pc[w] = "start" /\ pc' = [pc EXCEPT ![w] = "wait"]
      /\ transfer' = [transfer EXCEPT ![job[w]] = t]
      /\ rawName' = rawName \cup {job[w]}
      /\ UNCHANGED <<job, answer, disk, loaded>>
  BY DEF StartTransfer, Goto
<1>2. job[w] \in Requests /\ t \in Transfer /\ t.state # "completed"
  BY <1>1 DEF DInv, WorkerInv, Transfer
<1>3. t # None
  BY <1>2, NamesAssumption
<1> HIDE DEF t
<1>4. transfer' \in [Requests -> Transfer \cup {None}]
  BY <1>1, <1>2 DEF FInv
<1>5. \A v \in Workers : pc'[v] = "wait" => job'[v] \in rawName' /\ transfer'[job'[v]] # None
  BY <1>1, <1>2, <1>3 DEF FInv, DInv
<1>6. \A r \in Requests :
        transfer'[r] # None /\ transfer'[r].state = "completed" => Stored(transfer'[r].file)
  BY <1>1, <1>2 DEF FInv
<1> QED
  BY <1>1, <1>4, <1>5, <1>6 DEF FInv, DInv, Stored

\* The disk changes, and keeps what it has.
LEMMA FilesKept ==
  ASSUME DInv, FInv, Kept, disk' \in [Names -> Offers \cup {None}]
  PROVE  /\ \A f \in Offers : Stored(f) => disk'[f.raw] # None \/ disk'[f.base] # None
         /\ \A v \in Workers :
              pc[v] = "emit" /\ answer[v].status = "completed"
                => answer[v].file \in Offers /\ disk'[answer[v].file.base] # None
         /\ \A r \in Requests :
              loaded[r] # None /\ loaded[r].status = "completed"
                => loaded[r].file \in Offers /\ disk'[loaded[r].file.base] # None
BY DEF FInv, Kept, Stored

LEMMA FilesCompleted ==
  ASSUME DInv, FInv, NEW w \in Workers, PollCompleted(w)
  PROVE  FInv'
<1> DEFINE f == transfer[job[w]].file
<1>1. /\ pc[w] = "wait" /\ transfer[job[w]].state = "completed"
      /\ Reconcile(job[w], f)
      /\ rawName' = rawName \ {job[w]}
      /\ Reply(w, "completed", f, mode[w] = "relaxed")
      /\ UNCHANGED <<job, transfer, loaded>>
  BY DEF PollCompleted
<1>2. /\ job[w] \in Requests /\ job[w] \in rawName /\ f \in Offers
      /\ Stored(f) /\ disk \in [Names -> Offers \cup {None}]
  BY <1>1 DEF DInv, WorkerInv, FInv
<1> HIDE DEF f
<1>3. /\ disk' \in [Names -> Offers \cup {None}] /\ Kept /\ disk'[f.base] # None
  BY <1>1, <1>2, ReconcileKeeps
<1>4. /\ pc'[w] = "emit" /\ answer'[w].file = f
      /\ \A v \in Workers \ {w} : pc'[v] = pc[v] /\ answer'[v] = answer[v]
  BY <1>1, Replied
<1>5. \A v \in Workers : pc'[v] = "wait" => job'[v] \in rawName' /\ transfer'[job'[v]] # None
  <2>1. ASSUME NEW v \in Workers \ {w}, pc[v] = "wait" PROVE job[v] \in rawName \ {job[w]}
    <3>1. job[v] # None /\ job[v] # job[w]
      BY <2>1, DownloadsAssumption DEF DInv, WorkerInv, JobsDiffer
    <3> QED
      BY <2>1, <3>1 DEF FInv
  <2> QED
    BY <1>1, <1>4, <2>1 DEF FInv
<1>6. \A r \in Requests :
        transfer[r] # None /\ transfer[r].state = "completed"
          => disk'[transfer[r].file.raw] # None \/ disk'[transfer[r].file.base] # None
  <2>1. ASSUME NEW r \in Requests, transfer[r] # None, transfer[r].state = "completed"
        PROVE  transfer[r].file \in Offers /\ Stored(transfer[r].file)
    BY <2>1 DEF FInv, Transfer
  <2> QED
    BY <1>3, <2>1, FilesKept
<1>7. \A v \in Workers :
        pc'[v] = "emit" /\ answer'[v].status = "completed"
          => answer'[v].file \in Offers /\ disk'[answer'[v].file.base] # None
  BY <1>2, <1>3, <1>4, FilesKept
<1>8. \A r \in Requests :
        loaded[r] # None /\ loaded[r].status = "completed"
          => loaded[r].file \in Offers /\ disk'[loaded[r].file.base] # None
  BY <1>3, FilesKept
<1>9. transfer \in [Requests -> Transfer \cup {None}]
  BY DEF FInv
<1> QED
  BY <1>1, <1>3, <1>5, <1>6, <1>7, <1>8, <1>9 DEF FInv, Stored

LEMMA FilesEmit ==
  ASSUME DInv, FInv, NEW w \in Workers, Emit(w)
  PROVE  FInv'
<1>1. /\ pc[w] = "emit" /\ pc' = [pc EXCEPT ![w] = "idle"]
      /\ loaded' = loaded \/ loaded' = [loaded EXCEPT ![job[w]] = answer[w]]
      /\ job' = [job EXCEPT ![w] = None] /\ answer' = [answer EXCEPT ![w] = None]
      /\ UNCHANGED <<transfer, rawName, disk>>
  BY DEF Emit, Goto
<1>2. \A r \in Requests :
        loaded'[r] # None /\ loaded'[r].status = "completed"
          => loaded'[r].file \in Offers /\ disk[loaded'[r].file.base] # None
  <2>1. ASSUME NEW r \in Requests PROVE loaded'[r] = loaded[r] \/ loaded'[r] = answer[w]
    BY <1>1 DEF DInv
  <2>2. answer[w].status = "completed" => answer[w].file \in Offers /\ disk[answer[w].file.base] # None
    BY <1>1 DEF FInv
  <2>3. \A r \in Requests :
          loaded[r] # None /\ loaded[r].status = "completed"
            => loaded[r].file \in Offers /\ disk[loaded[r].file.base] # None
    BY DEF FInv
  <2> QED
    BY <2>1, <2>2, <2>3
<1>3. \A v \in Workers : pc'[v] = "wait" => v # w /\ pc[v] = "wait" /\ job'[v] = job[v]
  BY <1>1 DEF DInv
<1>4. \A v \in Workers : pc'[v] = "emit" => v # w /\ pc[v] = "emit" /\ answer'[v] = answer[v]
  BY <1>1 DEF DInv
<1> QED
  BY <1>1, <1>2, <1>3, <1>4 DEF FInv, Stored

LEMMA FilesTransferred ==
  ASSUME DInv, FInv, NEW r \in Requests, Transferred(r)
  PROVE  FInv'
<1> DEFINE f == transfer[r].file
<1>1. PICK state \in {"completed", "failed"} :
        /\ transfer' = [transfer EXCEPT ![r] = [file |-> f, state |-> state]]
        /\ \/ state = "completed" /\ disk' = [disk EXCEPT ![f.raw] = f]
           \/ state = "failed" /\ disk' = disk
  BY DEF Transferred, Become
<1>2. transfer[r] # None /\ UNCHANGED <<pc, job, answer, rawName, loaded>>
  BY DEF Transferred, worker
<1>3. f \in Offers /\ [file |-> f, state |-> state] \in Transfer
  BY <1>2 DEF FInv, Transfer
<1>4. f.raw \in Names /\ f # None /\ [file |-> f, state |-> state] # None
  BY <1>3, DownloadsAssumption, NamesAssumption DEF Names
<1> HIDE DEF f
<1>5. disk' \in [Names -> Offers \cup {None}] /\ Kept
  <2>1. disk' \in [Names -> Offers \cup {None}]
    BY <1>1, <1>3 DEF FInv
  <2>2. \A n \in Names : disk[n] # None => disk'[n] # None
    BY <1>1, <1>4 DEF FInv
  <2> QED
    BY <2>1, <2>2 DEF Kept, Stored, Names
<1>6. state = "completed" => disk'[f.raw] # None
  BY <1>1, <1>4 DEF FInv
<1>7. transfer' \in [Requests -> Transfer \cup {None}]
  BY <1>1, <1>3 DEF FInv
<1>8. \A w \in Workers : pc'[w] = "wait" => job'[w] \in rawName' /\ transfer'[job'[w]] # None
  BY <1>1, <1>2, <1>4 DEF FInv
<1>9. \A q \in Requests :
        transfer'[q] # None /\ transfer'[q].state = "completed"
          => disk'[transfer'[q].file.raw] # None \/ disk'[transfer'[q].file.base] # None
  <2>1. ASSUME NEW q \in Requests, q # r, transfer[q] # None, transfer[q].state = "completed"
        PROVE  transfer[q].file \in Offers /\ Stored(transfer[q].file)
    BY <2>1 DEF FInv, Transfer
  <2>2. \A q \in Requests : q # r => transfer'[q] = transfer[q]
    BY <1>1 DEF FInv
  <2>3. transfer'[r] = [file |-> f, state |-> state]
    BY <1>1 DEF FInv
  <2> QED
    BY <1>5, <1>6, <2>1, <2>2, <2>3, FilesKept
<1>10. /\ \A v \in Workers :
            pc[v] = "emit" /\ answer[v].status = "completed"
              => answer[v].file \in Offers /\ disk'[answer[v].file.base] # None
       /\ \A q \in Requests :
            loaded[q] # None /\ loaded[q].status = "completed"
              => loaded[q].file \in Offers /\ disk'[loaded[q].file.base] # None
  BY <1>5, FilesKept
<1> QED
  BY <1>2, <1>5, <1>7, <1>8, <1>9, <1>10 DEF FInv, Stored

LEMMA NextFInv ==
  ASSUME DInv, FInv, [Next]_vars
  PROVE  FInv'
<1>1. CASE \/ \E w \in Workers : TimeIsUp(w)
           \/ Login \/ Stop \/ UNCHANGED vars
  <2>1. UNCHANGED <<pc, job, answer, transfer, rawName, disk, loaded>>
    BY <1>1 DEF TimeIsUp, Login, Stop, worker, vars
  <2> QED
    BY <2>1 DEF FInv, Stored
<1>2. ASSUME NEW w \in Workers, Work(w) PROVE FInv'
  BY <1>2, FilesPrivate, FilesStart, FilesCompleted, FilesEmit DEF Work
<1>3. ASSUME NEW r \in Requests, Transferred(r) PROVE FInv'
  BY <1>3, FilesTransferred
<1> QED
  BY <1>1, <1>2, <1>3 DEF Next

\* A song that was announced as completed has a file under the announced
\* path, whatever other workers transfer and rename, also under that name
\* (native.go:163-176).
THEOREM AnnouncedFileExists == Spec => []FileExists
<1>1. Init => DInv
  BY InitInv
<1>2. Init => FInv
  BY DownloadsAssumption DEF Init, FInv
<1>3. DInv /\ [Next]_vars => DInv'
  BY NextStep
<1>4. DInv /\ FInv /\ [Next]_vars => FInv'
  BY NextFInv
<1>5. FInv => FileExists
  BY DEF FInv, FileExists
<1> QED
  BY <1>1, <1>2, <1>3, <1>4, <1>5, PTL DEF Spec

-----------------------------------------------------------------------------
(* The pick.  What a worker carries up the ladder is the best of what its  *)
(* searches have returned so far.                                          *)

Search == [mode : Mode, passed : SUBSET Offers]

\* The candidate c after the strict searches s, none of which was enough:
\* the best file of the first search of most results.
Carried(c, s) ==
  IF c = None THEN \A i \in 1..Len(s) : s[i].passed = {}
  ELSE \E i \in 1..Len(s) :
         /\ c.file \in BestFiles(s[i].passed) /\ c.count = Cardinality(s[i].passed)
         /\ \A j \in 1..Len(s) :
              \/ Cardinality(s[j].passed) < c.count
              \/ j >= i /\ Cardinality(s[j].passed) = c.count

TooFew(s) ==
  \A i \in 1..Len(s) : s[i].mode = "strict" /\ Cardinality(s[i].passed) < LadderEnough

\* A worker at step p with these values of its variables.
LadderAt(p, j, m, r, b, a, s) ==
  /\ p \in {"idle", "probe"} => m = "strict"
  /\ p \in {"idle", "probe", "wait"} => r = 1 /\ b = None /\ s = <<>>
  /\ p = "ladder" =>
       /\ r \in 1..Len(Ladder(j)) \cup {1}
       /\ IF m = "strict" THEN TooFew(s) /\ Carried(b, s)
          ELSE b = None /\ \A i \in 1..Len(s) : s[i].passed = {}
  /\ p = "start" => b # None /\ IsBestOf(b.file, s)
  /\ p = "emit" => a \in Answer

SharedTyped ==
  /\ session \in {"none", "in", "failed"}
  /\ waiting \subseteq Requests
  /\ transfer \in [Requests -> Transfer \cup {None}]
  /\ rawName \subseteq Requests
  /\ disk \in [Names -> Offers \cup {None}]
  /\ loaded \in [Requests -> Answer \cup {None}]
  /\ stopped \in BOOLEAN

WorkersTyped ==
  /\ pc \in [Workers -> Step]
  /\ job \in [Workers -> Requests \cup {None}]
  /\ mode \in [Workers -> Mode]
  /\ rung \in [Workers -> 1..3]
  /\ best \in [Workers -> Candidate \cup {None}]
  /\ late \in [Workers -> BOOLEAN]
  /\ answer \in [Workers -> Answer \cup {None}]
  /\ seen \in [Workers -> Seq(Search)]

LInv ==
  /\ SharedTyped /\ WorkersTyped
  /\ \A w \in Workers :
       LadderAt(pc[w], job[w], mode[w], rung[w], best[w], answer[w], seen[w])

\* A ladder has at most the three rungs of buildLadder (worker.go:277-292).
LEMMA AtMostThreeRungs ==
  ASSUME NEW r
  PROVE  /\ Len(Ladder(r)) \in 0..3
         /\ Ladder(r) # <<>> => Len(Ladder(r)) > 0
<1> DEFINE Q == {"catno", "artist_title", "title"}
           a == IF r.catno THEN <<"catno">> ELSE <<>>
           b == IF r.artist /\ r.title # {} THEN <<"artist_title">> ELSE <<>>
           c == IF r.title # {} THEN <<"title">> ELSE <<>>
           short(x) == x \in Seq(Q) /\ Len(x) \in 0..1
<1>1. short(<<>>) /\ short(<<"catno">>) /\ short(<<"artist_title">>) /\ short(<<"title">>)
  <2>1. \A q \in Q : <<q>> \in Seq(Q) /\ Len(<<q>>) = 1
    OBVIOUS
  <2>2. "catno" \in Q /\ "artist_title" \in Q /\ "title" \in Q
    OBVIOUS
  <2>3. <<>> \in Seq(Q) /\ Len(<<>>) = 0
    BY EmptySeq
  <2> HIDE DEF Q
  <2> QED
    BY <2>1, <2>2, <2>3
<1>3. Ladder(r) = (a \o b) \o c
  BY DEF Ladder
<1> HIDE DEF Q
<1>4. a \in Seq(Q) /\ b \in Seq(Q) /\ c \in Seq(Q)
      /\ Len(a) \in 0..1 /\ Len(b) \in 0..1 /\ Len(c) \in 0..1
  BY <1>1
<1> HIDE DEF a, b, c
<1>5. a \o b \in Seq(Q) /\ Len(a \o b) = Len(a) + Len(b)
  BY <1>4, ConcatProperties
<1>6. Ladder(r) \in Seq(Q) /\ Len(Ladder(r)) = Len(a) + Len(b) + Len(c)
  BY <1>3, <1>4, <1>5, ConcatProperties
<1>7. \A x \in Seq(Q) : x # <<>> => Len(x) \in Nat \ {0}
  BY EmptySeq, Zenon
<1>8. Ladder(r) # <<>> => Len(Ladder(r)) \in Nat \ {0}
  BY <1>6, <1>7, Zenon
<1>9. Len(Ladder(r)) \in 0..3
  <2>1. \A x, y, z \in 0..1 : x + y + z \in 0..3
    OBVIOUS
  <2> QED
    BY <1>4, <1>6, <2>1, Zenon
<1> QED
  BY <1>8, <1>9

\* The head of the sorted results has the best codec, then the highest
\* bitrate, then the shortest queue (gate.go:116-147).
LEMMA PicksAreBest ==
  ASSUME NEW R \in SUBSET Offers, NEW f \in Picks(R)
  PROVE  f \in BestFiles(R)
<1>1. /\ f \in R /\ \A p \in R : ~Better(p, f)
      /\ \A o \in R : o.codec \in Int /\ o.bitrate \in Int /\ o.queue \in Int
  BY OfferAssumption DEF Picks
<1> DEFINE C == {o \in R : \A p \in R : o.codec =< p.codec}
           B == {o \in C : \A p \in C : -o.bitrate =< -p.bitrate}
           Q == {o \in B : \A p \in B : o.queue =< p.queue}
<1>2. f \in C
  BY <1>1 DEF Better
<1>3. \A p \in C : p \in R /\ p.codec = f.codec
  BY <1>1, <1>2
<1>4. f \in B
  <2>1. \A p \in C : -f.bitrate =< -p.bitrate
    BY <1>1, <1>3 DEF Better
  <2> QED
    BY <1>2, <2>1
<1>5. \A p \in B : p \in R /\ p.codec = f.codec /\ p.bitrate = f.bitrate
  BY <1>1, <1>2, <1>3, <1>4
<1>6. f \in Q
  <2>1. \A p \in B : f.queue =< p.queue
    BY <1>1, <1>5 DEF Better
  <2> QED
    BY <1>4, <2>1
<1> QED
  BY <1>6 DEF BestFiles, Least

\* The results of a search, and their number.
LEMMA CountsAreNumbers ==
  ASSUME NEW s \in Seq(Search), NEW i \in 1..Len(s)
  PROVE  /\ Cardinality(s[i].passed) \in Nat
         /\ s[i].passed = {} => Cardinality(s[i].passed) = 0
<1>1. s[i] \in Search
  BY ElementOfSeq
<1>2. IsFiniteSet(s[i].passed)
  BY <1>1, FS_Subset, DownloadsAssumption DEF Search
<1> QED
  BY <1>2, FS_CardinalityType, FS_EmptySet

LEMMA SomeAreCounted ==
  ASSUME NEW R \in SUBSET Offers
  PROVE  /\ Cardinality(R) \in Nat
         /\ \A f \in R : Cardinality(R) > 0
<1>1. IsFiniteSet(R)
  BY FS_Subset, DownloadsAssumption
<1>2. Cardinality(R) \in Nat /\ (Cardinality(R) = 0 <=> R = {})
  BY <1>1, FS_CardinalityType, FS_EmptySet
<1> QED
  BY <1>2

\* Appending a search leaves the earlier ones alone.
LEMMA SearchesAppended ==
  ASSUME NEW s \in Seq(Search), NEW e \in Search
  PROVE  LET t == Append(s, e) IN
         /\ t \in Seq(Search) /\ t # <<>>
         /\ Len(s) \in Nat /\ Len(t) = Len(s) + 1
         /\ \A i \in 1..Len(s) : t[i] = s[i]
         /\ t[Len(t)] = e
<1>1. Len(s) \in Nat
  BY LenProperties
<1> QED
  BY <1>1, AppendProperties

\* A rung without results changes nothing.
LEMMA CarriedOverNothing ==
  ASSUME NEW s \in Seq(Search), NEW e \in Search, e.passed = {},
         NEW c, Carried(c, s)
  PROVE  Carried(c, Append(s, e))
<1> DEFINE t == Append(s, e)
           count(j) == Cardinality(t[j].passed)
<1>1. /\ t \in Seq(Search) /\ Len(s) \in Nat /\ Len(t) = Len(s) + 1
      /\ \A i \in 1..Len(s) : t[i] = s[i]
      /\ t[Len(t)] = e
  BY SearchesAppended
<1> SUFFICES Carried(c, t)
  OBVIOUS
<1> HIDE DEF t
<1>2. \A j \in 1..Len(t) : count(j) \in Nat /\ (t[j].passed = {} => count(j) = 0)
  BY <1>1, CountsAreNumbers
<1>3. CASE c = None
  BY <1>1, <1>3 DEF Carried
<1>4. CASE c # None
  <2>1. PICK i \in 1..Len(s) :
          /\ c.file \in BestFiles(s[i].passed) /\ c.count = Cardinality(s[i].passed)
          /\ \A j \in 1..Len(s) :
               \/ Cardinality(s[j].passed) < c.count
               \/ j >= i /\ Cardinality(s[j].passed) = c.count
    BY <1>4 DEF Carried
  <2>2. i \in 1..Len(t) /\ t[i] = s[i] /\ c.count = count(i)
    BY <1>1, <2>1
  <2>3. ASSUME NEW j \in 1..Len(t)
        PROVE  count(j) < c.count \/ (j >= i /\ count(j) = c.count)
    <3>1. CASE j \in 1..Len(s)
      BY <1>1, <2>1, <3>1
    <3>2. CASE j = Len(t)
      <4>1. count(j) = 0 /\ j >= i
        BY <1>1, <1>2, <2>2, <3>2
      <4>2. c.count \in Nat
        BY <1>2, <2>2
      <4> QED
        BY <4>1, <4>2
    <3> QED
      BY <1>1, <3>1, <3>2
  <2> HIDE DEF count
  <2>4. c.file \in BestFiles(t[i].passed) /\ c.count = Cardinality(t[i].passed)
    BY <2>1, <2>2
  <2> QED
    BY <1>4, <2>2, <2>3, <2>4 DEF Carried, count
<1> QED
  BY <1>3, <1>4 DEF t

\* A rung with results is carried on when it has more than any before it.
LEMMA CarriedOverBest ==
  ASSUME NEW s \in Seq(Search), NEW e \in Search, NEW f \in Picks(e.passed),
         NEW c, Carried(c, s)
  PROVE  LET d == Carry(c, f, Cardinality(e.passed)) IN
         Carried(d, Append(s, e)) /\ d # None
<1> DEFINE d == Carry(c, f, Cardinality(e.passed))
           t == Append(s, e)
           count(j) == Cardinality(t[j].passed)
           n == Cardinality(e.passed)
<1>1. /\ t \in Seq(Search) /\ Len(s) \in Nat /\ Len(t) = Len(s) + 1
      /\ \A i \in 1..Len(s) : t[i] = s[i]
      /\ t[Len(t)] = e
  BY SearchesAppended
<1> SUFFICES Carried(d, t) /\ d # None
  OBVIOUS
<1> HIDE DEF t, d
<1>2. \A j \in 1..Len(t) : count(j) \in Nat /\ (t[j].passed = {} => count(j) = 0)
  BY <1>1, CountsAreNumbers
<1>3. e.passed \in SUBSET Offers /\ f \in e.passed /\ f \in Offers
  BY DEF Search, Picks
<1>4. n \in Nat /\ n > 0 /\ f \in BestFiles(e.passed)
  BY <1>3, SomeAreCounted, PicksAreBest
<1>5. count(Len(t)) = n /\ Len(t) \in 1..Len(t)
  BY <1>1
<1>6. CASE c = None \/ n > c.count
  <2>1. d = [file |-> f, count |-> n]
    BY <1>6 DEF Carry, d
  <2>2. d.file = f /\ d.count = n
    BY <2>1
  <2>3. d # None
    BY <1>3, <1>4, <2>1, NamesAssumption DEF Candidate
  <2>4. ASSUME NEW j \in 1..Len(s) PROVE count(j) < n
    <3>1. CASE c = None
      BY <1>1, <1>2, <1>4, <3>1 DEF Carried
    <3>2. CASE c # None
      <4>1. Cardinality(s[j].passed) =< c.count /\ c.count \in Nat
        <5>1. PICK i \in 1..Len(s) :
                /\ c.count = Cardinality(s[i].passed)
                /\ Cardinality(s[j].passed) < c.count \/ Cardinality(s[j].passed) = c.count
          BY <3>2 DEF Carried
        <5> QED
          BY <5>1, CountsAreNumbers
      <4>2. count(j) \in Nat /\ count(j) = Cardinality(s[j].passed)
        BY <1>1, <1>2
      <4> QED
        BY <1>4, <1>6, <3>2, <4>1, <4>2
    <3> QED
      BY <3>1, <3>2
  <2> HIDE DEF count
  <2>5. \A j \in 1..Len(t) : count(j) < d.count \/ (j >= Len(t) /\ count(j) = d.count)
    BY <1>1, <1>5, <2>2, <2>4
  <2>6. d.file \in BestFiles(t[Len(t)].passed) /\ d.count = Cardinality(t[Len(t)].passed)
    BY <1>1, <1>4, <2>2
  <2> QED
    BY <1>5, <2>3, <2>5, <2>6 DEF Carried, count
<1>7. CASE c # None /\ ~(n > c.count)
  <2>1. d = c
    BY <1>7 DEF Carry, d
  <2>2. PICK i \in 1..Len(s) :
          /\ c.file \in BestFiles(s[i].passed) /\ c.count = Cardinality(s[i].passed)
          /\ \A j \in 1..Len(s) :
               \/ Cardinality(s[j].passed) < c.count
               \/ j >= i /\ Cardinality(s[j].passed) = c.count
    BY <1>7 DEF Carried
  <2>3. i \in 1..Len(t) /\ t[i] = s[i] /\ c.count = count(i) /\ c.count \in Nat
    BY <1>1, <1>2, <2>2
  <2>4. ASSUME NEW j \in 1..Len(t)
        PROVE  count(j) < c.count \/ (j >= i /\ count(j) = c.count)
    <3>1. CASE j \in 1..Len(s)
      BY <1>1, <2>2, <3>1
    <3>2. CASE j = Len(t)
      <4>1. count(j) = n /\ j >= i
        BY <1>1, <1>5, <2>3, <3>2
      <4> QED
        BY <1>4, <1>7, <2>3, <4>1
    <3> QED
      BY <1>1, <3>1, <3>2
  <2> HIDE DEF count
  <2>5. c.file \in BestFiles(t[i].passed) /\ c.count = Cardinality(t[i].passed)
    BY <2>2, <2>3
  <2> QED
    BY <1>7, <2>1, <2>3, <2>4, <2>5 DEF Carried, count
<1> QED
  BY <1>6, <1>7 DEF t, d

\* The three ways a ladder ends with a file.
LEMMA EnoughIsBest ==
  ASSUME NEW s \in Seq(Search), TooFew(s),
         NEW e \in Search, e.mode = "strict", Cardinality(e.passed) >= LadderEnough,
         NEW f \in Picks(e.passed)
  PROVE  IsBestOf(f, Append(s, e))
<1> DEFINE t == Append(s, e)
           count(j) == Cardinality(t[j].passed)
<1>1. /\ t \in Seq(Search) /\ Len(s) \in Nat /\ Len(t) = Len(s) + 1
      /\ \A i \in 1..Len(s) : t[i] = s[i]
      /\ t[Len(t)] = e
  BY SearchesAppended
<1>2. \A j \in 1..Len(t) : count(j) \in Nat
  BY <1>1, CountsAreNumbers
<1>3. f \in BestFiles(e.passed)
  BY PicksAreBest DEF Search
<1>4. LadderEnough \in Nat
  BY DownloadsAssumption
<1> HIDE DEF t
<1>5. \A j \in 1..Len(s) : count(j) < LadderEnough /\ count(j) < count(Len(t))
  BY <1>1, <1>2, <1>4 DEF TooFew
<1>6. \A j \in 1..Len(t) : j \in 1..Len(s) \/ j = Len(t)
  BY <1>1
<1>7. t[Len(t)].mode # "relaxed" /\ f \in BestFiles(t[Len(t)].passed) /\ Len(t) \in 1..Len(t)
  BY <1>1, <1>3
<1>8. \A j \in 1..Len(t) : count(j) < count(Len(t)) \/ (j >= Len(t) /\ count(j) = count(Len(t)))
  BY <1>1, <1>5, <1>6
<1>9. \A j \in 1..(Len(t) - 1) : count(j) < LadderEnough
  BY <1>1, <1>5
<1> QED
  BY <1>7, <1>8, <1>9 DEF IsBestOf, t

LEMMA CarriedIsBest ==
  ASSUME NEW s \in Seq(Search), s # <<>>, TooFew(s), NEW c, c # None, Carried(c, s)
  PROVE  IsBestOf(c.file, s)
<1>1. Len(s) \in Nat \ {0}
  BY EmptySeq
<1>2. PICK i \in 1..Len(s) :
        /\ c.file \in BestFiles(s[i].passed) /\ c.count = Cardinality(s[i].passed)
        /\ \A j \in 1..Len(s) :
             \/ Cardinality(s[j].passed) < c.count
             \/ j >= i /\ Cardinality(s[j].passed) = c.count
  BY DEF Carried
<1>3. s[Len(s)].mode # "relaxed"
  BY <1>1 DEF TooFew
<1>4. \A j \in 1..(Len(s) - 1) : Cardinality(s[j].passed) < LadderEnough
  BY <1>1 DEF TooFew
<1> QED
  BY <1>2, <1>3, <1>4 DEF IsBestOf

LEMMA RelaxedIsBest ==
  ASSUME NEW s \in Seq(Search), \A i \in 1..Len(s) : s[i].passed = {},
         NEW e \in Search, e.mode = "relaxed", NEW f \in Picks(e.passed)
  PROVE  IsBestOf(f, Append(s, e))
<1> DEFINE t == Append(s, e)
<1>1. /\ Len(s) \in Nat /\ Len(t) = Len(s) + 1
      /\ \A i \in 1..Len(s) : t[i] = s[i]
      /\ t[Len(t)] = e
  BY SearchesAppended
<1>2. f \in BestFiles(e.passed)
  BY PicksAreBest DEF Search
<1> HIDE DEF t
<1>3. \A j \in 1..(Len(t) - 1) : t[j].passed = {}
  BY <1>1
<1>4. t[Len(t)].mode = "relaxed" /\ f \in BestFiles(t[Len(t)].passed)
  BY <1>1, <1>2
<1> QED
  BY <1>3, <1>4 DEF IsBestOf, t

-----------------------------------------------------------------------------
(* One lemma per action, on the values of one worker.                      *)

\* The new values of a worker: of its ladder, and of all its variables.
Ladders(w, m, r, b, s) ==
  /\ m \in Mode /\ mode' = [mode EXCEPT ![w] = m]
  /\ r \in 1..3 /\ rung' = [rung EXCEPT ![w] = r]
  /\ b \in Candidate \cup {None} /\ best' = [best EXCEPT ![w] = b]
  /\ s \in Seq(Search) /\ seen' = [seen EXCEPT ![w] = s]

Becomes(w, p, j, m, r, b, a, s) ==
  /\ p \in Step /\ pc' = [pc EXCEPT ![w] = p]
  /\ j \in Requests \cup {None} /\ job' = [job EXCEPT ![w] = j]
  /\ a \in Answer \cup {None} /\ answer' = [answer EXCEPT ![w] = a]
  /\ Ladders(w, m, r, b, s)
  /\ late' \in [Workers -> BOOLEAN]

\* A worker goes on with new values; the others stay as they are.
LEMMA OneWorker ==
  ASSUME LInv, NEW w \in Workers, SharedTyped',
         NEW p, NEW j, NEW m, NEW r, NEW b, NEW a, NEW s,
         Becomes(w, p, j, m, r, b, a, s), LadderAt(p, j, m, r, b, a, s)
  PROVE  LInv'
<1> USE DEF Becomes, Ladders
<1>1. WorkersTyped'
  BY DEF LInv, WorkersTyped
<1>2. /\ pc'[w] = p /\ job'[w] = j /\ mode'[w] = m /\ rung'[w] = r /\ best'[w] = b
      /\ answer'[w] = a /\ seen'[w] = s
  BY DEF LInv, WorkersTyped
<1>3. \A v \in Workers \ {w} :
        /\ pc'[v] = pc[v] /\ job'[v] = job[v] /\ mode'[v] = mode[v] /\ rung'[v] = rung[v]
        /\ best'[v] = best[v] /\ answer'[v] = answer[v] /\ seen'[v] = seen[v]
  BY DEF LInv, WorkersTyped
<1>4. ASSUME NEW v \in Workers
      PROVE  LadderAt(pc'[v], job'[v], mode'[v], rung'[v], best'[v], answer'[v], seen'[v])
  <2>1. CASE v = w
    BY <1>2, <2>1
  <2>2. CASE v # w
    BY <1>3, <2>2 DEF LInv
  <2> QED
    BY <2>1, <2>2
<1> QED
  BY <1>1, <1>4 DEF LInv

\* What a worker has at a step.
LEMMA ThisWorker ==
  ASSUME LInv, NEW w \in Workers
  PROVE  /\ pc[w] \in Step /\ pc = [pc EXCEPT ![w] = pc[w]]
         /\ job[w] \in Requests \cup {None} /\ job = [job EXCEPT ![w] = job[w]]
         /\ mode[w] \in Mode /\ mode = [mode EXCEPT ![w] = mode[w]]
         /\ rung[w] \in 1..3 /\ rung = [rung EXCEPT ![w] = rung[w]]
         /\ best[w] \in Candidate \cup {None} /\ best = [best EXCEPT ![w] = best[w]]
         /\ late \in [Workers -> BOOLEAN]
         /\ answer[w] \in Answer \cup {None} /\ answer = [answer EXCEPT ![w] = answer[w]]
         /\ seen[w] \in Seq(Search) /\ seen = [seen EXCEPT ![w] = seen[w]]
         /\ LadderAt(pc[w], job[w], mode[w], rung[w], best[w], answer[w], seen[w])
<1> USE DEF LInv, WorkersTyped
<1>1. pc[w] \in Step /\ pc = [pc EXCEPT ![w] = pc[w]]
  OBVIOUS
<1>2. job[w] \in Requests \cup {None} /\ job = [job EXCEPT ![w] = job[w]]
  OBVIOUS
<1>3. mode[w] \in Mode /\ mode = [mode EXCEPT ![w] = mode[w]]
  OBVIOUS
<1>4. rung[w] \in 1..3 /\ rung = [rung EXCEPT ![w] = rung[w]]
  OBVIOUS
<1>5. best[w] \in Candidate \cup {None} /\ best = [best EXCEPT ![w] = best[w]]
  OBVIOUS
<1>6. late \in [Workers -> BOOLEAN]
  OBVIOUS
<1>7. answer[w] \in Answer \cup {None} /\ answer = [answer EXCEPT ![w] = answer[w]]
  OBVIOUS
<1>8. seen[w] \in Seq(Search) /\ seen = [seen EXCEPT ![w] = seen[w]]
  OBVIOUS
<1> QED
  BY <1>1, <1>2, <1>3, <1>4, <1>5, <1>6, <1>7, <1>8

LEMMA TypedReply ==
  ASSUME NEW w \in Workers, NEW status \in {"completed", "error", "not_found"},
         NEW f \in Offers \cup {None}, NEW relaxed \in BOOLEAN, Reply(w, status, f, relaxed)
  PROVE  /\ \E a \in Answer : answer' = [answer EXCEPT ![w] = a]
         /\ pc' = [pc EXCEPT ![w] = "emit"]
<1> DEFINE told == relaxed /\ job[w].strategy = "search"
           a(b) == [status |-> status, file |-> f, relaxed |-> b]
<1>1. answer' = [answer EXCEPT ![w] = a(told)] /\ pc' = [pc EXCEPT ![w] = "emit"]
  BY DEF Reply, Goto
<1>2. a(TRUE) \in Answer /\ a(FALSE) \in Answer
  BY DEF Answer
<1>3. told = TRUE \/ told = FALSE
  OBVIOUS
<1>4. answer' = [answer EXCEPT ![w] = a(TRUE)] \/ answer' = [answer EXCEPT ![w] = a(FALSE)]
  <2> HIDE DEF a
  <2>1. CASE told = TRUE
    BY <1>1, <2>1
  <2>2. CASE told = FALSE
    BY <1>1, <2>2
  <2> QED
    BY <1>3, <2>1, <2>2
<1> HIDE DEF a, told
<1> QED
  BY <1>1, <1>2, <1>4

\* A worker replies: nothing is asked of its ladder variables any more.
LEMMA LadderReply ==
  ASSUME LInv, NEW w \in Workers, SharedTyped',
         NEW status \in {"completed", "error", "not_found"},
         NEW f \in Offers \cup {None}, NEW relaxed \in BOOLEAN, Reply(w, status, f, relaxed),
         UNCHANGED <<job, late>>,
         NEW m, NEW r, NEW b, NEW s, Ladders(w, m, r, b, s)
  PROVE  LInv'
<1>1. PICK a \in Answer : answer' = [answer EXCEPT ![w] = a]
  BY TypedReply
<1>2. pc' = [pc EXCEPT ![w] = "emit"]
  BY TypedReply
<1>3. /\ job[w] \in Requests \cup {None} /\ job' = [job EXCEPT ![w] = job[w]]
      /\ late' \in [Workers -> BOOLEAN]
  BY ThisWorker
<1>4. LadderAt("emit", job[w], m, r, b, a, s)
  BY DEF LadderAt
<1>5. Becomes(w, "emit", job[w], m, r, b, a, s)
  BY <1>1, <1>2, <1>3 DEF Becomes, Step
<1> QED
  BY <1>4, <1>5, OneWorker

\* The search of a rung, and what follows from its results.
LEMMA LadderClimb ==
  ASSUME LInv, NEW w \in Workers, pc[w] = "ladder", Ladder(job[w]) # <<>>,
         NEW R \in SUBSET Offers, Climb(w, R), SharedTyped', UNCHANGED <<job, late>>,
         seen' = [seen EXCEPT ![w] = Append(@,
           [mode |-> mode[w], passed |-> FilterGate(R, GateOf(mode[w]))])]
  PROVE  LInv'
<1> DEFINE passed == FilterGate(R, GateOf(mode[w]))
           e      == [mode |-> mode[w], passed |-> passed]
           n      == Cardinality(passed)
           t      == Append(seen[w], e)
           go(c)  == IF AtTop(w) THEN EndStrict(w, c) ELSE NextRung(w, c)
<1>1. /\ job[w] \in Requests \cup {None} /\ job' = [job EXCEPT ![w] = job[w]]
      /\ mode[w] \in Mode /\ mode = [mode EXCEPT ![w] = mode[w]]
      /\ rung[w] \in 1..3 /\ rung = [rung EXCEPT ![w] = rung[w]]
      /\ best[w] \in Candidate \cup {None} /\ best = [best EXCEPT ![w] = best[w]]
      /\ late' \in [Workers -> BOOLEAN]
      /\ answer[w] \in Answer \cup {None} /\ answer = [answer EXCEPT ![w] = answer[w]]
      /\ seen[w] \in Seq(Search) /\ pc = [pc EXCEPT ![w] = "ladder"]
  BY ThisWorker
<1>2. /\ rung[w] \in 1..Len(Ladder(job[w])) \cup {1}
      /\ mode[w] = "strict" => TooFew(seen[w]) /\ Carried(best[w], seen[w])
      /\ mode[w] # "strict" => best[w] = None /\ \A i \in 1..Len(seen[w]) : seen[w][i].passed = {}
  <2>1. LadderAt("ladder", job[w], mode[w], rung[w], best[w], answer[w], seen[w])
    BY ThisWorker
  <2> QED
    BY <2>1 DEF LadderAt
<1>3. Len(Ladder(job[w])) \in 1..3
  BY AtMostThreeRungs
<1>4. passed \in SUBSET Offers
  BY DEF FilterGate
<1>5. e \in Search /\ e.mode = mode[w] /\ e.passed = passed /\ n \in Nat
  BY <1>1, <1>4, SomeAreCounted DEF Search
<1>6. /\ t \in Seq(Search) /\ t # <<>> /\ Len(seen[w]) \in Nat /\ Len(t) = Len(seen[w]) + 1
      /\ \A i \in 1..Len(seen[w]) : t[i] = seen[w][i]
      /\ t[Len(t)] = e
  BY <1>1, <1>5, SearchesAppended
<1>7. seen' = [seen EXCEPT ![w] = t] /\ {"ladder", "start"} \subseteq Step
      /\ {"strict", "relaxed"} \subseteq Mode
  BY DEF Step, Mode
<1>8. \A f \in Picks(passed) : [file |-> f, count |-> n] \in Candidate
  BY <1>4, <1>5 DEF Picks, Candidate
<1> HIDE DEF passed, e, n, t
<1>9. ASSUME NEW c \in Candidate, IsBestOf(c.file, t), Choose(w, c),
             UNCHANGED <<mode, rung, answer>>
      PROVE  LInv'
  <2>1. pc' = [pc EXCEPT ![w] = "start"] /\ best' = [best EXCEPT ![w] = c]
    BY <1>9 DEF Choose, Goto
  <2>2. c # None
    BY NamesAssumption
  <2>3. LadderAt("start", job[w], mode[w], rung[w], c, answer[w], t)
    BY <1>9, <2>2 DEF LadderAt
  <2> QED
    <3>1. Becomes(w, "start", job[w], mode[w], rung[w], c, answer[w], t)
      BY <1>1, <1>6, <1>7, <1>9, <2>1 DEF Becomes, Ladders
    <3> QED
      BY <2>3, <3>1, OneWorker
<1>10. ASSUME NEW c \in Candidate \cup {None}, NextRung(w, c), ~AtTop(w),
              IF mode[w] = "strict" THEN TooFew(t) /\ Carried(c, t)
              ELSE c = None /\ \A i \in 1..Len(t) : t[i].passed = {}
       PROVE  LInv'
  <2>1. rung[w] + 1 \in 1..3 /\ rung[w] + 1 \in 1..Len(Ladder(job[w]))
    <3>1. \A n1 \in 1..3 : \A r1 \in 1..n1 \cup {1} : r1 # n1 => r1 + 1 \in 1..3 /\ r1 + 1 \in 1..n1
      OBVIOUS
    <3>2. rung[w] # Len(Ladder(job[w]))
      BY <1>10 DEF AtTop
    <3> QED
      BY <1>2, <1>3, <3>1, <3>2
  <2>2. /\ rung' = [rung EXCEPT ![w] = rung[w] + 1] /\ best' = [best EXCEPT ![w] = c]
        /\ UNCHANGED <<pc, mode, answer>>
    BY <1>10 DEF NextRung
  <2>3. LadderAt("ladder", job[w], mode[w], rung[w] + 1, c, answer[w], t)
    BY <1>10, <2>1 DEF LadderAt
  <2> QED
    <3>1. Becomes(w, "ladder", job[w], mode[w], rung[w] + 1, c, answer[w], t)
      BY <1>1, <1>6, <1>7, <2>1, <2>2 DEF Becomes, Ladders
    <3> QED
      BY <2>3, <3>1, OneWorker
<1>11. ASSUME NEW c \in Candidate \cup {None}, EndStrict(w, c), TooFew(t), Carried(c, t),
              c = None => best[w] = None
       PROVE  LInv'
  <2>1. CASE c # None
    <3>1. IsBestOf(c.file, t)
      BY <1>6, <1>11, <2>1, CarriedIsBest
    <3>2. Choose(w, c) /\ UNCHANGED <<mode, rung, answer>> /\ c \in Candidate
      BY <1>11, <2>1 DEF EndStrict
    <3> QED
      BY <1>9, <3>1, <3>2
  <2>2. CASE c = None
    <3>1. /\ mode' = [mode EXCEPT ![w] = "relaxed"] /\ rung' = [rung EXCEPT ![w] = 1]
          /\ UNCHANGED <<pc, best, answer>>
      BY <1>11, <2>2 DEF EndStrict
    <3>2. LadderAt("ladder", job[w], "relaxed", 1, best[w], answer[w], t)
      BY <1>11, <2>2 DEF LadderAt, Carried
    <3> QED
      <4>1. best' = [best EXCEPT ![w] = best[w]]
        BY <1>1, <3>1
      <4>2. Ladders(w, "relaxed", 1, best[w], t)
        <5>1. best[w] \in Candidate \cup {None} /\ t \in Seq(Search) /\ "relaxed" \in Mode /\ 1 \in 1..3
          BY <1>1, <1>6, <1>7
        <5> QED
          BY <1>7, <3>1, <4>1, <5>1, Zenon DEF Ladders
      <4>3. Becomes(w, "ladder", job[w], "relaxed", 1, best[w], answer[w], t)
        BY <1>1, <1>7, <3>1, <4>2 DEF Becomes
      <4> QED
        BY <3>2, <4>3, OneWorker
  <2> QED
    BY <2>1, <2>2

<1>12. CASE mode[w] = "strict"
  <2>1. TooFew(seen[w]) /\ Carried(best[w], seen[w])
    BY <1>2, <1>12
  <2>2. \/ passed = {} /\ go(best[w])
        \/ \E f \in Picks(passed) :
             IF n >= LadderEnough
             THEN /\ Choose(w, [file |-> f, count |-> n])
                  /\ UNCHANGED <<mode, rung, answer>>
             ELSE go(Carry(best[w], f, n))
    BY <1>12 DEF Climb, passed, n
  <2>3. ASSUME n < LadderEnough PROVE TooFew(t)
    <3>1. \A i \in 1..Len(t) : i \in 1..Len(seen[w]) \/ i = Len(t)
      BY <1>6
    <3>2. e.mode = "strict" /\ Cardinality(e.passed) < LadderEnough
      BY <1>5, <1>12, <2>3 DEF n
    <3> QED
      BY <1>6, <2>1, <3>1, <3>2 DEF TooFew
  <2>4. ASSUME NEW c \in Candidate \cup {None}, go(c), n < LadderEnough, Carried(c, t),
               c = None => best[w] = None
        PROVE  LInv'
    BY <1>10, <1>11, <1>12, <2>3, <2>4
  <2>5. CASE passed = {} /\ go(best[w])
    <3>1. n < LadderEnough
      BY <2>5, FS_EmptySet, DownloadsAssumption DEF n
    <3>2. Carried(best[w], t)
      BY <1>1, <1>5, <2>1, <2>5, CarriedOverNothing DEF t
    <3> QED
      BY <1>1, <2>4, <2>5, <3>1, <3>2
  <2>6. ASSUME NEW f \in Picks(passed), n >= LadderEnough,
               Choose(w, [file |-> f, count |-> n]), UNCHANGED <<mode, rung, answer>>
        PROVE  LInv'
    <3>1. IsBestOf(f, t)
      BY <1>1, <1>5, <1>12, <2>1, <2>6, EnoughIsBest DEF t, n
    <3> QED
      BY <1>8, <1>9, <2>6, <3>1
  <2>7. ASSUME NEW f \in Picks(passed), ~(n >= LadderEnough), go(Carry(best[w], f, n))
        PROVE  LInv'
    <3> DEFINE d == Carry(best[w], f, n)
    <3>1. Carried(d, t) /\ d # None
      <4>1. e.passed = passed /\ f \in Picks(e.passed) /\ e \in Search /\ seen[w] \in Seq(Search)
        BY <1>1, <1>5
      <4>2. LET x == Carry(best[w], f, Cardinality(e.passed)) IN
            Carried(x, Append(seen[w], e)) /\ x # None
        BY <2>1, <4>1, CarriedOverBest
      <4> QED
        BY <4>1, <4>2 DEF t, n
    <3>2. d \in Candidate \cup {None}
      <4>1. d = best[w] \/ d = [file |-> f, count |-> n]
        BY DEF Carry
      <4> HIDE DEF d
      <4> QED
        BY <1>1, <1>8, <4>1
    <3>3. n < LadderEnough
      BY <1>5, <2>7, DownloadsAssumption
    <3> HIDE DEF d
    <3> QED
      BY <2>4, <2>7, <3>1, <3>2, <3>3 DEF d
  <2> QED
    BY <2>2, <2>5, <2>6, <2>7
<1>13. CASE mode[w] # "strict"
  <2>1. /\ mode[w] = "relaxed" /\ best[w] = None
        /\ \A i \in 1..Len(seen[w]) : seen[w][i].passed = {}
    BY <1>1, <1>2, <1>13 DEF Mode
  <2>2. \/ passed = {} /\ (IF AtTop(w) THEN EndRelaxed(w) ELSE NextRung(w, None))
        \/ \E f \in Picks(passed) :
             /\ Choose(w, [file |-> f, count |-> n])
             /\ UNCHANGED <<mode, rung, answer>>
    BY <1>13 DEF Climb, passed, n
  <2>3. ASSUME passed = {}, NextRung(w, None), ~AtTop(w) PROVE LInv'
    <3>1. \A i \in 1..Len(t) : t[i].passed = {}
      BY <1>5, <1>6, <2>1, <2>3
    <3> QED
      BY <1>10, <1>13, <2>3, <3>1
  <2>4. ASSUME EndRelaxed(w) PROVE LInv'
    <3>1. /\ Reply(w, "error", None, FALSE) /\ rung' = [rung EXCEPT ![w] = 1]
          /\ UNCHANGED <<mode, best>>
      BY <2>4 DEF EndRelaxed
    <3> QED
      <4>1. best' = [best EXCEPT ![w] = best[w]] /\ mode' = [mode EXCEPT ![w] = mode[w]]
        BY <1>1, <3>1
      <4>2. Ladders(w, mode[w], 1, best[w], t)
        <5>1. best[w] \in Candidate \cup {None} /\ t \in Seq(Search) /\ mode[w] \in Mode /\ 1 \in 1..3
          BY <1>1, <1>6
        <5> QED
          BY <1>7, <3>1, <4>1, <5>1, Zenon DEF Ladders
      <4> QED
        BY <3>1, <4>2, LadderReply
  <2>5. ASSUME NEW f \in Picks(passed), Choose(w, [file |-> f, count |-> n]),
               UNCHANGED <<mode, rung, answer>>
        PROVE  LInv'
    <3>1. IsBestOf(f, t)
      BY <1>1, <1>5, <2>1, RelaxedIsBest DEF t
    <3> QED
      BY <1>8, <1>9, <2>5, <3>1
  <2> QED
    BY <2>2, <2>3, <2>4, <2>5
<1> QED
  BY <1>12, <1>13

LEMMA LadderUnshared ==
  ASSUME LInv, UNCHANGED <<session, waiting, transfer, rawName, disk, loaded, stopped>>
  PROVE  SharedTyped'
BY DEF LInv, SharedTyped

\* A worker replies, and its ladder is over or stays as it is.
LEMMA LadderOver ==
  ASSUME LInv, NEW w \in Workers, SharedTyped',
         NEW status \in {"completed", "error", "not_found"},
         NEW f \in Offers \cup {None}, NEW relaxed \in BOOLEAN, Reply(w, status, f, relaxed),
         UNCHANGED <<job, late, mode>>,
         EndLadder(w) \/ UNCHANGED <<rung, best, seen>>
  PROVE  LInv'
<1>1. /\ mode[w] \in Mode /\ rung[w] \in 1..3 /\ best[w] \in Candidate \cup {None}
      /\ seen[w] \in Seq(Search) /\ <<>> \in Seq(Search) /\ 1 \in 1..3
  BY ThisWorker, EmptySeq
<1>2. /\ mode' = [mode EXCEPT ![w] = mode[w]] /\ rung = [rung EXCEPT ![w] = rung[w]]
      /\ best = [best EXCEPT ![w] = best[w]] /\ seen = [seen EXCEPT ![w] = seen[w]]
  BY ThisWorker
<1>3. CASE EndLadder(w)
  <2>1. Ladders(w, mode[w], 1, None, <<>>)
    BY <1>1, <1>2, <1>3, Zenon DEF Ladders, EndLadder
  <2> QED
    BY <2>1, LadderReply
<1>4. CASE UNCHANGED <<rung, best, seen>>
  <2>1. Ladders(w, mode[w], rung[w], best[w], seen[w])
    BY <1>1, <1>2, <1>4 DEF Ladders
  <2> QED
    BY <2>1, LadderReply
<1> QED
  BY <1>3, <1>4

\* A worker whose ladder has not begun, or is over, goes on to a step p.
LEMMA LadderIdle ==
  ASSUME LInv, NEW w \in Workers, SharedTyped', late' \in [Workers -> BOOLEAN],
         NEW p \in {"idle", "probe", "ladder", "wait"}, pc' = [pc EXCEPT ![w] = p],
         NEW j \in Requests \cup {None}, job' = [job EXCEPT ![w] = j],
         NEW a \in Answer \cup {None}, answer' = [answer EXCEPT ![w] = a],
         NEW m \in Mode, mode' = [mode EXCEPT ![w] = m],
         p # "wait" => m = "strict",
         \/ EndLadder(w)
         \/ UNCHANGED <<rung, best, seen>> /\ rung[w] = 1 /\ best[w] = None /\ seen[w] = <<>>
  PROVE  LInv'
<1>1. Ladders(w, m, 1, None, <<>>)
  <2>1. /\ rung' = [rung EXCEPT ![w] = 1] /\ best' = [best EXCEPT ![w] = None]
        /\ seen' = [seen EXCEPT ![w] = <<>>]
    BY ThisWorker DEF EndLadder
  <2>2. 1 \in 1..3 /\ <<>> \in Seq(Search)
    BY EmptySeq
  <2> QED
    BY <2>1, <2>2, Zenon DEF Ladders
<1>2. Becomes(w, p, j, m, 1, None, a, <<>>)
  BY <1>1 DEF Becomes, Step
<1>3. LadderAt(p, j, m, 1, None, a, <<>>)
  <2>1. TooFew(<<>>) /\ Carried(None, <<>>)
    BY DEF TooFew, Carried
  <2> QED
    BY <2>1 DEF LadderAt
<1> QED
  BY <1>2, <1>3, OneWorker

LEMMA LadderTake ==
  ASSUME LInv, NEW w \in Workers, NEW r \in Requests, Take(w, r)
  PROVE  LInv'
<1>1. /\ pc[w] = "idle" /\ waiting' \subseteq waiting
      /\ job' = [job EXCEPT ![w] = r]
      /\ UNCHANGED <<session, mode, rung, best, late, answer, transfer, rawName, disk, loaded,
                     stopped, seen>>
  BY DEF Take
<1>2. PICK p \in {"probe", "ladder"} : pc' = [pc EXCEPT ![w] = p]
  BY DEF Take, Goto
<1>3. SharedTyped'
  BY <1>1 DEF LInv, SharedTyped
<1>4. mode[w] = "strict" /\ rung[w] = 1 /\ best[w] = None /\ seen[w] = <<>>
  BY <1>1, ThisWorker DEF LadderAt
<1>5. /\ mode' = [mode EXCEPT ![w] = mode[w]] /\ mode[w] \in Mode
      /\ answer' = [answer EXCEPT ![w] = answer[w]] /\ answer[w] \in Answer \cup {None}
      /\ late' \in [Workers -> BOOLEAN]
  BY <1>1, ThisWorker
<1> QED
  BY <1>1, <1>2, <1>3, <1>4, <1>5, LadderIdle

LEMMA LadderProbe ==
  ASSUME LInv, NEW w \in Workers, ProbeFinds(w)
  PROVE  LInv'
<1>1. /\ pc[w] = "probe" /\ pc' = [pc EXCEPT ![w] = "ladder"]
      /\ UNCHANGED <<session, waiting, job, mode, rung, best, late, answer, transfer,
                     rawName, disk, loaded, stopped, seen>>
  BY DEF ProbeFinds, Goto
<1>2. SharedTyped'
  BY <1>1, LadderUnshared
<1>3. mode[w] = "strict" /\ rung[w] = 1 /\ best[w] = None /\ seen[w] = <<>>
  BY <1>1, ThisWorker DEF LadderAt
<1>4. /\ mode' = [mode EXCEPT ![w] = mode[w]] /\ mode[w] \in Mode
      /\ answer' = [answer EXCEPT ![w] = answer[w]] /\ answer[w] \in Answer \cup {None}
      /\ job' = [job EXCEPT ![w] = job[w]] /\ job[w] \in Requests \cup {None}
      /\ late' \in [Workers -> BOOLEAN]
  BY <1>1, ThisWorker
<1> QED
  BY <1>1, <1>2, <1>3, <1>4, LadderIdle

LEMMA LadderRefuse ==
  ASSUME LInv, NEW w \in Workers,
         ProbeFindsNothing(w) \/ NoRung(w) \/ StartFails(w) \/ PollFailed(w) \/ GiveUp(w)
  PROVE  LInv'
<1>1. /\ \E status \in {"error", "not_found"} : Reply(w, status, None, FALSE)
      /\ UNCHANGED <<job, late, mode>>
      /\ EndLadder(w) \/ UNCHANGED <<rung, best, seen>>
  BY DEF ProbeFindsNothing, NoRung, StartFails, PollFailed, GiveUp
<1>2. SharedTyped'
  <2>1. /\ UNCHANGED <<session, waiting, transfer, disk, loaded, stopped>>
        /\ rawName' \subseteq rawName
    BY DEF ProbeFindsNothing, NoRung, StartFails, PollFailed, GiveUp
  <2> QED
    BY <2>1 DEF LInv, SharedTyped
<1> QED
  BY <1>1, <1>2, LadderOver

LEMMA LadderRung ==
  ASSUME LInv, NEW w \in Workers, RunRung(w)
  PROVE  LInv'
<1>1. PICK R \in Results(job[w]) \cup (IF SearchFails THEN {{}} ELSE {}) :
        /\ Climb(w, R)
        /\ seen' = [seen EXCEPT ![w] = Append(@,
             [mode |-> mode[w], passed |-> FilterGate(R, GateOf(mode[w]))])]
  BY DEF RunRung
<1>2. R \in SUBSET Offers
  BY <1>1, ResultsAreOffers
<1>3. /\ pc[w] = "ladder" /\ Ladder(job[w]) # <<>>
      /\ UNCHANGED <<session, waiting, job, late, transfer, rawName, disk, loaded, stopped>>
  BY DEF RunRung
<1>4. SharedTyped'
  BY <1>3, LadderUnshared
<1> QED
  BY <1>1, <1>2, <1>3, <1>4, LadderClimb

LEMMA LadderStart ==
  ASSUME DInv, LInv, NEW w \in Workers, StartTransfer(w)
  PROVE  LInv'
<1> DEFINE t == [file |-> best[w].file, state |-> "running"]
<1>1. /\ pc[w] = "start" /\ pc' = [pc EXCEPT ![w] = "wait"] /\ EndLadder(w)
      /\ UNCHANGED <<session, waiting, job, mode, late, answer, disk, loaded, stopped>>
  BY DEF StartTransfer, Goto
<1>2. /\ transfer' = [transfer EXCEPT ![job[w]] = t] /\ rawName' = rawName \cup {job[w]}
  BY DEF StartTransfer
<1>3. job[w] \in Requests /\ t \in Transfer
  BY <1>1 DEF DInv, WorkerInv, Transfer
<1> HIDE DEF t
<1>4. SharedTyped'
  BY <1>1, <1>2, <1>3 DEF LInv, SharedTyped
<1>5. /\ mode' = [mode EXCEPT ![w] = mode[w]] /\ mode[w] \in Mode
      /\ answer' = [answer EXCEPT ![w] = answer[w]] /\ answer[w] \in Answer \cup {None}
      /\ job' = [job EXCEPT ![w] = job[w]]
      /\ late' \in [Workers -> BOOLEAN]
  BY <1>1, ThisWorker
<1> QED
  BY <1>1, <1>3, <1>4, <1>5, LadderIdle

LEMMA LadderCompleted ==
  ASSUME DInv, FInv, LInv, NEW w \in Workers, PollCompleted(w)
  PROVE  LInv'
<1> DEFINE f == transfer[job[w]].file
<1>1. /\ pc[w] = "wait" /\ transfer[job[w]].state = "completed"
      /\ Reconcile(job[w], f) /\ rawName' \subseteq rawName
      /\ Reply(w, "completed", f, mode[w] = "relaxed")
      /\ UNCHANGED <<session, waiting, job, mode, rung, best, late, transfer, loaded,
                     stopped, seen>>
  BY DEF PollCompleted
<1>2. job[w] \in Requests /\ job[w] \in rawName /\ f \in Offers /\ Stored(f)
  BY <1>1 DEF DInv, WorkerInv, FInv
<1> HIDE DEF f
<1>3. disk' \in [Names -> Offers \cup {None}]
  BY <1>1, <1>2, ReconcileKeeps DEF FInv
<1>4. SharedTyped'
  BY <1>1, <1>3 DEF LInv, SharedTyped
<1>5. PICK relaxed \in BOOLEAN : Reply(w, "completed", f, relaxed)
  BY <1>1
<1> QED
  BY <1>1, <1>2, <1>4, <1>5, LadderOver

LEMMA LadderEmit ==
  ASSUME DInv, LInv, NEW w \in Workers, Emit(w)
  PROVE  LInv'
<1>1. /\ pc[w] = "emit" /\ pc' = [pc EXCEPT ![w] = "idle"]
      /\ job' = [job EXCEPT ![w] = None] /\ answer' = [answer EXCEPT ![w] = None]
      /\ mode' = [mode EXCEPT ![w] = "strict"] /\ late' = [late EXCEPT ![w] = FALSE]
      /\ EndLadder(w)
      /\ UNCHANGED <<session, waiting, transfer, rawName, disk, stopped>>
  BY DEF Emit, Goto
<1>2. loaded' = loaded \/ loaded' = [loaded EXCEPT ![job[w]] = answer[w]]
  BY DEF Emit
<1>3. answer[w] \in Answer
  BY <1>1, ThisWorker DEF LadderAt
<1>4. loaded' \in [Requests -> Answer \cup {None}]
  BY <1>2, <1>3 DEF LInv, SharedTyped
<1>5. SharedTyped'
  BY <1>1, <1>4 DEF LInv, SharedTyped
<1>6. late' \in [Workers -> BOOLEAN]
  BY <1>1 DEF LInv, WorkersTyped
<1>7. "strict" \in Mode
  BY DEF Mode
<1> QED
  BY <1>1, <1>5, <1>6, <1>7, LadderIdle

LEMMA LadderTransferred ==
  ASSUME DInv, FInv, LInv, NEW r \in Requests, Transferred(r)
  PROVE  LInv'
<1> DEFINE f == transfer[r].file
<1>1. transfer[r] # None /\ UNCHANGED <<session, waiting, worker, rawName, loaded, stopped>>
  BY DEF Transferred
<1>2. f \in Offers /\ f.raw \in Names
  BY <1>1 DEF FInv, Transfer, Names
<1>3. PICK state \in {"completed", "failed"} :
        /\ transfer' = [transfer EXCEPT ![r] = [file |-> f, state |-> state]]
        /\ disk' = [disk EXCEPT ![f.raw] = f] \/ disk' = disk
  BY DEF Transferred, Become
<1>4. [file |-> f, state |-> state] \in Transfer
  BY <1>2 DEF Transfer
<1> HIDE DEF f
<1>5. /\ transfer' \in [Requests -> Transfer \cup {None}]
      /\ disk' \in [Names -> Offers \cup {None}]
  BY <1>2, <1>3, <1>4 DEF FInv
<1>6. SharedTyped'
  BY <1>1, <1>5 DEF LInv, SharedTyped
<1> QED
  BY <1>1, <1>6 DEF LInv, WorkersTyped, worker

LEMMA NextLInv ==
  ASSUME DInv, FInv, LInv, [Next]_vars
  PROVE  LInv'
<1>1. ASSUME NEW w \in Workers, Work(w) PROVE LInv'
  BY <1>1, LadderTake, LadderProbe, LadderRefuse, LadderRung, LadderStart, LadderCompleted,
     LadderEmit DEF Work
<1>2. ASSUME NEW w \in Workers, TimeIsUp(w) PROVE LInv'
  <2>1. /\ late' = [late EXCEPT ![w] = TRUE]
        /\ UNCHANGED <<session, waiting, pc, job, mode, rung, best, answer, transfer, rawName,
                       disk, loaded, stopped, seen>>
    BY <1>2 DEF TimeIsUp
  <2>2. SharedTyped' /\ WorkersTyped'
    BY <2>1 DEF LInv, SharedTyped, WorkersTyped
  <2> QED
    BY <2>1, <2>2 DEF LInv
<1>3. ASSUME NEW r \in Requests, Transferred(r) PROVE LInv'
  BY <1>3, LadderTransferred
<1>4. CASE Login \/ Stop
  <2>1. /\ UNCHANGED <<waiting, worker, transfer, rawName, disk, loaded>>
        /\ session' \in {"none", "in", "failed"} /\ stopped' \in BOOLEAN
    BY <1>4 DEF Login, Stop, LInv, SharedTyped
  <2> QED
    BY <2>1 DEF LInv, SharedTyped, WorkersTyped, worker
<1>5. CASE UNCHANGED vars
  BY <1>5 DEF LInv, SharedTyped, WorkersTyped, vars
<1> QED
  BY <1>1, <1>2, <1>3, <1>4, <1>5 DEF Next

LEMMA InitLInv == Init => LInv
<1> SUFFICES ASSUME Init PROVE LInv
  OBVIOUS
<1> USE DEF Init
<1>1. SharedTyped
  BY DEF SharedTyped
<1>2. WorkersTyped
  BY EmptySeq DEF WorkersTyped, Step, Mode
<1>3. \A w \in Workers :
        LadderAt(pc[w], job[w], mode[w], rung[w], best[w], answer[w], seen[w])
  BY DEF LadderAt
<1> QED
  BY <1>1, <1>2, <1>3 DEF LInv

-----------------------------------------------------------------------------

\* The ladder of every worker keeps what it has seen within the invariant.
THEOREM LaddersInvariance == Spec => [](DInv /\ FInv /\ LInv)
<1>1. Init => DInv /\ FInv /\ LInv
  BY InitInv, InitLInv, DownloadsAssumption DEF Init, FInv
<1>2. DInv /\ FInv /\ LInv /\ [Next]_vars => (DInv /\ FInv /\ LInv)'
  BY NextStep, NextFInv, NextLInv
<1> QED
  BY <1>1, <1>2, PTL DEF Spec

\* Every variable of the service keeps its shape, and no worker leaves the
\* ladder of its request (worker.go:277-292).
THEOREM DownloadsTyped == Spec => []TypeOK
<1>1. LInv => TypeOK
  BY DEF LInv, SharedTyped, WorkersTyped, LadderAt, TypeOK
<1> QED
  BY <1>1, LaddersInvariance, PTL

\* The transfer that starts is of the best file that any search of the
\* ladder has found, for any requests, offers and limits
\* (worker.go:210-259, gate.go:116-147).
THEOREM BestIsPicked == Spec => []PickIsBest
<1>1. LInv => PickIsBest
  BY DEF LInv, LadderAt, PickIsBest
<1> QED
  BY <1>1, LaddersInvariance, PTL
=============================================================================
