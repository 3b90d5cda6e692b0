------------------------------ MODULE Discogs ------------------------------
(***************************************************************************)
(* The Discogs client (internal/discogs): the token bucket all callers     *)
(* share, the response cache in discogs_cache, and one HTTP request.  A    *)
(* call looks its key up, on a miss waits for a token, asks, and stores    *)
(* what came back before it is parsed; two calls that miss one key both    *)
(* ask.  The bucket is refilled lazily, by whoever looks at it next.       *)
(***************************************************************************)
EXTENDS Pages

CONSTANTS
  Requests,   \* who calls: HTTP requests and intents, each with its context
  Keys,       \* cache keys
  Api,        \* [Keys -> Seq(ApiRow)]: what Discogs would list
  Burst, Rate,   \* newTokenBucket(5, 1)
  TTL,        \* cacheTTL
  Start, End, \* bounds on the clock of the run
  Faults,     \* how Discogs may refuse: within {"rate", "failed", "missing"}
  OldRows     \* what an earlier process may have left in discogs_cache

Sections == {"releases", "artists", "labels", "list", "entity", "pick"}
Calls == Requests \X Sections
Garbage == -1   \* 200 with a body that is not the JSON the parser expects

ApiRow == [name : UNION {{Api[k][i].name : i \in DOMAIN Api[k]} : k \in Keys},
           id : Nat, main : Nat, master : BOOLEAN, album : BOOLEAN]

\* What an earlier process stored was answered before this one started.
ASSUME DiscogsAssumption ==
  /\ Burst \in Nat \ {0} /\ Rate \in Nat \ {0} /\ TTL \in Nat \ {0}
  /\ Start \in Nat /\ End \in Nat /\ Start <= End
  /\ Faults \subseteq {"rate", "failed", "missing"}
  /\ Api \in [Keys -> Seq(ApiRow)]
  /\ \A old \in OldRows :
       /\ DOMAIN old \subseteq Keys
       /\ \A k \in DOMAIN old : /\ old[k].at \in Int /\ old[k].at <= Start
                               /\ old[k].body \in 0..Len(Api[k]) \cup {Garbage}

VARIABLES
  now,
  tokens, lastRefill,
  row,      \* discogs_cache: key -> [body, at], a partial function
  call,     \* [Calls -> [step, key, per, err, body]]
  over,     \* [Requests -> BOOLEAN]: the caller's context is done
  total, before,  \* requests made so far, and before each instant (history)
  answered  \* [Keys -> Int]: when Discogs last answered for a key (history)

bucketVars == <<tokens, lastRefill, total>>
discogsVars == <<now, bucketVars, before, row, call, over, answered>>

NoCall == [step |-> "none", key |-> "", per |-> 0, err |-> "none", body |-> 0]
Started(key, per) == [NoCall EXCEPT !.step = "get", !.key = key, !.per = per]

\* A bug to find: expired rows are left to Sweep, which runs at startup.
FreshForever(k) == k \in DOMAIN row

\* Get hides a row that is TTL old or older; Sweep, at startup, deletes it.
Fresh(k) == k \in DOMAIN row /\ row[k].at > now - TTL
Swept(old) == [k \in {x \in DOMAIN old : old[x].at > Start - TTL} |-> old[k]]

InitDiscogs ==
  /\ now = Start
  /\ tokens = Burst /\ lastRefill = Start
  /\ row \in OldRows \cup {Swept(old) : old \in OldRows}
  /\ call = [c \in Calls |-> NoCall]
  /\ over = [r \in Requests |-> FALSE]
  /\ total = 0 /\ before = [t \in Start..End |-> 0]
  /\ answered = [k \in Keys |-> IF k \in DOMAIN row THEN row[k].at ELSE -1]

Finish(c, err, body) ==
  call' = [call EXCEPT ![c].step = "done", ![c].err = err, ![c].body = body]

\* The parse of a garbled body fails, every time it is served.
Parsed(body) == IF body = Garbage THEN "failed" ELSE "none"

\* cache.Get.  With its context done the read fails, and is logged.
LookUp(c) ==
  /\ call[c].step = "get"
  /\ IF Fresh(call[c].key) /\ ~over[c[1]]
       THEN LET b == row[call[c].key].body IN Finish(c, Parsed(b), b)
       ELSE call' = [call EXCEPT ![c].step = "wait"]
  /\ UNCHANGED <<now, before, bucketVars, row, over, answered>>

\* A bug to find: the quiet minutes are saved up.
RefilledUncapped == tokens + (now - lastRefill) * Rate

Refilled ==
  LET grown == tokens + (now - lastRefill) * Rate
  IN  IF grown > Burst THEN Burst ELSE grown

\* tokenBucket.Wait.  It tries before it looks at the context.  A try that
\* fails only brings the refill forward.
TryTake(c) ==
  /\ call[c].step = "wait"
  /\ Refilled >= 1
  /\ tokens' = Refilled - 1 /\ lastRefill' = now
  /\ call' = [call EXCEPT ![c].step = "sent"]
  /\ total' = total + 1
  /\ UNCHANGED <<now, before, row, over, answered>>

WaitCancelled(c) ==
  /\ call[c].step = "wait"
  /\ over[c[1]] /\ Refilled < 1
  /\ Finish(c, "failed", 0)
  /\ UNCHANGED <<now, before, bucketVars, row, over, answered>>

\* A 200, whose body is stored as it is when the write succeeds.
Answered(c) ==
  LET k == call[c].key
      page == IF Len(Api[k]) < call[c].per THEN Len(Api[k]) ELSE call[c].per
  IN
  /\ call[c].step = "sent"
  /\ \E body \in {page, Garbage}, stored \in BOOLEAN :
       /\ stored => ~over[c[1]]
       /\ row' = IF stored THEN [x \in DOMAIN row \cup {k} |->
                                  IF x = k THEN [body |-> body, at |-> now] ELSE row[x]]
                           ELSE row
       /\ Finish(c, Parsed(body), body)
  /\ answered' = [answered EXCEPT ![k] = now]
  /\ UNCHANGED <<now, before, bucketVars, over>>

\* Anything else is not stored.  Only fetchRaw tells a 404 from the rest.
Refused(c) ==
  /\ call[c].step = "sent"
  /\ \E err \in Faults :
       Finish(c, IF err = "missing" /\ c[2] \notin {"list", "entity"} THEN "failed" ELSE err, 0)
  /\ UNCHANGED <<now, before, bucketVars, row, over, answered>>

Tick ==
  /\ now < End
  /\ now' = now + 1
  /\ before' = [before EXCEPT ![now + 1] = total]
  /\ UNCHANGED <<bucketVars, row, call, over, answered>>

Call(c) == LookUp(c) \/ TryTake(c) \/ WaitCancelled(c) \/ Answered(c) \/ Refused(c)

-----------------------------------------------------------------------------

\* ratelimit.go: the bucket keeps the client under the quota.  However
\* callers interleave, and however rarely somebody looks at the bucket, the
\* requests made since any instant are at most the burst and what the time
\* since then refills.
RateKept ==
  \A t \in Start..now : total - before[t] <= Burst + Rate * (now - t)
=============================================================================
