--------------------------- MODULE PreviewsProofs ---------------------------
(***************************************************************************)
(* The token bucket keeps its promise for every burst, rate, number of     *)
(* callers and interleaving, although it is refilled only by whoever looks *)
(* at it; and a reply of the search endpoints says what was seen, for any  *)
(* requests, keys, answers of Discogs, titles, limits and ages of caches.  *)
(*                                                                         *)
(* The bound on requests since t is not inductive.  What is: seen from an  *)
(* instant t up to the last refill, the requests made since and the tokens *)
(* left together are at most the burst and what the refills since then     *)
(* gave; and since the last refill nobody has made a request.              *)
(*                                                                         *)
(* Neither is what a reply shows.  RInv follows it from Discogs and from   *)
(* Soulseek to the reply: a row is no younger than the last answer for its *)
(* key, a call that is done carries what was fresh when its request began, *)
(* an answer waiting for its probe was heard this very tick, an entry of   *)
(* the broad cache was heard no earlier than its date.                     *)
(***************************************************************************)
EXTENDS Previews, FiniteSetTheorems, SequenceTheorems, WellFoundedInduction, TLAPS


BucketInv ==
  /\ now \in Start..End
  /\ tokens \in 0..Burst
  /\ lastRefill \in Start..now
  /\ total \in Nat
  /\ before \in [Start..End -> Nat]
  /\ \A t \in Start..lastRefill : total - before[t] + tokens <= Burst + Rate * (lastRefill - t)
  /\ \A t \in (lastRefill + 1)..now : before[t] = total

\* What a step may do to the bucket: nothing, take a token, let time pass.
Take ==
  /\ Refilled >= 1
  /\ tokens' = Refilled - 1 /\ lastRefill' = now /\ total' = total + 1
  /\ UNCHANGED <<now, before>>

Pass ==
  /\ now < End /\ now' = now + 1
  /\ before' = [before EXCEPT ![now + 1] = total]
  /\ UNCHANGED <<tokens, lastRefill, total>>

Still == UNCHANGED <<now, tokens, lastRefill, total, before>>

-----------------------------------------------------------------------------

\* What refills in a longer time is no less, and adds up.
LEMMA RateGrows ==
  ASSUME NEW a \in Int, NEW b \in Int, a <= b
  PROVE  /\ Rate * a \in Int /\ Rate * b \in Int
         /\ Rate * a <= Rate * b
         /\ 0 <= a => 0 <= Rate * a
<1>1. Rate \in Nat
  BY DiscogsAssumption
<1> QED
  BY <1>1, SMT

\* The refill of two spans is the refill of the whole.
LEMMA RateAdds ==
  ASSUME NEW a \in Int, NEW b \in Int, NEW c \in Int
  PROVE  Rate * (a - c) = Rate * (a - b) + Rate * (b - c)
<1>1. Rate \in Int
  BY DiscogsAssumption
<1> QED
  BY <1>1, SMT

\* Every step of the system does one of the three.
LEMMA StepsOfTheBucket == [Next]_vars => Take \/ Pass \/ Still
<1> SUFFICES ASSUME [Next]_vars PROVE Take \/ Pass \/ Still
  OBVIOUS
<1>1. CASE UNCHANGED vars
  BY <1>1 DEF vars, discogsVars, bucketVars, Still
<1>2. ASSUME NEW c \in Calls, Call(c) PROVE Take \/ Still
  BY <1>2 DEF Call, LookUp, TryTake, WaitCancelled, Answered, Refused, Take, Still, bucketVars
<1>3. ASSUME NEW r \in Requests, Page(r) PROVE Take \/ Still
  <2>1. CASE JoinPage(r)
    BY <2>1 DEF JoinPage, discogsVars, bucketVars, Still
  <2>2. ASSUME NEW s \in Sections, Call(<<r, s>>) PROVE Take \/ Still
    BY <1>2, <2>2 DEF Calls
  <2> QED
    BY <1>3, <2>1, <2>2 DEF Page
<1>4. ASSUME NEW r \in Requests, BeginPage(r) \/ Cancel(r) PROVE Still
  BY <1>4 DEF BeginPage, Cancel, bucketVars, Still
<1>5. ASSUME NEW r \in Requests, NEW a \in Artists, BeginItems(r, a) \/ BeginByArtist(r, a)
      PROVE Still
  BY <1>5 DEF BeginItems, BeginByArtist, discogsVars, bucketVars, Still
<1>6. ASSUME NEW r \in Requests, Availability(r) PROVE Still
  BY <1>6 DEF Availability, LaunchItem, JoinProbes, CollectBroad, AbandonBroad, BroadEnds,
     SkipTitle, LaunchFallback, LeaveFallback, discogsVars, bucketVars, Still
<1>7. ASSUME NEW p \in Probes, Goroutine(p) \/ SoulseekAnswers(p) PROVE Still
  BY <1>7 DEF Goroutine, EnterGate, LeaveGate, Collect, Abandon, SoulseekAnswers,
     discogsVars, bucketVars, Still
<1>8. CASE PassTime
  BY <1>8 DEF PassTime, Tick, bucketVars, Pass
<1> QED
  BY <1>1, <1>3, <1>4, <1>5, <1>6, <1>7, <1>8 DEF Next

-----------------------------------------------------------------------------

\* The bucket starts full, with no request made.
LEMMA InitBucket == Init => BucketInv
<1> SUFFICES ASSUME Init PROVE BucketInv
  OBVIOUS
<1>1. /\ now = Start /\ tokens = Burst /\ lastRefill = Start /\ total = 0
      /\ before = [t \in Start..End |-> 0]
  BY DEF Init, InitDiscogs
<1>2. /\ Burst \in Nat /\ Rate \in Nat /\ Start \in Nat /\ End \in Nat /\ Start <= End
  BY DiscogsAssumption
<1>3. Rate * (Start - Start) = 0
  BY <1>2, SMT
<1> QED
  BY <1>1, <1>2, <1>3, SMT DEF BucketInv

\* A token taken is a request made: together they stay what they were.
LEMMA TakeKeepsBucket == BucketInv /\ Take => BucketInv'
<1> SUFFICES ASSUME BucketInv, Take PROVE BucketInv'
  OBVIOUS
<1>1. /\ Burst \in Nat /\ Rate \in Nat /\ Start \in Nat /\ End \in Nat
  BY DiscogsAssumption
<1>2. /\ now \in Start..End /\ lastRefill \in Start..now /\ tokens \in 0..Burst
      /\ total \in Nat /\ before \in [Start..End -> Nat]
  BY DEF BucketInv
<1>3. /\ now' = now /\ before' = before /\ lastRefill' = now /\ total' = total + 1
      /\ tokens' = Refilled - 1 /\ Refilled >= 1
  BY DEF Take
<1>4. Rate * (now - lastRefill) \in Int
  BY <1>1, <1>2, SMT
<1>5. Refilled \in 1..Burst /\ Refilled <= tokens + (now - lastRefill) * Rate
  <2>1. (now - lastRefill) * Rate = Rate * (now - lastRefill)
    BY <1>1, <1>2, SMT
  <2>2. Rate * (now - lastRefill) >= 0
    BY <1>1, <1>2, RateGrows, SMT
  <2> QED
    BY <1>1, <1>2, <1>3, <1>4, <2>1, <2>2, SMT DEF Refilled
<1>6. ASSUME NEW t \in Start..now
      PROVE total + 1 - before[t] + (Refilled - 1) <= Burst + Rate * (now - t)
  <2>1. before[t] \in Nat
    BY <1>1, <1>2, SMT
  <2>2. CASE t <= lastRefill
    <3>1. total - before[t] + tokens <= Burst + Rate * (lastRefill - t)
      BY <2>2, <1>1, <1>2 DEF BucketInv
    <3>2. Rate * (now - t) = Rate * (now - lastRefill) + Rate * (lastRefill - t)
      BY <1>1, <1>2, RateAdds
    <3>3. Rate * (lastRefill - t) \in Int
      BY <1>1, <1>2, SMT
    <3>4. (now - lastRefill) * Rate = Rate * (now - lastRefill)
      BY <1>1, <1>2, SMT
    <3> QED
      BY <1>1, <1>2, <1>4, <1>5, <2>1, <3>1, <3>2, <3>3, <3>4, SMT
  <2>3. CASE t > lastRefill
    <3>1. before[t] = total
      BY <2>3, <1>1, <1>2 DEF BucketInv
    <3>2. Rate * (now - t) \in Int /\ Rate * (now - t) >= 0
      BY <1>1, <1>2, RateGrows, SMT
    <3> QED
      BY <1>1, <1>2, <1>5, <3>1, <3>2, SMT
  <2> QED
    BY <1>1, <1>2, <2>2, <2>3, SMT
<1>7. /\ tokens' \in 0..Burst /\ lastRefill' \in Start..now'
      /\ total' \in Nat /\ now' \in Start..End /\ before' \in [Start..End -> Nat]
  BY <1>1, <1>2, <1>3, <1>5, SMT
<1>8. \A t \in Start..lastRefill' :
        total' - before'[t] + tokens' <= Burst + Rate * (lastRefill' - t)
  <2> SUFFICES ASSUME NEW t \in Start..now
               PROVE total' - before'[t] + tokens' <= Burst + Rate * (now - t)
    BY <1>3
  <2>1. before[t] \in Nat
    BY <1>1, <1>2, SMT
  <2>2. /\ before'[t] = before[t] /\ total' = total + 1
        /\ tokens' = Refilled - 1 /\ tokens' \in Int /\ Refilled \in Int
    BY <1>1, <1>3, <1>5, SMT
  <2>3. total + 1 - before[t] + (Refilled - 1) <= Burst + Rate * (now - t)
    BY <1>6
  <2>4. Rate * (now - t) \in Int
    BY <1>1, <1>2, SMT
  <2> QED
    BY <1>1, <1>2, <1>5, <2>1, <2>2, <2>3, <2>4, SMT
<1>9. \A t \in (lastRefill' + 1)..now' : before'[t] = total'
  BY <1>1, <1>2, <1>3, SMT
<1> QED
  BY <1>7, <1>8, <1>9 DEF BucketInv

\* Time that passes opens a new instant, since which nothing was asked.
LEMMA PassKeepsBucket == BucketInv /\ Pass => BucketInv'
<1> SUFFICES ASSUME BucketInv, Pass PROVE BucketInv'
  OBVIOUS
<1>1. Start \in Nat /\ End \in Nat
  BY DiscogsAssumption
<1>2. /\ now \in Start..End /\ lastRefill \in Start..now /\ tokens \in 0..Burst
      /\ total \in Nat /\ before \in [Start..End -> Nat]
  BY DEF BucketInv
<1>3. /\ now' = now + 1 /\ now < End
      /\ before' = [before EXCEPT ![now + 1] = total]
      /\ tokens' = tokens /\ lastRefill' = lastRefill /\ total' = total
  BY DEF Pass
<1>4. /\ now' \in Start..End /\ lastRefill' \in Start..now' /\ before' \in [Start..End -> Nat]
  BY <1>1, <1>2, <1>3, SMT
<1>5. \A t \in Start..lastRefill : before'[t] = before[t]
  BY <1>1, <1>2, <1>3, SMT
<1>6. \A t \in (lastRefill + 1)..(now + 1) : before'[t] = total
  <2> TAKE t \in (lastRefill + 1)..(now + 1)
  <2>1. CASE t = now + 1
    BY <2>1, <1>1, <1>2, <1>3, SMT
  <2>2. CASE t # now + 1
    <3>1. t \in (lastRefill + 1)..now
      BY <2>2, <1>1, <1>2, SMT
    <3>2. before[t] = total
      BY <3>1 DEF BucketInv
    <3> QED
      BY <3>1, <3>2, <1>1, <1>2, <1>3, SMT
  <2> QED
    BY <2>1, <2>2
<1>7. \A t \in Start..lastRefill : total - before[t] + tokens <= Burst + Rate * (lastRefill - t)
  BY DEF BucketInv
<1> QED
  BY <1>2, <1>3, <1>4, <1>5, <1>6, <1>7 DEF BucketInv

\* The invariant of the token bucket (ratelimit.go), for any burst, rate and
\* number of callers.
THEOREM BucketInvariance == Spec => []BucketInv
<1>1. BucketInv /\ [Next]_vars => BucketInv'
  <2> SUFFICES ASSUME BucketInv, [Next]_vars PROVE BucketInv'
    OBVIOUS
  <2>1. CASE Still
    BY <2>1 DEF Still, BucketInv
  <2> QED
    BY <2>1, StepsOfTheBucket, TakeKeepsBucket, PassKeepsBucket
<1> QED
  BY <1>1, InitBucket, PTL DEF Spec

\* ratelimit.go: since any instant, the client has made at most the burst
\* and what refills in the time since then.
THEOREM QuotaIsKept == Spec => []RateKept
<1>1. BucketInv => RateKept
  <2> SUFFICES ASSUME BucketInv, NEW t \in Start..now
               PROVE total - before[t] <= Burst + Rate * (now - t)
    BY DEF RateKept
  <2>1. /\ Burst \in Nat /\ Rate \in Nat /\ Start \in Nat /\ End \in Nat
    BY DiscogsAssumption
  <2>2. /\ now \in Start..End /\ lastRefill \in Start..now /\ tokens \in 0..Burst
        /\ total \in Nat /\ before[t] \in Nat
    BY <2>1, SMT DEF BucketInv
  <2>3. CASE t <= lastRefill
    <3>1. total - before[t] + tokens <= Burst + Rate * (lastRefill - t)
      BY <2>1, <2>2, <2>3 DEF BucketInv
    <3>2. /\ Rate * (lastRefill - t) <= Rate * (now - t)
          /\ Rate * (lastRefill - t) \in Int /\ Rate * (now - t) \in Int
      BY <2>1, <2>2, RateGrows, SMT
    <3> QED
      BY <2>1, <2>2, <3>1, <3>2, SMT
  <2>4. CASE t > lastRefill
    <3>1. before[t] = total
      BY <2>1, <2>2, <2>4 DEF BucketInv
    <3>2. Rate * (now - t) \in Int /\ Rate * (now - t) >= 0
      BY <2>1, <2>2, RateGrows, SMT
    <3> QED
      BY <2>1, <2>2, <3>1, <3>2, SMT
  <2> QED
    BY <2>1, <2>2, <2>3, <2>4, SMT
<1> QED
  BY <1>1, BucketInvariance, PTL
-----------------------------------------------------------------------------
(* What a page lists: the first position of each name, in ascending order. *)
(* That a finite set of positions can be put in order at all is shown by   *)
(* its least counterexample.                                               *)

\* A set of numbers has a least one.
LEMMA Least ==
  ASSUME NEW T \in SUBSET Nat, T # {}
  PROVE  \E n \in T : \A m \in T : n <= m
<1>1. PICK n \in T : \A m \in T : <<m, n>> \notin OpToRel(<, Nat)
  BY WFMin, NatLessThanWellFounded, Zenon
<1>2. \A m \in T : ~(m < n)
  BY <1>1 DEF OpToRel
<1> QED
  BY <1>2

\* A finite set of numbers can be put in order.  Of the sizes for which that
\* failed there would be a least; but take the least number away.
LEMMA SortedExists ==
  ASSUME NEW S \in SUBSET Nat, IsFiniteSet(S)
  PROVE  \E f \in [1..Cardinality(S) -> S] :
           /\ \A i, j \in 1..Cardinality(S) : i < j => f[i] < f[j]
           /\ \A x \in S : \E i \in 1..Cardinality(S) : f[i] = x
<1> DEFINE Sorts(f, R) == /\ \A i, j \in 1..Cardinality(R) : i < j => f[i] < f[j]
                          /\ \A x \in R : \E i \in 1..Cardinality(R) : f[i] = x
           Fails(R) == /\ IsFiniteSet(R)
                       /\ \A f \in [1..Cardinality(R) -> R] : ~Sorts(f, R)
           Sizes == {n \in Nat : \E R \in SUBSET Nat : Fails(R) /\ Cardinality(R) = n}
<1>1. Sizes = {}
  <2> SUFFICES ASSUME Sizes # {} PROVE FALSE
    OBVIOUS
  <2>1. PICK n \in Sizes : \A k \in Sizes : n <= k
    <3> HIDE DEF Sizes
    <3>1. Sizes \subseteq Nat
      BY DEF Sizes
    <3> QED
      BY <3>1, Least
  <2>2. PICK R \in SUBSET Nat : Fails(R) /\ Cardinality(R) = n
    OBVIOUS
  <2>3. /\ n \in Nat /\ R \subseteq Nat /\ IsFiniteSet(R) /\ Cardinality(R) = n
        /\ \A f \in [1..n -> R] : ~Sorts(f, R)
    BY <2>2
  <2>4. R # {}
    <3> SUFFICES ASSUME R = {} PROVE FALSE
      OBVIOUS
    <3>1. Cardinality(R) = 0
      BY FS_EmptySet
    <3>2. [i \in 1..0 |-> 0] \in [1..0 -> R]
      OBVIOUS
    <3>3. Sorts([i \in 1..0 |-> 0], R)
      <4>1. 1..Cardinality(R) = {}
        BY <3>1
      <4> QED
        BY <4>1
    <3>4. n = 0
      BY <2>3, <3>1
    <3> HIDE DEF Sorts
    <3> QED
      BY <2>3, <3>2, <3>3, <3>4
  <2>5. PICK m \in R : \A x \in R : m <= x
    BY <2>4, Least
  <2> DEFINE Q == R \ {m}
  <2>6. IsFiniteSet(Q) /\ Cardinality(Q) = n - 1 /\ n - 1 \in Nat /\ Q \in SUBSET Nat
    <3>1. IsFiniteSet(Q) /\ Cardinality(Q) = Cardinality(R) - 1
      BY <2>3, <2>5, FS_RemoveElement
    <3>2. Cardinality(Q) \in Nat
      BY <3>1, FS_CardinalityType
    <3> QED
      BY <3>1, <3>2, <2>3
  <2>7. n - 1 \notin Sizes
    BY <2>1, <2>3
  <2>8. PICK g \in [1..(n - 1) -> Q] : Sorts(g, Q)
    BY <2>6, <2>7
  <2> DEFINE f == [i \in 1..n |-> IF i = 1 THEN m ELSE g[i - 1]]
  <2>9. \A i \in 1..n : i # 1 => i - 1 \in 1..(n - 1)
    BY <2>3
  <2>10. f \in [1..n -> R]
    BY <2>5, <2>8, <2>9
  <2>11. \A x \in Q : m < x
    BY <2>5
  <2>12. \A i, j \in 1..n : i < j => f[i] < f[j]
    <3> TAKE i, j \in 1..n
    <3> HAVE i < j
    <3>1. j # 1 /\ j - 1 \in 1..(n - 1) /\ f[j] = g[j - 1]
      BY <2>3, <2>9
    <3>2. CASE i = 1
      BY <3>1, <3>2, <2>8, <2>11
    <3>3. CASE i # 1
      <4>1. i - 1 \in 1..(n - 1) /\ f[i] = g[i - 1] /\ i - 1 < j - 1
        BY <3>3, <2>9, <2>3
      <4> HIDE DEF f
      <4> QED
        BY <4>1, <3>1, <2>6, <2>8
    <3> QED
      BY <3>2, <3>3
  <2>13. \A x \in R : \E i \in 1..n : f[i] = x
    <3> TAKE x \in R
    <3>1. CASE x = m
      <4>1. 1 \in 1..n
        BY <2>3, <2>6
      <4>2. f[1] = m
        BY <4>1
      <4> QED
        BY <3>1, <4>1, <4>2
    <3>2. CASE x # m
      <4>1. PICK i \in 1..(n - 1) : g[i] = x
        BY <3>2, <2>6, <2>8
      <4>2. i + 1 \in 1..n /\ i + 1 # 1 /\ (i + 1) - 1 = i
        BY <4>1, <2>3
      <4>3. f[i + 1] = x
        BY <4>1, <4>2
      <4> QED
        BY <4>2, <4>3
    <3> QED
      BY <3>1, <3>2
  <2> QED
    <3> HIDE DEF f
    <3>1. Sorts(f, R)
      BY <2>2, <2>12, <2>13
    <3> QED
      BY <3>1, <2>2, <2>10
<1>2. Cardinality(S) \in Nat
  BY FS_CardinalityType
<1>3. ~Fails(S)
  BY <1>1, <1>2
<1> QED
  BY <1>3

\* Ascending lists a finite set of numbers, each once.
LEMMA AscendingLists ==
  ASSUME NEW S \in SUBSET Nat, IsFiniteSet(S)
  PROVE  /\ Cardinality(S) \in Nat
         /\ Ascending(S) \in [1..Cardinality(S) -> S]
         /\ \A i, j \in 1..Cardinality(S) : i < j => Ascending(S)[i] < Ascending(S)[j]
         /\ \A x \in S : \E i \in 1..Cardinality(S) : Ascending(S)[i] = x
<1> DEFINE N == Cardinality(S)
           Up(f) == \A i, j \in DOMAIN f : i < j => f[i] < f[j]
           a == Ascending(S)
<1>1. N \in Nat
  BY FS_CardinalityType
<1>2. PICK f \in [1..N -> S] : Up(f) /\ \A x \in S : \E i \in 1..N : f[i] = x
  <2>1. PICK f \in [1..N -> S] : /\ \A i, j \in 1..N : i < j => f[i] < f[j]
                                 /\ \A x \in S : \E i \in 1..N : f[i] = x
    BY SortedExists
  <2> QED
    BY <2>1
<1>3. a \in [1..N -> S] /\ Up(a)
  <2>1. a = CHOOSE s \in [1..N -> S] : Up(s)
    BY DEF Ascending
  <2> QED
    BY <2>1, <1>2
<1>4. \A i, j \in 1..N : i < j => a[i] < a[j]
  BY <1>3
<1>5. a \in Injection(1..N, S)
  <2>1. \A i, j \in 1..N : a[i] = a[j] => i = j
    <3> TAKE i, j \in 1..N
    <3>1. a[i] \in Nat /\ a[j] \in Nat
      BY <1>3
    <3>2. i < j \/ j < i \/ i = j
      BY <1>1
    <3> HIDE DEF a
    <3> QED
      BY <3>1, <3>2, <1>4
  <2> QED
    BY <2>1, <1>3 DEF Injection, IsInjective
<1>6. Cardinality(1..N) = N
  BY <1>1, FS_Interval
<1>7. a \in Surjection(1..N, S)
  BY <1>5, <1>6, FS_Injection, Zenon
<1> QED
  BY <1>1, <1>3, <1>4, <1>7 DEF Surjection

\* Whichever row is kept, one of its name is the first.
LEMMA FirstExists ==
  ASSUME NEW rows, NEW kept \in SUBSET Nat, NEW i \in kept
  PROVE  \E f \in Firsts(rows, kept) : rows[f].name = rows[i].name
<1> DEFINE T == {j \in kept : rows[j].name = rows[i].name}
<1>1. PICK f \in T : \A j \in T : f <= j
  <2>1. T \in SUBSET Nat /\ T # {}
    OBVIOUS
  <2> HIDE DEF T
  <2> QED
    BY <2>1, Least, Zenon
<1>2. f \in kept /\ rows[f].name = rows[i].name
  OBVIOUS
<1>3. ASSUME NEW j \in kept, j < f PROVE rows[j].name # rows[f].name
  BY <1>1, <1>2, <1>3
<1> QED
  BY <1>2, <1>3 DEF Firsts

\* What a page makes of the rows kept for it (client.go:340-366).
LEMMA ListedIsWhole ==
  ASSUME NEW rows, NEW n \in Nat, NEW kept \in SUBSET (1..n), NEW limit \in Nat
  PROVE  LET names == {rows[i].name : i \in kept}
         IN  Whole(Listed(rows, kept, limit), names, names, limit)
<1> DEFINE F == Firsts(rows, kept)
           N == Cardinality(F)
           a == Ascending(F)
           k == IF N < limit THEN N ELSE limit
           s == Listed(rows, kept, limit)
           shown == {s[i].name : i \in DOMAIN s}
           names == {rows[i].name : i \in kept}
<1>1. IsFiniteSet(F) /\ F \in SUBSET Nat /\ F \subseteq kept /\ kept \in SUBSET Nat
  <2>0. F \subseteq kept
    BY DEF Firsts
  <2>1. IsFiniteSet(1..n)
    BY FS_Interval
  <2>2. kept \subseteq Nat
    OBVIOUS
  <2> HIDE DEF F
  <2>3. F \in SUBSET (1..n)
    BY <2>0
  <2>4. IsFiniteSet(F)
    BY <2>1, <2>3, FS_Subset
  <2> QED
    BY <2>0, <2>2, <2>4
<1>2. /\ N \in Nat /\ a \in [1..N -> F]
      /\ \A i, j \in 1..N : i < j => a[i] < a[j]
      /\ \A x \in F : \E i \in 1..N : a[i] = x
  BY <1>1, AscendingLists
<1>3. k \in 0..limit /\ k \in 0..N /\ (k < limit => k = N)
  BY <1>2
<1>4. s = [i \in 1..k |-> Shown(rows[a[i]])] /\ Len(a) = N
  <2>1. Len(a) = N
    BY <1>2
  <2> QED
    BY <2>1 DEF Listed
<1>5. Len(s) = k /\ DOMAIN s = 1..k
  BY <1>3, <1>4
<1>6. \A i \in 1..k : a[i] \in F /\ s[i].name = rows[a[i]].name
  BY <1>2, <1>3, <1>4 DEF Shown
<1> HIDE DEF s, a, k, N
<1>7. shown \subseteq names
  BY <1>1, <1>5, <1>6
<1>8. \A i, j \in 1..k : i < j => s[i].name # s[j].name
  <2> TAKE i, j \in 1..k
  <2> HAVE i < j
  <2>1. a[i] \in F /\ a[j] \in F /\ a[i] < a[j] /\ i \in 1..N /\ j \in 1..N
    BY <1>2, <1>3, <1>6
  <2>2. rows[a[i]].name # rows[a[j]].name
    BY <2>1 DEF Firsts
  <2> QED
    BY <2>2, <1>6
<1>9. Cardinality(shown) = k
  <2> DEFINE h == [i \in 1..k |-> s[i].name]
  <2>1. \A i, j \in 1..k : h[i] = h[j] => i = j
    <3> TAKE i, j \in 1..k
    <3>1. i < j \/ j < i \/ i = j
      BY <1>3
    <3> QED
      BY <3>1, <1>8
  <2>2. h \in Injection(1..k, shown)
    BY <2>1, <1>5 DEF Injection, IsInjective
  <2>3. h \in Surjection(1..k, shown)
    BY <1>5 DEF Surjection
  <2>4. ExistsBijection(1..k, shown)
    BY <2>2, <2>3, Zenon DEF ExistsBijection, Bijection
  <2>5. IsFiniteSet(1..k) /\ Cardinality(1..k) = k
    BY <1>3, FS_Interval
  <2> QED
    BY <2>4, <2>5, FS_Bijection
<1>10. k < limit => names \subseteq shown
  <2> SUFFICES ASSUME k < limit, NEW i \in kept PROVE rows[i].name \in shown
    OBVIOUS
  <2>1. PICK f \in F : rows[f].name = rows[i].name
    BY <1>1, FirstExists
  <2>2. PICK j \in 1..N : a[j] = f
    BY <1>2
  <2>3. j \in 1..k
    BY <1>3, <2>2
  <2> QED
    BY <2>1, <2>2, <2>3, <1>5, <1>6
<1>11. /\ shown \subseteq names
       /\ Cardinality(shown) = Len(s) /\ Len(s) <= limit
       /\ Len(s) < limit => names \subseteq shown
  <2> HIDE DEF shown, names
  <2> QED
    BY <1>3, <1>5, <1>7, <1>9, <1>10
<1> QED
  BY <1>11 DEF Whole, s

\* What is whole for the rows kept is so between usable and listed names.
LEMMA WholeWidens ==
  ASSUME NEW s, NEW names, NEW usable, NEW listed, NEW limit,
         Whole(s, names, names, limit), usable \subseteq names, names \subseteq listed
  PROVE  Whole(s, usable, listed, limit)
BY DEF Whole

\* A body is the first m rows of an answer of Discogs.
LEMMA BodyRows ==
  ASSUME NEW k \in Keys, NEW m \in 0..Len(Api[k])
  PROVE  LET body == SubSeq(Api[k], 1, m) IN
         /\ m \in Nat /\ DOMAIN body = 1..m
         /\ \A i \in 1..m : body[i] = Api[k][i] /\ body[i] \in ApiRow
<1>1. Api[k] \in Seq(ApiRow)
  BY DiscogsAssumption
<1>2. /\ Len(Api[k]) \in Nat /\ m \in Nat
      /\ \A i \in 1..m : i \in 1..Len(Api[k]) /\ Api[k][i] \in ApiRow
  BY <1>1, ElementOfSeq, LenProperties
<1>3. SubSeq(Api[k], 1, m) \in Seq(ApiRow) /\ Len(SubSeq(Api[k], 1, m)) = m
      /\ \A i \in 1..m : SubSeq(Api[k], 1, m)[i] = Api[k][i]
  BY <1>1, <1>2, SubSeqProperties
<1> QED
  BY <1>2, <1>3, LenProperties

\* The pages: of releases, of artists or labels, of a discography, of one pick.
LEMMA PagesAreWhole ==
  ASSUME NEW k \in Keys, NEW m \in 0..Len(Api[k]), NEW limit \in Nat
  PROVE  LET body == SubSeq(Api[k], 1, m)
             listed == {Api[k][i].name : i \in 1..m} \ {Blank}
             usable == {Api[k][i].name : i \in {j \in 1..m : Api[k][j].id # 0}} \ {Blank}
         IN /\ Whole(PickAll(body, limit), usable, listed, limit)
            /\ Whole(ParseEntities(body, limit), usable, listed, limit)
            /\ Whole(Discography(body, limit), usable, listed, limit)
            /\ Whole(PickFirst(body), usable, listed, 1)
            /\ \A rows \in PickRandom(body) : Whole(rows, usable, listed, 1)
<1> DEFINE body == SubSeq(Api[k], 1, m)
           listed == {Api[k][i].name : i \in 1..m} \ {Blank}
           usable == {Api[k][i].name : i \in {j \in 1..m : Api[k][j].id # 0}} \ {Blank}
           formed == {i \in 1..m : body[i].name # Blank}
<1>1. /\ m \in Nat /\ DOMAIN body = 1..m
      /\ \A i \in 1..m : body[i] = Api[k][i] /\ body[i] \in ApiRow
  BY BodyRows
<1> HIDE DEF body
<1>2. WellFormed(body) = formed /\ formed \in SUBSET (1..m)
  BY <1>1 DEF WellFormed
<1>3. {body[i].name : i \in formed} \subseteq listed /\ usable \subseteq {body[i].name : i \in formed}
  BY <1>1
<1>4. ASSUME NEW n \in Nat PROVE Whole(PickAll(body, n), usable, listed, n)
  <2>1. LET names == {body[i].name : i \in formed} IN Whole(Listed(body, formed, n), names, names, n)
    BY <1>1, <1>2, ListedIsWhole
  <2> HIDE DEF usable, listed, formed
  <2> QED
    BY <2>1, <1>2, <1>3, WholeWidens DEF PickAll
<1>5. Whole(ParseEntities(body, limit), usable, listed, limit)
  <2> DEFINE kept == {i \in formed : body[i].id # 0}
             names == {body[i].name : i \in kept}
  <2>1. kept \in SUBSET (1..m)
    OBVIOUS
  <2>2. names \subseteq listed /\ usable \subseteq names
    BY <1>1
  <2>3. Whole(Listed(body, kept, limit), names, names, limit)
    BY <1>1, <2>1, ListedIsWhole
  <2>4. ParseEntities(body, limit) = Listed(body, kept, limit)
    BY <1>2 DEF ParseEntities
  <2> HIDE DEF usable, listed, names
  <2> QED
    BY <2>2, <2>3, <2>4, WholeWidens
<1>6. Whole(Discography(body, limit), usable, listed, limit)
  <2> DEFINE pressed == [i \in 1..m |-> Pressing(body[i])]
             kept == {i \in WellFormed(pressed) : pressed[i].master => pressed[i].id # 0}
             names == {pressed[i].name : i \in kept}
  <2>1. \A i \in 1..m : /\ pressed[i].name = body[i].name
                        /\ body[i].id # 0 => pressed[i].id # 0
    <3> TAKE i \in 1..m
    <3>1. pressed[i] = Pressing(body[i]) /\ body[i] \in ApiRow
      BY <1>1
    <3>2. body[i].id \in Nat /\ body[i].main \in Nat
      BY <3>1 DEF ApiRow
    <3> HIDE DEF pressed
    <3> QED
      BY <3>1, <3>2 DEF Pressing, ApiRow
  <2>2. WellFormed(pressed) = formed
    <3>1. DOMAIN pressed = 1..m
      OBVIOUS
    <3> HIDE DEF pressed
    <3> QED
      BY <2>1, <3>1 DEF WellFormed
  <2>3. Discography(body, limit) = Listed(pressed, kept, limit)
    BY <1>1 DEF Discography
  <2> HIDE DEF pressed
  <2>4. kept \in SUBSET (1..m)
    BY <2>2
  <2>5. names \subseteq listed /\ usable \subseteq names
    BY <1>1, <2>1, <2>2
  <2>6. Whole(Listed(pressed, kept, limit), names, names, limit)
    BY <1>1, <2>4, ListedIsWhole
  <2> HIDE DEF usable, listed, names
  <2> QED
    BY <2>3, <2>5, <2>6, WholeWidens
<1>7. ASSUME NEW rows \in PickRandom(body) PROVE Whole(rows, usable, listed, 1)
  <2>1. PICK i \in formed : rows = <<Shown(body[i])>>
    BY <1>2 DEF PickRandom
  <2>2. /\ Len(rows) = 1 /\ DOMAIN rows = {1} /\ rows[1].name = body[i].name
    BY <2>1 DEF Shown
  <2>4. Cardinality({body[i].name}) = 1
    BY FS_Singleton, Zenon
  <2>5. body[i].name \in listed
    BY <1>3
  <2> DEFINE shown == {rows[j].name : j \in DOMAIN rows}
  <2>6. shown = {body[i].name}
    BY <2>2
  <2> HIDE DEF listed, usable, shown
  <2>7. /\ shown \subseteq listed /\ Cardinality(shown) = Len(rows) /\ Len(rows) <= 1
        /\ ~(Len(rows) < 1)
    BY <2>2, <2>4, <2>5, <2>6
  <2> QED
    BY <2>7, Zenon DEF Whole, shown
<1>8. Whole(PickFirst(body), usable, listed, 1)
  BY <1>4 DEF PickFirst
<1> QED
  BY <1>4, <1>5, <1>6, <1>7, <1>8 DEF body
-----------------------------------------------------------------------------
(* The invariant of the replies: what a call has brought is as fresh as    *)
(* the caches promise, also when another call has stored something since,  *)
(* and what a probe, the broad cache or a result says was heard.           *)

Job == [kind : PageKinds \cup ProbeKinds \cup {"none"},
        step : {"idle", "calls", "loop", "broad", "done"},
        artist : Artists \cup {"none"}, next : Nat \ {0}, probed : Nat, since : Int]

\* A request looks back at nothing later than now, and goes the way of its kind.
JobInv ==
  /\ job \in [Requests -> Job]
  /\ \A r \in Requests :
       /\ job[r].since <= now
       /\ job[r].kind \in PageKinds => job[r].step \in {"idle", "calls", "done"}
       /\ job[r].kind \in ProbeKinds => job[r].step # "calls"
       /\ job[r].kind \in ProbeKinds /\ job[r].step # "idle" => job[r].artist \in Artists
       /\ job[r].kind = "none" => job[r].step = "idle"

\* A row is as old as it says, or Discogs has answered since.
StoreInv ==
  /\ answered \in [Keys -> Int]
  /\ \A k \in Keys : answered[k] <= now
  /\ DOMAIN row \subseteq Keys
  /\ \A k \in DOMAIN row : /\ row[k].at \in Int /\ row[k].at <= answered[k]
                           /\ row[k].body \in 0..Len(Api[k]) \cup {Garbage}

CallRecord ==
  [step : {"none", "get", "wait", "sent", "done"}, key : Keys \cup {""}, per : Nat,
   err : {"none", "rate", "failed", "missing"}, body : Int]

Asking(r, s) ==
  job[r].kind \in PageKinds /\ job[r].step # "idle" /\ s \in CallsOf(job[r].kind)

CallInv ==
  /\ call \in [Calls -> CallRecord]
  /\ \A r \in Requests, s \in Sections :
       LET c == call[<<r, s>>] IN
       /\ c.step # "none" => Asking(r, s) /\ c.key = KeyOf(job[r].kind, s)
       /\ c.step = "done" /\ c.err = "none" =>
            c.body \in 0..Len(Api[c.key]) /\ answered[c.key] > job[r].since - TTL
       /\ Asking(r, s) /\ job[r].step = "done" => c.step = "done"

HeardInv == heard \in [Artists \X Files -> Int] /\ \A x \in Artists \X Files : heard[x] <= now

Checking(r) == job[r].kind \in ProbeKinds /\ job[r].step # "idle"

ProbeRecord ==
  [outer : {"none", "wait"}, inner : {"none", "gate", "search", "done"}, files : SUBSET Files]

\* An answer on its way to the probe that waits for it has just been heard.
ProbeInv ==
  /\ probe \in [Probes -> ProbeRecord]
  /\ \A p \in Probes :
       /\ probe[p].outer # "none" \/ probe[p].inner # "none" => Checking(p[1])
       /\ probe[p].inner = "done" => \A f \in probe[p].files : heard[<<job[p[1]].artist, f>>] = now

BroadInv ==
  /\ DOMAIN broad \subseteq Artists
  /\ \A a \in DOMAIN broad :
       /\ broad[a].at \in Int /\ broad[a].files \subseteq Files
       /\ \A f \in broad[a].files : heard[<<a, f>>] >= broad[a].at

ResultInv ==
  /\ results \in [Requests -> SUBSET TitleSet]
  /\ \A r \in Requests : \A t \in results[r] : Checking(r) /\ ProbeTrue(r, t)

RInv == JobInv /\ StoreInv /\ CallInv /\ HeardInv /\ ProbeInv /\ BroadInv /\ ResultInv

\* What a request that has begun keeps of its job.
Onward ==
  \A q \in Requests : job[q].step # "idle" =>
    /\ job'[q].step # "idle" /\ job'[q].kind = job[q].kind
    /\ job'[q].artist = job[q].artist /\ job'[q].since = job[q].since

\* What the assumptions say of the numbers, keys and sections used below.
LEMMA Constants ==
  /\ TTL \in Nat \ {0} /\ BroadTTL \in Nat /\ Start \in Nat /\ Len(Titles) \in Nat
  /\ \A i \in 1..Len(Titles) : Titles[i] \in TitleSet
  /\ \A kind \in PageKinds : LimitOf(kind) \in Nat
  /\ \A kind \in PageKinds : CallsOf(kind) \subseteq Sections
  /\ \A kind \in PageKinds : \A s \in CallsOf(kind) : KeyOf(kind, s) \in Keys /\ PerPage(kind, s) \in Nat
<1>1. /\ TTL \in Nat \ {0} /\ BroadTTL \in Nat /\ Start \in Nat /\ Titles \in Seq(TitleSet)
  BY DiscogsAssumption, PreviewsAssumption
<1>2. Len(Titles) \in Nat /\ \A i \in 1..Len(Titles) : Titles[i] \in TitleSet
  BY <1>1, LenProperties, ElementOfSeq
<1>3. \A kind \in PageKinds : LimitOf(kind) \in Nat
  BY PreviewsAssumption DEF LimitOf
<1>4. \A kind \in PageKinds : CallsOf(kind) \subseteq Sections
  BY DEF PageKinds, CallsOf, Sections
<1>5. \A kind \in PageKinds : \A s \in CallsOf(kind) : KeyOf(kind, s) \in Keys
  BY KeysAssumption
<1>6. \A kind \in PageKinds : \A s \in CallsOf(kind) : PerPage(kind, s) \in Nat
  BY <1>3 DEF PerPage
<1> QED
  BY <1>1, <1>2, <1>3, <1>4, <1>5, <1>6

\* At the start nobody has asked, and the rows of the last run are dated.
LEMMA InitRInv == Init => RInv
<1> SUFFICES ASSUME Init PROVE RInv
  OBVIOUS
<1>1. now = Start /\ now \in Nat
  BY Constants DEF Init, InitDiscogs
<1>2. PICK mix \in Mixes : job = [r \in Requests |-> Idle(mix[r])]
  BY DEF Init
<1>3. \A r \in Requests : Idle(mix[r]) \in Job /\ Idle(mix[r]).step = "idle" /\ Idle(mix[r]).since = 0
  BY PreviewsAssumption DEF Idle, Job
<1>4. JobInv
  BY <1>1, <1>2, <1>3 DEF JobInv
<1>5. /\ DOMAIN row \subseteq Keys
      /\ \A k \in DOMAIN row : /\ row[k].at \in Int /\ row[k].at <= Start
                               /\ row[k].body \in 0..Len(Api[k]) \cup {Garbage}
  <2>1. row \in OldRows \cup {Swept(old) : old \in OldRows}
    BY DEF Init, InitDiscogs
  <2>2. ASSUME NEW old \in OldRows, row = Swept(old)
        PROVE  DOMAIN row \subseteq DOMAIN old /\ \A k \in DOMAIN row : row[k] = old[k]
    BY <2>2 DEF Swept
  <2>3. PICK old \in OldRows : row = old \/ row = Swept(old)
    BY <2>1
  <2>4. DOMAIN row \subseteq DOMAIN old /\ \A k \in DOMAIN row : row[k] = old[k]
    BY <2>2, <2>3
  <2>5. /\ DOMAIN old \subseteq Keys
        /\ \A k \in DOMAIN old : /\ old[k].at \in Int /\ old[k].at <= Start
                                /\ old[k].body \in 0..Len(Api[k]) \cup {Garbage}
    BY DiscogsAssumption
  <2>6. ASSUME NEW k \in DOMAIN row
        PROVE  /\ row[k].at \in Int /\ row[k].at <= Start
               /\ row[k].body \in 0..Len(Api[k]) \cup {Garbage}
    <3>1. k \in DOMAIN old /\ row[k] = old[k]
      BY <2>4
    <3> QED
      BY <2>5, <3>1, Zenon
  <2>7. DOMAIN row \subseteq Keys
    BY <2>4, <2>5, Zenon
  <2> QED
    BY <2>6, <2>7, Zenon
<1>6. StoreInv
  <2>1. answered = [k \in Keys |-> IF k \in DOMAIN row THEN row[k].at ELSE -1]
    BY DEF Init, InitDiscogs
  <2> QED
    BY <1>1, <1>5, <2>1 DEF StoreInv
<1>7. CallInv
  <2>1. call = [c \in Calls |-> NoCall] /\ NoCall \in CallRecord /\ NoCall.step = "none"
    <3>1. call = [c \in Calls |-> NoCall]
      BY DEF Init, InitDiscogs
    <3>2. NoCall \in CallRecord /\ NoCall.step = "none"
      BY DEF NoCall, CallRecord
    <3> QED
      BY <3>1, <3>2
  <2>2. \A r \in Requests : ~(job[r].step # "idle")
    BY <1>2, <1>3
  <2> QED
    BY <2>1, <2>2 DEF CallInv, Asking, Calls
<1>8. HeardInv
  <2>1. heard = [x \in Artists \X Files |-> -BroadTTL - 1]
    BY DEF Init
  <2> QED
    BY <1>1, <2>1, Constants DEF HeardInv
<1>9. ProbeInv
  <2>1. probe = [p \in Probes |-> NoProbe] /\ NoProbe \in ProbeRecord
    BY DEF Init, NoProbe, ProbeRecord
  <2> QED
    BY <2>1 DEF ProbeInv, NoProbe
<1>10. BroadInv /\ ResultInv
  BY DEF Init, BroadInv, ResultInv
<1> QED
  BY <1>4, <1>6, <1>7, <1>8, <1>9, <1>10 DEF RInv

\* What stays as it is while nothing is heard and no time passes.
LEMMA NothingHeard ==
  ASSUME RInv, Onward, UNCHANGED <<now, heard>>
  PROVE  /\ HeardInv'
         /\ UNCHANGED broad => BroadInv'
         /\ UNCHANGED probe => ProbeInv'
         /\ \A r \in Requests : Checking(r) => Checking(r)'
         /\ \A r \in Requests, t \in TitleSet : Checking(r) /\ ProbeTrue(r, t) => ProbeTrue(r, t)'
         /\ UNCHANGED results => ResultInv'
<1>1. HeardInv'
  BY DEF RInv, HeardInv
<1>2. UNCHANGED broad => BroadInv'
  BY DEF RInv, BroadInv
<1>3. \A r \in Requests : Checking(r) => Checking(r)'
  BY DEF Onward, Checking
<1>4. ASSUME UNCHANGED probe PROVE ProbeInv'
  <2>1. ASSUME NEW p \in Probes, probe[p].inner = "done"
        PROVE  job'[p[1]].artist = job[p[1]].artist
    BY <2>1 DEF RInv, ProbeInv, Checking, Onward, Probes
  <2>2. \A p \in Probes : p[1] \in Requests
    BY DEF Probes
  <2> QED
    BY <1>3, <1>4, <2>1, <2>2 DEF RInv, ProbeInv
<1>5. \A r \in Requests, t \in TitleSet : Checking(r) /\ ProbeTrue(r, t) => ProbeTrue(r, t)'
  BY DEF Onward, Checking, ProbeTrue
<1>6. UNCHANGED results => ResultInv'
  BY <1>3, <1>5 DEF RInv, ResultInv
<1> QED
  BY <1>1, <1>2, <1>3, <1>4, <1>5, <1>6

\* One probe of a request that is checking changes.
LEMMA ProbeMoves ==
  ASSUME RInv, Onward, UNCHANGED <<now, heard>>,
         NEW p \in Probes, NEW q \in ProbeRecord, probe' = [probe EXCEPT ![p] = q],
         Checking(p[1])',
         q.inner = "done" => q.files = {} \/ (probe[p].inner = "done" /\ q.files = probe[p].files)
  PROVE  ProbeInv'
<1>1. probe' \in [Probes -> ProbeRecord]
  BY DEF RInv, ProbeInv
<1>2. p[1] \in Requests /\ \A x \in Probes : x[1] \in Requests
  BY DEF Probes
<1>3. ASSUME NEW x \in Probes
      PROVE  /\ probe'[x].outer # "none" \/ probe'[x].inner # "none" => Checking(x[1])'
             /\ probe'[x].inner = "done" =>
                  \A f \in probe'[x].files : heard'[<<job'[x[1]].artist, f>>] = now'
  <2>1. probe[x].outer # "none" \/ probe[x].inner # "none" => Checking(x[1])
    BY DEF RInv, ProbeInv
  <2>2. probe[x].inner = "done" => /\ job'[x[1]].artist = job[x[1]].artist
                                   /\ \A f \in probe[x].files : heard[<<job[x[1]].artist, f>>] = now
    BY <1>2, <2>1 DEF RInv, ProbeInv, Checking, Onward
  <2>3. Checking(x[1]) => Checking(x[1])'
    BY <1>2, NothingHeard
  <2>4. CASE x = p
    <3>1. probe'[x] = q
      BY <2>4 DEF RInv, ProbeInv
    <3> QED
      BY <3>1, <2>2, <2>4
  <2>5. CASE x # p
    <3>1. probe'[x] = probe[x]
      BY <2>5 DEF RInv, ProbeInv
    <3> QED
      BY <3>1, <2>1, <2>2, <2>3
  <2> QED
    BY <2>4, <2>5
<1> QED
  BY <1>1, <1>3 DEF ProbeInv

\* Some titles are marked for one request.
LEMMA ResultsGrow ==
  ASSUME RInv, Onward, UNCHANGED <<now, heard>>,
         NEW r \in Requests, NEW R \in SUBSET TitleSet, Checking(r),
         results' = [results EXCEPT ![r] = R],
         \A t \in R : t \in results[r] \/ ProbeTrue(r, t)
  PROVE  ResultInv'
<1>1. results' \in [Requests -> SUBSET TitleSet]
  BY DEF RInv, ResultInv
<1>2. ASSUME NEW q \in Requests, NEW t \in results'[q] PROVE Checking(q) /\ ProbeTrue(q, t)
  BY <1>2 DEF RInv, ResultInv
<1> QED
  BY <1>1, <1>2, NothingHeard DEF ResultInv

\* The job of one request goes on.
LEMMA JobMoves ==
  ASSUME RInv, NEW r \in Requests, NEW j \in Job, job' = [job EXCEPT ![r] = j],
         job[r].step # "idle", j.step # "idle", j.kind = job[r].kind,
         j.artist = job[r].artist, j.since = job[r].since,
         job[r].kind \in PageKinds =>
           j.step = "done" /\ \A s \in CallsOf(job[r].kind) : call[<<r, s>>].step = "done",
         job[r].kind \in ProbeKinds => j.step # "calls",
         UNCHANGED <<now, call, answered>>
  PROVE  Onward /\ JobInv' /\ CallInv'
<1>1. \A q \in Requests : job'[q] = IF q = r THEN j ELSE job[q]
  BY DEF RInv, JobInv
<1>2. Onward
  BY <1>1 DEF Onward
<1>3. JobInv'
  <2>1. job' \in [Requests -> Job]
    BY DEF RInv, JobInv
  <2> QED
    BY <1>1, <2>1 DEF RInv, JobInv
<1>4. CallInv'
  BY <1>1 DEF RInv, CallInv, Asking
<1> QED
  BY <1>2, <1>3, <1>4

\* A call goes on.
LEMMA CallMoves ==
  ASSUME RInv, NEW r \in Requests, NEW s \in Sections,
         NEW d \in CallRecord, call' = [call EXCEPT ![<<r, s>>] = d],
         call[<<r, s>>].step \notin {"none", "done"}, d.key = call[<<r, s>>].key,
         d.step = "done" /\ d.err = "none" =>
           d.body \in 0..Len(Api[d.key]) /\ answered'[d.key] > job[r].since - TTL,
         UNCHANGED <<now, job>>,
         answered' \in [Keys -> Int], \A k \in Keys : answered'[k] >= answered[k]
  PROVE  CallInv'
<1>1. <<r, s>> \in Calls /\ \A q \in Requests, x \in Sections : <<q, x>> \in Calls
  BY DEF Calls
<1>2. call' \in [Calls -> CallRecord]
  BY DEF RInv, CallInv
<1>3. ASSUME NEW q \in Requests, NEW x \in Sections
      PROVE  LET c == call'[<<q, x>>] IN
             /\ c.step # "none" => Asking(q, x) /\ c.key = KeyOf(job[q].kind, x)
             /\ c.step = "done" /\ c.err = "none" =>
                  c.body \in 0..Len(Api[c.key]) /\ answered'[c.key] > job[q].since - TTL
             /\ Asking(q, x) /\ job[q].step = "done" => c.step = "done"
  <2> DEFINE b == call[<<q, x>>]
  <2>1. /\ b.step # "none" => Asking(q, x) /\ b.key = KeyOf(job[q].kind, x)
        /\ b.step = "done" /\ b.err = "none" =>
             b.body \in 0..Len(Api[b.key]) /\ answered[b.key] > job[q].since - TTL
        /\ Asking(q, x) /\ job[q].step = "done" => b.step = "done"
    BY DEF RInv, CallInv
  <2>2. CASE q = r /\ x = s
    <3>1. call'[<<q, x>>] = d
      BY <2>2, <1>1 DEF RInv, CallInv
    <3> QED
      BY <2>1, <2>2, <3>1
  <2>3. CASE ~(q = r /\ x = s)
    <3>1. call'[<<q, x>>] = b
      BY <2>3, <1>1 DEF RInv, CallInv
    <3>2. b.step = "done" => b.key \in Keys
      BY <2>1, Constants DEF Asking
    <3>3. job[q].since - TTL \in Int
      BY Constants DEF RInv, JobInv, Job
    <3>4. b.step = "done" => answered'[b.key] >= answered[b.key] /\ answered[b.key] \in Int
                             /\ answered'[b.key] \in Int
      BY <3>2 DEF RInv, StoreInv
    <3>5. b.step = "done" /\ b.err = "none" => answered'[b.key] > job[q].since - TTL
      BY <2>1, <3>3, <3>4
    <3> QED
      BY <2>1, <3>1, <3>5
  <2> QED
    BY <2>2, <2>3
<1> QED
  BY <1>2, <1>3 DEF CallInv, Asking

\* A call of the client (client.go): only an answer of Discogs dates a row,
\* and what is read from one is younger than the TTL.
LEMMA CallStep ==
  ASSUME RInv, now \in Nat, NEW r \in Requests, NEW s \in Sections,
         Call(<<r, s>>), UNCHANGED previewVars
  PROVE  RInv'
<1> DEFINE c == <<r, s>>
           k == call[c].key
<1>1. /\ UNCHANGED <<now, job, status, results, probe, broad, heard>>
  BY DEF Call, LookUp, TryTake, WaitCancelled, Answered, Refused, previewVars
<1>2. Onward
  BY <1>1 DEF Onward
<1>3. JobInv'
  BY <1>1 DEF RInv, JobInv
<1>4. HeardInv' /\ BroadInv' /\ ProbeInv' /\ ResultInv'
  BY <1>1, <1>2, NothingHeard
<1>5. c \in Calls /\ call[c] \in CallRecord /\ call \in [Calls -> CallRecord]
  BY DEF Calls, RInv, CallInv
<1>6. call[c].step \in {"get", "wait", "sent"}
  BY DEF Call, LookUp, TryTake, WaitCancelled, Answered, Refused
<1>7. k \in Keys
  <2>1. Asking(r, s) /\ k = KeyOf(job[r].kind, s)
    BY <1>6 DEF RInv, CallInv
  <2> QED
    BY <2>1, Constants DEF Asking
<1>8. job[r].since \in Int /\ job[r].since <= now /\ TTL \in Nat \ {0}
  BY Constants DEF RInv, JobInv, Job
<1>9. /\ answered \in [Keys -> Int] /\ \A x \in Keys : answered[x] <= now
  BY DEF RInv, StoreInv
<1> SUFFICES StoreInv' /\ CallInv'
  BY <1>3, <1>4 DEF RInv
\* What the call becomes, when Discogs has not answered.
<1>10. ASSUME NEW d \in CallRecord, call' = [call EXCEPT ![c] = d], d.key = k,
              UNCHANGED <<row, answered>>,
              d.step = "done" /\ d.err = "none" =>
                d.body \in 0..Len(Api[d.key]) /\ answered[d.key] > job[r].since - TTL
       PROVE  StoreInv' /\ CallInv'
  <2>1. StoreInv'
    BY <1>1, <1>10 DEF RInv, StoreInv
  <2>2. \A x \in Keys : answered'[x] >= answered[x]
    BY <1>9, <1>10
  <2>3. call[c].step \notin {"none", "done"}
    BY <1>6
  <2>4. CallInv'
    BY <1>1, <1>9, <1>10, <2>2, <2>3, CallMoves
  <2> QED
    BY <2>1, <2>4
<1>11. CASE LookUp(c)
  <2>1. UNCHANGED <<row, answered>>
    BY <1>11 DEF LookUp
  <2>2. CASE Fresh(k) /\ ~over[r]
    <3> DEFINE b == row[k].body
               d == [call[c] EXCEPT !.step = "done", !.err = Parsed(b), !.body = b]
    <3>1. /\ row[k].at \in Int /\ row[k].at <= answered[k] /\ row[k].at > now - TTL
          /\ b \in 0..Len(Api[k]) \cup {Garbage}
      BY <2>2 DEF Fresh, RInv, StoreInv
    <3>2. b \in Int
      <4>1. Len(Api[k]) \in Nat
        BY <1>7, DiscogsAssumption, LenProperties
      <4> QED
        BY <3>1, <4>1 DEF Garbage
    <3>3. d \in CallRecord /\ d.key = k /\ d.err = Parsed(b) /\ d.body = b
      BY <1>5, <3>2 DEF CallRecord, Parsed
    <3>4. call' = [call EXCEPT ![c] = d]
      BY <1>11, <2>2, <1>5 DEF LookUp, Finish
    <3>5. answered[k] \in Int
      BY <1>7, <1>9
    <3>6. answered[k] > job[r].since - TTL
      BY <1>8, <3>1, <3>5
    <3>7. Parsed(b) = "none" => b \in 0..Len(Api[k])
      BY <3>1 DEF Parsed
    <3> HIDE DEF d, b
    <3> QED
      BY <1>10, <2>1, <3>3, <3>4, <3>6, <3>7
  <2>3. CASE ~(Fresh(k) /\ ~over[r])
    <3> DEFINE d == [call[c] EXCEPT !.step = "wait"]
    <3>1. d \in CallRecord /\ d.key = k /\ d.step = "wait"
      BY <1>5 DEF CallRecord
    <3>2. call' = [call EXCEPT ![c] = d]
      BY <1>11, <2>3, <1>5 DEF LookUp
    <3> HIDE DEF d
    <3> QED
      BY <1>10, <2>1, <3>1, <3>2
  <2> QED
    BY <2>2, <2>3
<1>12. CASE TryTake(c)
  <2> DEFINE d == [call[c] EXCEPT !.step = "sent"]
  <2>1. d \in CallRecord /\ d.key = k /\ d.step = "sent"
    BY <1>5 DEF CallRecord
  <2>2. call' = [call EXCEPT ![c] = d] /\ UNCHANGED <<row, answered>>
    BY <1>12, <1>5 DEF TryTake
  <2> HIDE DEF d
  <2> QED
    BY <1>10, <2>1, <2>2
<1>13. CASE WaitCancelled(c) \/ Refused(c)
  <2>1. PICK err \in {"rate", "failed", "missing"} :
          call' = [call EXCEPT ![c].step = "done", ![c].err = err, ![c].body = 0]
    <3>1. Faults \subseteq {"rate", "failed", "missing"}
      BY DiscogsAssumption
    <3> QED
      BY <1>13, <3>1 DEF WaitCancelled, Refused, Finish
  <2> DEFINE d == [call[c] EXCEPT !.step = "done", !.err = err, !.body = 0]
  <2>2. d \in CallRecord /\ d.key = k /\ d.err # "none"
    <3>1. 0 \in Int /\ err \in {"none", "rate", "failed", "missing"} /\ err # "none"
      OBVIOUS
    <3> QED
      BY <1>5, <3>1 DEF CallRecord
  <2>3. call' = [call EXCEPT ![c] = d] /\ UNCHANGED <<row, answered>>
    BY <1>13, <1>5, <2>1 DEF WaitCancelled, Refused
  <2> HIDE DEF d
  <2> QED
    BY <1>10, <2>2, <2>3
<1>14. CASE Answered(c)
  <2> DEFINE page == IF Len(Api[k]) < call[c].per THEN Len(Api[k]) ELSE call[c].per
  <2>1. Len(Api[k]) \in Nat /\ page \in 0..Len(Api[k])
    <3>1. Len(Api[k]) \in Nat
      BY <1>7, DiscogsAssumption, LenProperties
    <3>2. call[c].per \in Nat
      BY <1>5 DEF CallRecord
    <3> QED
      BY <3>1, <3>2
  <2>2. PICK body \in {page, Garbage}, stored \in BOOLEAN :
          /\ row' = IF stored THEN [x \in DOMAIN row \cup {k} |->
                                      IF x = k THEN [body |-> body, at |-> now] ELSE row[x]]
                              ELSE row
          /\ Finish(c, Parsed(body), body)
    BY <1>14 DEF Answered
  <2>3. answered' = [answered EXCEPT ![k] = now]
    BY <1>14 DEF Answered
  <2>4. /\ answered' \in [Keys -> Int] /\ answered'[k] = now
        /\ \A x \in Keys : answered'[x] >= answered[x] /\ answered'[x] <= now
    BY <1>7, <1>9, <2>3
  <2>5. body \in 0..Len(Api[k]) \cup {Garbage}
    BY <2>1, <2>2
  <2>6. StoreInv'
    <3>1. DOMAIN row' \subseteq Keys
      BY <1>7, <2>2 DEF RInv, StoreInv
    <3>2. ASSUME NEW x \in DOMAIN row'
          PROVE  /\ row'[x].at \in Int /\ row'[x].at <= answered'[x]
                 /\ row'[x].body \in 0..Len(Api[x]) \cup {Garbage}
      <4>1. CASE stored /\ x = k
        <5>1. row'[x] = [body |-> body, at |-> now]
          BY <4>1, <2>2
        <5> QED
          BY <4>1, <5>1, <2>4, <2>5
      <4>2. CASE ~(stored /\ x = k)
        <5>1. x \in DOMAIN row /\ row'[x] = row[x] /\ x \in Keys
          BY <3>1, <4>2, <2>2
        <5>2. /\ row[x].at \in Int /\ row[x].at <= answered[x]
              /\ row[x].body \in 0..Len(Api[x]) \cup {Garbage}
          BY <5>1 DEF RInv, StoreInv
        <5>3. answered[x] \in Int /\ answered'[x] \in Int /\ answered'[x] >= answered[x]
          BY <5>1, <2>4, <1>9
        <5> QED
          BY <5>1, <5>2, <5>3
      <4> QED
        BY <4>1, <4>2
    <3> QED
      BY <1>1, <2>4, <3>1, <3>2 DEF StoreInv
  <2> DEFINE d == [call[c] EXCEPT !.step = "done", !.err = Parsed(body), !.body = body]
  <2>7. d \in CallRecord /\ d.key = k /\ d.err = Parsed(body) /\ d.body = body
    <3>1. body \in Int
      BY <2>1, <2>5 DEF Garbage
    <3> QED
      BY <1>5, <3>1 DEF CallRecord, Parsed
  <2>8. call' = [call EXCEPT ![c] = d]
    BY <2>2, <1>5 DEF Finish
  <2>9. Parsed(body) = "none" => body \in 0..Len(Api[k])
    BY <2>5 DEF Parsed
  <2>10. answered'[k] > job[r].since - TTL
    BY <1>8, <2>4
  <2>11. call[c].step \notin {"none", "done"}
    BY <1>6
  <2> HIDE DEF d, page
  <2>12. CallInv'
    BY <1>1, <2>4, <2>7, <2>8, <2>9, <2>10, <2>11, CallMoves
  <2> QED
    BY <2>6, <2>12
<1> QED
  BY <1>11, <1>12, <1>13, <1>14 DEF Call

\* A call that starts is a well-formed call.
LEMMA StartedIsCall ==
  ASSUME NEW key \in Keys, NEW per \in Nat
  PROVE  Started(key, per) \in CallRecord /\ Started(key, per).step = "get"
         /\ Started(key, per).key = key
<1> DEFINE x == [NoCall EXCEPT !.step = "get"]
           y == [x EXCEPT !.key = key]
           z == [y EXCEPT !.per = per]
<1>0. NoCall \in CallRecord
  BY DEF NoCall, CallRecord
<1>1. x \in CallRecord /\ x.step = "get"
  BY <1>0 DEF CallRecord
<1> HIDE DEF x
<1>2. y \in CallRecord /\ y.step = "get" /\ y.key = key
  BY <1>1 DEF CallRecord
<1> HIDE DEF y
<1>3. z \in CallRecord /\ z.step = "get" /\ z.key = key
  BY <1>2 DEF CallRecord
<1> QED
  BY <1>3 DEF x, y, Started

\* A request begins.
LEMMA JobBegins ==
  ASSUME RInv, now \in Nat, UNCHANGED now, NEW r \in Requests,
         NEW step \in {"calls", "loop", "broad", "done"}, NEW a \in Artists \cup {"none"},
         job' = [job EXCEPT ![r].step = step, ![r].artist = a, ![r].since = now],
         job[r].step = "idle", job[r].kind # "none",
         job[r].kind \in PageKinds => step = "calls",
         job[r].kind \in ProbeKinds => step # "calls" /\ a \in Artists
  PROVE  /\ Onward /\ JobInv'
         /\ job'[r].kind = job[r].kind /\ job'[r].step = step
         /\ job'[r].artist = a /\ job'[r].since = now
         /\ \A q \in Requests \ {r} : job'[q] = job[q]
         /\ job[r].kind \in ProbeKinds /\ UNCHANGED <<call, answered>> => CallInv'
<1> DEFINE x == [job[r] EXCEPT !.step = step]
           y == [x EXCEPT !.artist = a]
           j == [y EXCEPT !.since = now]
<1>0. /\ job[r] \in Job /\ job \in [Requests -> Job] /\ JobInv
      /\ step \in {"idle", "calls", "loop", "broad", "done"}
  BY DEF RInv, JobInv
<1>1. job' = [job EXCEPT ![r] = j]
  BY <1>0
<1>2. j \in Job /\ j.kind = job[r].kind /\ j.step = step /\ j.artist = a /\ j.since = now
  <2>1. x \in Job /\ x.kind = job[r].kind /\ x.step = step
    BY <1>0 DEF Job
  <2> HIDE DEF x
  <2>2. y \in Job /\ y.kind = job[r].kind /\ y.step = step /\ y.artist = a
    BY <2>1 DEF Job
  <2> HIDE DEF y
  <2>3. now \in Int
    OBVIOUS
  <2> QED
    BY <2>2, <2>3 DEF Job
<1> HIDE DEF j
<1>3. \A q \in Requests : job'[q] = IF q = r THEN j ELSE job[q]
  BY <1>0, <1>1
<1>4. Onward
  BY <1>3 DEF Onward
<1>5. JobInv'
  <2>1. job' \in [Requests -> Job]
    BY <1>0, <1>1, <1>2
  <2>2. step # "idle"
    OBVIOUS
  <2>3. \A q \in Requests \ {r} :
          /\ job'[q] = job[q] /\ job[q].since <= now
          /\ job[q].kind \in PageKinds => job[q].step \in {"idle", "calls", "done"}
          /\ job[q].kind \in ProbeKinds => job[q].step # "calls"
          /\ job[q].kind \in ProbeKinds /\ job[q].step # "idle" => job[q].artist \in Artists
          /\ job[q].kind = "none" => job[q].step = "idle"
    BY <1>0, <1>3 DEF JobInv
  <2> QED
    BY <1>2, <1>3, <2>1, <2>2, <2>3 DEF JobInv
<1>6. ASSUME job[r].kind \in ProbeKinds, UNCHANGED <<call, answered>> PROVE CallInv'
  <2>1. job[r].kind \notin PageKinds
    BY <1>6 DEF PageKinds, ProbeKinds
  <2>2. ASSUME NEW q \in Requests, NEW s \in Sections
        PROVE  /\ Asking(q, s)' <=> Asking(q, s)
               /\ Asking(q, s) => job'[q] = job[q]
    BY <1>2, <1>3, <2>1 DEF Asking
  <2>3. ASSUME NEW q \in Requests, NEW s \in Sections
        PROVE  LET c == call'[<<q, s>>] IN
               /\ c.step # "none" => Asking(q, s)' /\ c.key = KeyOf(job'[q].kind, s)
               /\ c.step = "done" /\ c.err = "none" =>
                    c.body \in 0..Len(Api[c.key]) /\ answered'[c.key] > job'[q].since - TTL
               /\ Asking(q, s)' /\ job'[q].step = "done" => c.step = "done"
    <3>1. LET c == call[<<q, s>>] IN
          /\ c.step # "none" => Asking(q, s) /\ c.key = KeyOf(job[q].kind, s)
          /\ c.step = "done" /\ c.err = "none" =>
               c.body \in 0..Len(Api[c.key]) /\ answered[c.key] > job[q].since - TTL
          /\ Asking(q, s) /\ job[q].step = "done" => c.step = "done"
      BY DEF RInv, CallInv
    <3>2. CASE Asking(q, s)
      BY <1>6, <2>2, <3>1, <3>2
    <3>3. CASE ~Asking(q, s)
      BY <1>6, <2>2, <3>1, <3>3
    <3> QED
      BY <3>2, <3>3
  <2> QED
    BY <1>6, <2>3 DEF RInv, CallInv
<1> QED
  BY <1>2, <1>3, <1>4, <1>5, <1>6

\* A page starts its calls together and joins them all.
LEMMA PageStep ==
  ASSUME RInv, now \in Nat, NEW r \in Requests, BeginPage(r) \/ JoinPage(r)
  PROVE  RInv'
<1>0. JobInv /\ StoreInv /\ CallInv
  BY DEF RInv
<1>1. CASE BeginPage(r)
  <2> DEFINE j == job'[r]
             kind == job[r].kind
             d(s) == Started(KeyOf(kind, s), PerPage(kind, s))
  <2>1. /\ job[r].step = "idle" /\ kind \in PageKinds
        /\ UNCHANGED <<now, row, answered, results, probe, broad, heard>>
        /\ job' = [job EXCEPT ![r].step = "calls", ![r].artist = "none", ![r].since = now]
    BY <1>1 DEF BeginPage, Begin
  <2>2. kind \notin ProbeKinds /\ kind # "none"
    BY <2>1 DEF PageKinds, ProbeKinds
  <2>3. /\ Onward /\ JobInv' /\ j.kind = kind /\ j.step = "calls"
        /\ \A q \in Requests \ {r} : job'[q] = job[q]
    BY <2>1, <2>2, JobBegins
  <2>6. HeardInv' /\ BroadInv' /\ ProbeInv' /\ ResultInv'
    BY <2>1, <2>3, NothingHeard
  <2>7. StoreInv'
    BY <1>0, <2>1 DEF StoreInv
  <2>8. \A s \in CallsOf(kind) : d(s) \in CallRecord /\ d(s).step = "get" /\ d(s).key = KeyOf(kind, s)
    <3> TAKE s \in CallsOf(kind)
    <3>1. KeyOf(kind, s) \in Keys /\ PerPage(kind, s) \in Nat
      BY <2>1, Constants
    <3> QED
      BY <3>1, StartedIsCall
  <2>9. \A q \in Requests, s \in Sections :
          call'[<<q, s>>] = IF q = r /\ s \in CallsOf(kind) THEN d(s) ELSE call[<<q, s>>]
    BY <1>1 DEF BeginPage, Calls
  <2>10. call' \in [Calls -> CallRecord]
    <3>1. call' = [c \in Calls |-> IF c[1] = r /\ c[2] \in CallsOf(kind) THEN d(c[2]) ELSE call[c]]
      BY <1>1 DEF BeginPage
    <3> HIDE DEF d
    <3> QED
      BY <1>0, <2>8, <3>1 DEF CallInv
  <2>12. CallInv'
    <3>1. ASSUME NEW q \in Requests, NEW s \in Sections
          PROVE  LET c == call'[<<q, s>>] IN
                 /\ c.step # "none" => Asking(q, s)' /\ c.key = KeyOf(job'[q].kind, s)
                 /\ c.step = "done" /\ c.err = "none" =>
                      c.body \in 0..Len(Api[c.key]) /\ answered'[c.key] > job'[q].since - TTL
                 /\ Asking(q, s)' /\ job'[q].step = "done" => c.step = "done"
      <4>1. CASE q = r /\ s \in CallsOf(kind)
        <5>1. call'[<<q, s>>] = d(s) /\ job'[q] = j
          BY <4>1, <2>9
        <5> HIDE DEF d, j
        <5> QED
          BY <4>1, <5>1, <2>1, <2>3, <2>8 DEF Asking
      <4>2. CASE q = r /\ s \notin CallsOf(kind)
        <5>1. call'[<<q, s>>] = call[<<q, s>>] /\ job'[q] = j
          BY <4>2, <2>9
        <5>2. call[<<q, s>>].step = "none"
          BY <1>0, <4>2, <2>1 DEF CallInv, Asking
        <5> HIDE DEF j
        <5> QED
          BY <4>2, <5>1, <5>2, <2>3 DEF Asking
      <4>3. CASE q # r
        <5>1. call'[<<q, s>>] = call[<<q, s>>] /\ job'[q] = job[q]
          BY <4>3, <2>3, <2>9
        <5> QED
          BY <1>0, <4>3, <5>1, <2>1 DEF CallInv, Asking
      <4> QED
        BY <4>1, <4>2, <4>3
    <3> QED
      BY <1>0, <2>10, <3>1 DEF CallInv
  <2> QED
    BY <2>3, <2>6, <2>7, <2>12 DEF RInv
<1>2. CASE JoinPage(r)
  <2> DEFINE j == [job[r] EXCEPT !.step = "done"]
  <2>1. /\ job[r].step = "calls" /\ job[r] \in Job
        /\ \A s \in CallsOf(job[r].kind) : call[<<r, s>>].step = "done"
        /\ UNCHANGED <<now, row, call, answered, results, probe, broad, heard>>
    BY <1>0, <1>2 DEF JoinPage, discogsVars, JobInv
  <2>2. j \in Job /\ j.kind = job[r].kind /\ j.artist = job[r].artist /\ j.since = job[r].since
        /\ j.step = "done"
    BY <2>1 DEF Job
  <2>3. job' = [job EXCEPT ![r] = j]
    BY <1>0, <1>2, <2>1 DEF JoinPage, Reply, Goto, JobInv
  <2>4. Onward /\ JobInv' /\ CallInv'
    <3> HIDE DEF j
    <3> QED
      BY <2>1, <2>2, <2>3, JobMoves
  <2>5. HeardInv' /\ BroadInv' /\ ProbeInv' /\ ResultInv'
    BY <2>1, <2>4, NothingHeard
  <2>6. StoreInv'
    BY <1>0, <2>1 DEF StoreInv
  <2> QED
    BY <2>4, <2>5, <2>6 DEF RInv
<1> QED
  BY <1>1, <1>2

\* A probe is launched for a request that is checking.
LEMMA Launching ==
  ASSUME RInv, Onward, UNCHANGED <<now, heard>>, NEW p \in Probes, Launched(p), Checking(p[1])'
  PROVE  ProbeInv'
<1> DEFINE x == [probe[p] EXCEPT !.outer = "wait"]
           q == [x EXCEPT !.inner = "gate"]
<1>1. probe \in [Probes -> ProbeRecord] /\ probe[p] \in ProbeRecord
  BY DEF RInv, ProbeInv
<1>2. probe' = [probe EXCEPT ![p] = q]
  BY <1>1 DEF Launched
<1>3. x \in ProbeRecord
  BY <1>1 DEF ProbeRecord
<1> HIDE DEF x
<1>4. q \in ProbeRecord /\ q.inner = "gate"
  BY <1>3 DEF ProbeRecord
<1> HIDE DEF q
<1> QED
  BY <1>2, <1>4, ProbeMoves

\* A probe is given up, by the select that waits for it.
LEMMA GivenUp ==
  ASSUME RInv, Onward, UNCHANGED <<now, heard>>, NEW p \in Probes, Checking(p[1])',
         probe' = [probe EXCEPT ![p].outer = "none",
                                ![p].inner = IF @ = "done" THEN "none" ELSE @,
                                ![p].files = {}]
  PROVE  ProbeInv'
<1> DEFINE x == [probe[p] EXCEPT !.outer = "none"]
           y == [x EXCEPT !.inner = IF @ = "done" THEN "none" ELSE @]
           q == [y EXCEPT !.files = {}]
<1>1. probe \in [Probes -> ProbeRecord] /\ probe[p] \in ProbeRecord
  BY DEF RInv, ProbeInv
<1>2. probe' = [probe EXCEPT ![p] = q]
  BY <1>1
<1>3. x \in ProbeRecord
  BY <1>1 DEF ProbeRecord
<1> HIDE DEF x
<1>4. y \in ProbeRecord /\ y.inner # "done"
  BY <1>3 DEF ProbeRecord
<1> HIDE DEF y
<1>5. q \in ProbeRecord /\ q.inner # "done"
  BY <1>4 DEF ProbeRecord
<1> HIDE DEF q
<1> QED
  BY <1>2, <1>5, ProbeMoves

\* The job of a request that is checking goes on to its next step or title.
LEMMA CheckGoesOn ==
  ASSUME RInv, NEW r \in Requests, NEW j \in Job, job' = [job EXCEPT ![r] = j],
         job[r].step \in {"loop", "broad"}, j.step \in {"loop", "broad", "done"},
         j.kind = job[r].kind, j.artist = job[r].artist, j.since = job[r].since,
         UNCHANGED discogsVars
  PROVE  /\ Checking(r) /\ Checking(r)' /\ Onward /\ UNCHANGED now
         /\ JobInv' /\ CallInv' /\ StoreInv'
<1>1. UNCHANGED <<now, row, call, answered>>
  BY DEF discogsVars
<1>2. job[r].kind \in ProbeKinds /\ job[r].kind \notin PageKinds
  BY DEF RInv, JobInv, Job, PageKinds, ProbeKinds
<1>3. Onward /\ JobInv' /\ CallInv'
  BY <1>1, <1>2, JobMoves
<1>4. StoreInv'
  BY <1>1 DEF RInv, StoreInv
<1>5. Checking(r)
  BY <1>2 DEF Checking
<1>6. Checking(r)'
  BY <1>2, <1>3 DEF Checking, Onward
<1> QED
  BY <1>1, <1>3, <1>4, <1>5, <1>6

\* CheckAvailability begins: nothing is marked yet.
LEMMA BeginItemsStep ==
  ASSUME RInv, now \in Nat, NEW r \in Requests, NEW a \in Artists, BeginItems(r, a)
  PROVE  RInv'
<1>1. /\ UNCHANGED <<now, row, call, answered, results, probe, broad, heard>>
      /\ job[r].step = "idle" /\ job[r].kind = "items"
      /\ job' = [job EXCEPT ![r].step = "loop", ![r].artist = a, ![r].since = now]
  BY DEF BeginItems, Begin, discogsVars
<1>2. job[r].kind \in ProbeKinds /\ job[r].kind \notin PageKinds /\ job[r].kind # "none"
  BY <1>1 DEF ProbeKinds, PageKinds
<1>3. Onward /\ JobInv' /\ CallInv'
  BY <1>1, <1>2, JobBegins
<1>4. HeardInv' /\ BroadInv' /\ ProbeInv' /\ ResultInv'
  BY <1>1, <1>3, NothingHeard
<1>5. StoreInv'
  BY <1>1 DEF RInv, StoreInv
<1> QED
  BY <1>3, <1>4, <1>5 DEF RInv

\* A hit of the broad cache answers at once: a sample is at most BroadTTL old.
LEMMA BeginByArtistStep ==
  ASSUME RInv, now \in Nat, NEW r \in Requests, NEW a \in Artists, BeginByArtist(r, a)
  PROVE  RInv'
<1> DEFINE hit == FreshBroad(a)
           step == IF hit THEN "done" ELSE "broad"
<1>1. /\ UNCHANGED <<now, row, call, answered, heard>>
      /\ job[r].step = "idle" /\ job[r].kind = "byArtist"
      /\ job' = [job EXCEPT ![r].step = step, ![r].artist = a, ![r].since = now]
  BY DEF BeginByArtist, Begin, discogsVars
<1>2. /\ job[r].kind \in ProbeKinds /\ job[r].kind \notin PageKinds /\ job[r].kind # "none"
      /\ step \in {"done", "broad"}
  BY <1>1 DEF ProbeKinds, PageKinds
<1>3. /\ Onward /\ JobInv' /\ CallInv'
      /\ job'[r].kind = job[r].kind /\ job'[r].step = step
      /\ job'[r].artist = a /\ job'[r].since = now
  BY <1>1, <1>2, JobBegins
<1>4. Checking(r)'
  BY <1>2, <1>3 DEF Checking
<1>5. StoreInv'
  BY <1>1 DEF RInv, StoreInv
<1>6. HeardInv'
  BY <1>1, <1>3, NothingHeard
<1> SUFFICES ProbeInv' /\ BroadInv' /\ ResultInv'
  BY <1>3, <1>5, <1>6 DEF RInv
<1>7. CASE hit
  <2>1. /\ results' = [results EXCEPT ![r] = Found(broad[a].files)]
        /\ UNCHANGED <<probe, broad>>
    BY <1>7 DEF BeginByArtist
  <2>2. ProbeInv' /\ BroadInv'
    BY <1>1, <1>3, <2>1, NothingHeard
  <2>3. /\ a \in DOMAIN broad /\ now <= broad[a].at + BroadTTL
        /\ broad[a].at \in Int /\ broad[a].files \subseteq Files
        /\ \A f \in broad[a].files : heard[<<a, f>>] >= broad[a].at
    BY <1>7 DEF FreshBroad, RInv, BroadInv
  <2>4. Found(broad[a].files) \in SUBSET TitleSet
    BY DEF Found
  <2>5. ASSUME NEW t \in Found(broad[a].files) PROVE ProbeTrue(r, t)'
    <3>1. t \in broad[a].files /\ t \in Files
      BY <2>3, <2>5 DEF Found
    <3>2. heard[<<a, t>>] \in Int
      BY <3>1 DEF RInv, HeardInv
    <3>3. heard[<<a, t>>] >= now - BroadTTL
      BY <2>3, <3>1, <3>2, Constants
    <3> QED
      BY <1>1, <1>3, <3>1, <3>3 DEF ProbeTrue
  <2>6. ResultInv'
    <3>1. results' \in [Requests -> SUBSET TitleSet]
      BY <2>1, <2>4 DEF RInv, ResultInv
    <3>2. ASSUME NEW q \in Requests, NEW t \in results'[q]
          PROVE  Checking(q)' /\ ProbeTrue(q, t)'
      <4>1. CASE q = r
        BY <4>1, <1>4, <2>1, <2>5, <3>2 DEF RInv, ResultInv
      <4>2. CASE q # r
        <5>1. t \in results[q] /\ t \in TitleSet
          BY <2>1, <3>2, <4>2 DEF RInv, ResultInv
        <5>2. Checking(q) /\ ProbeTrue(q, t)
          BY <5>1 DEF RInv, ResultInv
        <5> QED
          BY <1>1, <1>3, <5>1, <5>2, NothingHeard
      <4> QED
        BY <4>1, <4>2
    <3> QED
      BY <3>1, <3>2 DEF ResultInv
  <2> QED
    BY <2>2, <2>6
<1>8. CASE ~hit
  <2>1. /\ UNCHANGED results /\ Launched(<<r, 0>>)
        /\ broad' = [x \in DOMAIN broad \ {a} |-> broad[x]]
    BY <1>8 DEF BeginByArtist
  <2>2. <<r, 0>> \in Probes
    BY Constants DEF Probes
  <2>3. ProbeInv'
    BY <1>1, <1>3, <1>4, <2>1, <2>2, Launching
  <2>4. ResultInv'
    BY <1>1, <1>3, <2>1, NothingHeard
  <2>5. BroadInv'
    BY <1>1, <2>1 DEF RInv, BroadInv
  <2> QED
    BY <2>3, <2>4, <2>5
<1> QED
  BY <1>7, <1>8

\* The broad search came back, or was given up: what it found is kept and
\* marked (search/availability.go, CheckByArtistAvailability).
LEMMA BroadEndsStep ==
  ASSUME RInv, now \in Nat, NEW r \in Requests, NEW files \in SUBSET Files,
         job[r].step = "broad", BroadEnds(r, files),
         \A f \in files : heard[<<job[r].artist, f>>] = now
  PROVE  RInv'
<1> DEFINE a == job[r].artist
<1>1. /\ UNCHANGED discogsVars /\ UNCHANGED heard
      /\ job \in [Requests -> Job] /\ job[r] \in Job
  BY DEF BroadEnds, RInv, JobInv
<1>2. PICK step \in {"loop", "done"} : job' = [job EXCEPT ![r].step = step]
  BY DEF BroadEnds, Reply, Goto
<1> DEFINE j == [job[r] EXCEPT !.step = step]
<1>3. j \in Job /\ j.kind = job[r].kind /\ j.artist = a /\ j.since = job[r].since /\ j.step = step
  BY <1>1 DEF Job
<1>4. job' = [job EXCEPT ![r] = j]
  BY <1>1, <1>2
<1> HIDE DEF j
<1>5. /\ Checking(r) /\ Checking(r)' /\ Onward /\ UNCHANGED now
      /\ JobInv' /\ CallInv' /\ StoreInv'
  BY <1>1, <1>3, <1>4, CheckGoesOn
<1>6. HeardInv'
  BY <1>1, <1>5, NothingHeard
<1>7. ProbeInv'
  <2>1. <<r, 0>> \in Probes
    BY Constants DEF Probes
  <2>2. probe' = [probe EXCEPT ![<<r, 0>>].outer = "none",
                               ![<<r, 0>>].inner = IF @ = "done" THEN "none" ELSE @,
                               ![<<r, 0>>].files = {}]
    BY DEF BroadEnds
  <2> QED
    BY <1>1, <1>5, <2>1, <2>2, GivenUp
<1>8. BroadInv' /\ ResultInv'
  <2>1. CASE files = {}
    <3>1. UNCHANGED <<results, broad>>
      BY <2>1 DEF BroadEnds
    <3> QED
      BY <1>1, <1>5, <3>1, NothingHeard
  <2>2. CASE files # {}
    <3>1. PICK kept \in Kept :
            broad' = [x \in kept \cup {a} |->
                        IF x = a THEN [files |-> files, at |-> now] ELSE broad[x]]
      BY <2>2 DEF BroadEnds
    <3>2. kept \subseteq DOMAIN broad
      BY DEF Kept, Live
    <3>3. a \in Artists /\ job[r].since <= now /\ job[r].since \in Int
      BY <1>1, <1>5 DEF Checking, RInv, JobInv, Job
    <3>4. BroadInv'
      <4>1. DOMAIN broad' \subseteq Artists
        BY <3>1, <3>2, <3>3 DEF RInv, BroadInv
      <4>2. ASSUME NEW x \in DOMAIN broad'
            PROVE  /\ broad'[x].at \in Int /\ broad'[x].files \subseteq Files
                   /\ \A f \in broad'[x].files : heard'[<<x, f>>] >= broad'[x].at
        <5>1. CASE x = a
          <6>1. broad'[x] = [files |-> files, at |-> now]
            BY <3>1, <5>1
          <6> QED
            BY <1>1, <5>1, <6>1
        <5>2. CASE x # a
          <6>1. x \in DOMAIN broad /\ broad'[x] = broad[x]
            BY <3>1, <3>2, <4>2, <5>2
          <6> QED
            BY <1>1, <6>1 DEF RInv, BroadInv
        <5> QED
          BY <5>1, <5>2
      <4> QED
        BY <4>1, <4>2 DEF BroadInv
    <3>5. results' = [results EXCEPT ![r] = Found(files)] /\ Found(files) \in SUBSET TitleSet
      BY <2>2 DEF BroadEnds, Found
    <3>6. ASSUME NEW t \in Found(files) PROVE ProbeTrue(r, t)
      <4>1. t \in files /\ t \in Files /\ heard[<<a, t>>] = now
        BY <3>6 DEF Found
      <4>2. heard[<<a, t>>] >= job[r].since - BroadTTL
        BY <3>3, <4>1, Constants
      <4> QED
        BY <4>1, <4>2 DEF ProbeTrue
    <3>7. ResultInv'
      BY <1>1, <1>5, <3>5, <3>6, ResultsGrow
    <3> QED
      BY <3>4, <3>7
  <2> QED
    BY <2>1, <2>2
<1> QED
  BY <1>5, <1>6, <1>7, <1>8 DEF RInv

\* The steps of an availability request that touch no result.
LEMMA AvailabilityStep ==
  ASSUME RInv, now \in Nat, NEW r \in Requests, Availability(r)
  PROVE  RInv'
<1>0. /\ job \in [Requests -> Job] /\ job[r] \in Job /\ job[r].next \in Nat \ {0}
      /\ Len(Titles) \in Nat
  BY Constants DEF RInv, JobInv, Job
\* What is left to show of one that moves the job to j and launches a probe, or none.
<1>1. ASSUME NEW j \in Job, job' = [job EXCEPT ![r] = j],
             job[r].step = "loop", j.step \in {"loop", "done"},
             j.kind = job[r].kind, j.artist = job[r].artist, j.since = job[r].since,
             UNCHANGED <<discogsVars, results, broad, heard>>,
             UNCHANGED probe \/ \E p \in Probes : p[1] = r /\ Launched(p)
      PROVE  RInv'
  <2>1. /\ Checking(r) /\ Checking(r)' /\ Onward /\ UNCHANGED now
        /\ JobInv' /\ CallInv' /\ StoreInv'
    BY <1>1, CheckGoesOn
  <2>2. HeardInv' /\ BroadInv' /\ ResultInv' /\ (UNCHANGED probe => ProbeInv')
    BY <1>1, <2>1, NothingHeard
  <2>3. ASSUME NEW p \in Probes, p[1] = r, Launched(p) PROVE ProbeInv'
    BY <1>1, <2>1, <2>3, Launching
  <2>4. ProbeInv'
    BY <1>1, <2>2, <2>3
  <2> QED
    BY <2>1, <2>2, <2>4 DEF RInv
<1>2. ~AtEnd(r) => <<r, job[r].next>> \in Probes
  BY <1>0 DEF AtEnd, Probes
\* The same, for a job whose loop counter moves, or that is done.
<1>3. ASSUME NEW n \in Nat \ {0}, job' = [job EXCEPT ![r].next = n], job[r].step = "loop",
             UNCHANGED <<discogsVars, results, broad, heard>>,
             UNCHANGED probe \/ \E p \in Probes : p[1] = r /\ Launched(p)
      PROVE  RInv'
  <2> DEFINE j == [job[r] EXCEPT !.next = n]
  <2>1. /\ j \in Job /\ j.step = "loop" /\ j.kind = job[r].kind
        /\ j.artist = job[r].artist /\ j.since = job[r].since
    BY <1>0, <1>3 DEF Job
  <2>2. job' = [job EXCEPT ![r] = j]
    BY <1>0, <1>3
  <2> HIDE DEF j
  <2> QED
    BY <1>1, <1>3, <2>1, <2>2
<1>4. ASSUME job' = [job EXCEPT ![r].step = "done"], job[r].step = "loop",
             UNCHANGED <<discogsVars, results, probe, broad, heard>>
      PROVE  RInv'
  <2> DEFINE j == [job[r] EXCEPT !.step = "done"]
  <2>1. /\ j \in Job /\ j.step = "done" /\ j.kind = job[r].kind
        /\ j.artist = job[r].artist /\ j.since = job[r].since
    BY <1>0 DEF Job
  <2>2. job' = [job EXCEPT ![r] = j]
    BY <1>0, <1>4
  <2> HIDE DEF j
  <2> QED
    BY <1>1, <1>4, <2>1, <2>2
<1>5. job[r].next + 1 \in Nat \ {0} /\ Len(Titles) + 1 \in Nat \ {0}
  BY <1>0
<1>6. Next1(r) => job' = [job EXCEPT ![r].next = job[r].next + 1]
  BY <1>0 DEF Next1
<1>7. CASE LaunchItem(r)
  <2>1. \A p \in Probes : p = <<r, job[r].next>> => p[1] = r
    OBVIOUS
  <2>2. /\ job' = [job EXCEPT ![r].next = job[r].next + 1] /\ job[r].step = "loop"
        /\ UNCHANGED <<discogsVars, results, broad, heard>>
        /\ UNCHANGED probe \/ (~AtEnd(r) /\ Launched(<<r, job[r].next>>))
    BY <1>6, <1>7 DEF LaunchItem
  <2>3. UNCHANGED probe \/ \E p \in Probes : p[1] = r /\ Launched(p)
    BY <1>2, <2>1, <2>2
  <2> QED
    BY <1>3, <1>5, <2>2, <2>3
<1>8. CASE JoinProbes(r) \/ LeaveFallback(r)
  <2>1. /\ job' = [job EXCEPT ![r].step = "done"] /\ job[r].step = "loop"
        /\ UNCHANGED <<discogsVars, results, probe, broad, heard>>
    BY <1>8 DEF JoinProbes, LeaveFallback, Probing, Reply, Goto
  <2> QED
    BY <1>4, <2>1
<1>9. CASE SkipTitle(r)
  <2>1. /\ job[r].step = "loop"
        /\ UNCHANGED <<discogsVars, results, probe, broad, heard>>
        /\ \/ job' = [job EXCEPT ![r].next = job[r].next + 1]
           \/ job' = [job EXCEPT ![r].next = Len(Titles) + 1]
    BY <1>6, <1>9 DEF SkipTitle
  <2> QED
    BY <1>3, <1>5, <2>1
<1>10. CASE LaunchFallback(r)
  <2> DEFINE x == [job[r] EXCEPT !.next = @ + 1]
             j == [x EXCEPT !.probed = @ + 1]
  <2>1. x \in Job /\ x.step = job[r].step /\ x.kind = job[r].kind
        /\ x.artist = job[r].artist /\ x.since = job[r].since
    BY <1>0, <1>5 DEF Job
  <2>2. job' = [job EXCEPT ![r] = j]
    BY <1>0, <1>10 DEF LaunchFallback
  <2> HIDE DEF x
  <2>3. j \in Job /\ j.step = job[r].step /\ j.kind = job[r].kind
        /\ j.artist = job[r].artist /\ j.since = job[r].since
    BY <2>1 DEF Job
  <2>4. /\ job[r].step = "loop" /\ Launched(<<r, job[r].next>>) /\ ~AtEnd(r)
        /\ UNCHANGED <<discogsVars, results, broad, heard>>
    BY <1>10 DEF LaunchFallback, Probing
  <2>5. \E p \in Probes : p[1] = r /\ Launched(p)
    BY <1>2, <2>4
  <2> HIDE DEF j
  <2> QED
    BY <1>1, <2>2, <2>3, <2>4, <2>5
<1>11. CASE CollectBroad(r)
  <2> DEFINE files == probe[<<r, 0>>].files
  <2>1. <<r, 0>> \in Probes /\ <<r, 0>>[1] = r
    BY Constants DEF Probes
  <2>2. files \in SUBSET Files /\ \A f \in files : heard[<<job[r].artist, f>>] = now
    BY <1>11, <2>1 DEF CollectBroad, RInv, ProbeInv, ProbeRecord
  <2>3. job[r].step = "broad" /\ BroadEnds(r, files)
    BY <1>11 DEF CollectBroad
  <2> HIDE DEF files
  <2> QED
    BY <2>2, <2>3, BroadEndsStep
<1>12. CASE AbandonBroad(r)
  BY <1>12, BroadEndsStep DEF AbandonBroad
<1> QED
  BY <1>7, <1>8, <1>9, <1>10, <1>11, <1>12 DEF Availability

\* The goroutines of the probes: the gate, and the channel to who waits.
LEMMA GoroutineStep ==
  ASSUME RInv, now \in Nat, NEW p \in Probes, Goroutine(p)
  PROVE  RInv'
<1>0. /\ UNCHANGED <<discogsVars, job, broad, heard>>
  BY DEF Goroutine, EnterGate, LeaveGate, Collect, Abandon
<1>1. /\ UNCHANGED <<now, row, call, answered>> /\ Onward
  BY <1>0 DEF discogsVars, Onward
<1>2. JobInv' /\ StoreInv' /\ CallInv'
  BY <1>0, <1>1 DEF RInv, JobInv, StoreInv, CallInv, Asking
<1>3. HeardInv' /\ BroadInv' /\ (UNCHANGED results => ResultInv')
  BY <1>0, <1>1, NothingHeard
<1> SUFFICES ProbeInv' /\ ResultInv'
  BY <1>2, <1>3 DEF RInv
<1>4. /\ probe \in [Probes -> ProbeRecord] /\ probe[p] \in ProbeRecord
      /\ p[1] \in Requests /\ p[2] \in 0..Len(Titles) /\ p = <<p[1], p[2]>>
  BY DEF RInv, ProbeInv, Probes
<1>5. probe[p].outer # "none" \/ probe[p].inner # "none" => Checking(p[1]) /\ Checking(p[1])'
  BY <1>0, <1>4 DEF RInv, ProbeInv, Checking
<1>6. CASE EnterGate(p)
  <2> DEFINE q == [probe[p] EXCEPT !.inner = "search"]
  <2>1. q \in ProbeRecord /\ q.inner = "search" /\ probe' = [probe EXCEPT ![p] = q]
    BY <1>4, <1>6 DEF EnterGate, ProbeRecord
  <2>2. UNCHANGED results /\ Checking(p[1])'
    BY <1>5, <1>6 DEF EnterGate
  <2> HIDE DEF q
  <2> QED
    BY <1>0, <1>1, <1>3, <2>1, <2>2, ProbeMoves
<1>7. CASE LeaveGate(p)
  <2> DEFINE x == [probe[p] EXCEPT !.inner = IF probe[p].outer = "wait" THEN "done" ELSE "none"]
             q == [x EXCEPT !.files = {}]
  <2>1. x \in ProbeRecord
    BY <1>4 DEF ProbeRecord
  <2>2. probe' = [probe EXCEPT ![p] = q]
    BY <1>4, <1>7 DEF LeaveGate, Ended
  <2> HIDE DEF x
  <2>3. q \in ProbeRecord /\ q.files = {}
    BY <2>1 DEF ProbeRecord
  <2>4. UNCHANGED results /\ Checking(p[1])'
    BY <1>5, <1>7 DEF LeaveGate
  <2> HIDE DEF q
  <2> QED
    BY <1>0, <1>1, <1>3, <2>2, <2>3, <2>4, ProbeMoves
<1>8. CASE Abandon(p[1], p[2])
  <2>1. /\ probe' = [probe EXCEPT ![p].outer = "none",
                                  ![p].inner = IF @ = "done" THEN "none" ELSE @,
                                  ![p].files = {}]
        /\ UNCHANGED results /\ probe[p].outer = "wait"
    BY <1>4, <1>8 DEF Abandon
  <2> QED
    BY <1>0, <1>1, <1>3, <1>5, <2>1, GivenUp
<1>9. CASE Collect(p[1], p[2])
  <2> DEFINE r == p[1]
             t == Titles[p[2]]
             hit == Hit(job[r].kind, t, probe[p].files)
  <2>1. /\ p[2] # 0 /\ probe[p].outer = "wait" /\ probe[p].inner = "done"
        /\ probe' = [probe EXCEPT ![p] = NoProbe]
        /\ results' = IF hit THEN [results EXCEPT ![r] = @ \cup {t}] ELSE results
    BY <1>4, <1>9 DEF Collect
  <2>2. NoProbe \in ProbeRecord /\ NoProbe.inner = "none"
    BY DEF NoProbe, ProbeRecord
  <2>3. Checking(r) /\ Checking(r)'
    BY <1>5, <2>1
  <2>4. ProbeInv'
    BY <1>0, <1>1, <2>1, <2>2, <2>3, ProbeMoves
  <2>5. ResultInv'
    <3>1. CASE hit
      <4>1. t \in TitleSet
        BY <1>4, <2>1, Constants
      <4>2. /\ \A f \in probe[p].files : f \in Files /\ heard[<<job[r].artist, f>>] = now
            /\ job[r].since <= now /\ job[r].since \in Int
        BY <1>4, <2>1 DEF RInv, ProbeInv, ProbeRecord, JobInv, Job
      <4>3. PICK f \in probe[p].files : f = t \/ (job[r].kind = "items" /\ t \in Bare)
        BY <3>1 DEF Hit
      <4>4. f \in Files /\ heard[<<job[r].artist, f>>] >= job[r].since - BroadTTL
        BY <4>2, Constants
      <4>5. ProbeTrue(r, t)
        BY <4>3, <4>4 DEF ProbeTrue
      <4>6. results[r] \cup {t} \in SUBSET TitleSet
        BY <1>4, <4>1 DEF RInv, ResultInv
      <4>7. results' = [results EXCEPT ![r] = results[r] \cup {t}]
        BY <2>1, <3>1
      <4> HIDE DEF t, hit
      <4> QED
        BY <1>0, <1>1, <1>4, <2>3, <4>5, <4>6, <4>7, ResultsGrow
    <3>2. CASE ~hit
      BY <1>3, <2>1, <3>2
    <3> QED
      BY <3>1, <3>2
  <2> QED
    BY <2>4, <2>5
<1> QED
  BY <1>6, <1>7, <1>8, <1>9 DEF Goroutine

\* An answer of Soulseek makes what was heard later, never earlier.
LEMMA AnswerStep ==
  ASSUME RInv, now \in Nat, NEW p \in Probes, SoulseekAnswers(p)
  PROVE  RInv'
<1>0. /\ UNCHANGED <<discogsVars, job, results, broad>>
  BY DEF SoulseekAnswers
<1>1. /\ UNCHANGED <<now, row, call, answered>> /\ Onward
  BY <1>0 DEF discogsVars, Onward
<1>2. JobInv' /\ StoreInv' /\ CallInv'
  BY <1>0, <1>1 DEF RInv, JobInv, StoreInv, CallInv, Asking
<1>3. PICK files \in SUBSET (Asked(p) \cup {Noise}) :
        /\ Ended(p, files)
        /\ heard' = [x \in DOMAIN heard |->
                       IF x[1] = job[p[1]].artist /\ x[2] \in files THEN now ELSE heard[x]]
  BY DEF SoulseekAnswers
<1>4. files \subseteq Files
  BY <1>3 DEF Asked, Files
<1>5. /\ probe \in [Probes -> ProbeRecord] /\ probe[p] \in ProbeRecord
      /\ p[1] \in Requests /\ probe[p].inner = "search"
      /\ \A x \in Probes : x[1] \in Requests
  BY DEF RInv, ProbeInv, Probes, SoulseekAnswers
<1>6. /\ Checking(p[1])
      /\ \A x \in Probes : probe[x].outer # "none" \/ probe[x].inner # "none" => Checking(x[1])
      /\ \A r \in Requests : Checking(r)' <=> Checking(r)
  BY <1>0, <1>5 DEF RInv, ProbeInv, Checking
<1>7. \A r \in Requests : Checking(r) => job[r].artist \in Artists
  BY DEF RInv, JobInv, Checking
<1>8. /\ heard' \in [Artists \X Files -> Int]
      /\ \A x \in Artists \X Files : /\ heard'[x] >= heard[x] /\ heard'[x] <= now
                                     /\ heard[x] = now => heard'[x] = now
                                     /\ x[1] = job[p[1]].artist /\ x[2] \in files => heard'[x] = now
                                     /\ heard[x] \in Int /\ heard'[x] \in Int
  <2>1. /\ heard \in [Artists \X Files -> Int] /\ DOMAIN heard = Artists \X Files
        /\ \A x \in Artists \X Files : heard[x] <= now /\ heard[x] \in Int
    BY DEF RInv, HeardInv
  <2>2. \A x \in Artists \X Files :
          heard'[x] = IF x[1] = job[p[1]].artist /\ x[2] \in files THEN now ELSE heard[x]
    BY <1>3, <2>1
  <2>3. heard' \in [Artists \X Files -> Int]
    BY <1>3, <2>1
  <2> QED
    BY <2>1, <2>2, <2>3
<1>9. HeardInv'
  BY <1>1, <1>8 DEF HeardInv
<1>10. ProbeInv'
  <2> DEFINE waits == probe[p].outer = "wait"
             x == [probe[p] EXCEPT !.inner = IF waits THEN "done" ELSE "none"]
             q == [x EXCEPT !.files = IF waits THEN files ELSE {}]
  <2>1. x \in ProbeRecord
    BY <1>5 DEF ProbeRecord
  <2>2. probe' = [probe EXCEPT ![p] = q]
    BY <1>3, <1>5 DEF Ended
  <2> HIDE DEF x
  <2>3. q \in ProbeRecord /\ q.files \subseteq files
    BY <1>4, <2>1 DEF ProbeRecord
  <2> HIDE DEF q
  <2>4. ASSUME NEW y \in Probes
        PROVE  /\ probe'[y].outer # "none" \/ probe'[y].inner # "none" => Checking(y[1])'
               /\ probe'[y].inner = "done" =>
                    \A f \in probe'[y].files : heard'[<<job'[y[1]].artist, f>>] = now'
    <3>1. CASE y = p
      <4>1. probe'[y] = q /\ job[p[1]].artist \in Artists
        BY <1>5, <1>6, <1>7, <2>2, <3>1
      <4>2. ASSUME NEW f \in q.files PROVE heard'[<<job[p[1]].artist, f>>] = now
        <5>1. f \in files /\ <<job[p[1]].artist, f>> \in Artists \X Files
          BY <1>4, <2>3, <4>1
        <5> QED
          BY <5>1, <1>8
      <4> QED
        BY <1>0, <1>1, <1>5, <1>6, <3>1, <4>1, <4>2
    <3>2. CASE y # p
      <4>1. probe'[y] = probe[y]
        BY <1>5, <2>2, <3>2
      <4>2. ASSUME probe[y].inner = "done", NEW f \in probe[y].files
            PROVE  heard'[<<job[y[1]].artist, f>>] = now
        <5>1. heard[<<job[y[1]].artist, f>>] = now /\ f \in Files
          BY <1>5, <4>2 DEF RInv, ProbeInv, ProbeRecord
        <5>2. job[y[1]].artist \in Artists
          BY <1>5, <1>6, <1>7, <4>2
        <5> QED
          BY <5>1, <5>2, <1>8
      <4> QED
        BY <1>0, <1>1, <1>5, <1>6, <4>1, <4>2
    <3> QED
      BY <3>1, <3>2
  <2> QED
    BY <1>5, <2>2, <2>3, <2>4 DEF ProbeInv
<1>11. BroadInv'
  <2>1. ASSUME NEW a \in DOMAIN broad, NEW f \in broad[a].files
        PROVE  heard'[<<a, f>>] >= broad[a].at
    <3>1. /\ a \in Artists /\ f \in Files /\ broad[a].at \in Int
          /\ heard[<<a, f>>] >= broad[a].at
      BY <2>1 DEF RInv, BroadInv
    <3>2. <<a, f>> \in Artists \X Files
      BY <3>1
    <3>3. /\ heard'[<<a, f>>] >= heard[<<a, f>>]
          /\ heard[<<a, f>>] \in Int /\ heard'[<<a, f>>] \in Int
      BY <1>8, <3>2
    <3> QED
      BY <3>1, <3>3
  <2> QED
    BY <1>0, <2>1 DEF RInv, BroadInv
<1>12. ResultInv'
  <2>1. ASSUME NEW r \in Requests, NEW t \in results[r]
        PROVE  Checking(r)' /\ ProbeTrue(r, t)'
    <3>1. Checking(r) /\ ProbeTrue(r, t)
      BY <2>1 DEF RInv, ResultInv
    <3>2. PICK f \in Files : /\ f = t \/ (job[r].kind = "items" /\ t \in Bare)
                             /\ heard[<<job[r].artist, f>>] >= job[r].since - BroadTTL
      BY <3>1 DEF ProbeTrue
    <3>3. <<job[r].artist, f>> \in Artists \X Files /\ job[r].since - BroadTTL \in Int
      BY <1>7, <3>1, Constants DEF RInv, JobInv, Job
    <3>4. heard'[<<job[r].artist, f>>] >= job[r].since - BroadTTL
      BY <1>8, <3>2, <3>3
    <3> QED
      BY <1>0, <1>6, <3>1, <3>2, <3>4 DEF ProbeTrue
  <2> QED
    BY <1>0, <2>1 DEF RInv, ResultInv
<1> QED
  BY <1>2, <1>9, <1>10, <1>11, <1>12 DEF RInv

\* No answer is being handed over while time passes.
LEMMA TimeStep ==
  ASSUME RInv, now \in Nat, PassTime
  PROVE  RInv'
<1>1. /\ now' = now + 1 /\ UNCHANGED <<row, call, answered>>
      /\ UNCHANGED <<job, status, results, probe, broad, heard>>
      /\ \A p \in Probes : probe[p].inner # "done"
  BY DEF PassTime, Tick, previewVars
<1>2. JobInv'
  <2>1. \A r \in Requests : job[r].since \in Int
    BY DEF RInv, JobInv, Job
  <2> QED
    BY <1>1, <2>1 DEF RInv, JobInv
<1>3. StoreInv'
  <2>1. \A k \in Keys : answered[k] \in Int
    BY DEF RInv, StoreInv
  <2> QED
    BY <1>1, <2>1 DEF RInv, StoreInv
<1>4. HeardInv'
  <2>1. \A x \in Artists \X Files : heard[x] \in Int
    BY DEF RInv, HeardInv
  <2> QED
    BY <1>1, <2>1 DEF RInv, HeardInv
<1>5. CallInv' /\ ProbeInv' /\ BroadInv'
  BY <1>1 DEF RInv, CallInv, Asking, ProbeInv, Checking, BroadInv
<1>6. ResultInv'
  BY <1>1 DEF RInv, ResultInv, Checking, ProbeTrue
<1> QED
  BY <1>2, <1>3, <1>4, <1>5, <1>6 DEF RInv

\* A cancelled context changes nothing that was seen.
LEMMA CancelStep ==
  ASSUME RInv, NEW r \in Requests, Cancel(r)
  PROVE  RInv'
<1>1. UNCHANGED <<now, row, call, answered, job, results, probe, broad, heard>>
  BY DEF Cancel, previewVars
<1>2. Onward
  BY <1>1 DEF Onward
<1>3. JobInv' /\ StoreInv' /\ CallInv'
  BY <1>1 DEF RInv, JobInv, StoreInv, CallInv, Asking
<1>4. HeardInv' /\ BroadInv' /\ ProbeInv' /\ ResultInv'
  BY <1>1, <1>2, NothingHeard
<1> QED
  BY <1>3, <1>4 DEF RInv

\* Every step keeps the invariant of the replies.
LEMMA RepliesStep ==
  ASSUME RInv, BucketInv, [Next]_vars
  PROVE  RInv'
<1>0. now \in Nat
  BY DiscogsAssumption DEF BucketInv
<1>1. CASE UNCHANGED vars
  <2>1. UNCHANGED <<now, row, call, answered, job, results, probe, broad, heard>>
    BY <1>1 DEF vars, discogsVars, previewVars
  <2>2. Onward
    BY <2>1 DEF Onward
  <2>3. JobInv' /\ StoreInv' /\ CallInv'
    BY <2>1 DEF RInv, JobInv, StoreInv, CallInv, Asking
  <2>4. HeardInv' /\ BroadInv' /\ ProbeInv' /\ ResultInv'
    BY <2>1, <2>2, NothingHeard
  <2> QED
    BY <2>3, <2>4 DEF RInv
<1>2. ASSUME NEW r \in Requests,
             BeginPage(r) \/ (\E a \in Artists : BeginItems(r, a) \/ BeginByArtist(r, a))
      PROVE  RInv'
  BY <1>0, <1>2, PageStep, BeginItemsStep, BeginByArtistStep
<1>3. ASSUME NEW r \in Requests, Page(r) PROVE RInv'
  BY <1>0, <1>3, PageStep, CallStep DEF Page
<1>4. ASSUME NEW r \in Requests, Availability(r) \/ Cancel(r) PROVE RInv'
  BY <1>0, <1>4, AvailabilityStep, CancelStep
<1>5. ASSUME NEW p \in Probes, Goroutine(p) \/ SoulseekAnswers(p) PROVE RInv'
  BY <1>0, <1>5, GoroutineStep, AnswerStep
<1>6. CASE PassTime
  BY <1>0, <1>6, TimeStep
<1> QED
  BY <1>1, <1>2, <1>3, <1>4, <1>5, <1>6 DEF Next

\* The invariant of the replies, for any requests, keys, titles, limits and
\* ages of the two caches.
THEOREM RepliesInvariance == Spec => []RInv
<1>1. RInv /\ BucketInv /\ [Next]_vars => RInv'
  BY RepliesStep
<1> QED
  BY <1>1, InitRInv, BucketInvariance, PTL DEF Spec

\* A section that came back shows the whole of what Discogs said for its key
\* less than the TTL before the request, and no name twice.
LEMMA AnswersAreTrue ==
  ASSUME RInv, NEW r \in Requests, NEW s \in Sections, Answer(r, s)
  PROVE  PageTrue(r, s)
<1> DEFINE c == call[<<r, s>>]
           body == SubSeq(Api[c.key], 1, c.body)
           listed == {Api[c.key][i].name : i \in 1..c.body} \ {Blank}
           usable == {Api[c.key][i].name : i \in {j \in 1..c.body : Api[c.key][j].id # 0}} \ {Blank}
           limit == IF s = "pick" THEN 1 ELSE LimitOf(job[r].kind)
<1>1. /\ Asking(r, s) /\ job[r].kind \in PageKinds /\ s \in CallsOf(job[r].kind)
      /\ c.step = "done" /\ c.err = "none" /\ c.key = KeyOf(job[r].kind, s)
  BY DEF Answer, Asking, RInv, CallInv
<1>2. c.body \in 0..Len(Api[c.key]) /\ answered[c.key] > job[r].since - TTL
  BY <1>1 DEF RInv, CallInv
<1>3. c.key \in Keys /\ LimitOf(job[r].kind) \in Nat
  BY <1>1, Constants
<1>4. /\ Whole(PickAll(body, LimitOf(job[r].kind)), usable, listed, LimitOf(job[r].kind))
      /\ Whole(ParseEntities(body, LimitOf(job[r].kind)), usable, listed, LimitOf(job[r].kind))
      /\ Whole(Discography(body, LimitOf(job[r].kind)), usable, listed, LimitOf(job[r].kind))
      /\ Whole(PickFirst(body), usable, listed, 1)
      /\ \A rows \in PickRandom(body) : Whole(rows, usable, listed, 1)
  BY <1>2, <1>3, PagesAreWhole
<1>5. ASSUME NEW rows \in Shows(r, s) PROVE Whole(rows, usable, listed, limit)
  <2> HIDE DEF usable, listed
  <2>1. CASE s = "releases"
    BY <1>4, <1>5, <2>1 DEF Shows
  <2>2. CASE s \in {"artists", "labels"}
    BY <1>4, <1>5, <2>2 DEF Shows
  <2>3. CASE s = "list"
    BY <1>4, <1>5, <2>3 DEF Shows
  <2>4. CASE s = "pick" /\ job[r].kind = "query"
    BY <1>4, <1>5, <2>4 DEF Shows
  <2>5. CASE s = "pick" /\ job[r].kind = "search"
    BY <1>4, <1>5, <2>5 DEF Shows
  <2>6. CASE s = "entity" \/ (s = "pick" /\ job[r].kind \notin {"query", "search"})
    BY <1>5, <2>6 DEF Shows
  <2> QED
    BY <2>1, <2>2, <2>3, <2>4, <2>5, <2>6 DEF Sections
<1> HIDE DEF limit
<1> QED
  BY <1>2, <1>5 DEF PageTrue, limit

\* A reply says what was seen, whatever was cached, cancelled or left behind
\* (internal/search, discogs/cache.go).
THEOREM RepliesAreTrue == Spec => []RepliesTrue
<1>1. RInv => RepliesTrue
  <2> SUFFICES ASSUME RInv PROVE RepliesTrue
    OBVIOUS
  <2>1. \A r \in Requests, s \in Sections : Answer(r, s) => PageTrue(r, s)
    BY AnswersAreTrue
  <2>2. \A r \in Requests : \A t \in results[r] : ProbeTrue(r, t)
    BY DEF RInv, ResultInv
  <2> QED
    BY <2>1, <2>2 DEF RepliesTrue
<1> QED
  BY <1>1, RepliesInvariance, PTL
=============================================================================
