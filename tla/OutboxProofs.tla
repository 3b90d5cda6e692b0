---------------------------- MODULE OutboxProofs ----------------------------
(***************************************************************************)
(* Proofs about Outbox, for any subscribers, buffers, batches and numbers  *)
(* of rows, errors and restarts: no row of this process leaves the table   *)
(* before every subscriber has it, and each subscriber sees the events in  *)
(* the order of their commits.                                             *)
(***************************************************************************)
EXTENDS Outbox, SequenceTheorems, FiniteSetTheorems, TLAPS

Seen(b) == taken[b] \o chan[b]

Increasing(s) == \A m, n \in 1..Len(s) : m < n => s[m] < s[n]

\* A pass that has rows in hand works on the first rows of the table.
BatchInv ==
  /\ dpc \notin {"row", "send", "delete", "stopped"} => batch = {}
  /\ dpc \in {"send", "delete"} => batch # {}
  /\ dpc # "stopped" => \A i \in batch, j \in outbox : j < i => j \in batch
  /\ dpc \notin {"send", "stopped"} => targets = {}

\* Who was sent what: nothing later than a row that is still there, and that
\* row itself only while it is being sent or waits for its DELETE.
SentInv ==
  /\ \A b \in Subscribers : \A j \in sent[b], i \in outbox :
       dpc # "stopped" =>
         /\ j <= i
         /\ j = i => /\ dpc \in {"send", "delete"}
                     /\ \A k \in targets : Startup[k] # b
  /\ \A b \in Subscribers : \A n \in 1..Len(Seen(b)) : Seen(b)[n] \in sent[b]

\* Before the last service has subscribed, nobody writes.
Survivors == started < Len(Startup) => Len(type) = born

\* The row a pass is at has been sent to all who want it, but for those in
\* targets.
FanoutInv ==
  \A i \in batch :
    IsFirst(i, batch) /\ i > born /\ type[i] # Poison /\ phase # "stopping"
      => /\ dpc = "send" =>
              \A b \in Wanted(i) : i \in sent[b] \/ \E k \in targets : Startup[k] = b
         /\ dpc = "delete" => \A b \in Wanted(i) : i \in sent[b]

\* What the bounds need.
Counts == owed <= Len(type) /\ (phase = "stopping" => restarts < MaxRestarts)

InOrderInv == \A b \in Subscribers : Increasing(Seen(b))

OInv == TypeOK /\ BatchInv /\ SentInv /\ Survivors /\ FanoutInv /\ Counts /\ InOrderInv

-----------------------------------------------------------------------------

LEMMA Constants ==
  /\ MaxRows \in Nat /\ MaxErrors \in Nat /\ MaxRestarts \in Nat /\ Buffer \in Nat \ {0}
  /\ Len(Startup) \in Nat
  /\ \A k \in 1..Len(Startup) : Startup[k] \in Subscribers
  /\ \A b \in Subscribers : \E k \in 1..Len(Startup) : Startup[k] = b
<1>1. Startup \in Seq(Subscribers) /\ {MaxRows, MaxErrors, MaxRestarts} \subseteq Nat
  BY ConstantsAssumption
<1>2. Len(Startup) \in Nat /\ DOMAIN Startup = 1..Len(Startup)
  BY <1>1
<1> QED
  BY <1>1, <1>2, ConstantsAssumption DEF Subscribers

LEMMA InitOInv == Init => OInv
<1> SUFFICES ASSUME Init PROVE OInv
  OBVIOUS
<1>1. TypeOK
  <2>1. /\ Empty \in [Subscribers -> Seq(Ids)]
        /\ \A b \in Subscribers : Len(Empty[b]) = 0
    BY EmptySeq DEF Empty
  <2>2. <<>> \in Seq(Types \cup {Poison}) /\ Len(<<>>) = 0
    BY EmptySeq
  <2>3. /\ Nothing \in [Subscribers -> SUBSET (1..0)] /\ Nothing \in [Subscribers -> SUBSET Ids]
        /\ AllIdle \in [Subscribers -> Ids \cup {None}]
    BY DEF Nothing, AllIdle
  <2>4. /\ outbox \subseteq 1..Len(type) /\ batch \subseteq outbox /\ targets \subseteq 1..started
        /\ type \in Seq(Types \cup {Poison}) /\ Len(type) <= MaxRows /\ born \in 0..Len(type)
        /\ started \in 0..Len(Startup)
    BY <2>2, Constants DEF Init
  <2>5. /\ chan \in [Subscribers -> Seq(Ids)] /\ \A b \in Subscribers : Len(chan[b]) <= Buffer
        /\ taken \in [Subscribers -> Seq(Ids)] /\ sent \in [Subscribers -> SUBSET (1..Len(type))]
        /\ done \in [Subscribers -> SUBSET Ids] /\ busy \in [Subscribers -> Ids \cup {None}]
    BY <2>1, <2>2, <2>3, Constants DEF Init
  <2>6. /\ owed \in 0..MaxRows /\ errors \in 0..MaxErrors /\ restarts \in 0..MaxRestarts
    BY Constants DEF Init
  <2> QED
    BY <2>4, <2>5, <2>6 DEF Init, TypeOK
<1>2. \A b \in Subscribers : Seen(b) = <<>> /\ Len(Seen(b)) = 0
  BY DEF Init, Empty, Seen
<1>3. SentInv /\ InOrderInv
  BY <1>2 DEF Init, SentInv, InOrderInv, Increasing, Nothing
<1>4. BatchInv /\ Survivors /\ FanoutInv /\ Counts
  BY DEF Init, BatchInv, Survivors, FanoutInv, Counts
<1> QED
  BY <1>1, <1>3, <1>4 DEF OInv

-----------------------------------------------------------------------------
(* Start-up, publishers and the clock: nothing is sent or deleted.         *)

\* A step that leaves the table, the channels and the rows in hand alone.
LEMMA QuietStep ==
  ASSUME OInv, UNCHANGED <<tableVars, chan, workVars, batch, targets, ends, sent>>,
         phase' \in {"starting", "up", "stopping"},
         phase' # "stopping" => phase # "stopping",
         phase' = "stopping" => restarts < MaxRestarts,
         started' \in started..Len(Startup),
         owed' \in 0..owed, wake' \in BOOLEAN,
         \/ dpc' = dpc
         \/ dpc' = "stopped"
         \/ batch = {} /\ targets = {} /\ dpc \in {"wait", "return"} /\ dpc' \in {"wait", "select"}
  PROVE  OInv'
<1> USE DEF tableVars, workVars, ends
<1>1. TypeOK'
  BY Constants DEF OInv, TypeOK
<1>2. \A b \in Subscribers : Seen(b)' = Seen(b)
  BY DEF Seen
<1>3. SentInv' /\ InOrderInv'
  BY <1>2 DEF OInv, SentInv, InOrderInv, Increasing
<1>4. BatchInv'
  BY DEF OInv, BatchInv
<1>5. Survivors'
  BY Constants DEF OInv, TypeOK, Survivors
<1>6. FanoutInv'
  BY DEF OInv, FanoutInv, IsFirst, Wanted
<1>7. Counts'
  BY Constants DEF OInv, TypeOK, Counts
<1> QED
  BY <1>1, <1>3, <1>4, <1>5, <1>6, <1>7 DEF OInv

LEMMA QuietSteps ==
  ASSUME OInv,
         \/ Subscribe \/ Serve \/ Wake \/ Cancel
         \/ TakeWake \/ Tick \/ EndPass \/ StopDispatcher
  PROVE  OInv'
<1>1. /\ started \in 0..Len(Startup) /\ owed \in Nat /\ wake \in BOOLEAN
      /\ phase \in {"starting", "up", "stopping"} /\ Len(Startup) \in Nat
      /\ phase = "stopping" => restarts < MaxRestarts
  BY Constants DEF OInv, TypeOK, Counts
<1>2. started \in started..Len(Startup) /\ owed \in 0..owed
  BY <1>1
<1>3. CASE Subscribe
  <2>1. started' \in started..Len(Startup)
    BY <1>1, <1>3 DEF Subscribe
  <2> QED
    BY <1>1, <1>2, <1>3, <2>1, QuietStep DEF Subscribe, dispatch
<1>4. CASE Serve
  BY <1>1, <1>2, <1>4, QuietStep DEF Serve, dispatch
<1>5. CASE Wake
  <2>1. owed' \in 0..owed
    BY <1>1, <1>5 DEF Wake
  <2> QED
    BY <1>1, <1>2, <1>5, <2>1, QuietStep DEF Wake, dispatch
<1>6. CASE Cancel
  BY <1>1, <1>2, <1>6, QuietStep DEF Cancel, dispatch
<1>7. CASE TakeWake \/ Tick \/ EndPass
  <2>1. /\ batch = {} /\ targets = {} /\ dpc \in {"wait", "return"} /\ dpc' \in {"wait", "select"}
        /\ wake' \in BOOLEAN
        /\ UNCHANGED <<tableVars, chan, workVars, batch, targets, ends, sent, phase, started, owed>>
    BY <1>1, <1>7 DEF TakeWake, Tick, EndPass, OInv, BatchInv
  <2> QED
    BY <1>1, <1>2, <2>1, QuietStep
<1>8. CASE StopDispatcher
  BY <1>1, <1>2, <1>8, QuietStep DEF StopDispatcher
<1> QED
  BY <1>3, <1>4, <1>5, <1>6, <1>7, <1>8

\* A new row has the largest id.
LEMMA CommitStep ==
  ASSUME OInv, NEW t \in Types \cup {Poison}, Commit(t)
  PROVE  OInv'
<1> DEFINE n == Len(type) + 1
<1>1. /\ type \in Seq(Types \cup {Poison}) /\ Len(type) \in Nat /\ Len(type) < MaxRows
      /\ outbox \subseteq 1..Len(type) /\ batch \subseteq outbox
  BY DEF OInv, TypeOK, Commit
<1>2. /\ type' \in Seq(Types \cup {Poison}) /\ Len(type') = n
      /\ \A i \in 1..Len(type) : type'[i] = type[i]
  BY <1>1, AppendProperties DEF Commit
<1>3. /\ outbox' = outbox \cup {n} /\ owed' = owed + 1 /\ started = Len(Startup)
      /\ UNCHANGED <<phase, started, chan, busy, taken, done, errors, wake, dpc, batch, targets,
                     restarts, born, sent>>
  BY DEF Commit, workVars, dispatch, ends
<1>4. /\ \A b \in Subscribers : \A j \in sent[b] : j \in 1..Len(type)
      /\ sent \in [Subscribers -> SUBSET (1..Len(type'))]
  BY <1>1, <1>2 DEF OInv, TypeOK
<1>5. TypeOK'
  <2>1. /\ outbox' \subseteq 1..Len(type') /\ batch' \subseteq outbox' /\ born' \in 0..Len(type')
        /\ Len(type') <= MaxRows /\ owed' \in 0..MaxRows
    <3>1. owed \in Nat /\ owed <= Len(type) /\ born \in 0..Len(type) /\ MaxRows \in Nat
      BY Constants DEF OInv, TypeOK, Counts
    <3>2. Len(type') = Len(type) + 1
      BY <1>2
    <3>3. outbox' \subseteq 1..Len(type') /\ batch' \subseteq outbox'
      <4>1. Len(type) + 1 \in 1..(Len(type) + 1) /\ 1..Len(type) \subseteq 1..(Len(type) + 1)
        BY <1>1
      <4>2. outbox' = outbox \cup {Len(type) + 1} /\ batch' = batch
        BY <1>3
      <4>3. outbox \subseteq 1..(Len(type) + 1) /\ batch \subseteq outbox
        BY <1>1, <4>1
      <4> QED
        BY <3>2, <4>1, <4>2, <4>3
    <3>4. born' = born /\ owed' = owed + 1
      BY <1>3
    <3>5. Len(type) \in Nat /\ Len(type) < MaxRows
      BY <1>1
    <3>6. born' \in 0..Len(type')
      BY <3>1, <3>2, <3>4, <3>5
    <3>7. Len(type') <= MaxRows /\ owed' \in 0..MaxRows
      BY <3>1, <3>2, <3>4, <3>5
    <3> QED
      BY <3>3, <3>6, <3>7
  <2>2. /\ phase' \in {"starting", "up", "stopping"} /\ started' \in 0..Len(Startup)
        /\ chan' \in [Subscribers -> Seq(Ids)]
        /\ \A b \in Subscribers : Len(chan'[b]) <= Buffer
        /\ busy' \in [Subscribers -> Ids \cup {None}]
        /\ wake' \in BOOLEAN
        /\ dpc' \in {"wait", "select", "row", "send", "delete", "return", "stopped"}
        /\ targets' \subseteq 1..started'
        /\ errors' \in 0..MaxErrors /\ restarts' \in 0..MaxRestarts
        /\ taken' \in [Subscribers -> Seq(Ids)]
        /\ done' \in [Subscribers -> SUBSET Ids]
    BY <1>3 DEF OInv, TypeOK
  <2>3. sent' \in [Subscribers -> SUBSET (1..Len(type'))]
    BY <1>3, <1>4
  <2> QED
    BY <1>2, <2>1, <2>2, <2>3 DEF TypeOK
<1>6. BatchInv'
  BY <1>1, <1>3 DEF OInv, BatchInv
<1>7. Survivors' /\ Counts'
  BY <1>1, <1>2, <1>3 DEF OInv, TypeOK, Survivors, Counts
<1>8. \A b \in Subscribers : Seen(b)' = Seen(b)
  BY <1>3 DEF Seen
<1>9. InOrderInv'
  BY <1>8 DEF OInv, InOrderInv, Increasing
<1>10. SentInv'
  <2>1. ASSUME NEW b \in Subscribers, NEW j \in sent[b], NEW i \in outbox', dpc # "stopped"
        PROVE  /\ j <= i
               /\ j = i => /\ dpc \in {"send", "delete"}
                           /\ \A k \in targets : Startup[k] # b
    BY <1>1, <1>3, <1>4, <2>1 DEF OInv, SentInv
  <2> QED
    BY <1>3, <1>8, <2>1 DEF OInv, SentInv
<1>11. FanoutInv'
  <2>1. \A i \in batch : type'[i] = type[i] /\ Wanted(i)' = Wanted(i)
    BY <1>1, <1>2 DEF Wanted
  <2> QED
    BY <1>3, <2>1 DEF OInv, FanoutInv, IsFirst
<1> QED
  BY <1>5, <1>6, <1>7, <1>9, <1>10, <1>11 DEF OInv

-----------------------------------------------------------------------------
(* The dispatcher.                                                         *)

\* A SELECT takes rows from the low end of the table.
LEMMA SelectStep ==
  ASSUME OInv, Select
  PROVE  OInv'
<1>1. /\ batch' = {i \in outbox : Cardinality({j \in outbox : j < i}) < Batch}
      /\ dpc = "select" /\ dpc' \in {"row", "return"}
      /\ (dpc' = "return") <=> (outbox = {})
      /\ UNCHANGED <<tableVars, phase, started, chan, workVars, wake, owed, targets, ends, sent>>
  BY DEF Select
<1>2. batch' \subseteq outbox
  BY <1>1
<1>3. \A i \in batch', j \in outbox : j < i => j \in batch'
  <2> SUFFICES ASSUME NEW i \in batch', NEW j \in outbox, j < i PROVE j \in batch'
    OBVIOUS
  <2>1. outbox \subseteq 1..Len(type) /\ Len(type) \in Nat
    BY DEF OInv, TypeOK
  <2>2. {k \in outbox : k < j} \subseteq {k \in outbox : k < i}
    <3>1. i \in Int /\ j \in Int /\ \A k \in outbox : k \in Int
      BY <1>2, <2>1
    <3>2. \A k \in outbox : k < j => k < i
      BY <3>1
    <3> QED
      BY <3>2
  <2>3. IsFiniteSet(outbox)
    <3>1. IsFiniteSet(1..Len(type))
      BY <2>1, FS_Interval
    <3> QED
      BY <2>1, <3>1, FS_Subset
  <2>4. IsFiniteSet({k \in outbox : k < i}) /\ IsFiniteSet({k \in outbox : k < j})
    BY <2>3, FS_Subset
  <2>5. /\ Cardinality({k \in outbox : k < j}) <= Cardinality({k \in outbox : k < i})
        /\ Cardinality({k \in outbox : k < j}) \in Nat /\ Cardinality({k \in outbox : k < i}) \in Nat
    BY <2>2, <2>4, FS_Subset, FS_CardinalityType
  <2>6. Cardinality({k \in outbox : k < i}) < Batch /\ Batch \in Nat
    BY <1>1, ConstantsAssumption
  <2> QED
    BY <1>1, <2>5, <2>6
<1> USE DEF tableVars, workVars, ends
<1>4. TypeOK'
  BY <1>1, <1>2 DEF OInv, TypeOK
<1>5. BatchInv'
  BY <1>1, <1>2, <1>3 DEF OInv, BatchInv
<1>6. \A b \in Subscribers : Seen(b)' = Seen(b)
  BY <1>1 DEF Seen
<1>7. SentInv' /\ InOrderInv'
  BY <1>1, <1>6 DEF OInv, SentInv, InOrderInv, Increasing
<1>8. Survivors' /\ Counts' /\ FanoutInv'
  BY <1>1 DEF OInv, Survivors, Counts, FanoutInv
<1> QED
  BY <1>4, <1>5, <1>7, <1>8 DEF OInv

\* The first of a set of numbers is one.
LEMMA FirstIsUnique ==
  ASSUME NEW S \in SUBSET Int, NEW x, NEW y, IsFirst(x, S), IsFirst(y, S)
  PROVE  x = y
BY DEF IsFirst

\* Publish takes all subscribers of a type: a row of this process was
\* written after the last of them had subscribed.
LEMMA AllSubscribersTaken ==
  ASSUME OInv, NEW i \in batch, i > born, NEW b \in Wanted(i)
  PROVE  \E k \in SubscribersOf(type[i]) : Startup[k] = b
<1>1. i \in 1..Len(type) /\ Len(type) \in Nat /\ born \in 0..Len(type)
  BY DEF OInv, TypeOK
<1>2. Len(type) # born
  BY <1>1
<1>3. started = Len(Startup)
  BY <1>2, Constants DEF OInv, Survivors, TypeOK
<1>4. PICK k \in 1..Len(Startup) : Startup[k] = b
  BY Constants DEF Wanted
<1> QED
  BY <1>3, <1>4 DEF Wanted, SubscribersOf

LEMMA StartRowStep ==
  ASSUME OInv, StartRow
  PROVE  OInv'
<1>1. /\ dpc = "row"
      /\ UNCHANGED <<tableVars, phase, started, chan, workVars, wake, owed, batch, ends, sent>>
  BY DEF StartRow
<1> USE DEF tableVars, workVars, ends
<1>2. targets = {}
  BY <1>1 DEF OInv, BatchInv
<1>3. \A b \in Subscribers : Seen(b)' = Seen(b)
  BY <1>1 DEF Seen
<1>4. Survivors' /\ Counts' /\ InOrderInv'
  BY <1>1, <1>3 DEF OInv, Survivors, Counts, InOrderInv, Increasing
<1>5. \A b \in Subscribers : \A j \in sent[b], i \in outbox : j <= i /\ j # i
  BY <1>1 DEF OInv, SentInv
<1>6. SentInv'
  BY <1>1, <1>3, <1>5 DEF OInv, SentInv
<1>7. CASE batch = {}
  <2>1. dpc' = "select" /\ targets' = {}
    BY <1>1, <1>2, <1>7 DEF StartRow
  <2>2. TypeOK'
    BY <1>1, <2>1 DEF OInv, TypeOK
  <2>3. BatchInv' /\ FanoutInv'
    BY <1>1, <1>7, <2>1 DEF BatchInv, FanoutInv
  <2> QED
    BY <1>4, <1>6, <2>2, <2>3 DEF OInv
<1>8. CASE batch # {}
  <2>1. PICK i \in batch :
          /\ IsFirst(i, batch)
          /\ targets' = IF type[i] = Poison THEN {} ELSE SubscribersOf(type[i])
          /\ dpc' = IF targets' = {} THEN "delete" ELSE "send"
    BY <1>8 DEF StartRow
  <2>2. TypeOK'
    BY <1>1, <2>1 DEF OInv, TypeOK, SubscribersOf
  <2>3. BatchInv'
    BY <1>1, <1>8, <2>1 DEF OInv, BatchInv
  <2>4. FanoutInv'
    <3> SUFFICES ASSUME NEW j \in batch, IsFirst(j, batch), j > born, type[j] # Poison
                 PROVE  /\ dpc' = "send" =>
                             \A b \in Wanted(j) : \E k \in targets' : Startup[k] = b
                        /\ dpc' = "delete" => \A b \in Wanted(j) : j \in sent[b]
      BY <1>1 DEF FanoutInv, IsFirst, Wanted
    <3>1. batch \in SUBSET Int
      BY DEF OInv, TypeOK
    <3>2. j = i
      BY <2>1, <3>1, FirstIsUnique
    <3>3. targets' = SubscribersOf(type[j])
      BY <2>1, <3>2
    <3>4. \A b \in Wanted(j) : \E k \in targets' : Startup[k] = b
      BY <3>3, AllSubscribersTaken
    <3> QED
      BY <2>1, <3>4
  <2> QED
    BY <1>4, <1>6, <2>2, <2>3, <2>4 DEF OInv
<1> QED
  BY <1>7, <1>8

\* What a subscriber has seen grows at its end, by a later event.
LEMMA SentGrows ==
  ASSUME NEW s \in Seq(Ids), NEW c \in Seq(Ids), NEW i \in Ids,
         Increasing(s \o c), \A n \in 1..Len(s \o c) : (s \o c)[n] < i
  PROVE  /\ Increasing(s \o Append(c, i))
         /\ \A n \in 1..Len(s \o Append(c, i)) :
              \/ (s \o Append(c, i))[n] = i
              \/ \E m \in 1..Len(s \o c) : (s \o Append(c, i))[n] = (s \o c)[m]
<1> DEFINE old == s \o c
           new == s \o Append(c, i)
<1>1. /\ old \in Seq(Ids) /\ Len(old) = Len(s) + Len(c) /\ Len(s) \in Nat /\ Len(c) \in Nat
      /\ \A n \in 1..(Len(s) + Len(c)) : old[n] = IF n <= Len(s) THEN s[n] ELSE c[n - Len(s)]
  BY ConcatProperties, LenProperties
<1>2. /\ Append(c, i) \in Seq(Ids) /\ Len(Append(c, i)) = Len(c) + 1
      /\ \A n \in 1..Len(c) : Append(c, i)[n] = c[n]
      /\ Append(c, i)[Len(c) + 1] = i
  BY AppendProperties
<1>3. /\ Len(new) = Len(old) + 1
      /\ \A n \in 1..Len(old) : new[n] = old[n]
      /\ new[Len(old) + 1] = i
  <2>1. /\ Len(new) = Len(s) + Len(Append(c, i))
        /\ \A n \in 1..(Len(s) + Len(Append(c, i))) :
             new[n] = IF n <= Len(s) THEN s[n] ELSE Append(c, i)[n - Len(s)]
    BY <1>2, ConcatProperties
  <2> HIDE DEF old, new
  <2> QED
    BY <1>1, <1>2, <2>1
<1>4. \A n \in 1..Len(old) : old[n] \in Int /\ old[n] < i
  <2> SUFFICES ASSUME NEW n \in 1..Len(old) PROVE old[n] \in Int /\ old[n] < i
    OBVIOUS
  <2>1. old[n] \in Ids
    BY <1>1, ElementOfSeq
  <2> QED
    BY <2>1 DEF Ids
<1> HIDE DEF old, new
<1>5. Len(old) \in Nat /\ i \in Int
  BY <1>1 DEF Ids
<1>6. ASSUME NEW m \in 1..Len(new), NEW n \in 1..Len(new), m < n PROVE new[m] < new[n]
  <2>1. m \in 1..Len(old)
    BY <1>3, <1>5, <1>6
  <2>2. CASE n = Len(old) + 1
    BY <1>3, <1>4, <2>1, <2>2
  <2>3. CASE n \in 1..Len(old)
    BY <1>3, <1>6, <2>1, <2>3 DEF Increasing, old
  <2> QED
    BY <1>3, <1>5, <2>2, <2>3
<1>7. \A n \in 1..Len(new) : new[n] = i \/ \E m \in 1..Len(old) : new[n] = old[m]
  BY <1>3, <1>5
<1> QED
  BY <1>6, <1>7 DEF Increasing, old, new

\* The event sent to a subscriber is later than all it has seen.
LEMMA SendStep ==
  ASSUME OInv, Send
  PROVE  OInv'
<1>1. PICK i \in batch, k \in targets :
        /\ IsFirst(i, batch) /\ IsFirst(k, targets)
        /\ Len(chan[Startup[k]]) < Buffer
        /\ chan' = [chan EXCEPT ![Startup[k]] = Append(@, i)]
        /\ sent' = [sent EXCEPT ![Startup[k]] = @ \cup {i}]
        /\ targets' = targets \ {k}
  BY DEF Send
<1>2. /\ dpc = "send" /\ dpc' = IF targets' = {} THEN "delete" ELSE "send"
      /\ UNCHANGED <<tableVars, phase, started, workVars, wake, owed, batch, ends>>
  BY DEF Send
<1> USE DEF tableVars, workVars, ends
<1> DEFINE a == Startup[k]
<1>3. /\ a \in Subscribers /\ i \in Ids /\ i \in outbox /\ i \in 1..Len(type)
      /\ chan[a] \in Seq(Ids) /\ taken[a] \in Seq(Ids)
  <2>1. k \in 1..Len(Startup)
    BY Constants DEF OInv, TypeOK
  <2>2. i \in outbox /\ i \in 1..Len(type) /\ Len(type) \in Nat /\ Len(type) <= MaxRows
    BY DEF OInv, TypeOK
  <2> QED
    BY <2>1, <2>2, Constants DEF OInv, TypeOK, Ids
<1>4. /\ Append(chan[a], i) \in Seq(Ids) /\ Len(Append(chan[a], i)) <= Buffer
  BY <1>1, <1>3, AppendProperties, Constants
<1>5. TypeOK'
  <2>1. /\ chan' \in [Subscribers -> Seq(Ids)]
        /\ \A b \in Subscribers : Len(chan'[b]) <= Buffer
    BY <1>1, <1>3, <1>4 DEF OInv, TypeOK
  <2>2. sent' \in [Subscribers -> SUBSET (1..Len(type))]
    BY <1>1, <1>3 DEF OInv, TypeOK
  <2>3. targets' \subseteq 1..started /\ dpc' \in {"send", "delete"}
    BY <1>1, <1>2 DEF OInv, TypeOK
  <2> QED
    BY <1>2, <2>1, <2>2, <2>3 DEF OInv, TypeOK
<1>6. BatchInv'
  BY <1>1, <1>2 DEF OInv, BatchInv
<1>7. Survivors' /\ Counts'
  BY <1>2 DEF OInv, Survivors, Counts
<1>8. \A b \in Subscribers \ {a} : Seen(b)' = Seen(b) /\ sent'[b] = sent[b]
  BY <1>1, <1>2 DEF OInv, TypeOK, Seen
<1>9. Seen(a)' = taken[a] \o Append(chan[a], i) /\ sent'[a] = sent[a] \cup {i}
  BY <1>1, <1>2, <1>3 DEF OInv, TypeOK, Seen
<1>10. \A j \in sent[a] : j \in Int /\ j < i
  BY <1>2, <1>3 DEF OInv, SentInv, TypeOK
<1>11. /\ Increasing(Seen(a)) /\ \A n \in 1..Len(Seen(a)) : Seen(a)[n] \in sent[a]
  BY <1>3 DEF OInv, InOrderInv, SentInv
<1>12. /\ Increasing(Seen(a)')
       /\ \A n \in 1..Len(Seen(a)') : Seen(a)'[n] \in sent'[a]
  <2>1. \A n \in 1..Len(taken[a] \o chan[a]) : (taken[a] \o chan[a])[n] < i
    BY <1>10, <1>11 DEF Seen
  <2>2. Increasing(taken[a] \o chan[a])
    BY <1>11 DEF Seen
  <2>3. /\ Increasing(taken[a] \o Append(chan[a], i))
        /\ \A n \in 1..Len(taken[a] \o Append(chan[a], i)) :
             \/ (taken[a] \o Append(chan[a], i))[n] = i
             \/ \E m \in 1..Len(taken[a] \o chan[a]) :
                  (taken[a] \o Append(chan[a], i))[n] = (taken[a] \o chan[a])[m]
    BY <1>3, <2>1, <2>2, SentGrows
  <2> QED
    BY <1>9, <1>11, <2>3 DEF Seen
<1>13. InOrderInv'
  BY <1>8, <1>12 DEF OInv, InOrderInv
<1>14. SentInv'
  <2>1. \A b \in Subscribers : \A n \in 1..Len(Seen(b)') : Seen(b)'[n] \in sent'[b]
    BY <1>8, <1>12 DEF OInv, SentInv
  <2>2. ASSUME NEW b \in Subscribers, NEW j \in sent'[b], NEW r \in outbox
        PROVE  j <= r /\ (j = r => \A l \in targets' : Startup[l] # b)
    <3>1. CASE j \in sent[b]
      BY <1>1, <1>2, <3>1 DEF OInv, SentInv
    <3>2. CASE b = a /\ j = i
      <4>1. i <= r
        <5>1. i \in Int /\ r \in Int /\ batch \subseteq outbox
          BY <1>3 DEF OInv, TypeOK
        <5>2. CASE r < i
          <6>1. r \in batch
            BY <1>2, <5>2 DEF OInv, BatchInv
          <6> QED
            BY <1>1, <5>1, <5>2, <6>1 DEF IsFirst
        <5> QED
          BY <5>1, <5>2
      <4>2. \A l \in targets' : Startup[l] # a
        <5> SUFFICES ASSUME NEW l \in targets, Startup[l] = Startup[k] PROVE l = k
          BY <1>1
        <5>1. l \in DOMAIN Startup /\ k \in DOMAIN Startup
          <6>1. l \in 1..Len(Startup) /\ k \in 1..Len(Startup)
            BY Constants DEF OInv, TypeOK
          <6> QED
            BY <6>1, ConstantsAssumption
        <5> QED
          BY <5>1, ConstantsAssumption
      <4> QED
        BY <3>2, <4>1, <4>2
    <3> QED
      BY <1>8, <1>9, <3>1, <3>2
  <2> QED
    BY <1>2, <2>1, <2>2 DEF SentInv
<1>15. FanoutInv'
  <2> SUFFICES ASSUME NEW j \in batch, IsFirst(j, batch), j > born, type[j] # Poison,
                      phase # "stopping"
               PROVE  \A b \in Wanted(j) : j \in sent'[b] \/ \E l \in targets' : Startup[l] = b
    BY <1>2 DEF FanoutInv, IsFirst, Wanted
  <2>1. batch \in SUBSET Int
    BY DEF OInv, TypeOK
  <2>2. j = i
    BY <1>1, <2>1, FirstIsUnique
  <2>3. \A b \in Wanted(j) : j \in sent[b] \/ \E l \in targets : Startup[l] = b
    BY <1>2 DEF OInv, FanoutInv
  <2> QED
    BY <1>1, <1>8, <1>9, <2>2, <2>3 DEF Wanted
<1> QED
  BY <1>5, <1>6, <1>7, <1>13, <1>14, <1>15 DEF OInv

LEMMA DeleteStep ==
  ASSUME OInv, Delete
  PROVE  OInv'
<1>1. PICK i \in batch :
        IsFirst(i, batch) /\ outbox' = outbox \ {i} /\ batch' = batch \ {i}
  BY DEF Delete
<1>2. /\ dpc = "delete" /\ dpc' = "row" /\ targets = {}
      /\ UNCHANGED <<type, phase, started, chan, workVars, wake, owed, targets, ends, sent>>
  BY DEF Delete, OInv, BatchInv
<1> USE DEF tableVars, workVars, ends
<1>3. i \in outbox /\ outbox \subseteq Int /\ batch \subseteq outbox
  BY DEF OInv, TypeOK
<1>4. TypeOK'
  BY <1>1, <1>2 DEF OInv, TypeOK
<1>5. BatchInv'
  BY <1>1, <1>2 DEF OInv, BatchInv
<1>6. \A b \in Subscribers : Seen(b)' = Seen(b)
  BY <1>2 DEF Seen
<1>7. Survivors' /\ Counts' /\ InOrderInv' /\ FanoutInv'
  BY <1>2, <1>6 DEF OInv, Survivors, Counts, InOrderInv, Increasing, FanoutInv
<1>8. \A r \in outbox' : i < r
  <2> SUFFICES ASSUME NEW r \in outbox, r # i, r < i PROVE FALSE
    BY <1>1, <1>3
  <2>1. r \in batch
    BY <1>2 DEF OInv, BatchInv
  <2> QED
    BY <1>1, <1>3, <2>1 DEF IsFirst
<1>9. SentInv'
  <2>1. ASSUME NEW b \in Subscribers, NEW j \in sent[b], NEW r \in outbox' PROVE j < r
    <3>1. j <= i /\ j \in Int
      BY <1>2, <1>3 DEF OInv, SentInv, TypeOK
    <3> QED
      BY <1>1, <1>3, <1>8, <3>1
  <2>2. ASSUME NEW b \in Subscribers, NEW j \in sent[b], NEW r \in outbox' PROVE j <= r /\ j # r
    <3>1. j \in Int /\ r \in Int
      BY <1>1, <1>3 DEF OInv, TypeOK
    <3> QED
      BY <2>1, <3>1
  <2> QED
    BY <1>2, <1>6, <2>2 DEF OInv, SentInv
<1> QED
  BY <1>4, <1>5, <1>7, <1>9 DEF OInv

LEMMA AbortSendStep ==
  ASSUME OInv, AbortSend
  PROVE  OInv'
<1>1. /\ dpc = "send" /\ dpc' = "delete" /\ phase = "stopping" /\ targets' = {}
      /\ UNCHANGED <<tableVars, phase, started, chan, workVars, wake, owed, batch, ends, sent>>
  BY DEF AbortSend
<1> USE DEF tableVars, workVars, ends
<1>2. \A b \in Subscribers : Seen(b)' = Seen(b)
  BY <1>1 DEF Seen
<1>3. TypeOK' /\ BatchInv'
  BY <1>1 DEF OInv, TypeOK, BatchInv
<1>4. SentInv' /\ InOrderInv'
  BY <1>1, <1>2 DEF OInv, SentInv, InOrderInv, Increasing
<1>5. Survivors' /\ Counts' /\ FanoutInv'
  BY <1>1 DEF OInv, Survivors, Counts, FanoutInv
<1> QED
  BY <1>3, <1>4, <1>5 DEF OInv

-----------------------------------------------------------------------------
(* Workers, and the end of a process.                                      *)

\* A receive moves an event from the channel to what was taken.
LEMMA ReceiveKeepsSeen ==
  ASSUME NEW s \in Seq(Ids), NEW c \in Seq(Ids), c # <<>>
  PROVE  /\ Head(c) \in Ids /\ Tail(c) \in Seq(Ids) /\ Append(s, Head(c)) \in Seq(Ids)
         /\ Len(Tail(c)) < Len(c)
         /\ Append(s, Head(c)) \o Tail(c) = s \o c
<1> DEFINE t == Append(s, Head(c))
<1>1. /\ Head(c) \in Ids /\ Tail(c) \in Seq(Ids) /\ Len(Tail(c)) = Len(c) - 1
      /\ \A n \in 1..Len(Tail(c)) : Tail(c)[n] = c[n + 1]
      /\ Head(c) = c[1] /\ Len(c) \in Nat \ {0} /\ Len(s) \in Nat
  BY HeadTailProperties, EmptySeq, LenProperties
<1>2. /\ t \in Seq(Ids) /\ Len(t) = Len(s) + 1 /\ t[Len(s) + 1] = c[1]
      /\ \A n \in 1..Len(s) : t[n] = s[n]
  BY <1>1, AppendProperties
<1> HIDE DEF t
<1>3. /\ t \o Tail(c) \in Seq(Ids) /\ Len(t \o Tail(c)) = Len(s) + Len(c)
      /\ \A n \in 1..(Len(s) + Len(c)) :
           (t \o Tail(c))[n] = IF n <= Len(t) THEN t[n] ELSE Tail(c)[n - Len(t)]
  <2>1. Len(t) + Len(Tail(c)) = Len(s) + Len(c)
    BY <1>1, <1>2
  <2>2. /\ t \o Tail(c) \in Seq(Ids) /\ Len(t \o Tail(c)) = Len(t) + Len(Tail(c))
        /\ \A n \in 1..(Len(t) + Len(Tail(c))) :
             (t \o Tail(c))[n] = IF n <= Len(t) THEN t[n] ELSE Tail(c)[n - Len(t)]
    BY <1>1, <1>2, ConcatProperties
  <2> QED
    BY <2>1, <2>2
<1>4. /\ s \o c \in Seq(Ids) /\ Len(s \o c) = Len(s) + Len(c)
      /\ \A n \in 1..(Len(s) + Len(c)) : (s \o c)[n] = IF n <= Len(s) THEN s[n] ELSE c[n - Len(s)]
  BY ConcatProperties
<1>5. ASSUME NEW n \in 1..(Len(s) + Len(c)) PROVE (t \o Tail(c))[n] = (s \o c)[n]
  <2> n \in Int /\ Len(s) \in Int
    BY <1>1
  <2>1. CASE n <= Len(s)
    BY <1>1, <1>2, <1>3, <1>4, <2>1
  <2>2. CASE n = Len(s) + 1
    BY <1>1, <1>2, <1>3, <1>4, <2>2
  <2>3. CASE n > Len(s) + 1
    <3>1. n - Len(t) \in 1..Len(Tail(c)) /\ (n - Len(t)) + 1 = n - Len(s)
      BY <1>1, <1>2, <2>3
    <3>2. (t \o Tail(c))[n] = c[n - Len(s)]
      BY <1>1, <1>2, <1>3, <2>3, <3>1
    <3>3. ~(n <= Len(s))
      BY <2>3
    <3>4. (s \o c)[n] = c[n - Len(s)]
      BY <1>4, <3>3
    <3> QED
      BY <3>2, <3>4
  <2>4. n <= Len(s) \/ n = Len(s) + 1 \/ n > Len(s) + 1
    OBVIOUS
  <2> QED
    BY <2>1, <2>2, <2>3, <2>4
<1>6. t \o Tail(c) = s \o c
  BY <1>3, <1>4, <1>5, SeqEqual
<1> QED
  BY <1>1, <1>2, <1>6 DEF t

LEMMA WorkerStep ==
  ASSUME OInv, NEW b \in Subscribers, Receive(b) \/ Handle(b) \/ HandleError(b)
  PROVE  OInv'
<1>1. /\ UNCHANGED <<tableVars, phase, started, wake, owed, dispatch, ends, sent>>
  BY DEF Receive, Handle, HandleError
<1> USE DEF tableVars, dispatch, ends
<1>2. /\ chan' \in [Subscribers -> Seq(Ids)] /\ taken' \in [Subscribers -> Seq(Ids)]
      /\ \A c \in Subscribers : Len(chan'[c]) <= Buffer
      /\ \A c \in Subscribers : Seen(c)' = Seen(c)
      /\ busy' \in [Subscribers -> Ids \cup {None}] /\ done' \in [Subscribers -> SUBSET Ids]
      /\ errors' \in 0..MaxErrors
  <2>1. CASE Receive(b)
    <3>1. /\ chan[b] \in Seq(Ids) /\ taken[b] \in Seq(Ids) /\ chan[b] # <<>>
          /\ Len(chan[b]) <= Buffer /\ Buffer \in Nat
      BY <2>1, Constants DEF OInv, TypeOK, Receive
    <3>2. /\ Head(chan[b]) \in Ids /\ Tail(chan[b]) \in Seq(Ids)
          /\ Append(taken[b], Head(chan[b])) \in Seq(Ids)
          /\ Len(Tail(chan[b])) < Len(chan[b])
          /\ Append(taken[b], Head(chan[b])) \o Tail(chan[b]) = Seen(b)
      BY <3>1, ReceiveKeepsSeen DEF Seen
    <3>3. Len(Tail(chan[b])) <= Buffer
      BY <3>1, <3>2, LenProperties
    <3>4. /\ chan' = [chan EXCEPT ![b] = Tail(@)]
          /\ taken' = [taken EXCEPT ![b] = Append(@, Head(chan[b]))]
          /\ busy' = [busy EXCEPT ![b] = Head(chan[b])]
          /\ UNCHANGED <<done, errors>>
      BY <2>1 DEF Receive
    <3>5. /\ chan \in [Subscribers -> Seq(Ids)] /\ taken \in [Subscribers -> Seq(Ids)]
          /\ \A c \in Subscribers : Len(chan[c]) <= Buffer
          /\ busy \in [Subscribers -> Ids \cup {None}] /\ done \in [Subscribers -> SUBSET Ids]
          /\ errors \in 0..MaxErrors
      BY DEF OInv, TypeOK
    <3>6. \A c \in Subscribers : Seen(c)' = Seen(c)
      BY <3>2, <3>4, <3>5 DEF Seen
    <3> QED
      BY <3>2, <3>3, <3>4, <3>5, <3>6
  <2>2. CASE Handle(b) \/ HandleError(b)
    <3>1. UNCHANGED <<chan, taken>> /\ busy' = [busy EXCEPT ![b] = None]
      BY <2>2 DEF Handle, HandleError
    <3>2. busy[b] \in Ids /\ done \in [Subscribers -> SUBSET Ids] /\ errors \in 0..MaxErrors
      BY <2>2 DEF Handle, HandleError, OInv, TypeOK
    <3>3. done' = done \/ done' = [done EXCEPT ![b] = @ \cup {busy[b]}]
      BY <2>2 DEF Handle, HandleError
    <3>4. done' \in [Subscribers -> SUBSET Ids]
      BY <3>2, <3>3
    <3>5. errors' = errors \/ (errors < MaxErrors /\ errors' = errors + 1)
      BY <2>2 DEF Handle, HandleError
    <3>6. errors' \in 0..MaxErrors
      BY <3>2, <3>5, Constants
    <3> QED
      BY <3>1, <3>4, <3>6 DEF OInv, TypeOK, Seen
  <2> QED
    BY <2>1, <2>2
<1>3. TypeOK'
  BY <1>1, <1>2 DEF OInv, TypeOK
<1>4. SentInv' /\ InOrderInv'
  BY <1>1, <1>2 DEF OInv, SentInv, InOrderInv, Increasing
<1>5. BatchInv' /\ Survivors' /\ Counts' /\ FanoutInv'
  BY <1>1 DEF OInv, BatchInv, Survivors, Counts, FanoutInv, IsFirst, Wanted
<1> QED
  BY <1>3, <1>4, <1>5 DEF OInv

LEMMA RestartStep ==
  ASSUME OInv, Exit \/ Crash
  PROVE  OInv'
<1>1. Restart /\ restarts < MaxRestarts
  BY DEF Exit, Crash, OInv, Counts
<1>2. /\ phase' = "starting" /\ started' = 0 /\ chan' = Empty /\ busy' = AllIdle
      /\ wake' = FALSE /\ owed' = 0 /\ dpc' = "wait" /\ batch' = {} /\ targets' = {}
      /\ sent' = Nothing /\ taken' = Empty
      /\ restarts' = restarts + 1 /\ born' = Len(type)
      /\ UNCHANGED <<outbox, type, errors, done>>
  BY <1>1 DEF Restart, tableVars
<1>3. \A b \in Subscribers : Seen(b)' = <<>> /\ Len(<<>>) = 0
  BY <1>2 DEF Empty, Seen
<1>4. TypeOK'
  <2>1. /\ Empty \in [Subscribers -> Seq(Ids)] /\ \A b \in Subscribers : Len(Empty[b]) = 0
    BY EmptySeq DEF Empty
  <2>2. Nothing \in [Subscribers -> SUBSET (1..Len(type))] /\ AllIdle \in [Subscribers -> Ids \cup {None}]
    BY DEF Nothing, AllIdle
  <2>3. Len(type) \in Nat /\ restarts + 1 \in 0..MaxRestarts
    BY <1>1, Constants DEF OInv, TypeOK
  <2>4. /\ outbox \subseteq 1..Len(type) /\ type \in Seq(Types \cup {Poison}) /\ Len(type) <= MaxRows
        /\ errors \in 0..MaxErrors /\ done \in [Subscribers -> SUBSET Ids]
    BY DEF OInv, TypeOK
  <2>5. /\ started' \in 0..Len(Startup) /\ owed' \in 0..MaxRows /\ born' \in 0..Len(type')
        /\ \A b \in Subscribers : Len(chan'[b]) <= Buffer
    BY <1>2, <2>1, <2>3, Constants
  <2> QED
    BY <1>2, <2>1, <2>2, <2>3, <2>4, <2>5 DEF TypeOK
<1>5. SentInv' /\ InOrderInv'
  BY <1>2, <1>3 DEF SentInv, InOrderInv, Increasing, Nothing
<1>6. BatchInv' /\ Survivors' /\ FanoutInv' /\ Counts'
  <2>1. Len(type) \in Nat
    BY DEF OInv, TypeOK
  <2> QED
    BY <1>2, <2>1 DEF BatchInv, Survivors, FanoutInv, Counts
<1> QED
  BY <1>4, <1>5, <1>6 DEF OInv

-----------------------------------------------------------------------------

LEMMA NextKeepsOInv == OInv /\ [Next]_vars => OInv'
<1> SUFFICES ASSUME OInv, [Next]_vars PROVE OInv'
  OBVIOUS
<1>1. CASE UNCHANGED vars
  <2>1. \A b \in Subscribers : Seen(b)' = Seen(b)
    BY <1>1 DEF vars, tableVars, Seen
  <2>2. TypeOK' /\ BatchInv' /\ Survivors' /\ FanoutInv' /\ Counts'
    BY <1>1 DEF vars, OInv, TypeOK, BatchInv, Survivors, FanoutInv, Counts, IsFirst, Wanted
  <2>3. SentInv' /\ InOrderInv'
    BY <1>1, <2>1 DEF vars, OInv, SentInv, InOrderInv, Increasing
  <2> QED
    BY <2>2, <2>3 DEF OInv
<1>2. CASE Next
  <2>1. CASE Dispatcher \/ Subscribe \/ Serve \/ Wake \/ Tick \/ Cancel
    BY <2>1, QuietSteps, SelectStep, StartRowStep, SendStep, DeleteStep, AbortSendStep
       DEF Dispatcher
  <2>2. CASE \E t \in Types \cup {Poison} : Commit(t)
    BY <2>2, CommitStep
  <2>3. CASE \E b \in Subscribers : Receive(b) \/ Handle(b) \/ HandleError(b)
    BY <2>3, WorkerStep
  <2>4. CASE Exit \/ Crash
    BY <2>4, RestartStep
  <2> QED
    BY <1>2, <2>1, <2>2, <2>3, <2>4 DEF Next
<1> QED
  BY <1>1, <1>2

\* The invariant of the outbox (outbox.go, bus.go, pool.go).
THEOREM OutboxInvariance == Spec => []OInv
BY InitOInv, NextKeepsOInv, PTL DEF Spec

\* Channels stay within their buffers, a batch within the table, and the
\* dispatcher publishes to who has subscribed (outbox.go:87-137).
THEOREM OutboxTyped == Spec => []TypeOK
<1>1. OInv => TypeOK
  BY DEF OInv
<1> QED
  BY <1>1, OutboxInvariance, PTL

\* Within a process every subscriber sees the events of its channel in the
\* order of their commits and none twice, whatever is poisoned, full,
\* cancelled or restarted (bus.go:85-132, outbox.go:91, 130).
THEOREM EventsInOrder == Spec => []InOrder
<1>1. OInv => InOrder
  <2> SUFFICES ASSUME OInv, NEW b \in Subscribers,
                      NEW m \in DOMAIN Seen(b), NEW n \in DOMAIN Seen(b), m < n
               PROVE  Seen(b)[m] < Seen(b)[n]
    BY DEF InOrder, Seen
  <2>1. Seen(b) \in Seq(Ids)
    BY ConcatProperties DEF OInv, TypeOK, Seen
  <2>2. m \in 1..Len(Seen(b)) /\ n \in 1..Len(Seen(b))
    BY <2>1, LenProperties
  <2> QED
    BY <2>2 DEF OInv, InOrderInv, Increasing
<1> QED
  BY <1>1, OutboxInvariance, PTL

\* A row of this process leaves the table only when every subscriber of its
\* type has it in its channel, or nothing can decode it: a shutdown in the
\* middle of a publish keeps the row, although drainOnce takes the aborted
\* publish for a poisoned row (outbox.go:110-131).
THEOREM NoRowLost == Spec => DeletedOnlyAfterFanout
<1> DEFINE Fanout == \A i \in outbox \ outbox' :
                       i <= born \/ type[i] = Poison \/ \A b \in Wanted(i) : i \in sent[b]
<1>1. OInv /\ [Next]_vars => [Fanout]_vars
  <2> SUFFICES ASSUME OInv, [Next]_vars, NEW i \in outbox \ outbox'
               PROVE  i <= born \/ type[i] = Poison \/ \A b \in Wanted(i) : i \in sent[b]
    OBVIOUS
  <2>1. Delete
    BY DEF vars, tableVars, Next, Dispatcher, Subscribe, Serve, Wake, Tick, TakeWake, Select,
       StartRow, Send, AbortSend, EndPass, StopDispatcher, Commit, Receive, Handle, HandleError,
       Cancel, Exit, Crash, Restart
  <2>2. i \in batch /\ IsFirst(i, batch) /\ dpc = "delete" /\ phase # "stopping"
    BY <2>1 DEF Delete
  <2>3. i \in Int /\ born \in Int
    BY DEF OInv, TypeOK
  <2> QED
    BY <2>2, <2>3 DEF OInv, FanoutInv
<1> QED
  BY <1>1, OutboxInvariance, PTL DEF Spec, DeletedOnlyAfterFanout
=============================================================================
