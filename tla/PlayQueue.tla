------------------------------ MODULE PlayQueue ------------------------------
(***************************************************************************)
(* What the queue service promises of a user's queue, without positions,   *)
(* mutexes or statements: it is a list of distinct songs that grows only   *)
(* at its end, one song at a time, and from which songs disappear without  *)
(* the others changing their order.                                        *)
(*                                                                         *)
(* A list of distinct songs is given by its order: it is the set of pairs  *)
(* of a song of the list and the same song or one that comes later.        *)
(***************************************************************************)

CONSTANTS Users, Songs

VARIABLE queue  \* [Users -> SUBSET (Songs \X Songs)], what GetQueue lists

Init == queue = [u \in Users |-> {}]

SongsOf(q) == {s \in Songs : <<s, s>> \in q}

\* A total order of its songs.
IsList(q) ==
  /\ q \subseteq SongsOf(q) \X SongsOf(q)
  /\ \A s, t \in SongsOf(q) : /\ <<s, t>> \in q \/ <<t, s>> \in q
                              /\ <<s, t>> \in q /\ <<t, s>> \in q => s = t
  /\ \A s, t, w \in SongsOf(q) : <<s, t>> \in q /\ <<t, w>> \in q => <<s, w>> \in q

Appended(q, s) == q \cup ((SongsOf(q) \cup {s}) \X {s})
Without(q, S) == {x \in q : x[1] \notin S /\ x[2] \notin S}

Add(u, s) ==
  /\ s \notin SongsOf(queue[u])
  /\ queue' = [queue EXCEPT ![u] = Appended(@, s)]

\* A skip or a finish takes one song out of one queue.
Remove(u, s) == queue' = [queue EXCEPT ![u] = Without(@, {s})]

\* A deleted song leaves every queue.
DropSong(s) == queue' = [v \in Users |-> Without(queue[v], {s})]

\* A deleted account empties its own queue and takes the songs it
\* requested out of the others.
DropUser(u, S) ==
  queue' = [v \in Users |-> IF v = u THEN {} ELSE Without(queue[v], S)]

Next ==
  /\ queue' # queue
  /\ \/ \E u \in Users, s \in Songs : Add(u, s) \/ Remove(u, s)
     \/ \E s \in Songs : DropSong(s)
     \/ \E u \in Users, S \in SUBSET Songs : DropUser(u, S)

Spec == Init /\ [][Next]_queue
=============================================================================
