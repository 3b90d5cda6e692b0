------------------------------ MODULE Verdicts ------------------------------
(***************************************************************************)
(* What the download service promises to the rest of the program: each     *)
(* request it takes is answered at most once, by one LoadedSong.  Only a   *)
(* user's search is told that nothing was found, or that the file fell     *)
(* short of the quality limits.                                            *)
(***************************************************************************)
CONSTANTS Requests, Offers, None

VARIABLES taken, verdict

Completed(f, relaxed) == [status |-> "completed", file |-> f, relaxed |-> relaxed]
Failed(status)        == [status |-> status, file |-> None, relaxed |-> FALSE]

Allowed(r) ==
  {Completed(f, FALSE) : f \in Offers} \cup {Failed("error")}
  \cup IF r.strategy = "search"
       THEN {Completed(f, TRUE) : f \in Offers} \cup {Failed("not_found")} ELSE {}

Init == taken = {} /\ verdict = [r \in Requests |-> None]

Take(r) == r \notin taken /\ taken' = taken \cup {r} /\ UNCHANGED verdict

Answer(r) ==
  /\ r \in taken /\ verdict[r] = None
  /\ \E v \in Allowed(r) : verdict' = [verdict EXCEPT ![r] = v]
  /\ UNCHANGED taken

Next == \E r \in Requests : Take(r) \/ Answer(r)

Spec == Init /\ [][Next]_<<taken, verdict>>
=============================================================================
