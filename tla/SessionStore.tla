---------------------------- MODULE SessionStore ----------------------------
(***************************************************************************)
(* What the API promises about tokens, without rows, versions or clocks:   *)
(* a token that expired or was revoked stays so for ever; a request is let *)
(* in with a token that had not expired when it came and is not revoked;   *)
(* and the tokens of an account are revoked by no one but a request that   *)
(* was let in for that account, all at once.                               *)
(***************************************************************************)
CONSTANTS Tokens, Procs, Nobody

VARIABLES
  granted, expired, revoked,  \* sets of tokens
  held                        \* [Procs -> the token of its request, and whether it is in]

vars == <<granted, expired, revoked, held>>

Init ==
  /\ granted = {} /\ expired = {} /\ revoked = {}
  /\ held = [p \in Procs |-> Nobody]

\* A login that took long may grant a token that is already revoked.
Grant ==
  /\ granted \subseteq granted' /\ granted' \subseteq Tokens
  /\ revoked \subseteq revoked' /\ revoked' \subseteq revoked \cup (granted' \ granted)
  /\ UNCHANGED <<expired, held>>

Expire ==
  /\ expired \subseteq expired' /\ expired' \subseteq granted
  /\ UNCHANGED <<granted, revoked, held>>

Present(p, t) ==
  /\ held[p] = Nobody
  /\ t \in granted \ expired
  /\ held' = [held EXCEPT ![p] = [token |-> t, in |-> FALSE]]
  /\ UNCHANGED <<granted, expired, revoked>>

Admit(p) ==
  /\ held[p] # Nobody /\ ~ held[p].in
  /\ held[p].token \notin revoked
  /\ held' = [held EXCEPT ![p] = [token |-> held[p].token, in |-> TRUE]]
  /\ UNCHANGED <<granted, expired, revoked>>

Leave(p) ==
  /\ held[p] # Nobody
  /\ held' = [held EXCEPT ![p] = Nobody]
  /\ UNCHANGED <<granted, expired, revoked>>

Revoke(p) ==
  /\ held[p] # Nobody /\ held[p].in
  /\ revoked' = revoked \cup {t \in granted : t.sub = held[p].token.sub}
  /\ held' = [held EXCEPT ![p] = Nobody]
  /\ UNCHANGED <<granted, expired>>

Next ==
  \/ Grant \/ Expire
  \/ \E p \in Procs :
       \/ \E t \in granted : Present(p, t)
       \/ Admit(p) \/ Leave(p) \/ Revoke(p)

Spec == Init /\ [][Next]_vars
=============================================================================
