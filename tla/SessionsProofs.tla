--------------------------- MODULE SessionsProofs ---------------------------
(***************************************************************************)
(* Proofs about Sessions for any number of accounts, requests and tokens:  *)
(* its inductive invariant, and that it implements SessionStore.           *)
(***************************************************************************)
EXTENDS Sessions, FiniteSetTheorems, TLAPS

\* A list that is not refused is stored as a set without two spellings of
\* one tag, and within the limit.
LEMMA NormalForm ==
  ASSUME NEW s \in Seq(Items)
  PROVE  /\ Normalized(s) \subseteq Items
         /\ \A x, y \in Normalized(s) : KeyOf[x] = KeyOf[y] => x = y
         /\ ~ Refused(s) => Cardinality(Normalized(s)) <= MaxItems
<1>1. Normalized(s) \subseteq Items
  BY DEF Normalized
<1>2. ASSUME NEW x \in Normalized(s), NEW y \in Normalized(s), KeyOf[x] = KeyOf[y]
      PROVE  x = y
  <2>1. PICK k \in DOMAIN s : x = s[k] /\ \A n \in 1..k - 1 : KeyOf[s[n]] # KeyOf[s[k]]
    BY DEF Normalized
  <2>2. PICK m \in DOMAIN s : y = s[m] /\ \A n \in 1..m - 1 : KeyOf[s[n]] # KeyOf[s[m]]
    BY DEF Normalized
  <2>3. DOMAIN s = 1..Len(s) /\ Len(s) \in Nat
    OBVIOUS
  <2>4. ~ k < m /\ ~ m < k
    BY <1>2, <2>1, <2>2, <2>3
  <2> QED
    BY <2>1, <2>2, <2>3, <2>4
<1>3. ASSUME ~ Refused(s)
      PROVE  Cardinality(Normalized(s)) <= MaxItems
  <2>1. IsFiniteSet(Normalized(s))
    <3> DEFINE kept == {m \in DOMAIN s : /\ KeyOf[s[m]] # None
                                         /\ \A n \in 1..m - 1 : KeyOf[s[n]] # KeyOf[s[m]]}
    <3>1. IsFiniteSet(1..Len(s))
      BY FS_Interval
    <3>2. IsFiniteSet(kept)
      BY <3>1, FS_Subset
    <3>3. Normalized(s) = {s[k] : k \in kept}
      BY DEF Normalized
    <3> DEFINE f == [k \in kept |-> s[k]]
    <3>4. f \in Surjection(kept, Normalized(s))
      BY <3>3 DEF Surjection
    <3> QED
      BY <3>2, <3>4, FS_Surjection
  <2>2. Cardinality(Normalized(s)) \in Nat
    BY <2>1, FS_CardinalityType
  <2> QED
    BY <1>3, <2>2, SessionsAssumption DEF Refused
<1> QED
  BY <1>1, <1>2, <1>3

LEMMA BlankIsClean ==
  ASSUME NEW S \in {Blank.tags, Blank.genres}
  PROVE  Cardinality(S) <= MaxItems /\ \A x, y \in S : KeyOf[x] = KeyOf[y] => x = y
<1>1. S = {} /\ MaxItems \in Nat
  BY SessionsAssumption DEF Blank
<1>2. Cardinality({}) = 0
  BY FS_EmptySet
<1> QED
  BY <1>1, <1>2

LEMMA InitIInv == Init => IInv
<1> SUFFICES ASSUME Init PROVE IInv
  OBVIOUS
<1> USE SessionsAssumption DEF Init
<1>1. TypeOK
  BY DEF TypeOK, Prefs, Blank, Events, Steps, Ops
<1>2. KnownAccounts /\ TokensBehind /\ TokensIssued
  BY DEF KnownAccounts, TokensBehind, TokensIssued
<1>3. EventsPaired
  BY DEF EventsPaired, Events
<1>4. PrefsClean
  BY BlankIsClean DEF PrefsClean
<1> QED
  BY <1>1, <1>2, <1>3, <1>4 DEF IInv

LEMMA NextIInv == IInv /\ [Next]_vars => IInv'
<1> SUFFICES ASSUME IInv, [Next]_vars PROVE IInv'
  OBVIOUS
<1> USE SessionsAssumption DEF data, IInv
<1>1. ASSUME NEW i \in Ids, NEW n \in Names, Register(i, n)
      PROVE  IInv'
  <2> USE <1>1 DEF Register, Emit
  <2>1. TypeOK'
    BY DEF TypeOK, Row, Events
  <2>2. KnownAccounts' /\ TokensIssued'
    BY DEF KnownAccounts, TokensIssued, TypeOK
  <2>3. TokensBehind'
    BY DEF TokensBehind, NotAhead, TypeOK, Token
  <2>4. EventsPaired'
    BY DEF EventsPaired, Events, TypeOK, KnownAccounts
  <2>5. PrefsClean'
    BY DEF PrefsClean, TypeOK, KnownAccounts
  <2> QED
    BY <2>1, <2>2, <2>3, <2>4, <2>5
<1>2. ASSUME NEW p \in Procs, NEW i \in Ids, GetByUsername(p, i)
      PROVE  IInv'
  <2> USE <1>2 DEF GetByUsername, Goto
  <2>1. row[i] \in Row
    BY DEF TypeOK
  <2>2. TypeOK'
    BY <2>1 DEF TypeOK, Row, Token, Steps
  <2>3. TokensBehind'
    BY <2>1 DEF TokensBehind, NotAhead, KnownAccounts, TypeOK, Row, Token
  <2>4. KnownAccounts' /\ TokensIssued' /\ EventsPaired' /\ PrefsClean'
    BY DEF KnownAccounts, TokensIssued, EventsPaired, PrefsClean, TypeOK
  <2> QED
    BY <2>2, <2>3, <2>4
<1>3. ASSUME NEW p \in Procs, Issue(p)
      PROVE  IInv'
  <2> DEFINE t == [sub |-> token[p].sub, tv |-> token[p].tv, exp |-> now + Lifetime]
  <2> USE <1>3 DEF Issue, Goto
  <2>1. t \in Token /\ NotAhead(t)
    BY DEF TokensBehind, NotAhead, TypeOK, Token
  <2>2. TypeOK'
    BY <2>1 DEF TypeOK, Steps
  <2>3. TokensBehind'
    BY <2>1 DEF TokensBehind, NotAhead, TypeOK
  <2>4. KnownAccounts' /\ TokensIssued' /\ EventsPaired' /\ PrefsClean'
    BY DEF KnownAccounts, TokensIssued, EventsPaired, PrefsClean, TypeOK
  <2> QED
    BY <2>2, <2>3, <2>4
<1>4. ASSUME NEW p \in Procs, WrongPassword(p)
      PROVE  IInv'
  BY <1>4 DEF WrongPassword, Goto, TypeOK, Steps, KnownAccounts, TokensBehind, NotAhead,
              TokensIssued, EventsPaired, PrefsClean
<1>5. ASSUME NEW p \in Procs, NEW t \in issued, NEW o \in Ops, Parse(p, t, o)
      PROVE  IInv'
  <2> USE <1>5 DEF Parse, Goto
  <2>1. TypeOK'
    BY DEF TypeOK, Steps
  <2>2. TokensBehind' /\ TokensIssued'
    BY DEF TokensBehind, NotAhead, TokensIssued, TypeOK
  <2>3. KnownAccounts' /\ EventsPaired' /\ PrefsClean'
    BY DEF KnownAccounts, EventsPaired, PrefsClean
  <2> QED
    BY <2>1, <2>2, <2>3
<1>6. ASSUME NEW p \in Procs, VerifyVersion(p)
      PROVE  IInv'
  BY <1>6 DEF VerifyVersion, Goto, TypeOK, Steps, KnownAccounts, TokensBehind, NotAhead,
              TokensIssued, EventsPaired, PrefsClean
<1>7. ASSUME NEW p \in Procs, LogoutAll(p)
      PROVE  IInv'
  <2> DEFINE i == token[p].sub
  <2> USE <1>7 DEF LogoutAll, Begun, Goto
  <2>1. i \in Ids
    BY DEF TokensIssued, TypeOK, Token
  <2>2. CASE row[i] = None
    BY <2>2 DEF TypeOK, Steps, KnownAccounts, TokensBehind, NotAhead, TokensIssued,
                EventsPaired, PrefsClean
  <2>3. CASE row[i] # None
    <3>1. row[i] \in Row /\ row' = [row EXCEPT ![i] = [name |-> row[i].name, version |-> row[i].version + 1]]
      BY <2>1, <2>3 DEF TypeOK
    <3>2. row'[i] \in Row /\ \A j \in Ids : j # i => row'[j] = row[j]
      BY <2>1, <3>1 DEF TypeOK, Row
    <3>3. TypeOK'
      BY <3>1, <3>2 DEF TypeOK, Steps
    <3>4. KnownAccounts' /\ TokensIssued'
      BY <2>3, <3>2 DEF KnownAccounts, TokensIssued, TypeOK
    <3>5. TokensBehind'
      BY <2>1, <2>3, <3>1, <3>2 DEF TokensBehind, NotAhead, TypeOK, Row, Token
    <3>6. EventsPaired' /\ PrefsClean'
      BY <2>1, <2>3, <3>2 DEF EventsPaired, PrefsClean, Row
    <3> QED
      BY <3>3, <3>4, <3>5, <3>6
  <2> QED
    BY <2>2, <2>3
<1>8. ASSUME NEW p \in Procs, Delete(p)
      PROVE  IInv'
  <2> DEFINE i == token[p].sub
  <2> USE <1>8 DEF Delete, Begun, Goto, Emit
  <2>1. i \in ever /\ i \in Ids
    BY DEF TokensIssued, TokensBehind, NotAhead, TypeOK, Token
  <2>2. CASE row[i] = None
    BY <2>2 DEF TypeOK, Steps, KnownAccounts, TokensBehind, NotAhead, TokensIssued,
                EventsPaired, PrefsClean
  <2>3. CASE row[i] # None
    <3> USE <2>3
    <3>1. TypeOK'
      <4>1. row' \in [Ids -> Row \cup {None}] /\ ever' \subseteq Ids
        BY <2>1 DEF TypeOK
      <4>2. prefs' \in [Ids -> Prefs]
        <5>1. Blank \in Prefs
          BY DEF Blank, Prefs
        <5>2. prefs' = [prefs EXCEPT ![i] = Blank]
          OBVIOUS
        <5> QED
          BY <5>1, <5>2 DEF TypeOK
      <4>3. events' \in [Events -> [Ids -> Nat]]
        <5>1. events' = [events EXCEPT !["UserDeleted"][i] = @ + 1]
          OBVIOUS
        <5>2. events["UserDeleted"] \in [Ids -> Nat]
          BY DEF TypeOK, Events
        <5>3. [events["UserDeleted"] EXCEPT ![i] = @ + 1] \in [Ids -> Nat]
          BY <2>1, <5>2
        <5> QED
          BY <5>1, <5>3 DEF TypeOK, Events
      <4> QED
        BY <4>1, <4>2, <4>3 DEF TypeOK, Steps
    <3>2. KnownAccounts' /\ TokensIssued' /\ TokensBehind'
      BY <2>1 DEF KnownAccounts, TokensIssued, TokensBehind, NotAhead, TypeOK, Token
    <3>3. EventsPaired'
      <4>1. events["UserDeleted"][i] = 0
        BY <2>1 DEF EventsPaired
      <4>2. /\ events'["UserCreated"] = events["UserCreated"]
            /\ events'["UserDeleted"] = [events["UserDeleted"] EXCEPT ![i] = @ + 1]
        BY DEF TypeOK, Events
      <4>3. row' = [row EXCEPT ![i] = None] /\ ever' = ever
        OBVIOUS
      <4> QED
        BY <2>1, <4>1, <4>2, <4>3 DEF EventsPaired, TypeOK, Events
    <3>4. PrefsClean'
      <4>1. prefs'[i] = Blank /\ \A j \in Ids : j # i => prefs'[j] = prefs[j] /\ row'[j] = row[j]
        BY <2>1 DEF TypeOK
      <4> QED
        BY <4>1, BlankIsClean DEF PrefsClean
    <3> QED
      BY <3>1, <3>2, <3>3, <3>4
  <2> QED
    BY <2>2, <2>3
<1>9. ASSUME NEW p \in Procs, ReadTags(p)
      PROVE  IInv'
  <2>1. token[p].sub \in Ids
    BY <1>9 DEF ReadTags, Begun, TokensIssued, TypeOK, Token
  <2>2. TypeOK'
    BY <1>9, <2>1 DEF ReadTags, Begun, Goto, TypeOK, Steps, Prefs
  <2>3. KnownAccounts' /\ TokensBehind' /\ TokensIssued' /\ EventsPaired' /\ PrefsClean'
    BY <1>9 DEF ReadTags, Begun, Goto, TypeOK, KnownAccounts, TokensBehind, NotAhead,
                TokensIssued, EventsPaired, PrefsClean
  <2> QED
    BY <2>2, <2>3
<1>10. ASSUME NEW p \in Procs, ReadGenres(p)
      PROVE  IInv'
  BY <1>10 DEF ReadGenres, Goto, TypeOK, Steps, KnownAccounts, TokensBehind, NotAhead,
              TokensIssued, EventsPaired, PrefsClean
<1>11. ASSUME NEW p \in Procs, NEW c \in PrefChoices, Replace(p, c)
      PROVE  IInv'
  <2> DEFINE i == token[p].sub
             new == [tags |-> Normalized(c.tags), genres |-> Normalized(c.genres)]
  <2> USE <1>11 DEF Replace, Begun, Goto
  <2>1. i \in Ids
    BY DEF TokensIssued, TypeOK, Token
  <2>2. c.tags \in Seq(Items) /\ c.genres \in Seq(Items)
    OBVIOUS
  <2>3. new \in Prefs
    BY <2>2, NormalForm DEF Prefs
  <2>4. TypeOK'
    <3>1. prefs' \in [Ids -> Prefs]
      BY <2>1, <2>3 DEF TypeOK
    <3>2. step' \in [Procs -> Steps] /\ op' \in [Procs -> Ops]
      BY DEF TypeOK, Steps, Ops
    <3> QED
      BY <3>1, <3>2 DEF TypeOK
  <2>5. KnownAccounts' /\ TokensBehind' /\ TokensIssued' /\ EventsPaired'
    BY DEF KnownAccounts, TokensBehind, NotAhead, TokensIssued, EventsPaired, TypeOK
  <2>6. PrefsClean'
    <3>1. CASE prefs' = prefs
      BY <3>1 DEF PrefsClean
    <3>2. CASE /\ ~ Refused(c.tags) /\ ~ Refused(c.genres)
               /\ row[i] # None \/ new = Blank
               /\ prefs' = [prefs EXCEPT ![i] = new]
      BY <2>1, <2>2, <3>2, NormalForm DEF PrefsClean, TypeOK
    <3> QED
      BY <3>1, <3>2
  <2> QED
    BY <2>4, <2>5, <2>6
<1>12. CASE Tick
  BY <1>12 DEF Tick, TypeOK, KnownAccounts, TokensBehind, NotAhead, TokensIssued,
               EventsPaired, PrefsClean
<1>13. CASE UNCHANGED vars
  BY <1>13 DEF vars, TypeOK, KnownAccounts, TokensBehind, NotAhead, TokensIssued,
               EventsPaired, PrefsClean
<1> QED
  BY <1>1, <1>2, <1>3, <1>4, <1>5, <1>6, <1>7, <1>8, <1>9, <1>10, <1>11, <1>12, <1>13 DEF Next

-----------------------------------------------------------------------------

\* The strengthened invariant holds of every reachable state.
THEOREM SessionsInvariance == Spec => []IInv
<1>1. Init => IInv
  BY InitIInv
<1>2. IInv /\ [Next]_vars => IInv'
  BY NextIInv
<1> QED
  BY <1>1, <1>2, PTL DEF Spec

\* Every variable keeps its type.
THEOREM SessionsTyped == Spec => []TypeOK
<1>1. IInv => TypeOK
  BY DEF IInv
<1> QED
  BY <1>1, SessionsInvariance, PTL

\* One UserCreated and at most one UserDeleted for each account, however
\* many requests delete it at the same time.
THEOREM EventsArePaired == Spec => []EventsPaired
<1>1. IInv => EventsPaired
  BY DEF IInv
<1> QED
  BY <1>1, SessionsInvariance, PTL

\* What is stored of the preferences belongs to an account and is in normal
\* form, whatever is sent.
THEOREM PrefsAreClean == Spec => []PrefsClean
<1>1. IInv => PrefsClean
  BY DEF IInv
<1> QED
  BY <1>1, SessionsInvariance, PTL

-----------------------------------------------------------------------------
(* The refinement: what each step is for SessionStore.                     *)

Expired == {t \in issued : t.exp <= now}
Revoked == {t \in issued : row[t.sub] = None \/ row[t.sub].version # t.tv}

\* Steps that leave rows, tokens and the clock alone leave the sets alone.
LEMMA SetsKept ==
  ASSUME UNCHANGED <<row, issued, now>>
  PROVE  Expired' = Expired /\ Revoked' = Revoked
BY DEF Expired, Revoked

\* A request that is past its expiry check holds its token.
LEMMA HeldToken ==
  ASSUME IInv, NEW p \in Procs, step[p] \in {"verify", "act", "reply"}
  PROVE  /\ held[p] = [token |-> token[p], in |-> step[p] # "verify"]
         /\ held[p] # None /\ held[p].token = token[p] /\ held[p].in = (step[p] # "verify")
         /\ token[p] \in issued /\ token[p] \in Token /\ token[p].sub \in Ids
<1>1. token[p] \in issued /\ token[p] \in Token
  BY DEF IInv, TokensIssued, TypeOK
<1>2. [token |-> token[p], in |-> step[p] # "verify"] \in [token : Token, in : BOOLEAN]
  BY <1>1
<1> QED
  BY <1>1, <1>2, SessionsAssumption DEF held, Token

\* Every step of Sessions is a step of SessionStore, or none.
LEMMA StoreStep ==
  IInv /\ IInv' /\ [Next]_vars => [Store!Next]_<<issued, Expired, Revoked, held>>
<1> SUFFICES ASSUME IInv, IInv', [Next]_vars
             PROVE  Store!Next \/ UNCHANGED <<issued, Expired, Revoked, held>>
  OBVIOUS
<1> USE DEF data
<1>1. ASSUME NEW i \in Ids, NEW n \in Names, Register(i, n)
      PROVE  UNCHANGED <<issued, Expired, Revoked, held>>
  <2>1. \A t \in issued : t.sub # i
    BY <1>1 DEF Register, IInv, TokensBehind, NotAhead
  <2>2. \A t \in issued : row'[t.sub] = row[t.sub]
    BY <1>1, <2>1 DEF Register, IInv, TypeOK, Token
  <2> QED
    BY <1>1, <2>2 DEF Register, Expired, Revoked, held
<1>2. ASSUME NEW p \in Procs, NEW i \in Ids, GetByUsername(p, i)
      PROVE  UNCHANGED <<issued, Expired, Revoked, held>>
  BY <1>2, SetsKept DEF GetByUsername, Goto, held, IInv, TypeOK
<1>3. ASSUME NEW p \in Procs, Issue(p)
      PROVE  Store!Grant
  <2> DEFINE t == [sub |-> token[p].sub, tv |-> token[p].tv, exp |-> now + Lifetime]
  <2>1. issued' = issued \cup {t} /\ UNCHANGED <<row, now>>
    BY <1>3 DEF Issue
  <2>2. ~ t.exp <= now
    BY SessionsAssumption DEF IInv, TypeOK
  <2>3. Expired' = Expired
    BY <2>1, <2>2 DEF Expired
  <2>4. Revoked \subseteq Revoked' /\ Revoked' \subseteq Revoked \cup {x \in {t} : x \notin issued}
    BY <2>1 DEF Revoked
  <2>5. held' = held
    BY <1>3 DEF Issue, Goto, held, IInv, TypeOK
  <2>6. issued' \subseteq Token
    BY DEF IInv, TypeOK
  <2> QED
    BY <2>1, <2>3, <2>4, <2>5, <2>6 DEF Store!Grant, Expired, Revoked
<1>4. ASSUME NEW p \in Procs, WrongPassword(p)
      PROVE  UNCHANGED <<issued, Expired, Revoked, held>>
  BY <1>4, SetsKept DEF WrongPassword, Goto, held, IInv, TypeOK
<1>5. ASSUME NEW p \in Procs, NEW t \in issued, NEW o \in Ops, Parse(p, t, o)
      PROVE  Store!Present(p, t)
  <2>1. held[p] = None
    BY <1>5 DEF Parse, held
  <2>2. t \notin Expired
    BY <1>5 DEF Parse, Expired, IInv, TypeOK, Token
  <2>3. held' = [held EXCEPT ![p] = [token |-> t, in |-> FALSE]]
    BY <1>5 DEF Parse, Goto, held, IInv, TypeOK
  <2> QED
    BY <1>5, <2>1, <2>2, <2>3, SetsKept DEF Store!Present, Parse, Expired, Revoked
<1>6. ASSUME NEW p \in Procs, VerifyVersion(p)
      PROVE  Store!Admit(p) \/ Store!Leave(p)
  <2>1. step[p] = "verify" /\ UNCHANGED <<row, issued, now, token>>
    BY <1>6 DEF VerifyVersion
  <2>2. held[p] # None /\ held[p].token = token[p] /\ held[p].in = FALSE
    BY <2>1, HeldToken
  <2>3. CASE Current(token[p]) /\ Goto(p, "act")
    <3>1. held' = [held EXCEPT ![p] = [token |-> token[p], in |-> TRUE]]
      BY <2>1, <2>3 DEF Goto, held, IInv, TypeOK
    <3>2. token[p] \notin Revoked
      BY <2>3 DEF Current, Revoked
    <3> QED
      BY <2>1, <2>2, <3>1, <3>2, SetsKept DEF Store!Admit, Expired, Revoked
  <2>4. CASE Goto(p, "idle")
    <3>1. held' = [held EXCEPT ![p] = None]
      BY <2>1, <2>4 DEF Goto, held, IInv, TypeOK
    <3> QED
      BY <2>1, <2>2, <3>1, SetsKept DEF Store!Leave, Expired, Revoked
  <2> QED
    BY <1>6, <2>3, <2>4 DEF VerifyVersion
<1>7. ASSUME NEW p \in Procs, LogoutAll(p) \/ Delete(p)
      PROVE  Store!Revoke(p) \/ Store!Leave(p)
  <2> DEFINE i == token[p].sub
  <2>1. step[p] = "act" /\ UNCHANGED <<issued, now, token>> /\ Goto(p, "idle")
    BY <1>7 DEF LogoutAll, Delete, Begun
  <2>2. held[p] # None /\ held[p].token = token[p] /\ held[p].in = TRUE /\ i \in Ids
    BY <2>1, HeldToken
  <2>3. held' = [held EXCEPT ![p] = None]
    BY <2>1 DEF Goto, held, IInv, TypeOK
  <2>4. Expired' = Expired
    BY <2>1 DEF Expired
  <2>5. CASE row[i] = None
    <3>1. row' = row
      BY <1>7, <2>5 DEF LogoutAll, Delete
    <3> QED
      BY <2>1, <2>2, <2>3, <3>1, SetsKept DEF Store!Leave, Expired, Revoked
  <2>6. CASE row[i] # None
    <3>1. \/ row' = [row EXCEPT ![i] = None]
          \/ row' = [row EXCEPT ![i] = [name |-> row[i].name, version |-> row[i].version + 1]]
      BY <1>7, <2>6 DEF LogoutAll, Delete
    <3>2. row[i] \in Row
      BY <2>2, <2>6 DEF IInv, TypeOK
    <3>3. \A t \in issued : t.sub = i => row'[i] = None \/ row'[i].version # t.tv
      <4>1. \A t \in issued : t.sub = i => t.tv <= row[i].version /\ t.tv \in Nat
        BY <2>6 DEF IInv, TokensBehind, NotAhead, TypeOK, Token
      <4> QED
        BY <2>2, <3>1, <3>2, <4>1 DEF IInv, TypeOK, Row
    <3>4. \A t \in issued : t.sub # i => row'[t.sub] = row[t.sub]
      BY <2>2, <3>1 DEF IInv, TypeOK, Token
    <3>5. Revoked' = Revoked \cup {t \in issued : t.sub = i}
      BY <2>1, <3>3, <3>4 DEF Revoked
    <3> QED
      BY <2>1, <2>2, <2>3, <2>4, <3>5 DEF Store!Revoke, Expired, Revoked
  <2> QED
    BY <2>5, <2>6
<1>8. ASSUME NEW p \in Procs, ReadTags(p)
      PROVE  UNCHANGED <<issued, Expired, Revoked, held>>
  BY <1>8, SetsKept DEF ReadTags, Begun, Goto, held, IInv, TypeOK
<1>9. ASSUME NEW p \in Procs, ReadGenres(p)
      PROVE  Store!Leave(p)
  <2>1. held' = [held EXCEPT ![p] = None]
    BY <1>9 DEF ReadGenres, Goto, held, IInv, TypeOK
  <2>2. held[p] # None
    BY <1>9, HeldToken DEF ReadGenres
  <2> QED
    BY <1>9, <2>1, <2>2, SetsKept DEF ReadGenres, Store!Leave, Expired, Revoked
<1>10. ASSUME NEW p \in Procs, NEW c \in PrefChoices, Replace(p, c)
      PROVE  Store!Leave(p) \/ UNCHANGED <<issued, Expired, Revoked, held>>
  <2>1. step[p] = "act" /\ UNCHANGED <<row, issued, now, token>>
    BY <1>10 DEF Replace, Begun
  <2>2. CASE Goto(p, "idle")
    <3>1. held' = [held EXCEPT ![p] = None]
      BY <2>1, <2>2 DEF Goto, held, IInv, TypeOK
    <3>2. held[p] # None
      BY <2>1, HeldToken
    <3> QED
      BY <2>1, <3>1, <3>2, SetsKept DEF Store!Leave, Expired, Revoked
  <2>3. CASE UNCHANGED step
    BY <2>1, <2>3, SetsKept DEF held
  <2> QED
    BY <1>10, <2>2, <2>3 DEF Replace
<1>11. ASSUME Tick
       PROVE  Store!Expire
  <2>1. Expired \subseteq Expired' /\ Expired' \subseteq issued
    BY <1>11 DEF Tick, Expired, IInv, TypeOK, Token
  <2>2. Revoked' = Revoked /\ held' = held
    BY <1>11 DEF Tick, Revoked, held
  <2> QED
    BY <1>11, <2>1, <2>2 DEF Tick, Store!Expire, Expired, Revoked
<1>12. ASSUME UNCHANGED vars
       PROVE  UNCHANGED <<issued, Expired, Revoked, held>>
  BY <1>12, SetsKept DEF vars, held
<1> QED
  BY <1>1, <1>2, <1>3, <1>4, <1>5, <1>6, <1>7, <1>8, <1>9, <1>10, <1>11, <1>12
     DEF Next, Store!Next

\* No version, expiry or row lets a token be used once it expired or was
\* revoked, and nobody but its owner revokes it: for any number of accounts,
\* logins and requests, Sessions implements SessionStore.
THEOREM SessionsImplementStore == Spec => ImplementsSessionStore
<1>1. Init => Store!Init
  BY DEF Init, Store!Init, held
<1>2. IInv /\ IInv' /\ [Next]_vars => [Store!Next]_(Store!vars)
  BY StoreStep DEF Store!vars, Expired, Revoked
<1> QED
  BY <1>1, <1>2, SessionsInvariance, PTL DEF Spec, ImplementsSessionStore, Store!Spec
=============================================================================
