------------------------------ MODULE Sessions ------------------------------
(***************************************************************************)
(* Accounts, tokens and preferences (internal/auth, httpx.WithAuth,        *)
(* internal/preferences): a token carries the token_version its login read *)
(* and an expiry; every protected request parses it, then compares the     *)
(* version with the row, then runs its handler with the user id alone.     *)
(* The database has one connection: statements and transactions do not     *)
(* overlap, but a request takes several, and other requests run between.   *)
(***************************************************************************)
EXTENDS Integers, Sequences, FiniteSets

CONSTANTS
  Ids,         \* uuids: each is drawn once
  Names, Procs,
  Items,       \* what a preference list may contain
  KeyOf,       \* [Items -> keys]: trimmed, in lower case; None for blanks
  TooLong,     \* items over maxItemLength
  MaxItems,
  PrefChoices, \* what PUT /preferences sends: records of two sequences
  Lifetime,
  MaxTime, MaxVersion, MaxTokens,  \* bounds
  None

ASSUME SessionsAssumption ==
  /\ Lifetime \in Nat \ {0} /\ {MaxItems, MaxTime, MaxVersion, MaxTokens} \subseteq Nat
  /\ TooLong \subseteq Items /\ DOMAIN KeyOf = Items
  /\ PrefChoices \subseteq [tags : Seq(Items), genres : Seq(Items)]
  /\ None \notin [name : Names, version : Nat]
  /\ None \notin [token : [sub : Ids, tv : Nat, exp : Nat], in : BOOLEAN]

VARIABLES
  row,     \* [Ids -> Row]: auth_users, None without a row
  ever,    \* ids that have been registered (history)
  prefs,   \* [Ids -> Prefs]: user_bandcamp_tags and user_discogs_genres
  events,  \* how often the outbox got each event (history)
  issued,  \* every token any login answered
  now,
  step, op, token,  \* of each request
  tags     \* the tags a request has read

data == <<row, ever, prefs, events>>
vars == <<data, issued, now, step, op, token, tags>>

Row    == [name : Names, version : Nat]
Token  == [sub : Ids, tv : Nat, exp : Nat]
Prefs  == [tags : SUBSET Items, genres : SUBSET Items]
Steps  == {"idle", "compare", "verify", "act", "reply"}
Ops    == {"logout-all", "delete", "get", "put"}
Events == {"UserCreated", "UserDeleted"}
Blank  == [tags |-> {}, genres |-> {}]

Init ==
  /\ row = [i \in Ids |-> None] /\ ever = {}
  /\ prefs = [i \in Ids |-> Blank]
  /\ events = [e \in Events |-> [i \in Ids |-> 0]]
  /\ issued = {} /\ now = 0
  /\ step = [p \in Procs |-> "idle"] /\ op = [p \in Procs |-> "get"]
  /\ token = [p \in Procs |-> None]
  /\ tags = [p \in Procs |-> {}]

Emit(e, i) == events' = [events EXCEPT ![e][i] = @ + 1]
Goto(p, s) == step' = [step EXCEPT ![p] = s]

-----------------------------------------------------------------------------
(* Accounts                                                                *)

\* The row and its UserCreated are one transaction, which a name in use
\* refuses.
Register(i, n) ==
  /\ i \notin ever
  /\ \A j \in Ids : row[j] # None => row[j].name # n
  /\ row' = [row EXCEPT ![i] = [name |-> n, version |-> 0]]
  /\ ever' = ever \cup {i}
  /\ Emit("UserCreated", i)
  /\ UNCHANGED <<prefs, issued, now, step, op, token, tags>>

\* Login reads the row, then compares the password, which takes a while.
GetByUsername(p, i) ==
  /\ step[p] = "idle" /\ row[i] # None
  /\ token' = [token EXCEPT ![p] = [sub |-> i, tv |-> row[i].version, exp |-> 0]]
  /\ Goto(p, "compare")
  /\ UNCHANGED <<data, issued, now, op, tags>>

\* The token has the version as it was read.  Bound: MaxTokens.
Issue(p) ==
  LET t == [sub |-> token[p].sub, tv |-> token[p].tv, exp |-> now + Lifetime] IN
  /\ step[p] = "compare"
  /\ issued' = issued \cup {t} /\ Cardinality(issued) < MaxTokens
  /\ Goto(p, "idle")
  /\ UNCHANGED <<data, now, op, token, tags>>

WrongPassword(p) ==
  /\ step[p] = "compare" /\ Goto(p, "idle")
  /\ UNCHANGED <<data, issued, now, op, token, tags>>

-----------------------------------------------------------------------------
(* The middleware                                                          *)

\* A token whose expiry has passed is refused at once.
Parse(p, t, o) ==
  /\ step[p] = "idle"
  /\ t \in issued /\ now < t.exp
  /\ token' = [token EXCEPT ![p] = t] /\ op' = [op EXCEPT ![p] = o]
  /\ Goto(p, "verify")
  /\ UNCHANGED <<data, issued, now, tags>>

\* Mutant: any token of an account that exists is good.
CurrentUnversioned(t) == row[t.sub] # None

Current(t) == row[t.sub] # None /\ row[t.sub].version = t.tv

\* The version in the row must be that of the token; an error of the
\* database refuses as well.
VerifyVersion(p) ==
  /\ step[p] = "verify"
  /\ \/ Current(token[p]) /\ Goto(p, "act")
     \/ Goto(p, "idle")
  /\ UNCHANGED <<data, issued, now, op, token, tags>>

-----------------------------------------------------------------------------
(* The handlers, which know the user id only                               *)

Begun(p, o) == step[p] = "act" /\ op[p] = o

\* Bound: MaxVersion.
LogoutAll(p) ==
  LET i == token[p].sub IN
  /\ Begun(p, "logout-all")
  /\ IF row[i] = None THEN UNCHANGED row
     ELSE /\ row[i].version < MaxVersion
          /\ row' = [row EXCEPT ![i] = [name |-> row[i].name, version |-> row[i].version + 1]]
  /\ Goto(p, "idle")
  /\ UNCHANGED <<ever, prefs, events, issued, now, op, token, tags>>

\* Mutant: the event stays when there was no row to delete.
DeleteUnchecked(p) ==
  LET i == token[p].sub IN
  /\ Begun(p, "delete")
  /\ row' = [row EXCEPT ![i] = None] /\ prefs' = [prefs EXCEPT ![i] = Blank]
  /\ Emit("UserDeleted", i)
  /\ Goto(p, "idle")
  /\ UNCHANGED <<ever, issued, now, op, token, tags>>

\* The event and the row are one transaction, rolled back without a row;
\* the preferences go by cascade.
Delete(p) ==
  LET i == token[p].sub IN
  /\ Begun(p, "delete")
  /\ IF row[i] = None THEN UNCHANGED <<row, prefs, events>>
     ELSE /\ row' = [row EXCEPT ![i] = None]
          /\ prefs' = [prefs EXCEPT ![i] = Blank]
          /\ Emit("UserDeleted", i)
  /\ Goto(p, "idle")
  /\ UNCHANGED <<ever, issued, now, op, token, tags>>

\* Mutant: only equal strings are one tag, as for the primary key.
NormalizedExactly(s) == {s[k] : k \in {m \in DOMAIN s : KeyOf[s[m]] # None}}

\* The first of each key, blanks left out.
Normalized(s) ==
  {s[k] : k \in {m \in DOMAIN s : /\ KeyOf[s[m]] # None
                                  /\ \A n \in 1..m - 1 : KeyOf[s[n]] # KeyOf[s[m]]}}

Refused(s) ==
  \/ Len(s) > 2 * MaxItems
  \/ \E k \in DOMAIN s : KeyOf[s[k]] # None /\ s[k] \in TooLong
  \/ Cardinality(Normalized(s)) > MaxItems

\* Replace is one transaction; the foreign key refuses rows of an account
\* that is gone, but there may be none to insert.  What was stored is then
\* read as Get does.
Replace(p, c) ==
  LET i == token[p].sub
      new == [tags |-> Normalized(c.tags), genres |-> Normalized(c.genres)]
  IN /\ Begun(p, "put")
     /\ \/ /\ Refused(c.tags) \/ Refused(c.genres) \/ (row[i] = None /\ new # Blank)
           /\ Goto(p, "idle") /\ UNCHANGED <<prefs, op>>
        \/ /\ ~ Refused(c.tags) /\ ~ Refused(c.genres) /\ (row[i] # None \/ new = Blank)
           /\ prefs' = [prefs EXCEPT ![i] = new]
           /\ op' = [op EXCEPT ![p] = "get"] /\ UNCHANGED step
     /\ UNCHANGED <<row, ever, events, issued, now, token, tags>>

\* Get: one SELECT for the tags,
ReadTags(p) ==
  /\ Begun(p, "get")
  /\ tags' = [tags EXCEPT ![p] = prefs[token[p].sub].tags]
  /\ Goto(p, "reply")
  /\ UNCHANGED <<data, issued, now, op, token>>

\* and one for the genres.
ReadGenres(p) ==
  /\ step[p] = "reply"
  /\ tags' = [tags EXCEPT ![p] = {}]
  /\ Goto(p, "idle")
  /\ UNCHANGED <<data, issued, now, op, token>>

\* Bound: MaxTime.
Tick ==
  /\ now < MaxTime /\ now' = now + 1
  /\ UNCHANGED <<data, issued, step, op, token, tags>>

Next ==
  \/ \E i \in Ids, n \in Names : Register(i, n)
  \/ \E p \in Procs, i \in Ids : GetByUsername(p, i)
  \/ \E p \in Procs : Issue(p) \/ WrongPassword(p)
  \/ \E p \in Procs, t \in issued, o \in Ops : Parse(p, t, o)
  \/ \E p \in Procs : VerifyVersion(p)
  \/ \E p \in Procs : LogoutAll(p) \/ Delete(p) \/ ReadTags(p) \/ ReadGenres(p)
  \/ \E p \in Procs, c \in PrefChoices : Replace(p, c)
  \/ Tick

Spec == Init /\ [][Next]_vars

-----------------------------------------------------------------------------
(* Properties                                                              *)

TypeOK ==
  /\ row \in [Ids -> Row \cup {None}]
  /\ ever \subseteq Ids
  /\ prefs \in [Ids -> Prefs]
  /\ events \in [Events -> [Ids -> Nat]]
  /\ issued \subseteq Token
  /\ now \in Nat
  /\ step \in [Procs -> Steps] /\ op \in [Procs -> Ops]
  /\ token \in [Procs -> Token \cup {None}]
  /\ tags \in [Procs -> SUBSET Items]

\* Every account is announced once, and its end once and never without its
\* row going: two requests that delete one account at the same time write
\* one UserDeleted, and no event is left of a transaction that failed.
EventsPaired ==
  \A i \in Ids :
    /\ events["UserCreated"][i] = IF i \in ever THEN 1 ELSE 0
    /\ events["UserDeleted"][i] = IF i \in ever /\ row[i] = None THEN 1 ELSE 0

\* The inductive invariant: an id that was never registered has no row and
\* no token, and no token or login under way is ahead of its row.
KnownAccounts == \A i \in Ids : row[i] # None => i \in ever

NotAhead(t) == t.sub \in ever /\ (row[t.sub] # None => t.tv <= row[t.sub].version)

TokensBehind ==
  /\ \A t \in issued : NotAhead(t)
  /\ \A p \in Procs : step[p] = "compare" => token[p] \in Token /\ NotAhead(token[p])

TokensIssued ==
  \A p \in Procs : step[p] \in {"verify", "act", "reply"} => token[p] \in issued

\* The preferences that are stored belong to an account, and name no tag
\* twice, whatever its case, and not too many.
PrefsClean ==
  \A i \in Ids :
    /\ row[i] = None => prefs[i] = Blank
    /\ \A S \in {prefs[i].tags, prefs[i].genres} :
         /\ Cardinality(S) <= MaxItems
         /\ \A x, y \in S : KeyOf[x] = KeyOf[y] => x = y

IInv == TypeOK /\ KnownAccounts /\ TokensBehind /\ TokensIssued /\ EventsPaired /\ PrefsClean

\* handler.go of preferences: Put answers "the normalized form the server
\* actually persisted", so the lists of a reply were stored together.
RepliesWhole ==
  \A p \in Procs : step[p] = "reply" => prefs[token[p].sub].tags = tags[p]

\* What the API promises: no version, expiry or row lets a token be used
\* once it expired or was revoked.
held == [p \in Procs |->
           IF step[p] \in {"verify", "act", "reply"}
           THEN [token |-> token[p], in |-> step[p] # "verify"] ELSE None]

Store == INSTANCE SessionStore WITH
  Tokens  <- Token,
  Nobody  <- None,
  granted <- issued,
  expired <- {t \in issued : t.exp <= now},
  revoked <- {t \in issued : row[t.sub] = None \/ row[t.sub].version # t.tv}

ImplementsSessionStore == Store!Spec
=============================================================================
