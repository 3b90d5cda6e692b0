------------------------------- MODULE Pages -------------------------------
(***************************************************************************)
(* What the Discogs client (internal/discogs/client.go) makes of an answer *)
(* of the API.  A row has a name, the case-insensitive (artist, title) it  *)
(* is recognised by: Blank when the row has none, or a search result's     *)
(* title does not split into the two.                                      *)
(***************************************************************************)
EXTENDS Integers, Sequences, FiniteSets

CONSTANT Blank

Shown(row) == [name |-> row.name, id |-> row.id, album |-> row.album]

\* Of the positions in kept, those whose row no earlier one repeats.
Firsts(rows, kept) == {i \in kept : \A j \in kept : j < i => rows[j].name # rows[i].name}

Ascending(S) ==
  CHOOSE s \in [1..Cardinality(S) -> S] : \A i, j \in DOMAIN s : i < j => s[i] < s[j]

\* The first `limit` of them, in the order Discogs ranks or lists them.
Listed(rows, kept, limit) ==
  LET firsts == Ascending(Firsts(rows, kept))
  IN  [n \in 1..(IF Len(firsts) < limit THEN Len(firsts) ELSE limit) |-> Shown(rows[firsts[n]])]

WellFormed(rows) == {i \in DOMAIN rows : rows[i].name # Blank}

\* /database/search for releases, and for artists or labels.
PickAll(rows, limit) == Listed(rows, WellFormed(rows), limit)
ParseEntities(rows, limit) == Listed(rows, {i \in WellFormed(rows) : rows[i].id # 0}, limit)

\* The one release of a worker: the best for a query, any for a genre.
PickFirst(rows) == PickAll(rows, 1)
PickRandom(rows) == {<<Shown(rows[i])>> : i \in WellFormed(rows)}

\* A master stands for its main pressing, and is an album.
Pressing(row) ==
  IF row.master
    THEN [row EXCEPT !.id = IF row.main > 0 THEN row.main ELSE row.id, !.album = TRUE]
    ELSE row

\* /artists/{id}/releases and /labels/{id}/releases.
Discography(rows, limit) ==
  LET pressed == [n \in DOMAIN rows |-> Pressing(rows[n])]
  IN  Listed(pressed, {i \in WellFormed(pressed) : pressed[i].master => pressed[i].id # 0}, limit)
=============================================================================
