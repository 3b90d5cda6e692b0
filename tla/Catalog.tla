------------------------------ MODULE Catalog -------------------------------
(***************************************************************************)
(* What the queue service and the page both know: the songs of the         *)
(* catalog, and that there may be none.                                    *)
(***************************************************************************)
CONSTANTS
  Songs,  \* ids of catalog songs
  None    \* nil, null or NULL: no song, no user, no mutex
=============================================================================
