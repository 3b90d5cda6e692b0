------------------------------ MODULE MCOutbox ------------------------------
(* An instance of Outbox for TLC.                                          *)
EXTENDS Outbox

\* Two services subscribe to one event type, as playlist and queue do to
\* UserCreated, and a third channel carries another type.
Startup3 == <<"playlist/user-created", "queue/user-created", "queue/loaded-song">>
Listens3 == [b \in Subscribers |->
               IF b = "queue/loaded-song" THEN "LoadedSong" ELSE "UserCreated"]
=============================================================================
