----------------------------- MODULE MCDownloads -----------------------------
(* Instances of Downloads for TLC.                                          *)
EXTENDS Downloads

Offer(peer, base, codec, bitrate, size, queue, words) ==
  [raw |-> peer \o base, base |-> base, codec |-> codec, bitrate |-> bitrate,
   size |-> size, queue |-> queue, words |-> words]

MCWords     == {"one", "more", "the"}
MCStopwords == {"the"}

\* Two good files, one that only the relaxed gate accepts, and one of
\* another song.
MCOffers ==
  {Offer("p/", "a.mp3", 1, 4, 8, 1, {"one", "more"}),
   Offer("q/", "b.mp3", 1, 3, 8, 0, {"one"}),
   Offer("p/", "c.flac", 0, 2, 8, 0, {"one", "more"}),
   Offer("q/", "d.flac", 0, 0, 8, 0, {"the"})}

MCStrict == [minBitrate |-> 3, minSize |-> 2, maxSize |-> 9, maxQueue |-> 9]

Request(song, strategy, catno, artist, title) ==
  [song |-> song, strategy |-> strategy, catno |-> catno, artist |-> artist, title |-> title]

MCRequests ==
  {Request("s1", "search", FALSE, TRUE, {{"one", "the"}}),
   Request("s2", "random", TRUE, FALSE, {}),
   Request("s3", "random", FALSE, TRUE, {})}

\* Two files of one name.
TwinOffers ==
  {Offer("p/", "01.mp3", 1, 4, 8, 0, {"one"}), Offer("q/", "01.mp3", 1, 4, 8, 0, {"more"})}

TwinRequests ==
  {Request("s1", "random", FALSE, TRUE, {{"one"}}), Request("s2", "random", FALSE, TRUE, {{"more"}})}
=============================================================================
