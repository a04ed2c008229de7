--------------------------- MODULE MCPlayerSession ---------------------------
(***************************************************************************)
(* Files for PlayerSession: one with and one without audio, one behind a   *)
(* server and damaged, and the ways in which an open can fail.             *)
(***************************************************************************)
EXTENDS PlayerSession

Tracks(v, a, g) == [video |-> v, audio |-> a, geometry |-> g]
Good == [exists |-> TRUE, mp4 |-> TRUE, remote |-> FALSE, damaged |-> FALSE,
         tracks |-> Tracks(1, 1, 1), codecs |-> {"video", "audio"}]

FileOf ==
  [sound |-> [Good EXCEPT !.damaged = TRUE],
   silent |-> [Good EXCEPT !.tracks = Tracks(1, 0, 1)],
   remote |-> [Good EXCEPT !.remote = TRUE],
   absent |-> [Good EXCEPT !.exists = FALSE],
   corrupt |-> [Good EXCEPT !.mp4 = FALSE],
   twoVideos |-> [Good EXCEPT !.tracks = Tracks(2, 1, 1)],
   noVideoCodec |-> [Good EXCEPT !.codecs = {}],
   noAudioCodec |-> [Good EXCEPT !.codecs = {"video"}]]
=============================================================================
