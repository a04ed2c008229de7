--------------------------- MODULE MCMediaDecoder ---------------------------
(***************************************************************************)
(* A file of two fragments in which one stream runs ahead of the other by *)
(* more than its queue and the codec hold, first the video and then the    *)
(* meshes, so that packets are parked and deferred on the way; its last    *)
(* frame has no mesh; seeks land at the fragments.  Deep is a geometry     *)
(* queue deeper than the video queue and the codec's delay, as 128 is      *)
(* deeper than 32 and 7.                                                   *)
(***************************************************************************)
EXTENDS MediaDecoder

v == "video"
g == "geometry"
a == "audio"

Skewed == <<v, a, v, v, g, a, g, g, g, g, a, v, v, g, a, v, v>>
SkewedLandings == {1, 9}
One == [k \in Stream |-> 1]
Deep == [One EXCEPT ![g] = 2]
TwoSeeks == [seeks |-> 2, damaged |-> {}, reads |-> FALSE, stops |-> FALSE]
Everything == [seeks |-> 1, damaged |-> {13}, reads |-> TRUE, stops |-> TRUE]
Some == {TwoSeeks, Everything}
=============================================================================
