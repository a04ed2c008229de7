-------------------------- MODULE MCHttpRangeSource --------------------------
(***************************************************************************)
(* HttpRangeSource with the files it may find on the server.               *)
(***************************************************************************)
EXTENDS HttpRangeSource

\* A plain MP4, and a fragmented one whose index is in the last block: its fragments
\* begin and end inside blocks, and share one.
Shared == <<[offset |-> 1, size |-> 2], [offset |-> 3, size |-> 3]>>
Files == {<<>>, Shared}

\* The same bytes, begun and ended inside a block: six in four blocks.
Wide == {<<[offset |-> 1, size |-> 3], [offset |-> 4, size |-> 3]>>}

=============================================================================
