--------------------------- MODULE MCBufferDepth ---------------------------
(* The small instance of BufferDepth.tla that TLC checks. *)
EXTENDS BufferDepth

CONSTANTS e1, e2, w1, c1

MCEvents == {e1, e2}
MCWorkers == {w1}
MCClosers == {c1}
=============================================================================
