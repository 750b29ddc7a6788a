------------------------------ MODULE MCBuffer ------------------------------
(* The small instances of Buffer.tla that TLC checks. *)
EXTENDS BufferProperties

CONSTANTS e1, e2, e3, e4, e5, w1, w2, c1, c2

MCEvents2 == {e1, e2}
MCEvents3 == {e1, e2, e3}
MCEvents4 == {e1, e2, e3, e4}
MCEvents5 == {e1, e2, e3, e4, e5}
MCWorker == {w1}
MCWorkers == {w1, w2}
MCCloser == {c1}
MCClosers == {c1, c2}

Symmetry4 == Permutations(MCEvents4) \cup Permutations(MCWorkers)
                 \cup Permutations(MCClosers)
Symmetry5 == Permutations(MCEvents5)
=============================================================================
