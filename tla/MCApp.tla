-------------------------------- MODULE MCApp --------------------------------
(* The small instance of App.tla that TLC checks. *)
EXTENDS App

CONSTANTS e1, e2, e3, w1, w2, c1

MCEvents2 == {e1, e2}
MCEvents3 == {e1, e2, e3}
MCWorkers == {w1, w2}
MCCloser == {c1}
=============================================================================
