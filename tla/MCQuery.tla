------------------------------- MODULE MCQuery -------------------------------
(* The small instance of Query.tla that TLC checks: one event below the    *)
(* boundary of two ranges and two on it, a plain request for the one range *)
(* and a grouped one for the other, and one that is no GET and is refused  *)
(* before anybody sees that its range is empty.                            *)
EXTENDS Query, TLC

CONSTANTS e1, e2, e3, u1, u2, g1, g2, q1, q2, q3

MCEvents == {e1, e2, e3}
MCTime == e1 :> 1 @@ e2 :> 2 @@ e3 :> 2
MCUser == e1 :> u1 @@ e2 :> u1 @@ e3 :> u2
MCCopies == e1 :> 1 @@ e2 :> 2 @@ e3 :> 1
MCOne == [e \in MCEvents |-> 1]
MCGroup == "channel" :> (e1 :> g1 @@ e2 :> g1 @@ e3 :> g2)
MCQueries == {q1, q2, q3}
MCQuery == {q2}
MCParams ==
    q1 :> [get |-> TRUE, named |-> TRUE, from |-> 1, to |-> 2, groupBy |-> ""]
    @@ q2 :> [get |-> TRUE, named |-> TRUE, from |-> 2, to |-> 3, groupBy |-> "channel"]
    @@ q3 :> [get |-> FALSE, named |-> TRUE, from |-> 2, to |-> 2, groupBy |-> ""]
=============================================================================
