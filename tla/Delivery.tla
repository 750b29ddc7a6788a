------------------------------ MODULE Delivery ------------------------------
(***************************************************************************)
(* What the buffer promises its callers, with no channel, batch, worker or *)
(* retry in sight: an event that is accepted before Close begins ends up   *)
(* persisted, or is given up after its last attempt, and never both lost   *)
(* and forgotten; an event accepted after that ("late") may be left where  *)
(* it is; a refused event is never written.                                *)
(***************************************************************************)
EXTENDS Naturals, FiniteSets

CONSTANTS Events, BatchSize

VARIABLES
    fate,       \* what has become of each event
    closing     \* Close has begun

Fates == {"new", "refused", "pending", "late", "persisted", "dropped"}

Unsettled == {e \in Events : fate[e] \in {"pending", "late"}}

Init == fate = [e \in Events |-> "new"] /\ closing = FALSE

Accept(e) ==
    /\ fate[e] = "new"
    /\ fate' = [fate EXCEPT ![e] = IF closing THEN "late" ELSE "pending"]
    /\ UNCHANGED closing

Reject(e) ==
    /\ fate[e] = "new"
    /\ fate' = [fate EXCEPT ![e] = "refused"]
    /\ UNCHANGED closing

(* Events are persisted, and given up, a batch at a time. *)
Settle(S, how) ==
    /\ S # {} /\ Cardinality(S) <= BatchSize
    /\ fate' = [e \in Events |-> IF e \in S THEN how ELSE fate[e]]
    /\ UNCHANGED closing

BeginClose == ~closing /\ closing' = TRUE /\ UNCHANGED fate

Next ==
    \/ \E e \in Events : Accept(e) \/ Reject(e)
    \/ \E S \in SUBSET Unsettled, how \in {"persisted", "dropped"} : Settle(S, how)
    \/ BeginClose

(* No accepted event is pending for ever: neither a quiet buffer nor a     *)
(* database that keeps failing holds one back.                             *)
EveryEventSettles ==
    \A e \in Events : fate[e] = "pending" ~> fate[e] \in {"persisted", "dropped"}

Safety == Init /\ [][Next]_<<fate, closing>>

Spec == Safety /\ EveryEventSettles
=============================================================================
