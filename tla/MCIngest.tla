------------------------------ MODULE MCIngest ------------------------------
(* The small instance of Ingest.tla that TLC checks: a bulk request with   *)
(* an invalid item, a broken one and two valid ones, a single request, and *)
(* a bulk request whose body is refused.                                   *)
EXTENDS Ingest

CONSTANTS b1, b2, s1, v1, v2, v3, v4, x1, x2

MCRequests == {b1, b2, s1}
MCItems == {v1, v2, v3, v4, x1, x2}
MCPayload == b1 :> <<x1, v1, x2, v2>> @@ b2 :> <<v4>> @@ s1 :> <<v3>>
MCRoute == b1 :> "bulk" @@ b2 :> "bulk" @@ s1 :> "ingest"
MCShape == b1 :> "ok" @@ b2 :> "badJSON" @@ s1 :> "ok"
MCVerdict == [i \in MCItems |-> IF i = x1 THEN "invalid"
                                ELSE IF i = x2 THEN "broken" ELSE "valid"]
MCLimit == [p \in Routes |-> 1]
=============================================================================
