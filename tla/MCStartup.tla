----------------------------- MODULE MCStartup -----------------------------
(* The small instance of Startup.tla that TLC checks: a machine that has   *)
(* the required variables and one peculiarity each, some of them a .env.   *)
EXTENDS Startup, TLC

Nothing == [v \in Variables |-> Unset]
Usual == [v \in Variables |-> IF v \in Required THEN Word(2) ELSE Unset]

Machine(env, lines) ==
    [environment |-> env @@ Usual, dotEnv |-> lines @@ Nothing, dotEnvOk |-> TRUE]

None == <<>>
Unwanted == "database" :> Unset

MCMachines ==
    {Machine(None, None), [Machine(None, None) EXCEPT !.dotEnvOk = FALSE],
     \* a required variable in neither place, in the file, in both
     Machine(Unwanted, None), Machine(Unwanted, "database" :> Word(3)),
     Machine(None, "database" :> Word(3) @@ "capacity" :> Int_(7)),
     \* the older variable, text that does not parse, values out of range
     Machine("capacity" :> Int_(5), "BUFFER_CAPACITY" :> Int_(6)),
     Machine("capacity" :> Int_(5) @@ "BUFFER_CAPACITY" :> Word(3), None),
     Machine("BUFFER_CAPACITY" :> Int_(6), "BUFFER_CAPACITY" :> Int_(0)),
     Machine("capacity" :> Int_(0), "capacity" :> Int_(7)),
     Machine("batchSize" :> Int_(10001), None),
     Machine("flushRetries" :> Int_(-1), None),
     \* another strategy, intervals that are not positive
     Machine("BUFFER_STRATEGY" :> Word(4), "strategy" :> Memory),
     Machine("flushInterval" :> Int_(0), "flushInterval" :> Dur(50)),
     Machine("flushInterval" :> Dur(-1), None),
     \* the back-off: many retries, a first delay above the maximum
     Machine("maxRetries" :> Int_(6) @@ "baseDelay" :> Dur(10000), None),
     Machine("maxRetries" :> Int_(6) @@ "maxDelay" :> Dur(4000), None),
     Machine("baseDelay" :> Dur(12000) @@ "maxDelay" :> Dur(10000), None),
     Machine("maxRetries" :> Int_(-1) @@ "baseDelay" :> Int_(0),
             "maxDelay" :> Dur(-5))}
=============================================================================
