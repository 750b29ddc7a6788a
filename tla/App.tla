--------------------------------- MODULE App ---------------------------------
(***************************************************************************)
(* The running process (internal/app/app.go, cmd/ingestor/main.go): the    *)
(* HTTP server whose handlers publish, the buffer of Buffer.tla, and the   *)
(* main goroutine that waits for a signal in Run and then takes the        *)
(* process down in shutdown, under one deadline for all of it.             *)
(*                                                                         *)
(* The context that the signal cancels is the one startBuffer gave to the  *)
(* flush workers: ctxDone of Buffer.tla.                                   *)
(***************************************************************************)
EXTENDS BufferProperties

VARIABLES
    main,        \* where Run and shutdown stand
    listening,   \* ListenAndServe accepts connections
    request,     \* the request that carries each event
    srvClean,    \* srv.Shutdown returned nil: every handler had finished
    deadline,    \* the 10 seconds of shutdown's context are over
    repoOpen     \* repo.Close has not been called

appVars == <<main, listening, request, srvClean, deadline, repoOpen>>

(* Close has one caller: shutdown. *)
ASSUME OneCloser == \E c \in Closers : Closers = {c}

AppInit ==
    /\ Init
    /\ main = "running" /\ listening = TRUE
    /\ request = [e \in Events |-> "none"]
    /\ srvClean = FALSE /\ deadline = FALSE /\ repoOpen = TRUE

(* main.main has returned, or a goroutine has panicked: the goroutines     *)
(* that were left are gone.  Every action needs a process that is alive.   *)
Alive == main # "exited" /\ ~panic

-----------------------------------------------------------------------------
(* The server and its handlers.                                            *)

Arrive(e) ==
    /\ Alive /\ listening /\ request[e] = "none"
    /\ request' = [request EXCEPT ![e] = "active"]
    /\ UNCHANGED <<vars, main, listening, srvClean, deadline, repoOpen>>

(* The handler publishes and replies 202 or 503; the request's context is  *)
(* the connection's, which shutdown does not cancel.                       *)
Handle(e) ==
    /\ Alive /\ request[e] = "active"
    /\ Publish(e)
    /\ request' = [request EXCEPT ![e] = "replied"]
    /\ UNCHANGED <<main, listening, srvClean, deadline, repoOpen>>

(* ListenAndServe fails: the error is logged and Run goes on waiting. *)
ServerFails ==
    /\ Alive /\ main = "running" /\ listening
    /\ listening' = FALSE
    /\ UNCHANGED <<vars, main, request, srvClean, deadline, repoOpen>>

-----------------------------------------------------------------------------
(* Run and shutdown.                                                       *)

(* The signal cancels the context and Run calls shutdown; srv.Shutdown     *)
(* closes the listener at once and then waits for the handlers.            *)
BeginShutdown ==
    /\ Alive /\ main = "running" /\ ctxDone
    /\ main' = "stopServer" /\ listening' = FALSE
    /\ UNCHANGED <<vars, request, srvClean, deadline, repoOpen>>

Idle == \A e \in Events : request[e] # "active"

(* srv.Shutdown may return, with or without an error.  Its mutants: the    *)
(* context has no deadline, and srv.Close, which does not wait.            *)
ShutdownUnbounded(clean) == clean /\ Idle
ShutdownAtOnce(clean) == clean
ShutdownReturns(clean) == IF clean THEN Idle ELSE deadline

ServerStopped ==
    /\ Alive /\ main = "stopServer"
    /\ \E clean \in BOOLEAN : ShutdownReturns(clean) /\ srvClean' = clean
    /\ main' = "closeBuffer"
    /\ UNCHANGED <<vars, listening, request, deadline, repoOpen>>

(* b.Close(ctx): the context is the one srv.Shutdown may have used up.     *)
CloseBuffer ==
    /\ Alive /\ main = "closeBuffer"
    /\ \E c \in Closers :
         \/ CloseCheck(c) \/ CloseSignal(c) \/ CloseFinished(c)
         \/ deadline /\ CloseExpires(c)
    /\ UNCHANGED appVars

(* Close has returned.  Its mutant: Close has a goroutine of its own. *)
CloseCalled == \A c \in Closers : closer[c] # "idle"
CloseReturned == \A c \in Closers : closer[c] \in {"nil", "expired", "noop"}

BufferClosed ==
    /\ Alive /\ main = "closeBuffer" /\ CloseReturned
    /\ main' = "closeRepo"
    /\ UNCHANGED <<vars, listening, request, srvClean, deadline, repoOpen>>

CloseRepo ==
    /\ Alive /\ main = "closeRepo"
    /\ repoOpen' = FALSE /\ main' = "exit"
    /\ UNCHANGED <<vars, listening, request, srvClean, deadline>>

Exit ==
    /\ Alive /\ main = "exit" /\ main' = "exited"
    /\ UNCHANGED <<vars, listening, request, srvClean, deadline, repoOpen>>

DeadlineExpires ==
    /\ Alive /\ main # "running" /\ ~deadline
    /\ deadline' = TRUE
    /\ UNCHANGED <<vars, main, listening, request, srvClean, repoOpen>>

-----------------------------------------------------------------------------
(* The buffer's own steps.  A Flush cannot succeed on a closed connection. *)

BufferStep ==
    /\ Alive
    /\ \/ LoopStep
       \/ \E w \in Workers :
            \/ TakeBatch(w) \/ WorkerEnds(w) \/ Wake(w)
            \/ repoOpen /\ FlushOk(w)
            \/ FlushFails(w) /\ (repoOpen \/ UNCHANGED rows)
    /\ UNCHANGED appVars

Signal == Alive /\ CancelContext /\ UNCHANGED appVars

AppNext ==
    \/ \E e \in Events : Arrive(e) \/ Handle(e)
    \/ ServerFails \/ BufferStep \/ Signal
    \/ BeginShutdown \/ ServerStopped \/ CloseBuffer \/ BufferClosed
    \/ CloseRepo \/ Exit \/ DeadlineExpires
    \/ ~Alive /\ UNCHANGED <<vars, appVars>>

AppSpec == AppInit /\ [][AppNext]_<<vars, appVars>>

(* The main goroutine and the buffer's goroutines run, and the ten seconds *)
(* pass.  A handler may hang for ever: the server sets no read timeout.    *)
AppFairness ==
    /\ WF_<<vars, appVars>>(BeginShutdown \/ ServerStopped \/ CloseBuffer
                              \/ BufferClosed \/ CloseRepo \/ Exit)
    /\ WF_<<vars, appVars>>(DeadlineExpires)
    /\ WF_<<vars, appVars>>(BufferStep)

AppFairSpec == AppSpec /\ AppFairness

-----------------------------------------------------------------------------

(* When srv.Shutdown and Close both return nil, the order of shutdown has  *)
(* done its work before the database connection is closed: no event is     *)
(* left in memory, and none is accepted any more.  It fails if a handler   *)
(* can still publish after Close, or Close returns before the workers.     *)
CleanShutdownLeavesNothing ==
    srvClean /\ (\E c \in Closers : closer[c] = "nil") =>
        /\ Held = {}
        /\ Idle
        /\ \A e \in Events : reply[e] = "nil" => Settled(e)

(* While the process runs, an event that Publish accepted is not lost to a *)
(* closed connection: the connection outlives the workers unless the       *)
(* deadline cut Close short.                                               *)
RepoOutlivesWorkers ==
    ~repoOpen => wg = 0 \/ (deadline /\ \A c \in Closers : closer[c] = "expired")

(* A signal brings the process down, whatever the clients and the database *)
(* do: a handler that never returns holds it up until the deadline only.   *)
SignalTerminates == ctxDone ~> (main = "exited")

(* app.go:88-91: the order of shutdown is there so that no data is lost,   *)
(* and step 2 flushes the remaining events to the database.  Asked only of *)
(* a shutdown that had time enough, with a database that never fails by    *)
(* itself.                                                                 *)
ShutdownLosesNoData ==
    ~Alive /\ srvClean /\ (\E c \in Closers : closer[c] = "nil") =>
        \A e \in Events : reply[e] = "nil" => rows[e] > 0
=============================================================================
