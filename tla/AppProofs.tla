----------------------------- MODULE AppProofs -----------------------------
(***************************************************************************)
(* Shutdown, proved for every buffer and any number of requests: what the  *)
(* process does to the buffer is what Buffer.tla allows, so the invariants *)
(* of the buffer hold in it, and with them the order of shutdown is enough.*)
(***************************************************************************)
EXTENDS App, BufferProofs

(* Where shutdown stands, what Close has done by then, and what a clean    *)
(* srv.Shutdown means from then on.                                        *)
ShutdownInv ==
    /\ main \in {"running", "stopServer", "closeBuffer", "closeRepo", "exit", "exited"}
    /\ main \in {"running", "stopServer"} =>
          ~srvClean /\ \A c \in Closers : closer[c] = "idle"
    /\ main \in {"closeRepo", "exit", "exited"} => CloseReturned
    /\ \A c \in Closers : closer[c] # "noop"
    /\ \A c \in Closers : closer[c] = "expired" => deadline
    /\ ~repoOpen => main \in {"exit", "exited"}
    /\ main # "running" => ~listening
    /\ srvClean => Idle /\ (done => atClose = Elems(admitted))
    /\ Elems(ch) \subseteq Elems(admitted)

-----------------------------------------------------------------------------
(* The process takes steps of the buffer only: the buffer sees them as its *)
(* own, or not at all.                                                     *)
LEMMA AppStepIsBufferStep == [AppNext]_<<vars, appVars>> => [Next]_vars
<1> SUFFICES ASSUME [AppNext]_<<vars, appVars>> PROVE [Next]_vars
  OBVIOUS
<1>1. ASSUME NEW e \in Events, Arrive(e) \/ Handle(e) PROVE [Next]_vars
  BY <1>1 DEF Arrive, Handle, Next
<1>2. CASE BufferStep
  BY <1>2 DEF BufferStep, Next, WorkerStep
<1>3. CASE CloseBuffer
  BY <1>3 DEF CloseBuffer, Next, CloseStep
<1>4. CASE Signal
  BY <1>4 DEF Signal, Next
<1>5. CASE ServerFails \/ BeginShutdown \/ ServerStopped \/ BufferClosed \/ CloseRepo
             \/ Exit \/ DeadlineExpires \/ UNCHANGED <<vars, appVars>>
  BY <1>5 DEF ServerFails, BeginShutdown, ServerStopped, BufferClosed, CloseRepo, Exit,
              DeadlineExpires
<1> QED BY <1>1, <1>2, <1>3, <1>4, <1>5 DEF AppNext

(* The buffer's theorems hold in the process. *)
THEOREM AppRunsTheBuffer == AppSpec => Spec
<1>1. AppInit => Init
  BY DEF AppInit
<1> QED BY <1>1, AppStepIsBufferStep, PTL DEF AppSpec, Spec

-----------------------------------------------------------------------------

(* The goroutines of the buffer do not touch Close or what was admitted,   *)
(* and take from the channel only.                                         *)
LEMMA GoroutinesOnlyReceive ==
    ASSUME TypeOK, LoopStep \/ \E w \in Workers : WorkerStep(w),
           Elems(ch) \subseteq Elems(admitted)
    PROVE  /\ UNCHANGED <<done, closer, atClose, admitted>>
           /\ Elems(ch') \subseteq Elems(admitted)
<1>1. CASE Receive \/ DrainReceive
  <2>1. ch # <<>> /\ ch' = Tail(ch) /\ UNCHANGED <<closeVars, pubVars>>
    BY <1>1 DEF Receive, DrainReceive
  <2>2. Elems(ch') \subseteq Elems(ch)
    BY <2>1, ElemsHeadTail DEF TypeOK
  <2> QED BY <2>1, <2>2 DEF closeVars, pubVars
<1>2. CASE \/ \E w \in Workers : SpawnWorker(w)
           \/ StartTicker \/ Tick \/ SeeDone \/ Dispatch \/ DrainStop \/ CloseTrigger
           \/ LoopEnds
  BY <1>2 DEF SpawnWorker, StartTicker, Tick, SeeDone, Dispatch, DrainStop, CloseTrigger,
              LoopEnds, closeVars, pubVars
<1>3. CASE \E w \in Workers : WorkerStep(w)
  BY <1>3 DEF WorkerStep, TakeBatch, WorkerEnds, FlushOk, FlushFails, Wake, closeVars,
              pubVars
<1> QED BY <1>1, <1>2, <1>3 DEF LoopStep

(* A handler admits an event to both the channel and the record of it.     *)
LEMMA PublishAdmits ==
    ASSUME TypeOK, NEW e \in Events, Publish(e), Elems(ch) \subseteq Elems(admitted)
    PROVE  /\ UNCHANGED <<done, closer, atClose>>
           /\ Elems(ch') \subseteq Elems(admitted')
<1>1. CASE Admit(e)
  BY <1>1, ElemsAppend DEF Admit, TypeOK, closeVars
<1>2. CASE \E callCtxDone \in BOOLEAN : Refuse(e, callCtxDone)
  BY <1>2 DEF Refuse, closeVars
<1> QED BY <1>1, <1>2 DEF Publish

(* No step of the process breaks the order of shutdown. *)
LEMMA ShutdownStep ==
    ASSUME IInv, ShutdownInv, [AppNext]_<<vars, appVars>>
    PROVE  ShutdownInv'
<1> USE DEF ShutdownInv, Idle, CloseReturned
<1>1. ASSUME NEW e \in Events, Arrive(e)
      PROVE  ShutdownInv'
  BY <1>1 DEF Arrive, vars, closeVars, pubVars
<1>2. ASSUME NEW e \in Events, Handle(e)
      PROVE  ShutdownInv'
  <2>1. ~srvClean
    BY <1>2 DEF Handle
  <2> QED BY <1>2, <2>1, PublishAdmits DEF Handle, IInv
<1>3. CASE ServerFails
  BY <1>3 DEF ServerFails, vars, closeVars, pubVars
<1>4. CASE BufferStep
  <2>1. LoopStep \/ \E w \in Workers : WorkerStep(w)
    BY <1>4 DEF BufferStep, WorkerStep
  <2> QED BY <1>4, <2>1, GoroutinesOnlyReceive DEF BufferStep, appVars, IInv
<1>5. CASE Signal
  BY <1>5 DEF Signal, CancelContext, appVars, closeVars, pubVars
<1>6. CASE BeginShutdown
  BY <1>6 DEF BeginShutdown, vars, closeVars, pubVars
<1>7. CASE ServerStopped
  <2>1. ~done
    BY <1>7 DEF ServerStopped, IInv, CloseProtocol
  <2> QED BY <1>7, <2>1 DEF ServerStopped, ShutdownReturns, vars, closeVars, pubVars
<1>8. CASE CloseBuffer
  <2> SUFFICES ASSUME NEW c \in Closers,
                      \/ CloseCheck(c) \/ CloseSignal(c) \/ CloseFinished(c)
                      \/ deadline /\ CloseExpires(c)
               PROVE  ShutdownInv'
    BY <1>8 DEF CloseBuffer
  <2>1. main = "closeBuffer" /\ UNCHANGED appVars
    BY <1>8 DEF CloseBuffer
  <2>2. CASE CloseCheck(c)
    <3>1. ~done
      BY <2>2, OneCloser DEF CloseCheck, IInv, CloseProtocol
    <3> QED BY <2>1, <2>2, <3>1 DEF CloseCheck, appVars, pubVars, IInv, TypeOK
  <2>3. CASE CloseSignal(c)
    BY <2>1, <2>3 DEF CloseSignal, appVars, pubVars, closeVars, IInv, TypeOK
  <2>4. CASE CloseFinished(c)
    BY <2>1, <2>4 DEF CloseFinished, appVars, pubVars, IInv, TypeOK
  <2>5. CASE deadline /\ CloseExpires(c)
    BY <2>1, <2>5 DEF CloseExpires, appVars, pubVars, IInv, TypeOK
  <2> QED BY <2>2, <2>3, <2>4, <2>5
<1>9. CASE BufferClosed \/ CloseRepo \/ Exit \/ DeadlineExpires
  BY <1>9 DEF BufferClosed, CloseRepo, Exit, DeadlineExpires, vars, closeVars, pubVars
<1>10. CASE UNCHANGED <<vars, appVars>>
  BY <1>10 DEF vars, appVars, closeVars, pubVars
<1> QED BY <1>1, <1>2, <1>3, <1>4, <1>5, <1>6, <1>7, <1>8, <1>9, <1>10 DEF AppNext

(* The invariants of the buffer and of shutdown hold for the process. *)
THEOREM AppInvariance == AppSpec => [](IInv /\ ShutdownInv)
<1>1. AppInit => ShutdownInv
  BY ElemsEmpty DEF AppInit, Init, ShutdownInv, Idle
<1>2. IInv /\ ShutdownInv /\ [AppNext]_<<vars, appVars>> => ShutdownInv'
  BY ShutdownStep
<1> QED BY <1>1, <1>2, AppRunsTheBuffer, Invariance, PTL DEF AppSpec

-----------------------------------------------------------------------------

(* The connection is closed after the workers have gone, unless the        *)
(* deadline cut Close short: only one call of Close, which found b.done    *)
(* open, and returned nil at a counter of zero or by the deadline.         *)
THEOREM ConnectionOutlivesWorkers == AppSpec => []RepoOutlivesWorkers
<1>1. IInv /\ ShutdownInv => RepoOutlivesWorkers
  <2> SUFFICES ASSUME IInv, ShutdownInv, ~repoOpen
               PROVE  wg = 0 \/ (deadline /\ \A c \in Closers : closer[c] = "expired")
    BY DEF RepoOutlivesWorkers
  <2>1. PICK c \in Closers : Closers = {c}
    BY OneCloser
  <2>2. closer[c] \in {"nil", "expired"}
    BY DEF ShutdownInv, CloseReturned
  <2>3. CASE closer[c] = "nil"
    BY <2>3 DEF IInv, CloseProtocol
  <2>4. CASE closer[c] = "expired"
    BY <2>1, <2>4 DEF ShutdownInv
  <2> QED BY <2>2, <2>3, <2>4
<1> QED BY <1>1, AppInvariance, PTL

(* A shutdown in time leaves nothing: the workers have gone, so all that   *)
(* could be left is in the channel, and what was admitted before b.done    *)
(* was closed, which is everything, is not there.                          *)
THEOREM CleanShutdown == AppSpec => []CleanShutdownLeavesNothing
<1>1. IInv /\ ShutdownInv => CleanShutdownLeavesNothing
  <2> SUFFICES ASSUME IInv, ShutdownInv, srvClean, NEW c \in Closers, closer[c] = "nil"
               PROVE  /\ Held = {} /\ Idle
                      /\ \A e \in Events : reply[e] = "nil" => Settled(e)
    BY DEF CleanShutdownLeavesNothing
  <2>1. loop = "ended" /\ \A w \in Workers : worker[w] = "gone"
    BY ZeroMeansGone DEF IInv, CloseProtocol
  <2>2. batch = <<>> /\ flushTrigger = <<>> /\ \A w \in Workers : wbatch[w] = <<>>
    BY <2>1, WorkersAssumption DEF IInv, Lifecycle
  <2>3. Elems(ch) = {}
    BY <2>1 DEF IInv, CloseProtocol, Lifecycle, ShutdownInv
  <2>4. Held = {}
    BY <2>2, <2>3, HeldIn, ElemsEmpty
  <2>5. Idle
    BY DEF ShutdownInv
  <2> QED BY <2>4, <2>5 DEF IInv, NothingVanishes
<1> QED BY <1>1, AppInvariance, PTL
=============================================================================
