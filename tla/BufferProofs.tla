---------------------------- MODULE BufferProofs ----------------------------
(***************************************************************************)
(* Proofs about the buffer for every number of events, workers and callers *)
(* of Close, and every capacity, batch size and retry count.               *)
(***************************************************************************)
EXTENDS BufferProperties, SequenceTheorems, FiniteSetTheorems, TLAPS

-----------------------------------------------------------------------------
(* Sequences and the sets of their elements.                               *)

(* Appending an event to a queue adds that event to what the queue holds.  *)
LEMMA ElemsAppend ==
    ASSUME NEW S, NEW s \in Seq(S), NEW x \in S
    PROVE  /\ Append(s, x) \in Seq(S)
           /\ Len(Append(s, x)) = Len(s) + 1
           /\ Append(s, x) # <<>>
           /\ Elems(Append(s, x)) = Elems(s) \cup {x}
<1> DEFINE t == Append(s, x)
<1>1. /\ t \in Seq(S) /\ Len(t) = Len(s) + 1 /\ t # <<>>
      /\ Len(s) \in Nat /\ DOMAIN s = 1..Len(s) /\ DOMAIN t = 1..(Len(s) + 1)
      /\ t[Len(s) + 1] = x /\ \A i \in 1..Len(s) : t[i] = s[i]
  BY AppendProperties
<1>2. Elems(t) = Elems(s) \cup {x}
  BY <1>1 DEF Elems
<1> QED BY <1>1, <1>2

(* Receiving from a queue that is not empty splits what it holds.          *)
LEMMA ElemsHeadTail ==
    ASSUME NEW S, NEW s \in Seq(S), s # <<>>
    PROVE  /\ Head(s) \in S
           /\ Tail(s) \in Seq(S)
           /\ Len(Tail(s)) = Len(s) - 1
           /\ Len(s) > 0
           /\ Elems(s) = {Head(s)} \cup Elems(Tail(s))
<1>1. Len(s) \in Nat /\ Len(s) > 0 /\ DOMAIN s = 1..Len(s)
  BY EmptySeq
<1>2. /\ Head(s) = s[1] /\ Head(s) \in S /\ Tail(s) \in Seq(S)
      /\ Len(Tail(s)) = Len(s) - 1 /\ DOMAIN Tail(s) = 1..(Len(s) - 1)
      /\ \A i \in 1..(Len(s) - 1) : Tail(s)[i] = s[i + 1]
  BY <1>1
<1>3. Elems(s) \subseteq {Head(s)} \cup Elems(Tail(s))
  <2> SUFFICES ASSUME NEW i \in 1..Len(s), i # 1
               PROVE  s[i] \in Elems(Tail(s))
    BY <1>1, <1>2 DEF Elems
  <2>1. i - 1 \in 1..(Len(s) - 1) /\ Tail(s)[i - 1] = s[i]
    BY <1>1, <1>2
  <2> QED BY <2>1, <1>2 DEF Elems
<1>4. {Head(s)} \cup Elems(Tail(s)) \subseteq Elems(s)
  BY <1>1, <1>2 DEF Elems
<1> QED BY <1>1, <1>2, <1>3, <1>4

(* An empty queue holds nothing, and is a queue of any type.               *)
LEMMA ElemsEmpty == Elems(<<>>) = {} /\ \A S : <<>> \in Seq(S)
  BY DEF Elems

(* The elements of a queue are of the queue's type.                        *)
LEMMA ElemsType ==
    ASSUME NEW S, NEW s \in Seq(S)
    PROVE  Elems(s) \subseteq S
  BY DEF Elems

(* flushWithRetry tries at least once, whatever cfg.FlushRetries is.       *)
LEMMA MaxAttemptsType == MaxAttempts \in Nat /\ MaxAttempts >= 1
  BY ConfigAssumption DEF MaxAttempts


(* The goroutines counted by the WaitGroup are finitely many.              *)
LEMMA RunningFinite ==
    /\ IsFiniteSet(Running)
    /\ Cardinality(Running) \in 0..Cardinality(Workers)
    /\ Cardinality(Workers) \in Nat
<1>1. IsFiniteSet(Workers) /\ Running \subseteq Workers
  BY WorkersAssumption DEF Running
<1> QED BY <1>1, FS_Subset, FS_CardinalityType

-----------------------------------------------------------------------------
(* Every state of the buffer: the goroutines the WaitGroup counts are      *)
(* those that are still needed (BufferProperties explains the conjuncts).  *)
LEMMA LifecycleInit == Init => Lifecycle
<1> SUFFICES ASSUME Init PROVE Lifecycle
  OBVIOUS
<1>1. Running = {}
  BY DEF Init, Running
<1>2. Cardinality(Running) = 0
  BY <1>1, FS_EmptySet
<1> QED BY <1>2, BatchSizeAssumption DEF Init, Lifecycle

(* A step that leaves the workers alone leaves their number alone.         *)
LEMMA RunningSame == worker' = worker => Running' = Running
  BY DEF Running

(* Every step keeps it: a worker is counted when it is spawned and leaves  *)
(* only when flushTrigger is closed and empty, the loop leaves last.       *)
LEMMA LifecycleStep ==
    ASSUME TypeOK, Lifecycle, [Next]_vars
    PROVE  Lifecycle'
<1> USE BatchSizeAssumption
<1>0. /\ IsFiniteSet(Running) /\ IsFiniteSet(Workers)
      /\ Cardinality(Running) \in Nat
  BY RunningFinite, WorkersAssumption
<1>1. CASE UNCHANGED vars
  BY <1>1 DEF vars, loopVars, queueVars, workerVars, closeVars, Lifecycle, Running
<1>2. ASSUME NEW e \in Events, Publish(e)
      PROVE  Lifecycle'
  BY <1>2, RunningSame DEF Publish, Admit, Refuse, loopVars, queueVars,
              workerVars, closeVars, Lifecycle
<1>3. ASSUME NEW w \in Workers, SpawnWorker(w)
      PROVE  Lifecycle'
  <2>1. Running' = Running \cup {w} /\ w \notin Running
    BY <1>3 DEF SpawnWorker, Running, TypeOK
  <2>2. Cardinality(Running') = Cardinality(Running) + 1
    BY <2>1, <1>0, FS_AddElement
  <2> QED BY <2>2, <1>0, <1>3 DEF SpawnWorker, Lifecycle, TypeOK, loopVars,
             queueVars, closeVars
<1>4. CASE StartTicker
  <2>1. Len(batch) < BatchSize
    BY <1>4 DEF StartTicker, Lifecycle
  <2> QED BY <2>1, <1>4 DEF StartTicker, Lifecycle, Running, queueVars, workerVars,
             closeVars
<1>5. CASE Receive
  BY <1>5, RunningSame DEF Receive, Full, TypeOK, Lifecycle, queueVars, workerVars,
     closeVars
<1>6. CASE Tick \/ SeeDone
  <2>1. CASE Tick
    BY <1>6, <2>1, RunningSame DEF Tick, NotEmpty, Lifecycle, queueVars, workerVars,
       closeVars
  <2>2. CASE SeeDone
    BY <1>6, <2>2, RunningSame DEF SeeDone, AfterDone, Lifecycle, queueVars,
       workerVars, closeVars
  <2> QED BY <1>6, <2>1, <2>2
<1>7. CASE Dispatch
  BY <1>7, RunningSame DEF Dispatch, SendReady, BatchReset, Lifecycle, loopVars,
     queueVars, workerVars, closeVars
<1>8. CASE DrainReceive \/ DrainStop
  <2>1. CASE DrainReceive
    BY <2>1, RunningSame DEF DrainReceive, Lifecycle, queueVars, workerVars, closeVars
  <2>2. CASE DrainStop
    BY <2>2, RunningSame DEF DrainStop, Lifecycle, queueVars, workerVars, closeVars
  <2> QED BY <1>8, <2>1, <2>2
<1>9. CASE CloseTrigger \/ LoopEnds
  <2>1. CASE CloseTrigger
    BY <2>1, RunningSame DEF CloseTrigger, Lifecycle, workerVars, closeVars
  <2>2. CASE LoopEnds
    BY <2>2, <1>0, RunningSame DEF LoopEnds, Lifecycle, queueVars, workerVars,
       closeVars
  <2> QED BY <1>9, <2>1, <2>2
<1>10. ASSUME NEW w \in Workers, WorkerEnds(w)
       PROVE  Lifecycle'
  <2>1. Running' = Running \ {w} /\ w \in Running
    BY <1>10 DEF WorkerEnds, RangeOver, Running, TypeOK
  <2>2. Cardinality(Running') = Cardinality(Running) - 1
    BY <2>1, <1>0, FS_RemoveElement
  <2>3. /\ UNCHANGED <<batch, loop, flushTrigger, triggerClosed, done, wbatch>>
        /\ flushTrigger = <<>> /\ triggerClosed /\ worker[w] = "range"
        /\ wg' = wg - 1 /\ worker' = [worker EXCEPT ![w] = "gone"]
        /\ worker \in [Workers -> WorkerStates]
    BY <1>10 DEF WorkerEnds, RangeOver, TypeOK, loopVars, queueVars, closeVars
  <2>4. wg' = Cardinality(Running') + IF loop' = "ended" THEN 0 ELSE 1
    BY <2>2, <2>3, <1>0 DEF Lifecycle
  <2> QED BY <2>3, <2>4 DEF Lifecycle
<1>11. ASSUME NEW w \in Workers, TakeBatch(w) \/ FlushOk(w) \/ FlushFails(w) \/ Wake(w)
       PROVE  Lifecycle'
  <2>1. /\ Running' = Running
        /\ UNCHANGED <<batch, loop, triggerClosed, done, wg>>
        /\ flushTrigger' # flushTrigger => flushTrigger # <<>>
        /\ \A v \in Workers : v # w => worker'[v] = worker[v] /\ wbatch'[v] = wbatch[v]
    BY <1>11 DEF TakeBatch, FlushOk, FlushFails, Wake, Running, TypeOK, loopVars,
                 queueVars, closeVars
  <2>2. /\ worker[w] \in {"range", "flush", "sleep"}
        /\ worker'[w] \in {"range", "flush", "sleep"}
        /\ worker'[w] = "range" => wbatch'[w] = <<>>
    BY <1>11 DEF TakeBatch, FlushOk, FlushFails, Wake, TypeOK
  <2>3. \A v \in Workers :
          /\ worker'[v] = "unborn" => loop' = "spawn"
          /\ worker'[v] = "gone" => triggerClosed' /\ flushTrigger' = <<>>
          /\ worker'[v] \notin {"flush", "sleep"} => wbatch'[v] = <<>>
    BY <2>1, <2>2 DEF Lifecycle
  <2> QED BY <2>1, <2>3 DEF Lifecycle
<1>12. ASSUME NEW c \in Closers, CloseStep(c)
       PROVE  Lifecycle'
  <2>1. UNCHANGED <<loopVars, queueVars, workerVars, wg>> /\ (done => done')
    BY <1>12 DEF CloseStep, CloseCheck, CloseSignal, CloseFinished, CloseExpires,
       closeVars
  <2> QED BY <2>1, RunningSame DEF Lifecycle, loopVars, queueVars, workerVars
<1>13. CASE CancelContext
  BY <1>13, RunningSame DEF CancelContext, Lifecycle, loopVars, queueVars,
     workerVars, closeVars
<1> QED
  BY <1>1, <1>2, <1>3, <1>4, <1>5, <1>6, <1>7, <1>8, <1>9, <1>10, <1>11, <1>12, <1>13
     DEF Next, LoopStep, WorkerStep

-----------------------------------------------------------------------------
(* Types.  The bound on the WaitGroup's counter comes from Lifecycle, the  *)
(* bound on the loop's batch from what it is in the select.                *)
LEMMA TypeInit == Init => TypeOK
<1> SUFFICES ASSUME Init PROVE TypeOK
  OBVIOUS
<1>1. wg \in 0..(Cardinality(Workers) + 1)
  BY RunningFinite DEF Init
<1>2. <<>> \in Seq(Events) /\ <<>> \in Seq(Seq(Events)) /\ Len(<<>>) = 0
  OBVIOUS
<1>3. attempt \in [Workers -> 0..MaxAttempts]
  BY MaxAttemptsType DEF Init
<1>4. ch \in Seq(Events) /\ batch \in Seq(Events) /\ flushTrigger \in Seq(Seq(Events))
      /\ Len(ch) <= Capacity /\ Len(batch) <= BatchSize /\ Len(flushTrigger) <= TriggerCap
      /\ admitted \in Seq(Events)
  BY <1>2, CapacityAssumption, BatchSizeAssumption, TriggerCapAssumption DEF Init
<1>5. /\ loop \in LoopStates /\ worker \in [Workers -> WorkerStates]
      /\ wbatch \in [Workers -> Seq(Events)] /\ closer \in [Closers -> CloserStates]
      /\ rows \in [Events -> Nat] /\ dropped \in SUBSET Events
      /\ reply \in [Events -> {"none", "nil", "ErrPublishFailed"}]
      /\ atClose \in SUBSET Events
  BY <1>2 DEF Init, LoopStates, WorkerStates, CloserStates
<1>6. /\ triggerClosed \in BOOLEAN /\ done \in BOOLEAN /\ ctxDone \in BOOLEAN
      /\ panic \in BOOLEAN
  BY DEF Init
<1> QED
  BY <1>1, <1>3, <1>4, <1>5, <1>6 DEF TypeOK

(* Every step keeps the types. *)
LEMMA TypeStep ==
    ASSUME TypeOK, Lifecycle, Lifecycle', [Next]_vars
    PROVE  TypeOK'
<1> USE CapacityAssumption, BatchSizeAssumption, TriggerCapAssumption, MaxAttemptsType
<1>0. wg' \in 0..(Cardinality(Workers) + 1)
  <2>1. IsFiniteSet(Workers) /\ Running' \subseteq Workers
    BY WorkersAssumption DEF Running
  <2>2. /\ Cardinality(Workers) \in Nat /\ Cardinality(Running') \in Nat
        /\ Cardinality(Running') <= Cardinality(Workers)
    BY <2>1, FS_Subset, FS_CardinalityType
  <2> QED BY <2>2 DEF Lifecycle
<1>1. CASE UNCHANGED vars
  BY <1>1 DEF vars, loopVars, queueVars, workerVars, closeVars, dbVars, pubVars,
     TypeOK
<1>2. ASSUME NEW e \in Events, Publish(e)
      PROVE  TypeOK'
  <2>1. CASE Admit(e)
    <3>1. ch' \in Seq(Events) /\ Len(ch') <= Capacity /\ admitted' \in Seq(Events)
      BY <2>1, ElemsAppend DEF Admit, TypeOK
    <3>2. reply' \in [Events -> {"none", "nil", "ErrPublishFailed"}]
      BY <2>1 DEF Admit, TypeOK
    <3> QED BY <2>1, <3>1, <3>2 DEF Admit, TypeOK, loopVars, queueVars, workerVars,
                                    closeVars, dbVars
  <2>2. ASSUME NEW d \in BOOLEAN, Refuse(e, d)
        PROVE  TypeOK'
    BY <2>2 DEF Refuse, TypeOK, loopVars, queueVars, workerVars, closeVars, dbVars
  <2> QED BY <1>2, <2>1, <2>2 DEF Publish
<1>3. ASSUME NEW w \in Workers, SpawnWorker(w)
      PROVE  TypeOK'
  BY <1>3, <1>0 DEF SpawnWorker, TypeOK, WorkerStates, loopVars, queueVars, closeVars,
              dbVars, pubVars
<1>4. CASE StartTicker \/ Tick \/ SeeDone \/ DrainStop \/ CloseTrigger \/ LoopEnds
  <2>1. /\ UNCHANGED <<ch, batch, flushTrigger, workerVars, closeVars, ctxDone, dbVars, pubVars>>
        /\ loop' \in LoopStates /\ triggerClosed' \in BOOLEAN /\ panic' \in BOOLEAN
    BY <1>4 DEF StartTicker, Tick, SeeDone, AfterDone, DrainStop, CloseTrigger,
                LoopEnds, queueVars, TypeOK, LoopStates
  <2> QED BY <2>1, <1>0 DEF TypeOK, workerVars, closeVars, dbVars, pubVars
<1>5. CASE Receive \/ DrainReceive
  <2>1. /\ UNCHANGED <<queueVars, workerVars, closeVars, ctxDone, panic, dbVars, pubVars>>
        /\ loop' \in LoopStates /\ ch # <<>> /\ ch' = Tail(ch)
        /\ batch' = Append(batch, Head(ch)) /\ Len(batch) < BatchSize
    BY <1>5 DEF Receive, Full, DrainReceive, Lifecycle, TypeOK, LoopStates
  <2>2. /\ ch' \in Seq(Events) /\ Len(ch') <= Capacity
        /\ batch' \in Seq(Events) /\ Len(batch') <= BatchSize
    BY <2>1, ElemsHeadTail, ElemsAppend DEF TypeOK
  <2> QED BY <2>1, <2>2, <1>0 DEF TypeOK, queueVars, workerVars, closeVars, dbVars,
             pubVars
<1>6. CASE Dispatch
  <2>1. CASE triggerClosed
    BY <1>6, <2>1, <1>0 DEF Dispatch, SendReady, BatchReset, TypeOK, loopVars,
       queueVars, workerVars, closeVars,
                            dbVars, pubVars
  <2>2. CASE ~triggerClosed
    <3>1. flushTrigger' \in Seq(Seq(Events)) /\ Len(flushTrigger') <= TriggerCap
      <4>1. flushTrigger' = Append(flushTrigger, batch) /\ Len(flushTrigger) < TriggerCap
        BY <1>6, <2>2 DEF Dispatch, SendReady, BatchReset
      <4>2. /\ flushTrigger' \in Seq(Seq(Events))
            /\ Len(flushTrigger') = Len(flushTrigger) + 1
        BY <4>1, ElemsAppend, batch \in Seq(Events), flushTrigger \in Seq(Seq(Events))
           DEF TypeOK
      <4> QED BY <4>1, <4>2 DEF TypeOK
    <3>2. batch' \in Seq(Events) /\ Len(batch') <= BatchSize /\ loop' \in LoopStates
      BY <1>6, <2>2 DEF Dispatch, SendReady, BatchReset, TypeOK, LoopStates
    <3> QED BY <1>6, <2>2, <3>1, <3>2, <1>0
            DEF Dispatch, SendReady, BatchReset, TypeOK, workerVars, closeVars, dbVars, pubVars
  <2> QED BY <2>1, <2>2
<1>7. ASSUME NEW w \in Workers, TakeBatch(w)
      PROVE  TypeOK'
  <2>1. /\ Head(flushTrigger) \in Seq(Events) /\ Tail(flushTrigger) \in Seq(Seq(Events))
        /\ Len(Tail(flushTrigger)) <= TriggerCap
    BY <1>7, ElemsHeadTail DEF TakeBatch, TypeOK
  <2> QED BY <1>7, <2>1, <1>0, SMTT(30) DEF TakeBatch, TypeOK, WorkerStates, loopVars,
             closeVars,
                                  dbVars, pubVars
<1>8. ASSUME NEW w \in Workers, WorkerEnds(w)
      PROVE  TypeOK'
  BY <1>8, <1>0 DEF WorkerEnds, RangeOver, TypeOK, WorkerStates, loopVars, queueVars,
     closeVars,
                    dbVars, pubVars
<1>9. ASSUME NEW w \in Workers, FlushOk(w) \/ FlushFails(w)
      PROVE  TypeOK'
  <2>1. rows' \in [Events -> Nat]
    <3>1. PICK es : Insert(es)
      BY <1>9 DEF FlushOk, FlushFails
    <3> QED BY <3>1 DEF Insert, TypeOK
  <2>2. /\ worker' \in [Workers -> WorkerStates] /\ wbatch' \in [Workers -> Seq(Events)]
        /\ attempt' \in [Workers -> 0..MaxAttempts]
    <3>1. CASE FlushOk(w)
      <4>1. <<>> \in Seq(Events) /\ 0 \in 0..MaxAttempts
        OBVIOUS
      <4> QED BY <3>1, <4>1 DEF FlushOk, TypeOK, WorkerStates
    <3>2. CASE FlushFails(w)
      BY <3>2 DEF FlushFails, TypeOK, WorkerStates
    <3> QED BY <1>9, <3>1, <3>2
  <2>3. UNCHANGED <<ch, loopVars, queueVars, closeVars, ctxDone, panic, dropped, pubVars>>
    BY <1>9 DEF FlushOk, FlushFails
  <2> QED BY <2>1, <2>2, <2>3, <1>0 DEF TypeOK, loopVars, queueVars, closeVars,
             pubVars
<1>10. ASSUME NEW w \in Workers, Wake(w)
       PROVE  TypeOK'
  <2>1. dropped' \in SUBSET Events
    BY <1>10, ElemsType DEF Wake, Retries, TypeOK
  <2>2. /\ worker' \in [Workers -> WorkerStates] /\ wbatch' \in [Workers -> Seq(Events)]
        /\ attempt' \in [Workers -> 0..MaxAttempts]
    <3>1. CASE attempt[w] < MaxAttempts
      <4>1. attempt[w] + 1 \in 0..MaxAttempts
        BY <3>1 DEF TypeOK
      <4>2. /\ attempt' = [attempt EXCEPT ![w] = attempt[w] + 1]
            /\ worker' = [worker EXCEPT ![w] = "flush"] /\ wbatch' = wbatch
        BY <1>10, <3>1 DEF Wake, Retries
      <4> QED BY <4>1, <4>2 DEF TypeOK, WorkerStates
    <3>2. CASE ~(attempt[w] < MaxAttempts)
      <4>1. <<>> \in Seq(Events) /\ 0 \in 0..MaxAttempts
        OBVIOUS
      <4> QED BY <1>10, <3>2, <4>1 DEF Wake, Retries, TypeOK, WorkerStates
    <3> QED BY <3>1, <3>2
  <2>3. UNCHANGED <<ch, loopVars, queueVars, closeVars, ctxDone, panic, rows, pubVars>>
    BY <1>10 DEF Wake, Retries
  <2> QED BY <2>1, <2>2, <2>3, <1>0 DEF TypeOK, loopVars, queueVars, closeVars,
             pubVars
<1>11. ASSUME NEW c \in Closers, CloseStep(c)
       PROVE  TypeOK'
  <2>1. /\ UNCHANGED <<ch, loopVars, queueVars, workerVars, wg, ctxDone, dbVars, pubVars>>
        /\ done' \in BOOLEAN /\ panic' \in BOOLEAN
        /\ closer' \in [Closers -> CloserStates] /\ atClose' \in SUBSET Events
    <3>1. CASE CloseSignal(c)
      <4>1. Elems(admitted) \in SUBSET Events
        BY ElemsType DEF TypeOK
      <4> QED BY <3>1, <4>1 DEF CloseSignal, TypeOK, CloserStates, closeVars
    <3>2. CASE CloseCheck(c) \/ CloseFinished(c) \/ CloseExpires(c)
      BY <3>2 DEF CloseCheck, CloseFinished, CloseExpires, TypeOK, CloserStates
    <3> QED BY <1>11, <3>1, <3>2 DEF CloseStep
  <2> QED BY <2>1 DEF TypeOK, loopVars, queueVars, workerVars, dbVars, pubVars
<1>12. CASE CancelContext
  BY <1>12 DEF CancelContext, TypeOK, loopVars, queueVars, workerVars, closeVars,
               dbVars, pubVars
<1> QED
  BY <1>1, <1>2, <1>3, <1>4, <1>5, <1>6, <1>7, <1>8, <1>9, <1>10, <1>11, <1>12
     DEF Next, LoopStep, WorkerStep

-----------------------------------------------------------------------------
(* Close.                                                                  *)

(* When the WaitGroup's counter is zero the loop and all workers are gone. *)
LEMMA ZeroMeansGone ==
    ASSUME TypeOK, Lifecycle, wg = 0
    PROVE  loop = "ended" /\ \A w \in Workers : worker[w] = "gone"
<1>1. Cardinality(Running) \in Nat /\ IsFiniteSet(Running)
  BY RunningFinite
<1>2. loop = "ended" /\ Cardinality(Running) = 0
  BY <1>1 DEF Lifecycle
<1>3. Running = {}
  BY <1>1, <1>2, FS_EmptySet
<1> QED BY <1>2, <1>3 DEF Running, Lifecycle

(* Close and the drain: nothing has been admitted, nobody has closed.      *)
LEMMA CloseProtocolInit == Init => CloseProtocol
  BY ElemsEmpty DEF Init, CloseProtocol

(* Every step keeps it: the loop passes to "return" with the channel empty *)
(* of what was admitted before done was closed.                            *)
LEMMA CloseProtocolStep ==
    ASSUME TypeOK, Lifecycle, CloseProtocol, [Next]_vars
    PROVE  CloseProtocol'
<1>1. CASE UNCHANGED vars
  BY <1>1 DEF vars, loopVars, closeVars, pubVars, CloseProtocol
<1>2. ASSUME NEW e \in Events, Admit(e)
      PROVE  CloseProtocol'
  <2>1. /\ Elems(admitted') = Elems(admitted) \cup {e}
        /\ Elems(ch') = Elems(ch) \cup {e}
    BY <1>2, ElemsAppend DEF Admit, TypeOK
  <2>2. Elems(admitted') = {f \in Events : reply'[f] = "nil"}
    BY <1>2, <2>1 DEF Admit, TypeOK, CloseProtocol
  <2>3. e \notin atClose
    BY <1>2 DEF Admit, CloseProtocol
  <2> QED BY <1>2, <2>1, <2>2, <2>3 DEF Admit, CloseProtocol, loopVars, closeVars
<1>3. ASSUME NEW e \in Events, NEW d \in BOOLEAN, Refuse(e, d)
      PROVE  CloseProtocol'
  <2>1. {f \in Events : reply'[f] = "nil"} = {f \in Events : reply[f] = "nil"}
    BY <1>3 DEF Refuse, TypeOK
  <2> QED BY <1>3, <2>1 DEF Refuse, CloseProtocol, loopVars, closeVars
<1>4. ASSUME NEW w \in Workers, SpawnWorker(w) \/ WorkerEnds(w)
      PROVE  CloseProtocol'
  <2>1. wg # 0
    BY <1>4, ZeroMeansGone DEF SpawnWorker, WorkerEnds, RangeOver
  <2>2. UNCHANGED <<ch, loop, closeVars, pubVars>>
    BY <1>4 DEF SpawnWorker, WorkerEnds, RangeOver, loopVars
  <2> QED BY <2>1, <2>2 DEF CloseProtocol, closeVars, pubVars
<1>5. CASE StartTicker \/ Receive \/ Tick \/ SeeDone \/ Dispatch \/ DrainReceive
  <2>1. UNCHANGED <<closeVars, wg, pubVars>>
    BY <1>5 DEF StartTicker, Receive, Tick, SeeDone, Dispatch, DrainReceive
  <2>2. loop' \notin {"return", "closed", "ended"}
    BY <1>5 DEF StartTicker, Receive, Tick, SeeDone, AfterDone, Dispatch,
                DrainReceive, loopVars
  <2> QED BY <2>1, <2>2 DEF CloseProtocol, closeVars, pubVars
<1>6. CASE DrainStop
  <2>1. loop' = "return" => ch = <<>>
    BY <1>6, BatchSizeAssumption DEF DrainStop
  <2> QED BY <1>6, <2>1, ElemsEmpty DEF DrainStop, CloseProtocol, closeVars, pubVars
<1>7. CASE CloseTrigger
  BY <1>7 DEF CloseTrigger, CloseProtocol, closeVars, pubVars
<1>8. CASE LoopEnds
  <2>1. wg # 0
    BY <1>8, ZeroMeansGone DEF LoopEnds
  <2> QED BY <1>8, <2>1 DEF LoopEnds, CloseProtocol, closeVars, pubVars
<1>9. ASSUME NEW w \in Workers, TakeBatch(w) \/ FlushOk(w) \/ FlushFails(w) \/ Wake(w)
      PROVE  CloseProtocol'
  <2>1. UNCHANGED <<ch, loop, closeVars, wg, pubVars>>
    BY <1>9 DEF TakeBatch, FlushOk, FlushFails, Wake, loopVars
  <2> QED BY <2>1 DEF CloseProtocol, closeVars, pubVars
<1>10. ASSUME NEW c \in Closers, CloseSignal(c)
       PROVE  CloseProtocol'
  <2>1. UNCHANGED <<ch, loop, wg, pubVars>>
    BY <1>10 DEF CloseSignal, loopVars
  <2>2. CASE done
    BY <1>10, <2>1, <2>2 DEF CloseSignal, CloseProtocol, closeVars, pubVars
  <2>3. CASE ~done
    <3>1. loop \notin {"return", "closed", "ended"}
      BY <2>3 DEF Lifecycle
    <3>2. /\ atClose' = Elems(admitted) /\ done' = TRUE
          /\ closer' = [closer EXCEPT ![c] = "waiting"]
      BY <1>10, <2>3 DEF CloseSignal
    <3> QED BY <2>1, <3>1, <3>2 DEF CloseProtocol, TypeOK, pubVars
  <2> QED BY <2>2, <2>3
<1>11. ASSUME NEW c \in Closers, CloseCheck(c) \/ CloseFinished(c) \/ CloseExpires(c)
       PROVE  CloseProtocol'
  <2>1. UNCHANGED <<ch, loop, wg, pubVars, done, atClose>>
    BY <1>11 DEF CloseCheck, CloseFinished, CloseExpires, loopVars
  <2>2. \A d \in Closers : d # c => closer'[d] = closer[d]
    BY <1>11 DEF CloseCheck, CloseFinished, CloseExpires, TypeOK
  <2>3. /\ closer[c] \in {"waiting", "nil", "expired"}
              => closer'[c] \in {"waiting", "nil", "expired"}
        /\ closer'[c] = "nil" => wg = 0
    BY <1>11 DEF CloseCheck, CloseFinished, CloseExpires, TypeOK
  <2> QED BY <2>1, <2>2, <2>3 DEF CloseProtocol, pubVars
<1>12. CASE CancelContext
  BY <1>12 DEF CancelContext, CloseProtocol, loopVars, closeVars, pubVars
<1> QED
  BY <1>1, <1>2, <1>3, <1>4, <1>5, <1>6, <1>7, <1>8, <1>9, <1>10, <1>11, <1>12
     DEF Next, LoopStep, WorkerStep, CloseStep, Publish

-----------------------------------------------------------------------------
(* Where the events are.                                                   *)

(* The four places an admitted event can wait in.                          *)
LEMMA HeldIn ==
    \A e : e \in Held <=> \/ e \in Elems(ch)
                          \/ e \in Elems(batch)
                          \/ \E b \in Elems(flushTrigger) : e \in Elems(b)
                          \/ \E w \in Workers : e \in Elems(wbatch[w])
  BY DEF Held, Batches

(* The same in the next state. *)
LEMMA HeldInNext ==
    \A e : e \in Held' <=> \/ e \in Elems(ch')
                           \/ e \in Elems(batch')
                           \/ \E b \in Elems(flushTrigger') : e \in Elems(b)
                           \/ \E w \in Workers : e \in Elems(wbatch'[w])
  BY DEF Held, Batches

(* One step moves an event on, or settles it; it never forgets one.        *)
LEMMA HeldStep ==
    ASSUME TypeOK, Lifecycle, [Next]_vars, NEW e \in Events
    PROVE  /\ e \in Held => e \in Held' \/ Settled(e)'
           /\ Settled(e) => Settled(e)'
           /\ reply[e] # "nil" /\ reply'[e] = "nil" => e \in Held'
<1> USE HeldIn, HeldInNext
<1>1. CASE UNCHANGED vars
  BY <1>1 DEF vars, loopVars, queueVars, workerVars, dbVars, pubVars, Settled
<1>2. ASSUME NEW f \in Events, Admit(f)
      PROVE  /\ e \in Held => e \in Held' \/ Settled(e)'
             /\ Settled(e) => Settled(e)'
             /\ reply[e] # "nil" /\ reply'[e] = "nil" => e \in Held'
  <2>1. Elems(ch') = Elems(ch) \cup {f}
    BY <1>2, ElemsAppend DEF Admit, TypeOK
  <2>2. UNCHANGED <<loopVars, queueVars, workerVars, dbVars>>
        /\ reply' = [reply EXCEPT ![f] = "nil"]
    BY <1>2 DEF Admit
  <2> QED BY <2>1, <2>2 DEF loopVars, queueVars, workerVars, dbVars, Settled, TypeOK
<1>3. CASE \/ \E f \in Events, d \in BOOLEAN : Refuse(f, d)
           \/ \E w \in Workers : SpawnWorker(w) \/ WorkerEnds(w)
           \/ StartTicker \/ Tick \/ SeeDone \/ DrainStop \/ CloseTrigger \/ LoopEnds
           \/ \E c \in Closers : CloseStep(c)
           \/ CancelContext
  <2>1. /\ UNCHANGED <<ch, batch, flushTrigger, wbatch, dbVars>>
        /\ reply'[e] = "nil" => reply[e] = "nil"
    BY <1>3 DEF Refuse, SpawnWorker, WorkerEnds, StartTicker, Tick, SeeDone,
       DrainStop,
                CloseTrigger, LoopEnds, CloseStep, CloseCheck, CloseSignal, CloseFinished,
                CloseExpires, CancelContext, loopVars, queueVars, workerVars, pubVars, TypeOK
  <2> QED BY <2>1 DEF dbVars, Settled
<1>4. CASE Receive \/ DrainReceive
  <2>1. /\ ch # <<>> /\ ch' = Tail(ch) /\ batch' = Append(batch, Head(ch))
        /\ UNCHANGED <<flushTrigger, wbatch, dbVars, reply>>
    BY <1>4 DEF Receive, Full, DrainReceive, queueVars, workerVars, pubVars
  <2>2. /\ Elems(ch) = {Head(ch)} \cup Elems(ch')
        /\ Elems(batch') = Elems(batch) \cup {Head(ch)}
    BY <2>1, ElemsHeadTail, ElemsAppend DEF TypeOK
  <2> QED BY <2>1, <2>2 DEF dbVars, Settled
<1>5. CASE Dispatch
  <2>1. UNCHANGED <<ch, wbatch, dbVars, reply>>
    BY <1>5 DEF Dispatch, SendReady, BatchReset, workerVars, pubVars
  <2>2. \/ UNCHANGED <<batch, flushTrigger>>
        \/ Elems(flushTrigger') = Elems(flushTrigger) \cup {batch}
    <3>1. \/ UNCHANGED <<batch, flushTrigger>>
          \/ flushTrigger' = Append(flushTrigger, batch)
      BY <1>5 DEF Dispatch, SendReady, BatchReset, loopVars, queueVars
    <3>2. batch \in Seq(Events) /\ flushTrigger \in Seq(Seq(Events))
      BY DEF TypeOK
    <3>3. CASE flushTrigger' = Append(flushTrigger, batch)
      <4> HIDE HeldIn, HeldInNext
      <4> QED BY <3>2, <3>3, ElemsAppend
    <3> QED BY <3>1, <3>3
  <2> QED BY <2>1, <2>2 DEF dbVars, Settled
<1>6. ASSUME NEW w \in Workers, TakeBatch(w)
      PROVE  /\ e \in Held => e \in Held' \/ Settled(e)'
             /\ Settled(e) => Settled(e)'
             /\ reply[e] # "nil" /\ reply'[e] = "nil" => e \in Held'
  <2>1. /\ UNCHANGED <<ch, batch, dbVars, reply>>
        /\ wbatch' = [wbatch EXCEPT ![w] = Head(flushTrigger)] /\ wbatch[w] = <<>>
    BY <1>6 DEF TakeBatch, Lifecycle, loopVars, pubVars
  <2>2. Elems(flushTrigger) = {Head(flushTrigger)} \cup Elems(flushTrigger')
    BY <1>6, ElemsHeadTail DEF TakeBatch, TypeOK
  <2> QED BY <2>1, <2>2, ElemsEmpty DEF TypeOK, dbVars, Settled
<1>7. ASSUME NEW w \in Workers, FlushOk(w)
      PROVE  /\ e \in Held => e \in Held' \/ Settled(e)'
             /\ Settled(e) => Settled(e)'
             /\ reply[e] # "nil" /\ reply'[e] = "nil" => e \in Held'
  <2>1. /\ UNCHANGED <<ch, batch, flushTrigger, dropped, reply>>
        /\ \A v \in Workers : v # w => wbatch'[v] = wbatch[v]
    BY <1>7 DEF FlushOk, TypeOK, loopVars, queueVars, pubVars
  <2>2. rows'[e] = IF e \in Elems(wbatch[w]) THEN rows[e] + 1 ELSE rows[e]
    BY <1>7 DEF FlushOk, Insert
  <2>3. /\ Settled(e) => Settled(e)'
        /\ e \in Elems(wbatch[w]) => Settled(e)'
    BY <2>1, <2>2 DEF Settled, TypeOK
  <2> QED BY <2>1, <2>3
<1>8. ASSUME NEW w \in Workers, FlushFails(w)
      PROVE  /\ e \in Held => e \in Held' \/ Settled(e)'
             /\ Settled(e) => Settled(e)'
             /\ reply[e] # "nil" /\ reply'[e] = "nil" => e \in Held'
  <2>1. /\ UNCHANGED <<ch, batch, flushTrigger, wbatch, dropped, reply>>
        /\ rows'[e] \in {rows[e], rows[e] + 1}
    BY <1>8 DEF FlushFails, Insert, TypeOK, loopVars, queueVars, pubVars
  <2>2. Settled(e) => Settled(e)'
    BY <2>1 DEF Settled, TypeOK
  <2> QED BY <2>1, <2>2
<1>9. ASSUME NEW w \in Workers, Wake(w)
      PROVE  /\ e \in Held => e \in Held' \/ Settled(e)'
             /\ Settled(e) => Settled(e)'
             /\ reply[e] # "nil" /\ reply'[e] = "nil" => e \in Held'
  <2>1. /\ UNCHANGED <<ch, batch, flushTrigger, rows, reply>>
        /\ \A v \in Workers : v # w => wbatch'[v] = wbatch[v]
        /\ \/ wbatch' = wbatch /\ dropped' = dropped
           \/ dropped' = dropped \cup Elems(wbatch[w])
    BY <1>9 DEF Wake, Retries, TypeOK, loopVars, queueVars, pubVars
  <2> QED BY <2>1 DEF Settled
<1> QED
  BY <1>1, <1>2, <1>3, <1>4, <1>5, <1>6, <1>7, <1>8, <1>9
     DEF Next, LoopStep, WorkerStep, Publish

(* No step of any goroutine loses an admitted event. *)
LEMMA NothingVanishesStep ==
    ASSUME TypeOK, Lifecycle, NothingVanishes, [Next]_vars
    PROVE  NothingVanishes'
<1> SUFFICES ASSUME NEW e \in Events, reply'[e] = "nil"
             PROVE  e \in Held' \/ Settled(e)'
  BY DEF NothingVanishes
<1> QED BY HeldStep DEF NothingVanishes

-----------------------------------------------------------------------------
(* Panics.                                                                 *)

(* No step panics but for the two reasons NoPanic names. *)
LEMMA NoPanicStep ==
    ASSUME TypeOK, Lifecycle, CloseProtocol, NoPanic, [Next]_vars
    PROVE  NoPanic'
<1>1. CASE panic
  <2>1. UNCHANGED <<panic, closer>>
    BY <1>1 DEF Next, vars, closeVars, Publish, Admit, Refuse, LoopStep, SpawnWorker,
          StartTicker, Receive, Tick, SeeDone, Dispatch, DrainReceive, DrainStop,
          CloseTrigger, LoopEnds, WorkerStep, TakeBatch, WorkerEnds, FlushOk, FlushFails,
          Wake, CloseStep, CloseCheck, CloseSignal, CloseFinished, CloseExpires,
          CancelContext
  <2> QED BY <2>1 DEF NoPanic
<1>2. CASE ~panic /\ panic'
  <2>1. \/ StartTicker \/ Dispatch
        \/ \E c \in Closers : CloseSignal(c)
    BY <1>2 DEF Next, vars, Publish, Admit, Refuse, LoopStep, SpawnWorker,
          Receive, Tick, SeeDone, DrainReceive, DrainStop,
          CloseTrigger, LoopEnds, WorkerStep, TakeBatch, WorkerEnds, FlushOk, FlushFails,
          Wake, CloseStep, CloseCheck, CloseFinished, CloseExpires, CancelContext
  <2>2. CASE StartTicker
    <3>1. ~(FlushInterval > 0)
      BY <1>2, <2>2 DEF StartTicker
    <3>2. FlushInterval <= 0
      BY <3>1, ConfigAssumption
    <3> QED BY <3>2 DEF NoPanic
  <2>3. CASE Dispatch
    BY <1>2, <2>3 DEF Dispatch, SendReady, BatchReset, Lifecycle
  <2>4. ASSUME NEW c \in Closers, CloseSignal(c)
        PROVE  NoPanic'
    <3>1. done /\ closer' = closer /\ closer[c] = "checked"
      BY <1>2, <2>4 DEF CloseSignal, closeVars
    <3>2. PICK d \in Closers : closer[d] \in {"waiting", "nil", "expired"}
      BY <3>1 DEF CloseProtocol
    <3> QED BY <3>1, <3>2 DEF NoPanic
  <2> QED BY <2>1, <2>2, <2>3, <2>4
<1>3. CASE ~panic'
  BY <1>3 DEF NoPanic
<1> QED BY <1>1, <1>2, <1>3 DEF TypeOK

-----------------------------------------------------------------------------
(* The theorems.                                                           *)

(* The inductive invariant.  TypeOK alone is not inductive: the bound on   *)
(* the WaitGroup's counter and on the loop's batch come from Lifecycle.    *)
(* NothingVanishes needs Lifecycle too (a worker that takes a batch holds  *)
(* none), and NoPanic needs to know who closed b.done.                     *)
IInv == TypeOK /\ Lifecycle /\ CloseProtocol /\ NothingVanishes /\ NoPanic

(* The inductive invariant holds in every reachable state of every buffer. *)
THEOREM Invariance == Spec => []IInv
<1>1. Init => IInv
  BY TypeInit, LifecycleInit, CloseProtocolInit
     DEF IInv, Init, NothingVanishes, NoPanic
<1>2. IInv /\ [Next]_vars => IInv'
  <2> SUFFICES ASSUME IInv, [Next]_vars PROVE IInv'
    OBVIOUS
  <2>1. TypeOK /\ Lifecycle /\ CloseProtocol /\ NothingVanishes /\ NoPanic
    BY DEF IInv
  <2>2. Lifecycle'
    BY <2>1, LifecycleStep
  <2>3. TypeOK'
    BY <2>1, <2>2, TypeStep
  <2>4. CloseProtocol' /\ NothingVanishes' /\ NoPanic'
    BY <2>1, CloseProtocolStep, NothingVanishesStep, NoPanicStep
  <2> QED BY <2>2, <2>3, <2>4 DEF IInv
<1> QED BY <1>1, <1>2, PTL DEF Spec

(* Every variable keeps its type, no channel or batch outgrows its bound   *)
(* and the WaitGroup never goes below zero, in every buffer.               *)
THEOREM TypeCorrect == Spec => []TypeOK
BY Invariance, PTL DEF IInv

(* Every event Publish has accepted is in a queue, in a batch, in the      *)
(* database or given up, in every buffer of runFlush.                      *)
THEOREM NoEventVanishes == Spec => []NothingVanishes
BY Invariance, PTL DEF IInv

(* The WaitGroup counts exactly the goroutines that are still needed.      *)
THEOREM LifecycleHolds == Spec => []Lifecycle
BY Invariance, PTL DEF IInv

(* The only panics are a ticker without a period and two racing calls of   *)
(* Close: in particular dispatch never sends on the closed flushTrigger.   *)
THEOREM PanicFree == Spec => []NoPanic
BY Invariance, PTL DEF IInv

(* When Close returns nil after the drain, what was admitted before it     *)
(* closed b.done is in the database or was given up.  The argument: the    *)
(* WaitGroup is at zero, so loop and workers are gone and their batches    *)
(* with them; what NothingVanishes leaves is the channel, which the loop   *)
(* had emptied of those events before it returned.                         *)
LEMMA DrainedWhenNil == IInv => CloseMeansSettled
<1> SUFFICES ASSUME IInv, NEW c \in Closers, closer[c] = "nil", NEW e \in atClose
             PROVE  Settled(e)
  BY DEF CloseMeansSettled
<1>1. loop = "ended" /\ \A w \in Workers : worker[w] = "gone"
  BY ZeroMeansGone DEF IInv, CloseProtocol
<1>2. batch = <<>> /\ flushTrigger = <<>> /\ \A w \in Workers : wbatch[w] = <<>>
  BY <1>1, WorkersAssumption DEF IInv, Lifecycle
<1>3. e \notin Held
  BY <1>1, <1>2, HeldIn, ElemsEmpty DEF IInv, CloseProtocol
<1>4. e \in Events /\ reply[e] = "nil"
  BY DEF IInv, CloseProtocol
<1> QED BY <1>3, <1>4 DEF IInv, NothingVanishes

(* Close does not return nil before everything admitted earlier is settled. *)
THEOREM CloseDrains == Spec => []CloseMeansSettled
BY Invariance, DrainedWhenNil, PTL

(* The loop does not return before the channel is empty of what had been   *)
(* admitted when done was closed, and Close returns nil at a counter of 0. *)
THEOREM CloseProtocolHolds == Spec => []CloseProtocol
BY Invariance, PTL DEF IInv
=============================================================================
