--------------------------- MODULE DeliveryProofs ---------------------------
(***************************************************************************)
(* Proofs about the events on their way through the buffer of Buffer.tla:  *)
(* their order, who holds them, how often they are written, how many there *)
(* are, and that the buffer implements the safety part of Delivery.        *)
(***************************************************************************)
EXTENDS BufferProofs, DataLemmas

(* The events no worker has yet, the oldest first. *)
Pipeline == FlattenSeq(flushTrigger) \o batch \o ch

(* Elems of Buffer.tla is the library's Range. *)
LEMMA ElemsIsRange == \A s : Elems(s) = Range(s)
  BY DEF Elems, Range

(* What two queues hold one after the other. *)
LEMMA ElemsConcat ==
    ASSUME NEW S, NEW s \in Seq(S), NEW t \in Seq(S)
    PROVE  s \o t \in Seq(S) /\ Elems(s \o t) = Elems(s) \cup Elems(t)
<1>1. Range(s \o t) = Range(s) \cup Range(t)
  BY RangeConcatenation
<1>2. s \o t \in Seq(S)
  BY ConcatProperties
<1> QED BY <1>1, <1>2, ElemsIsRange

(* A queue is its first element and the others. *)
LEMMA HeadFirst ==
    ASSUME NEW S, NEW s \in Seq(S), s # <<>>
    PROVE  /\ Head(s) \in S /\ Tail(s) \in Seq(S) /\ <<Head(s)>> \in Seq(S)
           /\ s = <<Head(s)>> \o Tail(s)
<1> DEFINE h == <<Head(s)>>  t == Tail(s)  u == h \o t
<1>1. /\ Head(s) \in S /\ t \in Seq(S) /\ Len(t) = Len(s) - 1 /\ h \in Seq(S)
      /\ Len(h) = 1 /\ h[1] = s[1] /\ Len(s) \in Nat \ {0}
      /\ \A i \in 1..Len(t) : t[i] = s[i + 1]
  BY HeadTailProperties, EmptySeq
<1> HIDE DEF h, t
<1>2. /\ u \in Seq(S) /\ Len(u) = Len(s)
      /\ \A i \in 1..Len(s) : u[i] = IF i <= 1 THEN h[i] ELSE t[i - 1]
  <2>1. /\ u \in Seq(S) /\ Len(u) = Len(h) + Len(t)
        /\ \A i \in 1..(Len(h) + Len(t)) : u[i] = IF i <= Len(h) THEN h[i] ELSE t[i - Len(h)]
    BY <1>1, ConcatProperties
  <2> HIDE DEF u
  <2>2. Len(h) + Len(t) = Len(s)
    BY <1>1
  <2> QED BY <1>1, <2>1, <2>2
<1>3. ASSUME NEW i \in 1..Len(s) PROVE u[i] = s[i]
  <2>1. CASE i = 1
    BY <1>1, <1>2, <2>1
  <2>2. CASE i # 1
    <3>1. i - 1 \in 1..Len(t) /\ ~(i <= 1) /\ (i - 1) + 1 = i
      BY <1>1, <2>2
    <3> QED BY <1>1, <1>2, <3>1
  <2> QED BY <2>1, <2>2
<1>4. u = s
  <2> HIDE DEF u
  <2> QED BY <1>2, <1>3, SeqEqual
<1> QED BY <1>1, <1>4 DEF h, t

(* The pipeline holds what the three queues hold. *)
LEMMA PipelineElems ==
    ASSUME NEW ft \in Seq(Seq(Events)), NEW b \in Seq(Events), NEW c \in Seq(Events)
    PROVE  /\ FlattenSeq(ft) \o b \o c \in Seq(Events)
           /\ Elems(FlattenSeq(ft) \o b \o c)
                = Elems(c) \cup Elems(b) \cup UNION {Elems(x) : x \in Elems(ft)}
<1>1. FlattenSeq(ft) \in Seq(Events)
  BY FlattenType
<1>2. Elems(FlattenSeq(ft)) = UNION {Elems(x) : x \in Elems(ft)}
  BY FlattenRange, ElemsIsRange
<1>3. /\ FlattenSeq(ft) \o b \in Seq(Events)
      /\ Elems(FlattenSeq(ft) \o b) = Elems(FlattenSeq(ft)) \cup Elems(b)
  BY <1>1, ElemsConcat
<1> DEFINE u == FlattenSeq(ft) \o b
<1>4. u \in Seq(Events)
  BY <1>3
<1>5. u \o c \in Seq(Events) /\ Elems(u \o c) = Elems(u) \cup Elems(c)
  <2> HIDE DEF u
  <2> QED BY <1>4, ElemsConcat
<1> QED BY <1>2, <1>3, <1>5

-----------------------------------------------------------------------------
(* No worker gets a batch. *)
Kept == \A w \in Workers : wbatch'[w] \in {wbatch[w], <<>>}

(* A step lets an event in at the end of the pipeline, gives its first     *)
(* batch to a worker, or moves events along without changing their order.  *)
LEMMA PipelineStep ==
    ASSUME TypeOK, TypeOK', [Next]_vars
    PROVE  \/ UNCHANGED <<Pipeline, admitted>> /\ Kept
           \/ \E e \in Events : Admit(e) /\ Pipeline' = Append(Pipeline, e)
           \/ \E w \in Workers : /\ TakeBatch(w) /\ UNCHANGED admitted
                                 /\ Pipeline = Head(flushTrigger) \o Pipeline'
<1>0. /\ ch \in Seq(Events) /\ batch \in Seq(Events) /\ FlattenSeq(flushTrigger) \in Seq(Events)
      /\ flushTrigger \in Seq(Seq(Events))
  BY FlattenType DEF TypeOK
<1>10. \A u, v, w \in Seq(Events) : (u \o v) \o w = u \o (v \o w)
  BY ConcatAssociative
<1>11. \A u \in Seq(Events) : u \o <<>> = u /\ <<>> \o u = u
  BY ConcatEmptySeq
<1>12. \A u, v \in Seq(Events) : u \o v \in Seq(Events)
  BY ConcatProperties
<1>13. \A u \in Seq(Events), x \in Events : Append(u, x) = u \o <<x>> /\ <<x>> \in Seq(Events)
  BY AppendIsConcat
<1>14. \A u \in Seq(Events) : u # <<>> =>
         Head(u) \in Events /\ Tail(u) \in Seq(Events) /\ u = <<Head(u)>> \o Tail(u)
  BY HeadFirst
<1>1. ASSUME UNCHANGED <<ch, batch, flushTrigger, admitted>>
      PROVE  UNCHANGED <<Pipeline, admitted>>
  BY <1>1 DEF Pipeline
<1>2. ASSUME NEW e \in Events, Admit(e)
      PROVE  Pipeline' = Append(Pipeline, e)
  <2>1. ch' = ch \o <<e>> /\ batch' = batch /\ flushTrigger' = flushTrigger
    BY <1>0, <1>13, <1>2 DEF Admit, loopVars, queueVars
  <2>2. Pipeline' = (FlattenSeq(flushTrigger) \o batch) \o (ch \o <<e>>)
    BY <2>1 DEF Pipeline
  <2>3. Pipeline \in Seq(Events) /\ FlattenSeq(flushTrigger) \o batch \in Seq(Events)
    BY <1>0, <1>12 DEF Pipeline
  <2>4. Pipeline' = Pipeline \o <<e>>
    BY <1>0, <1>10, <1>13, <2>2, <2>3 DEF Pipeline
  <2> QED BY <1>13, <2>3, <2>4
<1>3. ASSUME Receive \/ DrainReceive
      PROVE  UNCHANGED <<Pipeline, admitted>>
  <2>1. /\ ch # <<>> /\ ch' = Tail(ch) /\ batch' = Append(batch, Head(ch))
        /\ UNCHANGED <<flushTrigger, admitted>>
    BY <1>3 DEF Receive, DrainReceive, queueVars, pubVars
  <2> DEFINE h == Head(ch)  t == Tail(ch)
  <2>2. h \in Events /\ t \in Seq(Events) /\ ch = <<h>> \o t /\ <<h>> \in Seq(Events)
    BY <1>0, <1>13, <1>14, <2>1
  <2>3. Pipeline' = (FlattenSeq(flushTrigger) \o (batch \o <<h>>)) \o t
    BY <1>0, <1>13, <2>1, <2>2 DEF Pipeline
  <2>4. Pipeline = (FlattenSeq(flushTrigger) \o batch) \o (<<h>> \o t)
    BY <2>2 DEF Pipeline
  <2> HIDE DEF h, t
  <2>5. FlattenSeq(flushTrigger) \o (batch \o <<h>>) = (FlattenSeq(flushTrigger) \o batch) \o <<h>>
    BY <1>0, <1>10, <2>2
  <2> DEFINE u == FlattenSeq(flushTrigger) \o batch
  <2>6. u \in Seq(Events)
    BY <1>0, <1>12
  <2>7. Pipeline' = (u \o <<h>>) \o t /\ Pipeline = u \o (<<h>> \o t)
    BY <2>3, <2>4, <2>5
  <2>8. (u \o <<h>>) \o t = u \o (<<h>> \o t)
    <3> HIDE DEF u
    <3> QED BY <1>10, <2>2, <2>6
  <2> QED BY <2>1, <2>7, <2>8
<1>4. ASSUME Dispatch
      PROVE  UNCHANGED <<Pipeline, admitted>>
  <2>1. UNCHANGED <<ch, admitted>>
    BY <1>4 DEF Dispatch, pubVars
  <2>2. \/ UNCHANGED <<batch, flushTrigger>>
        \/ flushTrigger' = Append(flushTrigger, batch) /\ batch' = <<>>
    BY <1>4 DEF Dispatch, BatchReset, loopVars, queueVars
  <2>3. CASE flushTrigger' = Append(flushTrigger, batch) /\ batch' = <<>>
    <3>1. FlattenSeq(flushTrigger') = FlattenSeq(flushTrigger) \o batch
      BY <1>0, <2>3, FlattenAppend
    <3>2. FlattenSeq(flushTrigger') \o <<>> = FlattenSeq(flushTrigger')
      BY <1>0, <1>11, <1>12, <3>1
    <3> QED BY <2>1, <2>3, <3>1, <3>2 DEF Pipeline
  <2> QED BY <1>1, <2>1, <2>2, <2>3
<1>5. ASSUME NEW w \in Workers, TakeBatch(w)
      PROVE  Pipeline = Head(flushTrigger) \o Pipeline' /\ UNCHANGED admitted
  <2>1. /\ flushTrigger # <<>> /\ flushTrigger' = Tail(flushTrigger)
        /\ UNCHANGED <<ch, batch, admitted>>
    BY <1>5 DEF TakeBatch, loopVars, pubVars
  <2> DEFINE h == Head(flushTrigger)  f == FlattenSeq(Tail(flushTrigger))
  <2>2. h \in Seq(Events) /\ Tail(flushTrigger) \in Seq(Seq(Events))
    BY <1>0, <2>1, ElemsHeadTail
  <2>3. f \in Seq(Events) /\ FlattenSeq(flushTrigger) = h \o f
    BY <1>0, <2>1, <2>2, FlattenType, FlattenHead
  <2>4. Pipeline = ((h \o f) \o batch) \o ch /\ Pipeline' = (f \o batch) \o ch
    BY <2>1, <2>3 DEF Pipeline
  <2> HIDE DEF h, f
  <2>5. ((h \o f) \o batch) \o ch = (h \o (f \o batch)) \o ch
    BY <1>0, <1>10, <2>2, <2>3
  <2>6. (h \o (f \o batch)) \o ch = h \o ((f \o batch) \o ch)
    <3> DEFINE v == f \o batch
    <3>1. v \in Seq(Events)
      BY <1>0, <1>12, <2>3
    <3> HIDE DEF v
    <3>2. (h \o v) \o ch = h \o (v \o ch)
      BY <1>0, <1>10, <2>2, <3>1, SMTT(30)
    <3> QED BY <3>2 DEF v
  <2>7. Pipeline = h \o Pipeline'
    BY <2>4, <2>5, <2>6
  <2> QED BY <2>1, <2>7 DEF h
<1>6. \/ UNCHANGED <<ch, batch, flushTrigger, admitted>> /\ Kept
      \/ \E e \in Events : Admit(e)
      \/ (Receive \/ DrainReceive \/ Dispatch) /\ Kept
      \/ \E w \in Workers : TakeBatch(w)
  BY DEF TypeOK, Kept, Receive, DrainReceive, Dispatch, workerVars, Next, vars, Publish, Refuse, LoopStep, SpawnWorker, StartTicker, Tick, SeeDone,
         DrainStop, CloseTrigger, LoopEnds, WorkerStep, WorkerEnds, FlushOk, FlushFails,
         Wake, CloseStep, CloseCheck, CloseSignal, CloseFinished, CloseExpires,
         CancelContext, loopVars, queueVars, pubVars
<1> QED BY <1>1, <1>2, <1>3, <1>4, <1>5, <1>6

-----------------------------------------------------------------------------
(* Order, and who holds what.                                              *)

(* Publish admits an event once, and a worker's batch was admitted.        *)
AdmittedOnce ==
    /\ IsInjective(admitted)
    /\ \A w \in Workers : Elems(wbatch[w]) \subseteq Elems(admitted)

(* One worker takes a batch at a time; nobody else's changes.              *)
LEMMA OthersKeep ==
    ASSUME TypeOK, NEW w \in Workers, TakeBatch(w)
    PROVE  /\ wbatch'[w] = Head(flushTrigger)
           /\ \A v \in Workers \ {w} : wbatch'[v] = wbatch[v]
BY DEF TakeBatch, TypeOK

(* OneHolder says that a worker's batch is out of the pipeline.            *)
LEMMA OneHolderIs ==
    ASSUME TypeOK
    PROVE  /\ Pipeline \in Seq(Events)
           /\ OneHolder <=> \A w \in Workers :
                 /\ Elems(wbatch[w]) \cap Elems(Pipeline) = {}
                 /\ \A v \in Workers \ {w} : Elems(wbatch[w]) \cap Elems(wbatch[v]) = {}
<1>1. /\ Pipeline \in Seq(Events)
      /\ Elems(Pipeline) = Elems(ch) \cup Elems(batch) \cup UNION {Elems(x) : x \in Elems(flushTrigger)}
  BY PipelineElems DEF Pipeline, TypeOK
<1> QED BY <1>1 DEF OneHolder

(* The same in the next state. *)
LEMMA OneHolderIsNext ==
    ASSUME TypeOK'
    PROVE  /\ Pipeline' \in Seq(Events)
           /\ OneHolder' <=> \A w \in Workers :
                 /\ Elems(wbatch'[w]) \cap Elems(Pipeline') = {}
                 /\ \A v \in Workers \ {w} : Elems(wbatch'[w]) \cap Elems(wbatch'[v]) = {}
<1>1. /\ Pipeline' \in Seq(Events)
      /\ Elems(Pipeline') = Elems(ch') \cup Elems(batch') \cup UNION {Elems(x) : x \in Elems(flushTrigger')}
  BY PipelineElems DEF Pipeline, TypeOK
<1> QED BY <1>1 DEF OneHolder

(* Everything in the pipeline has been admitted, and is there once.        *)
LEMMA PipelineAdmitted ==
    ASSUME TypeOK, InOrder, AdmittedOnce
    PROVE  Elems(Pipeline) \subseteq Elems(admitted) /\ IsInjective(Pipeline)
<1>1. Pipeline \in Seq(Events) /\ admitted \in Seq(Events)
  BY OneHolderIs DEF TypeOK
<1>2. IsSuffix(Pipeline, admitted) /\ IsInjective(admitted)
  BY DEF InOrder, Pipeline, AdmittedOnce
<1> QED BY <1>1, <1>2, SuffixKeeps, ElemsIsRange

(* What the first batch holds is nowhere else in the pipeline.             *)
LEMMA FirstBatch ==
    ASSUME TypeOK, TypeOK', InOrder, AdmittedOnce, NEW w \in Workers, TakeBatch(w),
           Pipeline = Head(flushTrigger) \o Pipeline'
    PROVE  /\ Head(flushTrigger) \in Seq(Events) /\ Pipeline' \in Seq(Events)
           /\ Elems(Pipeline) = Elems(Head(flushTrigger)) \cup Elems(Pipeline')
           /\ Elems(Head(flushTrigger)) \cap Elems(Pipeline') = {}
<1>1. Head(flushTrigger) \in Seq(Events) /\ Pipeline' \in Seq(Events)
  BY ElemsHeadTail, OneHolderIsNext DEF TakeBatch, TypeOK
<1>2. IsInjective(Head(flushTrigger) \o Pipeline')
  BY PipelineAdmitted
<1>3. Range(Head(flushTrigger)) \cap Range(Pipeline') = {}
  BY <1>1, <1>2, InjectiveHalves
<1>4. Elems(Head(flushTrigger) \o Pipeline') = Elems(Head(flushTrigger)) \cup Elems(Pipeline')
  BY <1>1, ElemsConcat
<1> QED BY <1>1, <1>3, <1>4, ElemsIsRange

(* Every step keeps the order, and gives a batch to one worker only.       *)
LEMMA OrderStep ==
    ASSUME TypeOK, TypeOK', Lifecycle, CloseProtocol, InOrder, OneHolder, AdmittedOnce,
           [Next]_vars
    PROVE  InOrder' /\ OneHolder' /\ AdmittedOnce'
<1> DEFINE Goal == InOrder' /\ OneHolder' /\ AdmittedOnce'
<1>0. /\ Pipeline \in Seq(Events) /\ Pipeline' \in Seq(Events)
      /\ admitted \in Seq(Events) /\ IsSuffix(Pipeline, admitted)
      /\ InOrder' <=> IsSuffix(Pipeline', admitted')
  BY OneHolderIs, OneHolderIsNext DEF TypeOK, InOrder, Pipeline
<1>1. CASE UNCHANGED <<Pipeline, admitted>> /\ Kept
  <2>2. \A w \in Workers : Elems(wbatch'[w]) \subseteq Elems(wbatch[w])
    BY <1>1, ElemsEmpty DEF Kept
  <2>3. OneHolder'
    BY <1>1, <2>2, OneHolderIs, OneHolderIsNext
  <2>4. AdmittedOnce'
    BY <1>1, <2>2 DEF AdmittedOnce
  <2> QED BY <1>0, <1>1, <2>3, <2>4
<1>2. ASSUME NEW e \in Events, Admit(e), Pipeline' = Append(Pipeline, e)
      PROVE  Goal
  <2>1. admitted' = Append(admitted, e) /\ wbatch' = wbatch /\ reply[e] = "none"
    BY <1>2 DEF Admit, workerVars
  <2>2. e \notin Elems(admitted)
    BY <2>1 DEF CloseProtocol
  <2>3. IsSuffix(Pipeline', admitted')
    BY <1>0, <1>2, <2>1, SuffixAppend
  <2>4. IsInjective(admitted')
    BY <1>0, <2>1, <2>2, InjectiveAppend, ElemsIsRange DEF AdmittedOnce
  <2>5. Elems(admitted') = Elems(admitted) \cup {e} /\ Elems(Pipeline') = Elems(Pipeline) \cup {e}
    BY <1>0, <1>2, <2>1, ElemsAppend
  <2>6. \A w \in Workers : Elems(wbatch[w]) \subseteq Elems(admitted)
    BY DEF AdmittedOnce
  <2>7. OneHolder'
    BY <2>1, <2>2, <2>5, <2>6, OneHolderIs, OneHolderIsNext, ZenonT(40)
  <2>8. AdmittedOnce'
    BY <2>1, <2>4, <2>5, <2>6 DEF AdmittedOnce
  <2> QED BY <1>0, <2>3, <2>7, <2>8
<1>3. ASSUME NEW w \in Workers, TakeBatch(w), UNCHANGED admitted,
             Pipeline = Head(flushTrigger) \o Pipeline'
      PROVE  Goal
  <2> DEFINE h == Head(flushTrigger)
  <2>1. /\ h \in Seq(Events) /\ Elems(Pipeline) = Elems(h) \cup Elems(Pipeline')
        /\ Elems(h) \cap Elems(Pipeline') = {}
    BY <1>3, FirstBatch
  <2>2. wbatch'[w] = h /\ \A v \in Workers \ {w} : wbatch'[v] = wbatch[v]
    BY <1>3, OthersKeep
  <2>3. IsSuffix(h \o Pipeline', admitted)
    BY <1>0, <1>3
  <2> HIDE DEF h
  <2>4. IsSuffix(Pipeline', admitted')
    BY <1>0, <1>3, <2>1, <2>3, SuffixDrop
  <2>5. OneHolder'
    BY <2>1, <2>2, OneHolderIs, OneHolderIsNext
  <2>6. Elems(Pipeline) \subseteq Elems(admitted)
    BY PipelineAdmitted
  <2>7. AdmittedOnce'
    BY <1>3, <2>1, <2>2, <2>6 DEF AdmittedOnce
  <2> QED BY <1>0, <2>4, <2>5, <2>7
<1> QED BY <1>1, <1>2, <1>3, PipelineStep

-----------------------------------------------------------------------------
(* How often an event is written.                                          *)

(* The attempts that have returned of the batch that w writes.             *)
Made(w) == IF worker[w] = "sleep" THEN attempt[w] ELSE attempt[w] - 1

(* Nothing is written, or given up, of an event that no worker has had;    *)
(* of one that a worker has, at most one row for each attempt made.        *)
Fresh == \A e \in Events :
    reply[e] # "nil" \/ e \in Elems(Pipeline) => rows[e] = 0 /\ e \notin dropped

Written == \A w \in Workers : \A e \in Elems(wbatch[w]) :
    e \notin dropped /\ rows[e] <= Made(w)

(* Where an event is that w writes. *)
LEMMA InHand ==
    ASSUME TypeOK, CloseProtocol, OneHolder, AdmittedOnce,
           NEW w \in Workers, NEW e \in Elems(wbatch[w])
    PROVE  /\ e \in Events /\ reply[e] = "nil" /\ e \notin Elems(Pipeline)
           /\ \A v \in Workers \ {w} : e \notin Elems(wbatch[v])
<1>1. e \in Elems(admitted)
  BY DEF AdmittedOnce
<1>2. e \in Events /\ reply[e] = "nil"
  BY <1>1 DEF CloseProtocol
<1> QED BY <1>2, OneHolderIs

(* The pipeline of the next state has nothing but what Publish lets in.    *)
LEMMA PipelineGains ==
    ASSUME TypeOK, TypeOK', [Next]_vars, NEW e \in Elems(Pipeline')
    PROVE  e \in Elems(Pipeline) \/ (e \in Events /\ reply[e] = "none")
<1>0. Pipeline \in Seq(Events) /\ Pipeline' \in Seq(Events)
  BY OneHolderIs, OneHolderIsNext
<1>1. CASE UNCHANGED <<Pipeline, admitted>>
  BY <1>1
<1>2. ASSUME NEW f \in Events, Admit(f), Pipeline' = Append(Pipeline, f)
      PROVE  e \in Elems(Pipeline) \/ (e \in Events /\ reply[e] = "none")
  <2>1. Elems(Pipeline') = Elems(Pipeline) \cup {f} /\ reply[f] = "none"
    BY <1>0, <1>2, ElemsAppend DEF Admit
  <2> QED BY <1>2, <2>1
<1>3. ASSUME NEW w \in Workers, TakeBatch(w), Pipeline = Head(flushTrigger) \o Pipeline'
      PROVE  e \in Elems(Pipeline)
  <2>1. Head(flushTrigger) \in Seq(Events)
    BY <1>3, ElemsHeadTail DEF TakeBatch, TypeOK
  <2>2. Elems(Head(flushTrigger) \o Pipeline') = Elems(Head(flushTrigger)) \cup Elems(Pipeline')
    BY <1>0, <2>1, ElemsConcat
  <2> QED BY <1>3, <2>2
<1> QED BY <1>1, <1>2, <1>3, PipelineStep

(* A Flush, of the whole batch or of a part of it, adds one row at most to *)
(* an event of the batch and none to another.                              *)
LEMMA FlushWrites ==
    ASSUME TypeOK, NEW w \in Workers, FlushOk(w) \/ FlushFails(w)
    PROVE  /\ \A e \in Events : /\ rows'[e] \in {rows[e], rows[e] + 1}
                                /\ rows'[e] # rows[e] => e \in Elems(wbatch[w])
           /\ UNCHANGED <<ch, batch, flushTrigger, dropped, reply>>
           /\ \A v \in Workers \ {w} :
                 wbatch'[v] = wbatch[v] /\ worker'[v] = worker[v] /\ attempt'[v] = attempt[v]
           /\ worker[w] = "flush"
           /\ \/ wbatch'[w] = <<>>
              \/ wbatch'[w] = wbatch[w] /\ worker'[w] = "sleep" /\ attempt'[w] = attempt[w]
<1>1. CASE FlushOk(w)
  BY <1>1 DEF FlushOk, Insert, TypeOK, loopVars, queueVars, pubVars
<1>2. CASE FlushFails(w)
  <2>1. PICK part \in SUBSET Elems(wbatch[w]) : Insert(part)
    BY <1>2 DEF FlushFails
  <2>2. \A e \in Events : /\ rows'[e] \in {rows[e], rows[e] + 1}
                          /\ rows'[e] # rows[e] => e \in Elems(wbatch[w])
    BY <2>1 DEF Insert
  <2> QED BY <1>2, <2>2 DEF FlushFails, TypeOK, loopVars, queueVars, pubVars
<1> QED BY <1>1, <1>2

(* Every step keeps the count. *)
LEMMA WrittenStep ==
    ASSUME TypeOK, TypeOK', Lifecycle, CloseProtocol, InOrder, OneHolder, AdmittedOnce,
           Fresh, Written, BoundedDuplicates, [Next]_vars
    PROVE  Fresh' /\ Written' /\ BoundedDuplicates'
<1> DEFINE Goal == Fresh' /\ Written' /\ BoundedDuplicates'
<1>0. /\ rows \in [Events -> Nat] /\ rows' \in [Events -> Nat]
      /\ attempt \in [Workers -> 0..MaxAttempts] /\ MaxAttempts \in Nat
      /\ Pipeline \in Seq(Events) /\ Elems(Pipeline) \subseteq Events
  BY MaxAttemptsType, OneHolderIs, ElemsType DEF TypeOK
<1>1. ASSUME UNCHANGED <<rows, dropped>>, \A e \in Events : reply[e] = "nil" => reply'[e] = "nil"
      PROVE  Fresh'
  BY <1>1, PipelineGains DEF Fresh
<1>2. ASSUME UNCHANGED dbVars, \A e \in Events : reply[e] = "nil" => reply'[e] = "nil",
             \A w \in Workers : \/ wbatch'[w] = <<>>
                                \/ UNCHANGED <<wbatch[w], worker[w], attempt[w]>>
      PROVE  Goal
  <2>1. Fresh' /\ BoundedDuplicates'
    BY <1>1, <1>2 DEF dbVars, BoundedDuplicates
  <2>2. Written'
    BY <1>2, ElemsEmpty DEF Written, Made, dbVars
  <2> QED BY <2>1, <2>2
<1>3. ASSUME NEW w \in Workers, TakeBatch(w)
      PROVE  Goal
  <2>1. /\ UNCHANGED <<rows, dropped, reply>>
        /\ wbatch'[w] = Head(flushTrigger) /\ attempt'[w] = 1 /\ worker'[w] = "flush"
        /\ \A v \in Workers \ {w} : UNCHANGED <<wbatch[v], worker[v], attempt[v]>>
    BY <1>3 DEF TakeBatch, TypeOK, dbVars, pubVars
  <2>2. Elems(Head(flushTrigger)) \subseteq Elems(Pipeline)
    <3>1. flushTrigger # <<>> /\ flushTrigger \in Seq(Seq(Events))
      BY <1>3 DEF TakeBatch, TypeOK
    <3>2. Head(flushTrigger) \in Elems(flushTrigger)
      BY <3>1, ElemsHeadTail
    <3>3. Elems(Pipeline) = Elems(ch) \cup Elems(batch) \cup UNION {Elems(x) : x \in Elems(flushTrigger)}
      BY PipelineElems DEF Pipeline, TypeOK
    <3> QED BY <3>2, <3>3
  <2>3. \A e \in Elems(wbatch'[w]) : rows[e] = 0 /\ e \notin dropped
    BY <1>0, <2>1, <2>2 DEF Fresh
  <2>4. Written'
    BY <2>1, <2>3 DEF Written, Made
  <2>5. Fresh' /\ BoundedDuplicates'
    BY <1>1, <2>1 DEF BoundedDuplicates
  <2> QED BY <2>4, <2>5
<1>4. ASSUME NEW w \in Workers, FlushOk(w) \/ FlushFails(w)
      PROVE  Goal
  <2>1. /\ \A e \in Events : /\ rows'[e] \in {rows[e], rows[e] + 1}
                             /\ rows'[e] # rows[e] => e \in Elems(wbatch[w])
        /\ UNCHANGED <<Pipeline, dropped, reply>> /\ worker[w] = "flush"
        /\ \A v \in Workers \ {w} : UNCHANGED <<wbatch[v], worker[v], attempt[v]>>
        /\ \/ wbatch'[w] = <<>>
           \/ wbatch'[w] = wbatch[w] /\ worker'[w] = "sleep" /\ attempt'[w] = attempt[w]
    BY <1>4, FlushWrites DEF Pipeline
  <2>2. \A e \in Elems(wbatch[w]) : /\ e \in Events /\ reply[e] = "nil" /\ e \notin Elems(Pipeline)
                                    /\ e \notin dropped /\ rows[e] <= attempt[w] - 1
                                    /\ \A v \in Workers \ {w} : e \notin Elems(wbatch[v])
    BY <2>1, InHand DEF Written, Made
  <2>3. Fresh'
    BY <2>1, <2>2 DEF Fresh
  <2>4. BoundedDuplicates'
    <3> SUFFICES ASSUME NEW e \in Events PROVE rows'[e] <= MaxAttempts
      BY DEF BoundedDuplicates
    <3>1. CASE e \in Elems(wbatch[w])
      <4>1. rows[e] \in Nat /\ rows[e] <= attempt[w] - 1 /\ attempt[w] \in 0..MaxAttempts
        BY <1>0, <2>2, <3>1
      <4>2. rows'[e] \in {rows[e], rows[e] + 1} /\ MaxAttempts \in Nat
        BY <1>0, <2>1
      <4> QED BY <4>1, <4>2
    <3>2. CASE e \notin Elems(wbatch[w])
      BY <2>1, <3>2 DEF BoundedDuplicates
    <3> QED BY <3>1, <3>2
  <2>5. ASSUME NEW v \in Workers, NEW e \in Elems(wbatch'[v])
        PROVE  e \notin dropped' /\ rows'[e] <= Made(v)'
    <3>1. CASE v = w
      <4>1. wbatch'[w] = wbatch[w] /\ worker'[w] = "sleep" /\ attempt'[w] = attempt[w]
        BY <2>1, <2>5, <3>1, ElemsEmpty
      <4>2. e \in Events /\ rows[e] \in Nat /\ rows[e] <= attempt[w] - 1 /\ attempt[w] \in Nat
            /\ e \notin dropped
        BY <1>0, <2>2, <2>5, <3>1, <4>1
      <4>3. rows'[e] <= attempt[w] /\ Made(v)' = attempt[w]
        BY <2>1, <3>1, <4>1, <4>2 DEF Made
      <4> QED BY <2>1, <4>2, <4>3
    <3>2. CASE v # w
      <4>1. wbatch'[v] = wbatch[v] /\ Made(v)' = Made(v)
        BY <2>1, <3>2 DEF Made
      <4>2. e \in Elems(wbatch[v]) /\ e \notin Elems(wbatch[w]) /\ e \in Events
        BY <2>2, <2>5, <3>2, <4>1, InHand
      <4> QED BY <2>1, <4>1, <4>2 DEF Written
    <3> QED BY <3>1, <3>2
  <2> QED BY <2>3, <2>4, <2>5 DEF Written
<1>5. ASSUME NEW w \in Workers, Wake(w)
      PROVE  Goal
  <2>1. /\ UNCHANGED <<Pipeline, rows, reply>> /\ worker[w] = "sleep"
        /\ \A v \in Workers \ {w} : UNCHANGED <<wbatch[v], worker[v], attempt[v]>>
        /\ \/ /\ wbatch'[w] = <<>> /\ dropped' = dropped \cup Elems(wbatch[w])
           \/ /\ wbatch'[w] = wbatch[w] /\ dropped' = dropped
              /\ attempt'[w] = attempt[w] + 1 /\ worker'[w] = "flush"
    BY <1>5 DEF Wake, TypeOK, Pipeline, loopVars, queueVars, pubVars
  <2>2. \A e \in Elems(wbatch[w]) : /\ e \in Events /\ reply[e] = "nil" /\ e \notin Elems(Pipeline)
                                    /\ e \notin dropped /\ rows[e] <= attempt[w]
                                    /\ \A v \in Workers \ {w} : e \notin Elems(wbatch[v])
    BY <2>1, InHand DEF Written, Made
  <2>3. Fresh' /\ BoundedDuplicates'
    BY <2>1, <2>2 DEF Fresh, BoundedDuplicates
  <2>4. ASSUME NEW v \in Workers, NEW e \in Elems(wbatch'[v])
        PROVE  e \notin dropped' /\ rows'[e] <= Made(v)'
    <3>1. CASE v = w
      <4>1. /\ wbatch'[w] = wbatch[w] /\ dropped' = dropped
            /\ attempt'[w] = attempt[w] + 1 /\ worker'[w] = "flush"
        BY <2>1, <2>4, <3>1, ElemsEmpty
      <4>2. Made(v)' = attempt[w]
        BY <1>0, <3>1, <4>1 DEF Made
      <4> QED BY <2>1, <2>2, <2>4, <3>1, <4>1, <4>2
    <3>2. CASE v # w
      <4>1. wbatch'[v] = wbatch[v] /\ Made(v)' = Made(v)
        BY <2>1, <3>2 DEF Made
      <4>2. e \in Elems(wbatch[v]) /\ e \notin Elems(wbatch[w])
        BY <2>2, <2>4, <3>2, <4>1
      <4> QED BY <2>1, <4>1, <4>2 DEF Written
    <3> QED BY <3>1, <3>2
  <2> QED BY <2>3, <2>4 DEF Written
<1>6. \/ /\ UNCHANGED dbVars /\ \A e \in Events : reply[e] = "nil" => reply'[e] = "nil"
         /\ \A w \in Workers : \/ wbatch'[w] = <<>>
                               \/ UNCHANGED <<wbatch[w], worker[w], attempt[w]>>
      \/ \E w \in Workers : TakeBatch(w) \/ FlushOk(w) \/ FlushFails(w) \/ Wake(w)
  <2>1. CASE \E w \in Workers : SpawnWorker(w) \/ WorkerEnds(w)
    BY <2>1 DEF SpawnWorker, WorkerEnds, TypeOK, Lifecycle, dbVars, pubVars
  <2>2. CASE \E e \in Events : Publish(e)
    BY <2>2 DEF Publish, Admit, Refuse, TypeOK, dbVars, workerVars
  <2>3. CASE UNCHANGED <<dbVars, reply, workerVars>>
    BY <2>3 DEF dbVars, workerVars
  <2> QED
    BY <2>1, <2>2, <2>3
       DEF Next, vars, LoopStep, StartTicker, Receive, Tick, SeeDone, Dispatch, DrainReceive,
           DrainStop, CloseTrigger, LoopEnds, WorkerStep, CloseStep, CloseCheck, CloseSignal,
           CloseFinished, CloseExpires, CancelContext, pubVars
<1> QED BY <1>2, <1>3, <1>4, <1>5, <1>6

-----------------------------------------------------------------------------
(* How many events there are.                                              *)

(* A batch that has been cut is no longer than FlushBatchSize. *)
BatchesFit ==
    /\ \A b \in Elems(flushTrigger) : Len(b) <= BatchSize
    /\ \A w \in Workers : Len(wbatch[w]) <= BatchSize

(* Every step keeps the batches as short. *)
LEMMA BatchesFitStep ==
    ASSUME TypeOK, BatchesFit, [Next]_vars
    PROVE  BatchesFit'
<1>0. /\ Len(batch) <= BatchSize /\ BatchSize \in Nat /\ Len(<<>>) = 0
      /\ batch \in Seq(Events) /\ flushTrigger \in Seq(Seq(Events))
  BY BatchSizeAssumption DEF TypeOK
<1>1. ASSUME UNCHANGED flushTrigger, Kept
      PROVE  BatchesFit'
  BY <1>0, <1>1 DEF BatchesFit, Kept
<1>2. CASE Dispatch
  <2>1. wbatch' = wbatch
    BY <1>2 DEF Dispatch, workerVars
  <2>2. UNCHANGED flushTrigger \/ flushTrigger' = Append(flushTrigger, batch)
    BY <1>2 DEF Dispatch, queueVars
  <2>3. UNCHANGED flushTrigger \/ Elems(flushTrigger') = Elems(flushTrigger) \cup {batch}
    <3>1. flushTrigger' = Append(flushTrigger, batch)
            => Elems(flushTrigger') = Elems(flushTrigger) \cup {batch}
      BY batch \in Seq(Events), flushTrigger \in Seq(Seq(Events)), ElemsAppend DEF TypeOK
    <3> QED BY <2>2, <3>1
  <2> QED BY <1>0, <2>1, <2>3 DEF BatchesFit
<1>3. ASSUME NEW w \in Workers, TakeBatch(w)
      PROVE  BatchesFit'
  <2>1. flushTrigger # <<>> /\ flushTrigger' = Tail(flushTrigger)
    BY <1>3 DEF TakeBatch
  <2>2. Elems(flushTrigger) = {Head(flushTrigger)} \cup Elems(flushTrigger')
    BY <1>0, <2>1, ElemsHeadTail
  <2> QED BY <1>3, <2>2, OthersKeep DEF BatchesFit
<1>4. \/ UNCHANGED flushTrigger /\ Kept
      \/ Dispatch
      \/ \E w \in Workers : TakeBatch(w)
  BY DEF TypeOK, Kept, workerVars, Next, vars, Publish, Admit, Refuse, LoopStep, SpawnWorker,
         StartTicker, Receive, Tick, SeeDone, DrainReceive, DrainStop, CloseTrigger, LoopEnds,
         WorkerStep, WorkerEnds, FlushOk, FlushFails, Wake, CloseStep, CloseCheck,
         CloseSignal, CloseFinished, CloseExpires, CancelContext, queueVars
<1> QED BY <1>1, <1>2, <1>3, <1>4

(* What the workers hold is a batch each at most. *)
LEMMA HeldByWorkers ==
    ASSUME TypeOK, BatchesFit
    PROVE  /\ MapThenSumSet(LAMBDA w : Len(wbatch[w]), Workers) \in Nat
           /\ MapThenSumSet(LAMBDA w : Len(wbatch[w]), Workers)
                <= BatchSize * Cardinality(Workers)
<1> DEFINE f == [w \in Workers |-> Len(wbatch[w])]
           first(A) == CHOOSE x \in A : TRUE
<1>0. IsFiniteSet(Workers) /\ BatchSize \in Nat
  BY WorkersAssumption, BatchSizeAssumption
<1>1. f \in [Workers -> Nat] /\ \A w \in Workers : f[w] <= BatchSize
  BY LenProperties DEF TypeOK, BatchesFit
<1>2. \A A \in SUBSET Workers : A # {} => f[first(A)] = Len(wbatch[first(A)])
  OBVIOUS
<1> HIDE DEF f
<1>3. PICK h \in [SUBSET Workers -> Nat] : Sums(Workers, f, h)
  BY <1>0, <1>1, SumsExists
<1>4. ASSUME NEW g, g = [A \in SUBSET Workers |->
                           IF A = {} THEN 0 ELSE Len(wbatch[first(A)]) + g[A \ {first(A)}]]
      PROVE  g = h
  <2>1. g = [A \in SUBSET Workers |-> IF A = {} THEN 0 ELSE f[first(A)] + g[A \ {first(A)}]]
    BY <1>2, <1>4
  <2>2. Sums(Workers, f, g)
    BY <2>1 DEF Sums
  <2> QED BY <1>0, <1>3, <2>2, SumsUnique
<1>5. h = [A \in SUBSET Workers |->
             IF A = {} THEN 0 ELSE Len(wbatch[first(A)]) + h[A \ {first(A)}]]
  BY <1>2, <1>3 DEF Sums
<1>6. MapThenSumSet(LAMBDA w : Len(wbatch[w]), Workers) = h[Workers]
  BY <1>4, <1>5 DEF MapThenSumSet, MapThenFoldSet
<1>7. h[Workers] \in Nat /\ h[Workers] <= BatchSize * Cardinality(Workers)
  BY <1>0, <1>1, <1>3, SumsBound
<1> QED BY <1>6, <1>7

(* The queues and the workers' hands, added up. *)
LEMMA MemoryIsBounded ==
    ASSUME TypeOK, BatchesFit
    PROVE  BoundedMemory
<1>1. /\ Len(ch) \in Nat /\ Len(ch) <= Capacity /\ Len(batch) \in Nat /\ Len(batch) <= BatchSize
      /\ Len(flushTrigger) \in Nat /\ Len(flushTrigger) <= TriggerCap
      /\ flushTrigger \in Seq(Seq(Events))
  BY LenProperties DEF TypeOK
<1>2. /\ Capacity \in Nat /\ BatchSize \in Nat /\ TriggerCap \in Nat
      /\ Cardinality(Workers) \in Nat
  BY CapacityAssumption, BatchSizeAssumption, TriggerCapAssumption, WorkersAssumption,
     FS_CardinalityType
<1>3. /\ Len(FlattenSeq(flushTrigger)) \in Nat
      /\ Len(FlattenSeq(flushTrigger)) <= BatchSize * Len(flushTrigger)
  <2>1. \A b \in Range(flushTrigger) : Len(b) <= BatchSize
    BY ElemsIsRange DEF BatchesFit
  <2>2. FlattenSeq(flushTrigger) \in Seq(Events)
    BY <1>1, FlattenType
  <2> QED BY <1>1, <1>2, <2>1, <2>2, FlattenLen, LenProperties
<1>4. BatchSize * Len(flushTrigger) <= BatchSize * TriggerCap
  <2>1. PICK d \in Nat : TriggerCap = Len(flushTrigger) + d
    BY <1>1, <1>2, TriggerCap - Len(flushTrigger) \in Nat
  <2>2. BatchSize * TriggerCap = BatchSize * Len(flushTrigger) + BatchSize * d
    BY <1>1, <1>2, <2>1
  <2>3. BatchSize * d \in Nat /\ BatchSize * Len(flushTrigger) \in Nat
    BY <1>1, <1>2, <2>1
  <2> QED BY <2>2, <2>3
<1> DEFINE sum == MapThenSumSet(LAMBDA w : Len(wbatch[w]), Workers)
<1>5. sum \in Nat /\ sum <= BatchSize * Cardinality(Workers)
  BY HeldByWorkers
<1>6. BatchSize * (1 + TriggerCap + Cardinality(Workers))
        = BatchSize + BatchSize * TriggerCap + BatchSize * Cardinality(Workers)
  BY <1>2
<1>7. /\ BatchSize * Len(flushTrigger) \in Nat /\ BatchSize * TriggerCap \in Nat
      /\ BatchSize * Cardinality(Workers) \in Nat
  BY <1>1, <1>2
<1> DEFINE all == BatchSize * (1 + TriggerCap + Cardinality(Workers))
           queued == BatchSize * TriggerCap
           inHand == BatchSize * Cardinality(Workers)
           now == BatchSize * Len(flushTrigger)
           flat == Len(FlattenSeq(flushTrigger))
<1>8. /\ all = BatchSize + queued + inHand /\ flat <= now /\ now <= queued /\ sum <= inHand
      /\ queued \in Nat /\ inHand \in Nat /\ now \in Nat /\ flat \in Nat /\ sum \in Nat
  BY <1>3, <1>4, <1>5, <1>6, <1>7
<1> HIDE DEF sum, all, queued, inHand, now, flat
<1>9. Len(ch) + Len(batch) + flat + sum <= Capacity + all
  BY <1>1, <1>2, <1>8
<1> QED BY <1>9 DEF sum, all, flat, BoundedMemory

-----------------------------------------------------------------------------
(* The theorems.                                                           *)

(* The inductive invariant, on top of IInv.  InOrder alone is inductive;   *)
(* OneHolder needs it, because a batch that is taken is disjoint from what *)
(* it leaves behind only if no event is admitted twice; the bound on the   *)
(* rows needs OneHolder, and that a retry is of a batch nobody else has.   *)
KInv ==
    /\ InOrder /\ OneHolder /\ AdmittedOnce
    /\ Fresh /\ Written /\ BoundedDuplicates
    /\ BatchesFit

(* It holds in the first state. *)
LEMMA DeliveryInit == Init => KInv
<1> SUFFICES ASSUME Init PROVE KInv
  OBVIOUS
<1>1. FlattenSeq(flushTrigger) \o batch \o ch = <<>> /\ admitted = <<>>
  BY FlattenEmpty, ConcatEmptySeq, <<>> \in Seq(Events) DEF Init
<1>2. Elems(<<>>) = {} /\ <<>> \in Seq(Events) /\ Len(<<>>) = 0 /\ DOMAIN <<>> = {}
  BY ElemsEmpty
<1>3. InOrder
  <2>1. Len(<<>>) <= Len(<<>>) /\ \A i \in 1..Len(<<>>) : <<>>[i] = <<>>[i + (Len(<<>>) - Len(<<>>))]
    BY <1>2
  <2>2. IsSuffix(<<>>, <<>>)
    BY <1>2, <2>1, SuffixAt
  <2> QED BY <1>1, <2>2 DEF InOrder
<1>4. OneHolder /\ AdmittedOnce
  BY <1>1, <1>2 DEF Init, OneHolder, AdmittedOnce, IsInjective
<1>5. Fresh /\ Written /\ BoundedDuplicates
  BY <1>1, <1>2, MaxAttemptsType DEF Init, Fresh, Written, BoundedDuplicates, Pipeline
<1>6. BatchesFit
  BY <1>2, BatchSizeAssumption DEF Init, BatchesFit
<1> QED BY <1>3, <1>4, <1>5, <1>6 DEF KInv

(* The inductive invariant holds in every reachable state of every buffer. *)
THEOREM DeliveryInvariance == Spec => []KInv
<1>1. Spec => []IInv
  BY Invariance
<1>2. Init => KInv
  BY DeliveryInit
<1>3. IInv /\ IInv' /\ KInv /\ [Next]_vars => KInv'
  <2> SUFFICES ASSUME IInv, IInv', KInv, [Next]_vars PROVE KInv'
    OBVIOUS
  <2>1. TypeOK /\ TypeOK' /\ Lifecycle /\ CloseProtocol
    BY DEF IInv
  <2>2. /\ InOrder /\ OneHolder /\ AdmittedOnce
        /\ Fresh /\ Written /\ BoundedDuplicates /\ BatchesFit
    BY DEF KInv
  <2>3. InOrder' /\ OneHolder' /\ AdmittedOnce'
    BY <2>1, <2>2, OrderStep
  <2>4. Fresh' /\ Written' /\ BoundedDuplicates'
    BY <2>1, <2>2, WrittenStep
  <2>5. BatchesFit'
    BY <2>1, <2>2, BatchesFitStep
  <2> QED BY <2>3, <2>4, <2>5 DEF KInv
<1> QED BY <1>1, <1>2, <1>3, PTL DEF Spec

(* What is still in the pipeline is, in order, the last that was admitted: *)
(* dispatch, drain and reset of the loop's batch lose and repeat nothing.  *)
THEOREM OrderKept == Spec => []InOrder
BY DeliveryInvariance, PTL DEF KInv

(* No two goroutines ever hold the same event, whatever flushTrigger hands *)
(* to whom.                                                                *)
THEOREM HeldOnce == Spec => []OneHolder
BY DeliveryInvariance, PTL DEF KInv

(* An event is inserted at most max(1, cfg.FlushRetries) times.            *)
THEOREM DuplicatesBounded == Spec => []BoundedDuplicates
BY DeliveryInvariance, PTL DEF KInv

(* The buffer never holds more than its channels, the loop's batch and a   *)
(* batch for each worker, for every size and every number of workers.      *)
THEOREM MemoryBounded == Spec => []BoundedMemory
<1>1. IInv /\ KInv => BoundedMemory
  BY MemoryIsBounded DEF IInv, KInv
<1> QED BY <1>1, Invariance, DeliveryInvariance, PTL

-----------------------------------------------------------------------------
(* The buffer implements Delivery.                                         *)

(* What the database and Close have to do with an event that Publish has   *)
(* not accepted: nothing.                                                  *)
LEMMA NotAcceptedYet ==
    ASSUME IInv, KInv, NEW e \in Events, reply[e] # "nil"
    PROVE  rows[e] = 0 /\ e \notin dropped /\ e \notin atClose
BY DEF IInv, KInv, Fresh, CloseProtocol

(* Delivery counts as the buffer does. *)
LEMMA SameCardinality == \A S : D!Cardinality(S) = Cardinality(S)
BY DEF D!Cardinality, Cardinality, D!IsFiniteSet, IsFiniteSet

(* fate is a function. *)
LEMMA FateIsFunction ==
    fate = [e \in Events |-> fate[e]] /\ fate' = [e \in Events |-> fate'[e]]
BY DEF fate

(* The first state is Delivery's. *)
LEMMA FateInit == Init => D!Init
<1> SUFFICES ASSUME Init PROVE D!Init
  OBVIOUS
<1>1. fate = [e \in Events |-> "new"]
  BY DEF Init, fate
<1> QED BY <1>1 DEF Init, D!Init

(* Publish accepts or refuses. *)
LEMMA FatePublish ==
    ASSUME IInv, KInv, NEW e \in Events, Publish(e)
    PROVE  D!Accept(e) \/ D!Reject(e)
<1>0. /\ reply[e] = "none" /\ UNCHANGED <<rows, dropped, done, atClose>>
      /\ reply \in [Events -> {"none", "nil", "ErrPublishFailed"}]
  BY DEF Publish, Admit, Refuse, closeVars, dbVars, IInv, TypeOK
<1>1. rows[e] = 0 /\ e \notin dropped /\ e \notin atClose
  BY <1>0, NotAcceptedYet
<1>2. fate[e] = "new" /\ DOMAIN fate = Events
  BY <1>0, <1>1 DEF fate
<1>3. ASSUME NEW f \in Events, f # e, reply'[f] = reply[f]
      PROVE  fate'[f] = fate[f]
  BY <1>0, <1>3 DEF fate
<1>4. CASE Admit(e)
  <2>1. reply' = [reply EXCEPT ![e] = "nil"]
    BY <1>4 DEF Admit
  <2>2. fate'[e] = IF done THEN "late" ELSE "pending"
    BY <1>0, <1>1, <2>1 DEF fate
  <2>3. \A f \in Events : f # e => fate'[f] = fate[f]
    BY <1>0, <1>3, <2>1
  <2>4. fate' = [fate EXCEPT ![e] = IF done THEN "late" ELSE "pending"]
    BY <2>2, <2>3, FateIsFunction
  <2> QED BY <1>0, <1>2, <2>4 DEF D!Accept
<1>5. ASSUME NEW ctx \in BOOLEAN, Refuse(e, ctx)
      PROVE  D!Reject(e)
  <2>1. reply' = [reply EXCEPT ![e] = "ErrPublishFailed"]
    BY <1>5 DEF Refuse
  <2>2. fate'[e] = "refused"
    BY <1>0, <1>1, <2>1 DEF fate
  <2>3. \A f \in Events : f # e => fate'[f] = fate[f]
    BY <1>0, <1>3, <2>1
  <2>4. fate' = [fate EXCEPT ![e] = "refused"]
    BY <2>2, <2>3, FateIsFunction
  <2> QED BY <1>0, <1>2, <2>4 DEF D!Reject
<1> QED BY <1>4, <1>5 DEF Publish

(* Close begins once; what was admitted before is pending, not late.       *)
LEMMA FateClose ==
    ASSUME IInv, KInv, NEW c \in Closers, CloseSignal(c)
    PROVE  D!BeginClose \/ UNCHANGED <<fate, done>>
<1>0. /\ UNCHANGED <<rows, dropped, reply>>
      /\ reply \in [Events -> {"none", "nil", "ErrPublishFailed"}]
      /\ Elems(admitted) = {e \in Events : reply[e] = "nil"}
  BY DEF CloseSignal, dbVars, pubVars, IInv, TypeOK, CloseProtocol
<1>1. CASE done
  BY <1>0, <1>1 DEF CloseSignal, closeVars, fate
<1>2. CASE ~done
  <2>1. done' = TRUE /\ atClose' = {e \in Events : reply[e] = "nil"}
    BY <1>0, <1>2 DEF CloseSignal
  <2>2. \A e \in Events : fate'[e] = fate[e]
    BY <1>0, <1>2, <2>1 DEF fate
  <2>3. fate' = fate
    BY <2>2 DEF fate
  <2> QED BY <1>2, <2>1, <2>3 DEF D!BeginClose
<1> QED BY <1>1, <1>2

(* Some of the events of a worker's batch are settled: a batch at a time,  *)
(* and none that was not waiting.                                          *)
LEMMA FateSettle ==
    ASSUME IInv, KInv, NEW w \in Workers, NEW how \in {"persisted", "dropped"},
           NEW S \in SUBSET Elems(wbatch[w]), \A e \in S : rows[e] = 0,
           UNCHANGED done,
           \A e \in S : fate'[e] = how,
           \A e \in Events \ S : fate'[e] = fate[e]
    PROVE  [D!Next]_<<fate, done>>
<1>1. S \subseteq D!Unsettled
  <2> SUFFICES ASSUME NEW e \in S PROVE e \in D!Unsettled
    OBVIOUS
  <2>1. e \in Events /\ reply[e] = "nil" /\ rows[e] = 0 /\ e \notin dropped
    BY InHand DEF IInv, KInv, Written
  <2> QED BY <2>1 DEF D!Unsettled, fate
<1>2. Cardinality(S) <= BatchSize
  <2>1. wbatch[w] \in Seq(Events) /\ Len(wbatch[w]) \in Nat /\ Len(wbatch[w]) <= BatchSize
    BY LenProperties DEF IInv, KInv, TypeOK, BatchesFit
  <2>2. IsFiniteSet(Elems(wbatch[w])) /\ Cardinality(Elems(wbatch[w])) <= Len(wbatch[w])
    BY <2>1, RangeCard, ElemsIsRange
  <2>3. /\ Cardinality(S) <= Cardinality(Elems(wbatch[w]))
        /\ Cardinality(S) \in Nat /\ Cardinality(Elems(wbatch[w])) \in Nat
    BY <2>2, FS_Subset, FS_CardinalityType
  <2> QED BY <2>1, <2>2, <2>3, BatchSizeAssumption
<1>3. S \subseteq Events
  BY <1>1 DEF D!Unsettled
<1>4. CASE S = {}
  <2>1. fate' = fate
    BY <1>4 DEF fate
  <2> QED BY <2>1
<1>5. CASE S # {}
  <2>1. fate' = [e \in Events |-> IF e \in S THEN how ELSE fate[e]]
    BY <1>3, ZenonT(40) DEF fate
  <2>2. D!Settle(S, how)
    BY <1>2, <1>5, <2>1, SameCardinality DEF D!Settle
  <2>3. D!Next
    BY <1>1, <2>2 DEF D!Next
  <2> QED BY <2>3
<1> QED BY <1>4, <1>5

(* A Flush, whole or in part, persists the events it is the first to write. *)
LEMMA FateFlush ==
    ASSUME IInv, KInv, NEW w \in Workers, FlushOk(w) \/ FlushFails(w)
    PROVE  [D!Next]_<<fate, done>>
<1> DEFINE S == {e \in Elems(wbatch[w]) : rows[e] = 0 /\ rows'[e] > 0}
<1>1. UNCHANGED <<done, atClose>>
  BY DEF FlushOk, FlushFails, closeVars
<1>2. /\ \A e \in Events : /\ rows'[e] \in {rows[e], rows[e] + 1}
                           /\ rows'[e] # rows[e] => e \in Elems(wbatch[w])
      /\ UNCHANGED <<dropped, reply>>
      /\ rows \in [Events -> Nat] /\ Elems(wbatch[w]) \subseteq Events
  BY FlushWrites, ElemsType DEF IInv, TypeOK
<1>3. ASSUME NEW e \in S PROVE fate'[e] = "persisted"
  <2>1. e \in Events /\ rows'[e] > 0 /\ rows'[e] # 0
    BY <1>2
  <2>2. reply'[e] = "nil"
    BY <1>2, InHand DEF IInv, KInv
  <2> QED BY <2>1, <2>2 DEF fate
<1>4. ASSUME NEW e \in Events \ S PROVE fate'[e] = fate[e]
  <2>1. rows'[e] > 0 <=> rows[e] > 0
    BY <1>2
  <2>2. rows'[e] = 0 <=> rows[e] = 0
    BY <1>2
  <2> QED BY <1>1, <1>2, <2>1, <2>2 DEF fate
<1>5. S \in SUBSET Elems(wbatch[w]) /\ \A e \in S : rows[e] = 0
  OBVIOUS
<1> HIDE DEF S
<1> QED BY <1>1, <1>3, <1>4, <1>5, FateSettle

(* A batch given up drops its events that no attempt has written.          *)
LEMMA FateWake ==
    ASSUME IInv, KInv, NEW w \in Workers, Wake(w)
    PROVE  [D!Next]_<<fate, done>>
<1> DEFINE S == {e \in Elems(wbatch[w]) : rows[e] = 0 /\ e \in dropped'}
<1>1. /\ UNCHANGED <<done, atClose, rows, reply>>
      /\ dropped' = dropped \/ dropped' = dropped \cup Elems(wbatch[w])
      /\ rows \in [Events -> Nat] /\ Elems(wbatch[w]) \subseteq Events
  BY ElemsType DEF Wake, closeVars, pubVars, IInv, TypeOK
<1>2. ASSUME NEW e \in S PROVE fate'[e] = "dropped"
  <2>1. e \in Events /\ rows'[e] = 0 /\ ~(rows'[e] > 0) /\ e \in dropped'
    BY <1>1
  <2>2. reply'[e] = "nil"
    BY <1>1, InHand DEF IInv, KInv
  <2> QED BY <2>1, <2>2 DEF fate
<1>3. ASSUME NEW e \in Events \ S PROVE fate'[e] = fate[e]
  <2>1. rows[e] = 0 => (e \in dropped' <=> e \in dropped)
    BY <1>1
  <2> QED BY <1>1, <2>1 DEF fate
<1>4. S \in SUBSET Elems(wbatch[w]) /\ \A e \in S : rows[e] = 0
  OBVIOUS
<1> HIDE DEF S
<1> QED BY <1>1, <1>2, <1>3, <1>4, FateSettle

(* Every step of the buffer is a step of Delivery, or none.                *)
LEMMA FateStep ==
    ASSUME IInv, KInv, [Next]_vars
    PROVE  [D!Next]_<<fate, done>>
<1>1. CASE UNCHANGED <<rows, dropped, reply, done, atClose>>
  BY <1>1 DEF fate
<1>2. ASSUME NEW e \in Events, Publish(e)
      PROVE  [D!Next]_<<fate, done>>
  BY <1>2, FatePublish DEF D!Next
<1>3. ASSUME NEW c \in Closers, CloseSignal(c)
      PROVE  [D!Next]_<<fate, done>>
  BY <1>3, FateClose DEF D!Next
<1>4. ASSUME NEW w \in Workers, FlushOk(w) \/ FlushFails(w)
      PROVE  [D!Next]_<<fate, done>>
  BY <1>4, FateFlush
<1>5. ASSUME NEW w \in Workers, Wake(w)
      PROVE  [D!Next]_<<fate, done>>
  BY <1>5, FateWake
<1>6. \/ UNCHANGED <<rows, dropped, reply, done, atClose>>
      \/ \E e \in Events : Publish(e)
      \/ \E c \in Closers : CloseSignal(c)
      \/ \E w \in Workers : FlushOk(w) \/ FlushFails(w) \/ Wake(w)
  BY DEF Next, vars, LoopStep, SpawnWorker, StartTicker, Receive, Tick, SeeDone, Dispatch,
         DrainReceive, DrainStop, CloseTrigger, LoopEnds, WorkerStep, TakeBatch, WorkerEnds,
         CloseStep, CloseCheck, CloseFinished, CloseExpires, CancelContext, closeVars,
         dbVars, pubVars
<1> QED BY <1>1, <1>2, <1>3, <1>4, <1>5, <1>6

(* With its channels, batches, workers, retries and racing calls of Close, *)
(* the buffer does nothing that Delivery does not allow: no accepted event *)
(* goes back to new, a refused event is never written, a persisted one is  *)
(* never given up, and no step settles more than a batch.                  *)
THEOREM BufferImplementsDelivery == Spec => D!Safety
<1>1. Init => D!Init
  BY FateInit
<1>2. IInv /\ KInv /\ [Next]_vars => [D!Next]_<<fate, done>>
  BY FateStep
<1> QED BY <1>1, <1>2, Invariance, DeliveryInvariance, PTL DEF Spec, D!Safety
=============================================================================
