-------------------------- MODULE BufferProperties --------------------------
(***************************************************************************)
(* What must be true of the buffer of Buffer.tla.                          *)
(***************************************************************************)
EXTENDS Buffer, SequencesExt

Batches == {batch} \cup Elems(flushTrigger) \cup {wbatch[w] : w \in Workers}

(* The events somewhere between Publish and the database. *)
Held == Elems(ch) \cup UNION {Elems(b) : b \in Batches}

Settled(e) == rows[e] > 0 \/ e \in dropped

(* The type of every variable; no batch is longer than FlushBatchSize, no  *)
(* channel fuller than it was made.                                        *)
TypeOK ==
    /\ ch \in Seq(Events) /\ Len(ch) <= Capacity
    /\ batch \in Seq(Events) /\ Len(batch) <= BatchSize
    /\ loop \in LoopStates
    /\ flushTrigger \in Seq(Seq(Events)) /\ Len(flushTrigger) <= TriggerCap
    /\ triggerClosed \in BOOLEAN
    /\ worker \in [Workers -> WorkerStates]
    /\ wbatch \in [Workers -> Seq(Events)]
    /\ attempt \in [Workers -> 0..MaxAttempts]
    /\ done \in BOOLEAN /\ closer \in [Closers -> CloserStates]
    /\ wg \in 0..(Cardinality(Workers) + 1)
    /\ ctxDone \in BOOLEAN /\ panic \in BOOLEAN
    /\ rows \in [Events -> Nat] /\ dropped \in SUBSET Events
    /\ reply \in [Events -> {"none", "nil", "ErrPublishFailed"}]
    /\ admitted \in Seq(Events) /\ atClose \in SUBSET Events

(* An event Publish returned nil for is in the buffer's hands, in the      *)
(* database, or in a batch that was given up: no step loses one.           *)
NothingVanishes ==
    \A e \in Events : reply[e] = "nil" => e \in Held \/ Settled(e)

(* Read from the workers' end, the batches in flushTrigger, the loop's     *)
(* batch and the channel are the last events admitted, each once and in    *)
(* order: nothing overtakes, is sent twice, or is left behind by a reset   *)
(* of the loop's batch.                                                    *)
InOrder == IsSuffix(FlattenSeq(flushTrigger) \o batch \o ch, admitted)

(* A batch is in the hands of one worker only, and out of the pipeline.    *)
OneHolder ==
    \A w \in Workers :
        /\ Elems(wbatch[w]) \cap (Elems(ch) \cup Elems(batch)
                \cup UNION {Elems(b) : b \in Elems(flushTrigger)}) = {}
        /\ \A v \in Workers \ {w} : Elems(wbatch[w]) \cap Elems(wbatch[v]) = {}

(* Memory is bounded whatever the database does: a full channel, the batch *)
(* the loop is blocked on, a full flushTrigger and a batch per worker.     *)
BoundedMemory ==
    Len(ch) + Len(batch) + Len(FlattenSeq(flushTrigger))
        + MapThenSumSet(LAMBDA w : Len(wbatch[w]), Workers)
      <= Capacity + BatchSize * (1 + TriggerCap + Cardinality(Workers))

(* No step sends on a closed channel, closes flushTrigger twice or takes   *)
(* the WaitGroup below zero: the process panics only if the ticker has no  *)
(* period, or if two callers were both in Close before b.done was closed.  *)
NoPanic ==
    panic => \/ FlushInterval <= 0
             \/ \E c, d \in Closers : /\ c # d /\ closer[c] = "checked"
                                      /\ closer[d] \in {"waiting", "nil", "expired"}

(* When Close returns nil because the drain has finished, everything       *)
(* admitted before Close began is in the database or was given up.         *)
CloseMeansSettled ==
    \A c \in Closers : closer[c] = "nil" => \A e \in atClose : Settled(e)

(* A batch is written again only by the retry of an attempt that reported  *)
(* an error, so an event has at most as many rows as it had attempts.      *)
BoundedDuplicates == \A e \in Events : rows[e] <= MaxAttempts

(* The WaitGroup counts the goroutines that still have something to do:    *)
(* no worker leaves while the loop may produce a batch, flushTrigger is    *)
(* closed by the loop's last step only, and once the counter is zero there *)
(* is neither a loop nor a worker nor a batch.                             *)
Running == {w \in Workers : worker[w] \notin {"unborn", "gone"}}

Lifecycle ==
    /\ wg = Cardinality(Running) + IF loop = "ended" THEN 0 ELSE 1
    /\ triggerClosed <=> loop \in {"closed", "ended"}
    /\ loop = "select" => Len(batch) < BatchSize
    /\ loop \in {"spawn", "return", "closed", "ended"} => batch = <<>>
    /\ loop \in {"sendDrained", "drain", "return", "closed", "ended"} => done
    /\ \A w \in Workers :
          /\ worker[w] = "unborn" => loop = "spawn"
          /\ worker[w] = "gone" => triggerClosed /\ flushTrigger = <<>>
          /\ worker[w] \notin {"flush", "sleep"} => wbatch[w] = <<>>

(* Close and the drain: done is set by a caller of Close, what was         *)
(* admitted by then has left the channel when the loop returns, and Close  *)
(* returns nil with the counter at zero.                                   *)
CloseProtocol ==
    /\ Elems(admitted) = {e \in Events : reply[e] = "nil"}
    /\ atClose \subseteq Elems(admitted)
    /\ done => \E c \in Closers : closer[c] \in {"waiting", "nil", "expired"}
    /\ ~done => atClose = {}
    /\ loop \in {"return", "closed", "ended"} => atClose \cap Elems(ch) = {}
    /\ \A c \in Closers : closer[c] = "nil" => wg = 0

-----------------------------------------------------------------------------
(* Liveness.                                                               *)

(* Once Close has closed b.done, the loop drains, the workers finish and   *)
(* the WaitGroup reaches zero, however full the channels were and however  *)
(* often the database fails: nobody waits for ever on flushTrigger.        *)
DrainTerminates == done ~> (wg = 0)

(* The buffer implements Delivery.                                         *)
fate == [e \in Events |->
    CASE rows[e] > 0 -> "persisted"
      [] rows[e] = 0 /\ e \in dropped -> "dropped"
      [] reply[e] = "none" -> "new"
      [] reply[e] = "ErrPublishFailed" -> "refused"
      [] OTHER -> IF done /\ e \notin atClose THEN "late" ELSE "pending"]

D == INSTANCE Delivery WITH closing <- done

(* Every behaviour of the buffer is one of Delivery: accepted events are   *)
(* persisted or given up a batch at a time, and eventually.                *)
ImplementsDelivery == D!Spec

-----------------------------------------------------------------------------
(* What the documentation says, and the code does not do.                  *)

(* docs/tdd.md 7.3: once closed, the buffer stops accepting.               *)
ClosedStopsAccepting ==
    [][\A e \in Events : done => ~(reply[e] = "none" /\ reply'[e] = "nil")]_vars
=============================================================================
