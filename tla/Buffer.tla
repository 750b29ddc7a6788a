------------------------------- MODULE Buffer -------------------------------
(***************************************************************************)
(* The in-memory event buffer of internal/buffer/buffer.go: a bounded      *)
(* channel filled by Publish, one flush loop that cuts the channel into    *)
(* batches, a bounded channel of batches (flushTrigger), and workers that  *)
(* write the batches to the database with retries.  Close asks the loop to *)
(* drain and waits for it on a WaitGroup.                                  *)
(*                                                                         *)
(* The metrics are off here (b.metrics == nil); BufferDepth.tla adds them. *)
(* Init is the state in which startBuffer hands the buffer out: New and    *)
(* Start have returned, the goroutine of runFlush has not yet run.         *)
(***************************************************************************)
EXTENDS Integers, Sequences, FiniteSets

CONSTANTS
    Events,          \* the events offered to Publish, each offered once
    Workers,         \* the goroutines that run flushOnce (4 in the code)
    Closers,         \* the callers of Close (App.shutdown in the code)
    Capacity,        \* cfg.Capacity after New's default
    BatchSize,       \* cfg.FlushBatchSize after New's default
    TriggerCap,      \* the capacity of flushTrigger (4 in the code)
    FlushRetries,    \* cfg.FlushRetries, as configured: any integer
    FlushInterval,   \* the ticker's period, as configured: any integer
    DbFaults         \* TRUE: Flush may fail although its context is live

ASSUME CapacityAssumption == Capacity \in Nat \ {0}
ASSUME BatchSizeAssumption == BatchSize \in Nat \ {0}
ASSUME TriggerCapAssumption == TriggerCap \in Nat \ {0}
ASSUME WorkersAssumption == IsFiniteSet(Workers) /\ Workers # {}
ASSUME ConfigAssumption ==
    FlushRetries \in Int /\ FlushInterval \in Int /\ DbFaults \in BOOLEAN

VARIABLES
    ch,              \* b.ch: the admitted events, oldest first
    batch,           \* runFlush's (or drainBatch's) local batch
    loop,            \* where the goroutine of runFlush stands
    flushTrigger,    \* b.flushTrigger: batches handed to the workers
    triggerClosed,   \* close(b.flushTrigger) has run
    worker,          \* where each flushOnce goroutine stands
    wbatch,          \* the batch each worker is writing
    attempt,         \* the attempt flushWithRetry is at
    done,            \* b.done is closed
    closer,          \* where each call of Close stands
    wg,              \* the counter of b.wg
    ctxDone,         \* the context given to Start is cancelled
    panic            \* a goroutine has panicked: the process is gone

(* The database and the callers, as far as the buffer touches them.        *)
VARIABLES
    rows,            \* how many times each event has been inserted
    dropped,         \* events of batches given up after the last attempt
    reply,           \* what Publish returned for each event
    admitted,        \* the events in the order Publish admitted them
    atClose          \* the events admitted when b.done was closed

loopVars   == <<batch, loop>>
queueVars  == <<flushTrigger, triggerClosed>>
workerVars == <<worker, wbatch, attempt>>
closeVars  == <<done, closer, atClose>>
dbVars     == <<rows, dropped>>
pubVars    == <<reply, admitted>>
vars == <<ch, loopVars, queueVars, workerVars, closeVars, wg, ctxDone, panic,
          dbVars, pubVars>>

-----------------------------------------------------------------------------

Elems(s) == {s[i] : i \in DOMAIN s}

(* max(1, b.cfg.FlushRetries) *)
MaxAttempts == IF FlushRetries > 1 THEN FlushRetries ELSE 1

LoopStates == {"spawn", "select", "send", "drain", "sendDrained",
               "return", "closed", "ended"}
WorkerStates == {"unborn", "range", "flush", "sleep", "gone"}
CloserStates == {"idle", "checked", "waiting", "nil", "expired", "noop"}

Init ==
    /\ ch = <<>> /\ batch = <<>> /\ loop = "spawn"
    /\ flushTrigger = <<>> /\ triggerClosed = FALSE
    /\ worker = [w \in Workers |-> "unborn"]
    /\ wbatch = [w \in Workers |-> <<>>]
    /\ attempt = [w \in Workers |-> 0]
    /\ done = FALSE /\ closer = [c \in Closers |-> "idle"] /\ atClose = {}
    /\ wg = 1 /\ ctxDone = FALSE /\ panic = FALSE
    /\ rows = [e \in Events |-> 0] /\ dropped = {}
    /\ reply = [e \in Events |-> "none"] /\ admitted = <<>>

-----------------------------------------------------------------------------
(* Once a goroutine has panicked nothing moves: every action needs ~panic. *)

(* Publish: a non-blocking send, which does not look at b.done.            *)

Admit(e) ==
    /\ ~panic /\ reply[e] = "none"
    /\ Len(ch) < Capacity
    /\ ch' = Append(ch, e)
    /\ reply' = [reply EXCEPT ![e] = "nil"]
    /\ admitted' = Append(admitted, e)
    /\ UNCHANGED <<loopVars, queueVars, workerVars, closeVars, wg, ctxDone,
                   panic, dbVars>>

(* The buffer is full, or the context of the call (the HTTP request's, of  *)
(* which the buffer knows nothing) is cancelled.                           *)
Refuse(e, callCtxDone) ==
    /\ ~panic /\ reply[e] = "none"
    /\ callCtxDone \/ Len(ch) >= Capacity
    /\ reply' = [reply EXCEPT ![e] = "ErrPublishFailed"]
    /\ UNCHANGED <<ch, loopVars, queueVars, workerVars, closeVars, wg,
                   ctxDone, panic, dbVars, admitted>>

Publish(e) == Admit(e) \/ \E callCtxDone \in BOOLEAN : Refuse(e, callCtxDone)

-----------------------------------------------------------------------------
(* runFlush: spawn the workers, then select until done, then drain.        *)

SpawnWorker(w) ==
    /\ ~panic /\ loop = "spawn" /\ worker[w] = "unborn"
    /\ wg' = wg + 1
    /\ worker' = [worker EXCEPT ![w] = "range"]
    /\ UNCHANGED <<ch, loopVars, queueVars, wbatch, attempt, closeVars,
                   ctxDone, panic, dbVars, pubVars>>

(* time.NewTicker panics on a period that is not positive. *)
StartTicker ==
    /\ ~panic /\ loop = "spawn" /\ \A w \in Workers : worker[w] # "unborn"
    /\ IF FlushInterval > 0
       THEN loop' = "select" /\ UNCHANGED panic
       ELSE panic' = TRUE /\ UNCHANGED loop
    /\ UNCHANGED <<ch, batch, queueVars, workerVars, closeVars, wg, ctxDone,
                   dbVars, pubVars>>

(* A batch is full.  Its mutant: > instead of >= FlushBatchSize. *)
FullTooLate(b) == Len(b) > BatchSize
Full(b) == Len(b) >= BatchSize

Receive ==
    /\ ~panic /\ loop = "select" /\ ch # <<>>
    /\ ch' = Tail(ch)
    /\ batch' = Append(batch, Head(ch))
    /\ loop' = IF Full(batch') THEN "send" ELSE "select"
    /\ UNCHANGED <<queueVars, workerVars, closeVars, wg, ctxDone, panic,
                   dbVars, pubVars>>

(* dispatch ignores an empty batch.  Its mutant: all but a full one. *)
FullOnly == Len(batch) >= BatchSize
NotEmpty == batch # <<>>

(* The ticker fires. *)
Tick ==
    /\ ~panic /\ loop = "select" /\ NotEmpty
    /\ loop' = "send"
    /\ UNCHANGED <<ch, batch, queueVars, workerVars, closeVars, wg, ctxDone,
                   panic, dbVars, pubVars>>

(* Mutant of SeeDone: drainBatch's batch shadows the loop's, which is     *)
(* never dispatched.                                                       *)
SeeDoneForgetsBatch ==
    /\ ~panic /\ loop = "select" /\ done
    /\ loop' = "drain" /\ batch' = <<>>
    /\ UNCHANGED <<ch, queueVars, workerVars, closeVars, wg, ctxDone,
                   panic, dbVars, pubVars>>

(* Mutant of SeeDone: flushTrigger is closed before the drain. *)
SeeDoneClosesTrigger ==
    /\ ~panic /\ loop = "select" /\ done
    /\ loop' = IF batch = <<>> THEN "drain" ELSE "sendDrained"
    /\ triggerClosed' = TRUE
    /\ UNCHANGED <<ch, batch, flushTrigger, workerVars, closeVars, wg, ctxDone,
                   panic, dbVars, pubVars>>

(* Where the loop goes.  The mutant returns when nothing is batched. *)
AfterDoneNoDrain == IF batch = <<>> THEN "return" ELSE "sendDrained"
AfterDone == IF batch = <<>> THEN "drain" ELSE "sendDrained"

SeeDone ==
    /\ ~panic /\ loop = "select" /\ done
    /\ loop' = AfterDone
    /\ UNCHANGED <<ch, batch, queueVars, workerVars, closeVars, wg, ctxDone,
                   panic, dbVars, pubVars>>

(* flushTrigger <- out does not block.  Its mutant: it never does, the send *)
(* gets a goroutine of its own.                                            *)
SendAtOnce == TRUE
SendReady == Len(flushTrigger) < TriggerCap

(* batch = batch[:0], and its mutant, in which the reset is forgotten. *)
BatchKept == batch
BatchReset == <<>>

(* dispatch: a copy of the batch goes to the workers, blocking while       *)
(* flushTrigger is full; the loop's batch is then empty again.             *)
Dispatch ==
    /\ ~panic /\ loop \in {"send", "sendDrained"}
    /\ IF triggerClosed
       THEN panic' = TRUE /\ UNCHANGED <<loopVars, queueVars>>
       ELSE /\ SendReady
            /\ flushTrigger' = Append(flushTrigger, batch)
            /\ batch' = BatchReset
            /\ loop' = IF loop = "send" THEN "select" ELSE "drain"
            /\ UNCHANGED <<triggerClosed, panic>>
    /\ UNCHANGED <<ch, workerVars, closeVars, wg, ctxDone, dbVars, pubVars>>

(* drainBatch takes one event at a time, and Publish may still be adding.  *)
DrainReceive ==
    /\ ~panic /\ loop = "drain" /\ ch # <<>> /\ Len(batch) < BatchSize
    /\ ch' = Tail(ch)
    /\ batch' = Append(batch, Head(ch))
    /\ UNCHANGED <<loop, queueVars, workerVars, closeVars, wg, ctxDone, panic,
                   dbVars, pubVars>>

DrainStop ==
    /\ ~panic /\ loop = "drain" /\ (ch = <<>> \/ Len(batch) >= BatchSize)
    /\ loop' = IF batch = <<>> THEN "return" ELSE "sendDrained"
    /\ UNCHANGED <<ch, batch, queueVars, workerVars, closeVars, wg, ctxDone,
                   panic, dbVars, pubVars>>

(* The deferred calls: close(b.flushTrigger), then b.wg.Done(). *)
CloseTrigger ==
    /\ ~panic /\ loop = "return"
    /\ triggerClosed' = TRUE /\ loop' = "closed"
    /\ UNCHANGED <<ch, batch, flushTrigger, workerVars, closeVars, wg, ctxDone,
                   panic, dbVars, pubVars>>

LoopEnds ==
    /\ ~panic /\ loop = "closed"
    /\ loop' = "ended" /\ wg' = wg - 1
    /\ UNCHANGED <<ch, batch, queueVars, workerVars, closeVars, ctxDone, panic,
                   dbVars, pubVars>>

-----------------------------------------------------------------------------
(* flushOnce and flushWithRetry.                                           *)

TakeBatch(w) ==
    /\ ~panic /\ worker[w] = "range" /\ flushTrigger # <<>>
    /\ flushTrigger' = Tail(flushTrigger)
    /\ worker' = [worker EXCEPT ![w] = "flush"]
    /\ wbatch' = [wbatch EXCEPT ![w] = Head(flushTrigger)]
    /\ attempt' = [attempt EXCEPT ![w] = 1]
    /\ UNCHANGED <<ch, loopVars, triggerClosed, closeVars, wg, ctxDone, panic,
                   dbVars, pubVars>>

(* The range loop is over.  Its mutant: a select on b.done instead. *)
RangeOverOnDone == flushTrigger = <<>> /\ done
RangeOver == flushTrigger = <<>> /\ triggerClosed

WorkerEnds(w) ==
    /\ ~panic /\ worker[w] = "range" /\ RangeOver
    /\ worker' = [worker EXCEPT ![w] = "gone"]
    /\ wg' = wg - 1
    /\ UNCHANGED <<ch, loopVars, queueVars, wbatch, attempt, closeVars,
                   ctxDone, panic, dbVars, pubVars>>

(* Rows are inserted, one for each of the events. *)
Insert(es) == rows' = [e \in Events |-> IF e \in es THEN rows[e] + 1 ELSE rows[e]]

FlushOk(w) ==
    /\ ~panic /\ worker[w] = "flush"
    /\ Insert(Elems(wbatch[w]))
    /\ worker' = [worker EXCEPT ![w] = "range"]
    /\ wbatch' = [wbatch EXCEPT ![w] = <<>>]
    /\ attempt' = [attempt EXCEPT ![w] = 0]
    /\ UNCHANGED <<ch, loopVars, queueVars, closeVars, wg, ctxDone, panic,
                   dropped, pubVars>>

(* Flush returns an error: the database failed, or the attempt's context,  *)
(* a child of the context given to Start, was done.  Any part of the batch *)
(* may have been inserted all the same: the table is partitioned by month, *)
(* and an INSERT that spans partitions is not atomic.                      *)
FlushFails(w) ==
    /\ ~panic /\ worker[w] = "flush" /\ (DbFaults \/ ctxDone)
    /\ \E part \in SUBSET Elems(wbatch[w]) : Insert(part)
    /\ worker' = [worker EXCEPT ![w] = "sleep"]
    /\ UNCHANGED <<ch, loopVars, queueVars, wbatch, attempt, closeVars, wg,
                   ctxDone, panic, dropped, pubVars>>

(* There is an attempt left.  Its mutant: i <= max(1, FlushRetries). *)
RetriesOnceMore(w) == attempt[w] <= MaxAttempts
Retries(w) == attempt[w] < MaxAttempts

(* The back-off sleep is over (there is one after the last attempt too).   *)
Wake(w) ==
    /\ ~panic /\ worker[w] = "sleep"
    /\ IF Retries(w)
       THEN /\ attempt' = [attempt EXCEPT ![w] = attempt[w] + 1]
            /\ worker' = [worker EXCEPT ![w] = "flush"]
            /\ UNCHANGED <<wbatch, dropped>>
       ELSE /\ attempt' = [attempt EXCEPT ![w] = 0]
            /\ worker' = [worker EXCEPT ![w] = "range"]
            /\ wbatch' = [wbatch EXCEPT ![w] = <<>>]
            /\ dropped' = dropped \cup Elems(wbatch[w])
    /\ UNCHANGED <<ch, loopVars, queueVars, closeVars, wg, ctxDone, panic,
                   rows, pubVars>>

-----------------------------------------------------------------------------
(* Close.  The test of b.done and close(b.done) are two steps.             *)

CloseCheck(c) ==
    /\ ~panic /\ closer[c] = "idle"
    /\ closer' = [closer EXCEPT ![c] = IF done THEN "noop" ELSE "checked"]
    /\ UNCHANGED <<ch, loopVars, queueVars, workerVars, done, atClose, wg,
                   ctxDone, panic, dbVars, pubVars>>

CloseSignal(c) ==
    /\ ~panic /\ closer[c] = "checked"
    /\ IF done
       THEN panic' = TRUE /\ UNCHANGED closeVars
       ELSE /\ done' = TRUE
            /\ atClose' = Elems(admitted)
            /\ closer' = [closer EXCEPT ![c] = "waiting"]
            /\ UNCHANGED panic
    /\ UNCHANGED <<ch, loopVars, queueVars, workerVars, wg, ctxDone, dbVars,
                   pubVars>>

CloseFinished(c) ==
    /\ ~panic /\ closer[c] = "waiting" /\ wg = 0
    /\ closer' = [closer EXCEPT ![c] = "nil"]
    /\ UNCHANGED <<ch, loopVars, queueVars, workerVars, done, atClose, wg,
                   ctxDone, panic, dbVars, pubVars>>

(* The context given to Close expires first: the drain goes on without it. *)
CloseExpires(c) ==
    /\ ~panic /\ closer[c] = "waiting"
    /\ closer' = [closer EXCEPT ![c] = "expired"]
    /\ UNCHANGED <<ch, loopVars, queueVars, workerVars, done, atClose, wg,
                   ctxDone, panic, dbVars, pubVars>>

(* The signal handler cancels the context given to Start. *)
CancelContext ==
    /\ ~panic /\ ~ctxDone /\ ctxDone' = TRUE
    /\ UNCHANGED <<ch, loopVars, queueVars, workerVars, closeVars, wg, panic,
                   dbVars, pubVars>>

-----------------------------------------------------------------------------

LoopStep ==
    \/ \E w \in Workers : SpawnWorker(w)
    \/ StartTicker \/ Receive \/ Tick \/ SeeDone \/ Dispatch
    \/ DrainReceive \/ DrainStop \/ CloseTrigger \/ LoopEnds

WorkerStep(w) ==
    TakeBatch(w) \/ WorkerEnds(w) \/ FlushOk(w) \/ FlushFails(w) \/ Wake(w)

CloseStep(c) ==
    CloseCheck(c) \/ CloseSignal(c) \/ CloseFinished(c) \/ CloseExpires(c)

(* Nothing is left to run: the only states in which the buffer may stop.   *)
Stopped ==
    \/ panic
    \/ /\ loop = "ended" /\ \A w \in Workers : worker[w] = "gone"
       /\ \A c \in Closers : closer[c] \in {"nil", "expired", "noop"}

Next ==
    \/ \E e \in Events : Publish(e)
    \/ LoopStep
    \/ \E w \in Workers : WorkerStep(w)
    \/ \E c \in Closers : CloseStep(c)
    \/ CancelContext
    \/ Stopped /\ UNCHANGED vars

Spec == Init /\ [][Next]_vars

(* Goroutines that can run do run, select does not starve a ready case for *)
(* ever, the ticker fires again and again, a Flush returns (its context    *)
(* has a deadline) and a sleep ends.  Nobody need call Publish or Close.   *)
Fairness ==
    /\ WF_vars(LoopStep)
    /\ WF_vars(Tick)
    /\ WF_vars(SeeDone)
    /\ \A w \in Workers : WF_vars(WorkerStep(w))
    /\ \A c \in Closers : WF_vars(CloseSignal(c) \/ CloseFinished(c))

FairSpec == Spec /\ Fairness
=============================================================================
