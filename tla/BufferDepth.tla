----------------------------- MODULE BufferDepth -----------------------------
(***************************************************************************)
(* Buffer.tla with the metrics on: after an event is admitted, and after a *)
(* batch is written, the goroutine reads len(b.ch) and then sets the gauge *)
(* BufferDepth to what it read.  Nothing else touches the gauge.           *)
(***************************************************************************)
EXTENDS Buffer

VARIABLES
    depth,      \* the gauge chronometrics_buffer_depth
    reading     \* what each goroutine has read of len(b.ch) and not yet set

Idle == -1
Due  == -2

(* A Publish is named by its event, a flushOnce by its worker. *)
Actors == Events \cup Workers

InitDepth == Init /\ depth = 0 /\ reading = [a \in Actors |-> Idle]

ReadLen(a) ==
    /\ ~panic /\ reading[a] = Due
    /\ reading' = [reading EXCEPT ![a] = Len(ch)]
    /\ UNCHANGED <<vars, depth>>

SetDepth(a) ==
    /\ ~panic /\ reading[a] >= 0
    /\ depth' = reading[a]
    /\ reading' = [reading EXCEPT ![a] = Idle]
    /\ UNCHANGED vars

(* A step that is followed by a reading, and one that is not. *)
Measured(a) == reading' = [reading EXCEPT ![a] = Due] /\ UNCHANGED depth
Unmeasured == UNCHANGED <<depth, reading>>

NextDepth ==
    \/ \E a \in Actors : ReadLen(a) \/ SetDepth(a)
    \/ \E e \in Events : Admit(e) /\ Measured(e)
    \/ \E e \in Events, callCtxDone \in BOOLEAN : Refuse(e, callCtxDone) /\ Unmeasured
    \/ \E w \in Workers : reading[w] = Idle /\ FlushOk(w) /\ Measured(w)
    \/ \E w \in Workers :
          /\ reading[w] = Idle
          /\ TakeBatch(w) \/ WorkerEnds(w) \/ FlushFails(w) \/ Wake(w)
          /\ Unmeasured
    \/ LoopStep /\ Unmeasured
    \/ CancelContext /\ Unmeasured
    \/ \E c \in Closers : CloseStep(c) /\ Unmeasured
    \/ Stopped /\ UNCHANGED <<vars, depth, reading>>

SpecDepth == InitDepth /\ [][NextDepth]_<<vars, depth, reading>>

(* metrics.go:63: the gauge is the current number of events in the buffer. *)
(* Asked only when nobody is moving one: no Publish or worker is between   *)
(* its reading and its Set, the loop waits on an empty channel with an     *)
(* empty batch, and every worker waits for a batch.                        *)
DepthIsCurrent ==
    /\ loop = "select" /\ ch = <<>> /\ batch = <<>> /\ flushTrigger = <<>>
    /\ \A w \in Workers : worker[w] = "range"
    /\ \A a \in Actors : reading[a] = Idle
    => depth = Len(ch)
=============================================================================
