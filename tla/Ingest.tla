------------------------------- MODULE Ingest -------------------------------
(***************************************************************************)
(* The ingestion endpoints (internal/handler, internal/ingest): requests   *)
(* for one event and for several run concurrently through the middleware,  *)
(* the rate limiter of their route and their handler, which validates and  *)
(* publishes item by item into the bounded channel of the buffer.          *)
(*                                                                         *)
(* The other end is a client that does what the replies ask for: it sends  *)
(* again what was reported as not published, and everything it had sent    *)
(* when the connection broke before the reply.                             *)
(***************************************************************************)
EXTENDS Integers, Sequences, SequencesExt

CONSTANTS
    Requests,     \* the concurrent requests
    Items,        \* the events they carry
    Payload,      \* request -> the items it carries at first, in order
    Route,        \* request -> "ingest" (POST /events) or "bulk"
    Shape,        \* request -> what its head and body look like, see Refusal
    Verdict,      \* item -> what Validate and ToEvent make of it
    Limit,        \* route -> requests per tick of the limiter
    Capacity,     \* of the buffer's channel
    MaxTries      \* bound: how often a client sends a request

Routes == {"ingest", "bulk"}
Verdicts == {"valid", "invalid", "broken"}

(* An item is one occurrence: no client sends another's, none sends it     *)
(* twice in a body.                                                        *)
ASSUME IngestAssumption ==
    /\ Payload \in [Requests -> Seq(Items) \ {<<>>}]
    /\ Route \in [Requests -> Routes]
    /\ \A r \in Requests : Route[r] = "ingest" => Len(Payload[r]) = 1
    /\ \A r, s \in Requests : \A j \in DOMAIN Payload[r], k \in DOMAIN Payload[s] :
          Payload[r][j] = Payload[s][k] => r = s /\ j = k
    /\ Verdict \in [Items -> Verdicts]
    /\ Limit \in [Routes -> Nat] /\ Capacity \in Nat /\ MaxTries \in Nat

VARIABLES
    count,        \* RateLimiter.count of each route
    handler,      \* where the handler of each request stands
    outcome,      \* its error code, or "OK", for each item done so far
    gone,         \* the client has disconnected: r.Context() is cancelled
    depth,        \* len(b.ch)
    times,        \* how often each item has been admitted to the channel
    reply,        \* the status and the item codes the client has got last
    todo,         \* the items the client has still to send
    tries,        \* how often the client has sent the request
    unheard       \* a reply to this client has been lost

clientVars == <<reply, todo, tries, unheard>>
vars == <<count, handler, outcome, gone, depth, times, clientVars>>

NoReply == [status |-> 0, codes |-> <<>>]

Init ==
    /\ count = [p \in Routes |-> 0]
    /\ handler = [r \in Requests |-> "idle"]
    /\ outcome = [r \in Requests |-> <<>>]
    /\ gone = [r \in Requests |-> FALSE]
    /\ depth = 0 /\ times = [i \in Items |-> 0]
    /\ reply = [r \in Requests |-> NoReply]
    /\ todo = Payload
    /\ tries = [r \in Requests |-> 0] /\ unheard = [r \in Requests |-> FALSE]

-----------------------------------------------------------------------------
(* The client.                                                             *)

Send(r) ==
    /\ handler[r] = "idle" /\ todo[r] # <<>> /\ tries[r] < MaxTries
    /\ tries' = [tries EXCEPT ![r] = @ + 1]
    /\ gone' = [gone EXCEPT ![r] = FALSE]
    /\ outcome' = [outcome EXCEPT ![r] = <<>>]
    /\ handler' = [handler EXCEPT ![r] = "middleware"]
    /\ UNCHANGED <<count, depth, times, reply, todo, unheard>>

Disconnect(r) ==
    /\ handler[r] # "idle" /\ ~gone[r]
    /\ gone' = [gone EXCEPT ![r] = TRUE]
    /\ UNCHANGED <<count, handler, outcome, depth, times, clientVars>>

(* The items that a 202 names as not published. *)
Unpublished(items, codes) ==
    FoldLeftDomain(LAMBDA left, i :
        IF codes[i] = "PUBLISH_FAILED" THEN Append(left, items[i]) ELSE left,
      <<>>, codes)

(* What is left to send after a reply: a 429 or 503 asks for all of it     *)
(* again, a 202 names the items that were not published, and any other     *)
(* status says that sending it again is no use.                            *)
Remaining(items, status, codes) ==
    CASE status \in {429, 503} -> items
      [] status = 202 -> Unpublished(items, codes)
      [] OTHER -> <<>>

(* The handler writes the reply and returns; the client hears it unless it *)
(* has gone.                                                               *)
Answer(r, status, codes) ==
    /\ handler' = [handler EXCEPT ![r] = "idle"]
    /\ IF gone[r]
       THEN unheard' = [unheard EXCEPT ![r] = TRUE] /\ UNCHANGED <<reply, todo>>
       ELSE /\ reply' = [reply EXCEPT ![r] = [status |-> status, codes |-> codes]]
            /\ todo' = [todo EXCEPT ![r] = Remaining(@, status, codes)]
            /\ UNCHANGED unheard
    /\ UNCHANGED tries

-----------------------------------------------------------------------------
(* The server, up to the items.                                            *)

(* The first refusal a request's head or body meets in the handler; a body *)
(* too large for its Content-Length never gets there.                      *)
Refusal(shape) ==
    CASE shape = "badMethod" -> 405
      [] shape = "badType" -> 415
      [] shape = "tooLargeChunked" -> 413
      [] shape = "readError" -> 400
      [] shape = "badJSON" -> 400
      [] shape = "noEvents" -> 400
      [] shape = "tooMany" -> 413
      [] OTHER -> 0

Middleware(r) ==
    /\ handler[r] = "middleware"
    /\ IF Shape[r] = "tooLarge"
       THEN Answer(r, 413, <<>>)
       ELSE handler' = [handler EXCEPT ![r] = "limiter"] /\ UNCHANGED clientVars
    /\ UNCHANGED <<count, outcome, gone, depth, times>>

(* The limit of a route is used up.  Its mutant: > instead of >= rl.limit. *)
UsedUpTooLate(p) == count[p] > Limit[p]
UsedUp(p) == count[p] >= Limit[p]

(* Under rl.mu.  A request counts even if the handler then refuses it. *)
Limiter(r) ==
    /\ handler[r] = "limiter"
    /\ IF UsedUp(Route[r])
       THEN Answer(r, 429, <<>>) /\ UNCHANGED count
       ELSE /\ count' = [count EXCEPT ![Route[r]] = @ + 1]
            /\ handler' = [handler EXCEPT ![r] = "decode"]
            /\ UNCHANGED clientVars
    /\ UNCHANGED <<outcome, gone, depth, times>>

(* One tick of NewLimiterRegistry's goroutine reaches each limiter in turn. *)
ResetLimiter(p) ==
    /\ count[p] > 0
    /\ count' = [count EXCEPT ![p] = 0]
    /\ UNCHANGED <<handler, outcome, gone, depth, times, clientVars>>

Decode(r) ==
    /\ handler[r] = "decode"
    /\ IF Refusal(Shape[r]) # 0
       THEN Answer(r, Refusal(Shape[r]), <<>>)
       ELSE handler' = [handler EXCEPT ![r] = "items"] /\ UNCHANGED clientVars
    /\ UNCHANGED <<count, outcome, gone, depth, times>>

-----------------------------------------------------------------------------
(* The items.                                                              *)

NextItem(r) == todo[r][Len(outcome[r]) + 1]

Record(r, code) == outcome' = [outcome EXCEPT ![r] = Append(@, code)]

(* UseCase.Ingest: validate, convert, publish.  Publish fails on a full    *)
(* channel, and on a context that the client's disconnection cancelled.    *)
IngestItem(r) ==
    /\ handler[r] = "items" /\ Len(outcome[r]) < Len(todo[r])
    /\ \/ /\ Verdict[NextItem(r)] = "invalid" /\ Record(r, "VALIDATION_ERROR")
          /\ UNCHANGED <<depth, times>>
       \/ /\ Verdict[NextItem(r)] = "broken" /\ Record(r, "INTERNAL_ERROR")
          /\ UNCHANGED <<depth, times>>
       \/ /\ Verdict[NextItem(r)] = "valid" /\ (gone[r] \/ depth >= Capacity)
          /\ Record(r, "PUBLISH_FAILED") /\ UNCHANGED <<depth, times>>
       \/ /\ Verdict[NextItem(r)] = "valid" /\ ~gone[r] /\ depth < Capacity
          /\ Record(r, "OK") /\ depth' = depth + 1
          /\ times' = [times EXCEPT ![NextItem(r)] = @ + 1]
    /\ UNCHANGED <<count, handler, gone, clientVars>>

(* handleIngest's status for the one item. *)
SingleStatus(codes) ==
    CASE codes[1] = "OK" -> 202
      [] codes[1] = "VALIDATION_ERROR" -> 400
      [] codes[1] = "PUBLISH_FAILED" -> 503
      [] codes[1] = "INTERNAL_ERROR" -> 500

(* Mutant of BulkStatus: any item that could not be published makes a 503. *)
BulkStatusAnyFailure(codes) ==
    IF Contains(codes, "PUBLISH_FAILED") THEN 503
    ELSE IF Contains(codes, "OK") THEN 202 ELSE 400

(* Mutant of BulkStatus: only the first error decides between 503 and 400. *)
BulkStatusFirstError(codes) ==
    IF Contains(codes, "OK") THEN 202
    ELSE IF codes[1] = "PUBLISH_FAILED" THEN 503 ELSE 400

(* handleBulk's: an error only if nothing was accepted, and 503 if at      *)
(* least one item could have been.                                         *)
BulkStatus(codes) ==
    IF Contains(codes, "OK") THEN 202
    ELSE IF Contains(codes, "PUBLISH_FAILED") THEN 503 ELSE 400

Finish(r) ==
    /\ handler[r] = "items" /\ Len(outcome[r]) = Len(todo[r])
    /\ Answer(r, IF Route[r] = "bulk" THEN BulkStatus(outcome[r])
                 ELSE SingleStatus(outcome[r]), outcome[r])
    /\ UNCHANGED <<count, outcome, gone, depth, times>>

(* The flush loop receives from the channel. *)
Drain ==
    /\ depth > 0 /\ depth' = depth - 1
    /\ UNCHANGED <<count, handler, outcome, gone, times, clientVars>>

Next ==
    \/ \E r \in Requests :
          \/ Send(r) \/ Disconnect(r) \/ Middleware(r) \/ Limiter(r)
          \/ Decode(r) \/ IngestItem(r) \/ Finish(r)
    \/ \E p \in Routes : ResetLimiter(p)
    \/ Drain
    \/ /\ \A r \in Requests : handler[r] = "idle" /\ (todo[r] = <<>> \/ tries[r] = MaxTries)
       /\ UNCHANGED vars

Spec == Init /\ [][Next]_vars

-----------------------------------------------------------------------------

(* The types; neither a limiter's count nor the channel passes its limit.  *)
TypeOK ==
    /\ \A p \in Routes : count[p] \in 0..Limit[p]
    /\ handler \in [Requests -> {"idle", "middleware", "limiter", "decode", "items"}]
    /\ \A r \in Requests :
          /\ outcome[r] \in
               Seq({"OK", "VALIDATION_ERROR", "PUBLISH_FAILED", "INTERNAL_ERROR"})
          /\ handler[r] # "idle" => Len(outcome[r]) <= Len(todo[r])
    /\ depth \in 0..Capacity
    /\ times \in [Items -> 0..MaxTries]
    /\ tries \in [Requests -> 0..MaxTries]

(* A client that hears every reply and sends again exactly what it was     *)
(* told had not been published gets each event into the buffer at most     *)
(* once: the replies of partly failed bulk requests are precise enough.    *)
NoDuplicateIfHeard ==
    \A r \in Requests : ~unheard[r] /\ ~gone[r] =>
        \A i \in DOMAIN Payload[r] : times[Payload[r][i]] <= 1

(* A client that stops because the replies tell it to, and not because it  *)
(* ran out of tries, has got every valid event of a well-formed request    *)
(* into the buffer: no 400 and no 202 hides one that a retry would save.   *)
NoValidItemAbandoned ==
    \A r \in Requests : Shape[r] = "ok" /\ todo[r] = <<>> /\ handler[r] = "idle" =>
        \A i \in DOMAIN Payload[r] :
            Verdict[Payload[r][i]] = "valid" => times[Payload[r][i]] >= 1
=============================================================================
