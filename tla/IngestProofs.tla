---------------------------- MODULE IngestProofs ----------------------------
(***************************************************************************)
(* Proofs about the ingestion endpoints for every number of requests and   *)
(* items, every limit and capacity: what the replies tell a client that    *)
(* does what they ask for.                                                 *)
(***************************************************************************)
EXTENDS Ingest, DataLemmas

Codes == {"OK", "VALIDATION_ERROR", "PUBLISH_FAILED", "INTERNAL_ERROR"}

-----------------------------------------------------------------------------
(* The replies.                                                            *)

(* What is left after a 202 are the items that were not published.         *)
LEMMA UnpublishedIs ==
    ASSUME NEW items \in Seq(Items), IsInjective(items),
           NEW codes \in Seq(Codes), Len(codes) = Len(items)
    PROVE  /\ Unpublished(items, codes) \in Seq(Items)
           /\ IsInjective(Unpublished(items, codes))
           /\ Range(Unpublished(items, codes)) =
                {items[i] : i \in {j \in DOMAIN items : codes[j] = "PUBLISH_FAILED"}}
<1> DEFINE D == DOMAIN codes
           K == {i \in D : codes[i] = "PUBLISH_FAILED"}
           id == [i \in D |-> i]
<1>1. D = DOMAIN items
  BY LenProperties
<1>2. PICK h \in [SUBSET DOMAIN items -> Seq(Items)] : Keeps(items, K, h)
  BY KeepsExists
<1>3. IsFiniteSet(D) /\ D \subseteq Nat
  <2>1. D = 1..Len(codes) /\ Len(codes) \in Nat
    BY LenProperties
  <2>2. IsFiniteSet(1..Len(codes))
    BY <2>1, FS_Interval
  <2> QED BY <2>1, <2>2
<1>4. ASSUME NEW A \in SUBSET D, A # {}
      PROVE  Max(A) \in D /\ id[Max(A)] = Max(A)
                /\ (codes[id[Max(A)]] = "PUBLISH_FAILED" <=> Max(A) \in K)
  <2>1. IsFiniteSet(A) /\ A \subseteq Nat
    BY <1>3, FS_Subset
  <2>2. Max(A) \in A
    BY <1>4, <2>1, MaxIsGreatest
  <2> QED BY <2>2
<1> DEFINE Step(k, A) == IF A = {} THEN <<>>
                         ELSE IF codes[id[Max(A)]] = "PUBLISH_FAILED"
                              THEN Append(k[A \ {Max(A)}], items[id[Max(A)]])
                              ELSE k[A \ {Max(A)}]
           Same(k, A) == IF A = {} THEN <<>>
                         ELSE IF Max(A) \in K THEN Append(k[A \ {Max(A)}], items[Max(A)])
                              ELSE k[A \ {Max(A)}]
<1>5. \A k : \A A \in SUBSET D : Step(k, A) = Same(k, A)
  BY <1>4
<1>6. DOMAIN id = D
  OBVIOUS
<1>7. ASSUME NEW k, k = [A \in SUBSET DOMAIN id |-> Step(k, A)]
      PROVE  k = h
  <2>1. k = [A \in SUBSET D |-> Same(k, A)]
    <3> HIDE DEF Step, Same, D
    <3> QED BY <1>5, <1>6, <1>7
  <2>2. Keeps(items, K, k)
    BY <1>1, <2>1 DEF Keeps
  <2> QED BY <1>2, <2>2, KeepsUnique
<1>8. h = [A \in SUBSET DOMAIN id |-> Step(h, A)]
  <2>1. h = [A \in SUBSET D |-> Same(h, A)]
    BY <1>1, <1>2 DEF Keeps
  <2> HIDE DEF Step, Same, D
  <2> QED BY <1>5, <1>6, <2>1
<1>9. Unpublished(items, codes) = h[DOMAIN id]
  BY <1>7, <1>8 DEF Unpublished, FoldLeftDomain, FoldLeft, MapThenFoldSet
<1>10. Unpublished(items, codes) = h[DOMAIN items]
  BY <1>1, <1>6, <1>9
<1> HIDE DEF K
<1>11. /\ h[DOMAIN items] \in Seq(Items) /\ IsInjective(h[DOMAIN items])
       /\ Range(h[DOMAIN items]) = At(items, K)
  BY <1>2, KeepsRange
<1>12. At(items, K) = {items[i] : i \in {j \in DOMAIN items : codes[j] = "PUBLISH_FAILED"}}
  BY <1>1 DEF At, K
<1> QED BY <1>10, <1>11, <1>12

-----------------------------------------------------------------------------
(* The invariant.                                                          *)

Types ==
    /\ count \in [Routes -> Nat] /\ \A p \in Routes : count[p] <= Limit[p]
    /\ handler \in [Requests -> {"idle", "middleware", "limiter", "decode", "items"}]
    /\ outcome \in [Requests -> Seq(Codes)]
    /\ gone \in [Requests -> BOOLEAN] /\ unheard \in [Requests -> BOOLEAN]
    /\ depth \in 0..Capacity
    /\ times \in [Items -> 0..MaxTries]
    /\ todo \in [Requests -> Seq(Items)]
    /\ tries \in [Requests -> 0..MaxTries]

(* The item at j has an outcome. *)
Done(r, j) == handler[r] # "idle" /\ j <= Len(outcome[r])

(* A client sends items of its own, one at least, each in one place; the   *)
(* handler has no outcome before the items and no more than there are.     *)
Orderly(r) ==
    /\ IsInjective(todo[r]) /\ Range(todo[r]) \subseteq Range(Payload[r])
    /\ handler[r] # "idle" => todo[r] # <<>> /\ Len(outcome[r]) <= Len(todo[r])
    /\ handler[r] \in {"middleware", "limiter", "decode"} => outcome[r] = <<>>

(* An item has been admitted no more often than it was sent; one that this *)
(* try has yet to reach, less often.                                       *)
OncePerTry(r) ==
    /\ \A i \in Range(Payload[r]) : times[i] <= tries[r]
    /\ handler[r] # "idle" => \A j \in DOMAIN todo[r] :
          ~Done(r, j) => times[todo[r][j]] < tries[r]

(* As long as no reply was lost, what is still to be sent, or was refused, *)
(* has never been admitted.                                                *)
SentOnce(r) ==
    ~unheard[r] =>
        /\ \A i \in Range(Payload[r]) : times[i] <= 1
        /\ \A j \in DOMAIN todo[r] :
              (Done(r, j) /\ outcome[r][j] = "OK") \/ times[todo[r][j]] = 0

(* A valid event of a well-formed request is in the buffer or still to be  *)
(* sent; in a try, it is admitted or reported as not published.            *)
NoneForgotten(r) ==
    Shape[r] = "ok" =>
        /\ \A i \in Range(Payload[r]) :
              Verdict[i] = "valid" => times[i] >= 1 \/ i \in Range(todo[r])
        /\ \A j \in DOMAIN todo[r] : Done(r, j) /\ Verdict[todo[r][j]] = "valid" =>
              \/ outcome[r][j] = "PUBLISH_FAILED"
              \/ outcome[r][j] = "OK" /\ times[todo[r][j]] >= 1

Request(r) == Orderly(r) /\ OncePerTry(r) /\ SentOnce(r) /\ NoneForgotten(r)

IInv == Types /\ \A r \in Requests : Request(r)

(* What a client sends is its own. *)
LEMMA OwnItems ==
    ASSUME Types, NEW r \in Requests, Orderly(r)
    PROVE  /\ DOMAIN todo[r] = 1..Len(todo[r]) /\ Len(todo[r]) \in Nat
           /\ DOMAIN outcome[r] = 1..Len(outcome[r]) /\ Len(outcome[r]) \in Nat
           /\ \A j \in DOMAIN todo[r] :
                 todo[r][j] \in Range(Payload[r]) /\ todo[r][j] \in Items
           /\ Range(Payload[r]) \subseteq Items
           /\ \A i \in Items : times[i] \in Nat
           /\ tries[r] \in Nat
<1>1. todo[r] \in Seq(Items) /\ outcome[r] \in Seq(Codes) /\ Payload[r] \in Seq(Items)
  BY IngestAssumption DEF Types
<1>2. /\ DOMAIN todo[r] = 1..Len(todo[r]) /\ Len(todo[r]) \in Nat
      /\ DOMAIN outcome[r] = 1..Len(outcome[r]) /\ Len(outcome[r]) \in Nat
      /\ DOMAIN Payload[r] = 1..Len(Payload[r])
  BY <1>1, LenProperties
<1>3. Range(Payload[r]) \subseteq Items
  BY <1>1, <1>2, ElementOfSeq DEF Range
<1>4. \A j \in DOMAIN todo[r] : todo[r][j] \in Range(Payload[r])
  BY DEF Orderly, Range
<1>5. \A i \in Items : times[i] \in Nat
  BY IngestAssumption DEF Types
<1>6. tries[r] \in Nat
  BY IngestAssumption DEF Types
<1> QED BY <1>2, <1>3, <1>4, <1>5, <1>6

(* Two requests have no item in common. *)
LEMMA NothingShared ==
    ASSUME NEW r \in Requests, NEW s \in Requests, NEW i,
           i \in Range(Payload[r]), i \in Range(Payload[s])
    PROVE  r = s
BY IngestAssumption DEF Range

(* A request is not disturbed by what others do. *)
LEMMA Untouched ==
    ASSUME Types, NEW r \in Requests, Request(r),
           UNCHANGED <<handler[r], outcome[r], todo[r], tries[r], unheard[r]>>,
           \A i \in Range(Payload[r]) : times'[i] = times[i]
    PROVE  Request(r)'
<1>1. \A j \in DOMAIN todo[r] : todo[r][j] \in Range(Payload[r])
  BY OwnItems DEF Request
<1>2. \A j : Done(r, j)' <=> Done(r, j)
  BY DEF Done
<1>3. Orderly(r)'
  BY DEF Request, Orderly
<1>4. OncePerTry(r)'
  BY <1>1, <1>2 DEF Request, OncePerTry
<1>5. SentOnce(r)'
  BY <1>1, <1>2 DEF Request, SentOnce
<1>6. NoneForgotten(r)'
  BY <1>1, <1>2 DEF Request, NoneForgotten
<1> QED BY <1>3, <1>4, <1>5, <1>6 DEF Request

(* A try begins: every item is one that it has yet to reach. *)
LEMMA SendKeeps ==
    ASSUME Types, NEW r \in Requests, Request(r), Send(r)
    PROVE  Types' /\ Request(r)'
<1>1. /\ UNCHANGED <<count, depth, times, todo, unheard>>
      /\ handler[r] = "idle" /\ todo[r] # <<>> /\ tries[r] < MaxTries
      /\ tries' = [tries EXCEPT ![r] = @ + 1] /\ gone' = [gone EXCEPT ![r] = FALSE]
      /\ outcome' = [outcome EXCEPT ![r] = <<>>]
      /\ handler' = [handler EXCEPT ![r] = "middleware"]
  BY DEF Send
<1>2. Types'
  <2>1. tries' \in [Requests -> 0..MaxTries]
    <3>1. tries[r] + 1 \in 0..MaxTries
      BY <1>1, IngestAssumption DEF Types
    <3> QED BY <1>1, <3>1 DEF Types
  <2>2. outcome' \in [Requests -> Seq(Codes)]
    BY <1>1, EmptySeq DEF Types
  <2> QED BY <1>1, <2>1, <2>2 DEF Types
<1>3. /\ handler'[r] = "middleware" /\ outcome'[r] = <<>> /\ tries'[r] = tries[r] + 1
      /\ todo'[r] = todo[r] /\ unheard'[r] = unheard[r]
  BY <1>1 DEF Types
<1>4. Len(outcome'[r]) = 0
  BY <1>3, EmptySeq
<1>5. /\ \A j \in DOMAIN todo[r] : ~Done(r, j) /\ ~Done(r, j)'
      /\ \A j \in DOMAIN todo[r] : todo[r][j] \in Range(Payload[r])
  BY <1>1, <1>4, OwnItems DEF Done, Request
<1>6. Orderly(r)'
  BY <1>1, <1>3, <1>4, OwnItems DEF Request, Orderly
<1>7. OncePerTry(r)'
  <2>1. \A i \in Range(Payload[r]) : times[i] \in Nat /\ times[i] < tries[r] + 1
    BY OwnItems DEF Request, OncePerTry
  <2>2. \A i \in Range(Payload[r]) : times'[i] < tries'[r] /\ times'[i] <= tries'[r]
    BY <1>1, <1>3, <2>1, OwnItems DEF Request
  <2>3. \A j \in DOMAIN todo'[r] : times'[todo'[r][j]] < tries'[r]
    BY <1>3, <1>5, <2>2
  <2> QED BY <2>2, <2>3 DEF OncePerTry
<1>8. SentOnce(r)'
  BY <1>1, <1>3, <1>5 DEF Request, SentOnce
<1>9. NoneForgotten(r)'
  BY <1>1, <1>3, <1>5 DEF Request, NoneForgotten
<1> QED BY <1>2, <1>6, <1>7, <1>8, <1>9 DEF Request

-----------------------------------------------------------------------------
(* A reply.                                                                *)

(* What a reply may leave to be sent: items of this try that, as far as    *)
(* this client has heard, were not admitted; and a valid one it may leave  *)
(* out only if it was.                                                     *)
FairRest(r, T) ==
    /\ T \in Seq(Items) /\ IsInjective(T) /\ Range(T) \subseteq Range(todo[r])
    /\ ~unheard[r] => \A i \in Range(T) : times[i] = 0
    /\ Shape[r] = "ok" => \A i \in Range(todo[r]) \ Range(T) :
                              Verdict[i] = "valid" => times[i] >= 1

(* The handler returns with a reply that is fair. *)
LEMMA AnswerKeeps ==
    ASSUME Types, NEW r \in Requests, Request(r), handler[r] # "idle",
           NEW status, NEW codes, Answer(r, status, codes),
           FairRest(r, Remaining(todo[r], status, codes)),
           UNCHANGED <<outcome, gone, depth, times>>,
           count' \in [Routes -> Nat] /\ \A p \in Routes : count'[p] <= Limit[p]
    PROVE  Types' /\ Request(r)'
<1> DEFINE T == Remaining(todo[r], status, codes)
<1>1. handler' = [handler EXCEPT ![r] = "idle"] /\ UNCHANGED tries
  BY DEF Answer
<1>2. \/ unheard' = [unheard EXCEPT ![r] = TRUE] /\ UNCHANGED todo
      \/ todo' = [todo EXCEPT ![r] = T] /\ UNCHANGED unheard
  BY DEF Answer
<1>3. FairRest(r, T)
  OBVIOUS
<1> HIDE DEF T
<1>4. Types'
  BY <1>1, <1>2, <1>3 DEF Types, FairRest
<1>5. /\ handler'[r] = "idle" /\ tries'[r] = tries[r]
      /\ \/ unheard'[r] = TRUE /\ todo'[r] = todo[r]
         \/ unheard'[r] = unheard[r] /\ todo'[r] = T
  BY <1>1, <1>2 DEF Types
<1>6. Orderly(r)'
  BY <1>3, <1>5 DEF Request, Orderly, FairRest
<1>7. OncePerTry(r)'
  BY <1>5 DEF Request, OncePerTry
<1>8. SentOnce(r)'
  <2>1. CASE unheard'[r] = TRUE
    BY <2>1 DEF SentOnce
  <2>2. CASE unheard'[r] = unheard[r] /\ todo'[r] = T
    <3>1. ASSUME ~unheard[r], NEW j \in DOMAIN T PROVE times[T[j]] = 0
      BY <1>3, <3>1 DEF FairRest, Range
    <3> QED BY <2>2, <3>1 DEF Request, SentOnce
  <2> QED BY <1>5, <2>1, <2>2
<1>9. NoneForgotten(r)'
  <2>1. \A j : ~Done(r, j)'
    BY <1>5 DEF Done
  <2>2. ASSUME Shape[r] = "ok", NEW i \in Range(Payload[r]), Verdict[i] = "valid"
        PROVE  times'[i] >= 1 \/ i \in Range(todo'[r])
    <3>1. times[i] >= 1 \/ i \in Range(todo[r])
      BY <2>2 DEF Request, NoneForgotten
    <3> QED BY <1>3, <1>5, <2>2, <3>1 DEF FairRest
  <2> QED BY <2>1, <2>2 DEF NoneForgotten
<1> QED BY <1>4, <1>6, <1>7, <1>8, <1>9 DEF Request

(* Everything again is fair before the first item. *)
LEMMA AllAgain ==
    ASSUME Types, NEW r \in Requests, Request(r), outcome[r] = <<>>,
           NEW status \in {429, 503}, NEW codes
    PROVE  FairRest(r, Remaining(todo[r], status, codes))
<1>1. Remaining(todo[r], status, codes) = todo[r]
  BY DEF Remaining
<1>2. Len(outcome[r]) = 0
  BY EmptySeq
<1>3. ASSUME ~unheard[r], NEW i \in Range(todo[r]) PROVE times[i] = 0
  <2>1. PICK j \in DOMAIN todo[r] : todo[r][j] = i
    BY DEF Range
  <2>2. ~Done(r, j)
    BY <1>2, OwnItems DEF Done, Request
  <2> QED BY <1>3, <2>1, <2>2 DEF Request, SentOnce
<1> QED BY <1>1, <1>3 DEF FairRest, Request, Orderly, Types

(* So is nothing, to a request that was not well formed. *)
LEMMA NothingLeft ==
    ASSUME NEW r \in Requests, Shape[r] # "ok", NEW status \in Nat, status \notin {202, 429, 503},
           NEW codes
    PROVE  FairRest(r, Remaining(todo[r], status, codes))
<1>1. Remaining(todo[r], status, codes) = <<>>
  BY DEF Remaining
<1>2. <<>> \in Seq(Items) /\ IsInjective(<<>>) /\ Range(<<>>) = {}
  BY EmptySeq DEF IsInjective, Range
<1> QED BY <1>1, <1>2 DEF FairRest

-----------------------------------------------------------------------------
(* The handler.                                                            *)

(* A request goes on to the next stage before the items. *)
LEMMA GoesOn ==
    ASSUME Types, NEW r \in Requests, Request(r),
           handler[r] \in {"middleware", "limiter", "decode"},
           NEW next \in {"limiter", "decode", "items"},
           handler' = [handler EXCEPT ![r] = next],
           UNCHANGED <<outcome, gone, depth, times, clientVars>>,
           count' \in [Routes -> Nat] /\ \A p \in Routes : count'[p] <= Limit[p]
    PROVE  Types' /\ Request(r)'
<1>1. handler'[r] = next /\ UNCHANGED <<outcome, gone, depth, times, todo, tries, unheard>>
  BY DEF Types, clientVars
<1>2. Types'
  BY <1>1 DEF Types
<1>3. \A j : Done(r, j)' <=> Done(r, j)
  BY <1>1 DEF Done
<1>4. Orderly(r)'
  BY <1>1 DEF Request, Orderly
<1>5. OncePerTry(r)'
  BY <1>1, <1>3 DEF Request, OncePerTry
<1>6. SentOnce(r)'
  BY <1>1, <1>3 DEF Request, SentOnce
<1>7. NoneForgotten(r)'
  BY <1>1, <1>3 DEF Request, NoneForgotten
<1> QED BY <1>2, <1>4, <1>5, <1>6, <1>7 DEF Request

(* A body that is too large is refused, not a well-formed request. *)
LEMMA MiddlewareKeeps ==
    ASSUME Types, NEW r \in Requests, Request(r), Middleware(r)
    PROVE  Types' /\ Request(r)'
<1>1. /\ handler[r] = "middleware" /\ UNCHANGED <<count, outcome, gone, depth, times>>
      /\ count' \in [Routes -> Nat] /\ \A p \in Routes : count'[p] <= Limit[p]
  BY DEF Middleware, Types
<1>2. CASE Shape[r] = "tooLarge"
  <2>1. PICK status \in Nat : status = 413
    OBVIOUS
  <2>2. Answer(r, status, <<>>) /\ Shape[r] # "ok"
    BY <1>2, <2>1 DEF Middleware
  <2>3. status \notin {202, 429, 503}
    BY <2>1
  <2>4. FairRest(r, Remaining(todo[r], status, <<>>))
    BY <2>2, <2>3, NothingLeft
  <2> QED BY <1>1, <2>2, <2>4, AnswerKeeps
<1>3. CASE Shape[r] # "tooLarge"
  <2>1. handler' = [handler EXCEPT ![r] = "limiter"] /\ UNCHANGED clientVars
    BY <1>3 DEF Middleware
  <2> QED BY <1>1, <2>1, GoesOn
<1> QED BY <1>2, <1>3

(* A 429 asks for everything again, and nothing was admitted; otherwise    *)
(* the request counts, and the count stays within the limit.               *)
LEMMA LimiterKeeps ==
    ASSUME Types, NEW r \in Requests, Request(r), Limiter(r)
    PROVE  Types' /\ Request(r)'
<1>1. handler[r] = "limiter" /\ UNCHANGED <<outcome, gone, depth, times>>
  BY DEF Limiter
<1>2. Route[r] \in Routes /\ \A p \in Routes : Limit[p] \in Nat
  BY IngestAssumption
<1>3. CASE UsedUp(Route[r])
  <2>1. Answer(r, 429, <<>>) /\ UNCHANGED count
    BY <1>3 DEF Limiter
  <2>2. outcome[r] = <<>>
    BY <1>1 DEF Request, Orderly
  <2>3. FairRest(r, Remaining(todo[r], 429, <<>>))
    BY <2>2, AllAgain
  <2>4. count' \in [Routes -> Nat] /\ \A p \in Routes : count'[p] <= Limit[p]
    BY <2>1 DEF Types
  <2> QED BY <1>1, <2>1, <2>3, <2>4, AnswerKeeps
<1>4. CASE ~UsedUp(Route[r])
  <2>1. /\ count' = [count EXCEPT ![Route[r]] = @ + 1]
        /\ handler' = [handler EXCEPT ![r] = "decode"] /\ UNCHANGED clientVars
    BY <1>4 DEF Limiter
  <2>2. count[Route[r]] + 1 <= Limit[Route[r]] /\ count[Route[r]] + 1 \in Nat
    BY <1>2, <1>4 DEF UsedUp, Types
  <2>3. count' \in [Routes -> Nat] /\ \A p \in Routes : count'[p] <= Limit[p]
    BY <2>1, <2>2 DEF Types
  <2> QED BY <1>1, <2>1, <2>3, GoesOn
<1> QED BY <1>3, <1>4

(* What the handler refuses is not a well-formed request. *)
LEMMA DecodeKeeps ==
    ASSUME Types, NEW r \in Requests, Request(r), Decode(r)
    PROVE  Types' /\ Request(r)'
<1>1. /\ handler[r] = "decode" /\ UNCHANGED <<count, outcome, gone, depth, times>>
      /\ count' \in [Routes -> Nat] /\ \A p \in Routes : count'[p] <= Limit[p]
  BY DEF Decode, Types
<1>2. CASE Refusal(Shape[r]) # 0
  <2>1. Answer(r, Refusal(Shape[r]), <<>>)
    BY <1>2 DEF Decode
  <2>2. Shape[r] # "ok" /\ Refusal(Shape[r]) \in Nat \ {202, 429, 503}
    BY <1>2 DEF Refusal
  <2>3. FairRest(r, Remaining(todo[r], Refusal(Shape[r]), <<>>))
    BY <2>2, NothingLeft
  <2> QED BY <1>1, <2>1, <2>3, AnswerKeeps
<1>3. CASE Refusal(Shape[r]) = 0
  <2>1. handler' = [handler EXCEPT ![r] = "items"] /\ UNCHANGED clientVars
    BY <1>3 DEF Decode
  <2> QED BY <1>1, <2>1, GoesOn
<1> QED BY <1>2, <1>3

-----------------------------------------------------------------------------
(* The items.                                                              *)

(* What one item does to the channel, and the code it gets. *)
Admits(r, i, code) ==
    \/ code = "OK" /\ times' = [times EXCEPT ![i] = @ + 1] /\ depth' = depth + 1
                   /\ depth < Capacity
    \/ code = "PUBLISH_FAILED" /\ UNCHANGED <<depth, times>>
    \/ code \in {"VALIDATION_ERROR", "INTERNAL_ERROR"} /\ Verdict[i] # "valid"
                   /\ UNCHANGED <<depth, times>>

(* The next item gets its code and, if that is "OK", a place.              *)
LEMMA IngestItemKeeps ==
    ASSUME Types, NEW r \in Requests, Request(r), IngestItem(r)
    PROVE  /\ Types' /\ Request(r)'
           /\ \A i \in Items : i \notin Range(Payload[r]) => times'[i] = times[i]
           /\ UNCHANGED <<handler, todo, tries, unheard>>
           /\ \A s \in Requests \ {r} : outcome'[s] = outcome[s]
<1>0. PICK n, i : n = Len(outcome[r]) + 1 /\ i = todo[r][n]
  OBVIOUS
<1>1. /\ handler[r] = "items" /\ Len(outcome[r]) < Len(todo[r])
      /\ UNCHANGED <<count, handler, gone, todo, tries, unheard>>
  BY DEF IngestItem, clientVars
<1>2. /\ Orderly(r) /\ n \in DOMAIN todo[r] /\ n \in Nat
      /\ i \in Range(Payload[r]) /\ i \in Items /\ i = NextItem(r)
      /\ n = Len(outcome[r]) + 1 /\ i = todo[r][n]
  BY <1>0, <1>1, OwnItems DEF Request, NextItem
<1>3. PICK code \in Codes : /\ outcome' = [outcome EXCEPT ![r] = Append(@, code)]
                            /\ Admits(r, i, code)
  BY <1>2 DEF IngestItem, Record, Codes, Admits
<1>4. /\ outcome'[r] = Append(outcome[r], code) /\ outcome[r] \in Seq(Codes)
      /\ \A s \in Requests \ {r} : outcome'[s] = outcome[s]
  BY <1>3 DEF Types
<1>5. /\ Append(outcome[r], code) \in Seq(Codes) /\ Len(Append(outcome[r], code)) = n
      /\ Append(outcome[r], code)[n] = code
      /\ \A j \in 1..Len(outcome[r]) : Append(outcome[r], code)[j] = outcome[r][j]
  BY <1>2, <1>4, AppendProperties
<1> DEFINE o == outcome'[r]
<1>6. /\ o \in Seq(Codes) /\ Len(o) = n /\ o[n] = code
      /\ \A j \in 1..Len(outcome[r]) : o[j] = outcome[r][j]
  BY <1>4, <1>5
<1> HIDE DEF o
<1>7. /\ ~Done(r, n) /\ Done(r, n)'
      /\ \A j \in DOMAIN todo[r] : j # n =>
            /\ Done(r, j)' <=> Done(r, j)
            /\ Done(r, j) => o[j] = outcome[r][j]
            /\ todo[r][j] # i
  <2>1. Len(outcome'[r]) = n
    BY <1>6 DEF o
  <2>2. IsInjective(todo[r])
    BY <1>2 DEF Orderly
  <2>3. ~Done(r, n) /\ Done(r, n)'
    <3>1. Len(outcome[r]) \in Nat
      BY <1>2, OwnItems
    <3> QED BY <1>1, <1>2, <2>1, <3>1 DEF Done
  <2>4. ASSUME NEW j \in DOMAIN todo[r], j # n
        PROVE  /\ Done(r, j)' <=> Done(r, j)
               /\ Done(r, j) => o[j] = outcome[r][j]
               /\ todo[r][j] # i
    <3>1. j \in Nat /\ j >= 1 /\ Len(outcome[r]) \in Nat
      BY <1>2, OwnItems
    <3>2. Done(r, j)' <=> Done(r, j)
      BY <1>1, <1>2, <2>1, <2>4, <3>1 DEF Done
    <3>3. Done(r, j) => o[j] = outcome[r][j]
      BY <1>6, <3>1 DEF Done
    <3>4. todo[r][j] # i
      BY <1>2, <2>2, <2>4 DEF IsInjective
    <3> QED BY <3>2, <3>3, <3>4
  <2> QED BY <2>3, <2>4
<1>8. \A x \in Items : times[x] \in Nat
  BY <1>2, OwnItems
<1>9. \A x \in Items : x # i => times'[x] = times[x]
  BY <1>2, <1>3 DEF Admits, Types
<1>10. times[i] < tries[r] /\ tries[r] \in 0..MaxTries
  BY <1>1, <1>2, <1>7 DEF Request, OncePerTry, Types
<1>11. /\ code = "OK" => times'[i] = times[i] + 1
       /\ code # "OK" => times'[i] = times[i]
       /\ times'[i] \in Nat /\ times'[i] <= tries[r]
  BY <1>2, <1>3, <1>8, <1>10, IngestAssumption, SMTT(30) DEF Admits, Types, Codes
<1>12. Types'
  <2>1. times' \in [Items -> 0..MaxTries]
    <3>1. times[i] + 1 \in 0..MaxTries
      BY <1>2, <1>8, <1>10, IngestAssumption
    <3> QED BY <1>2, <1>3, <3>1 DEF Admits, Types
  <2>2. depth' \in 0..Capacity
    BY <1>3, IngestAssumption DEF Admits, Types
  <2>3. outcome' \in [Requests -> Seq(Codes)]
    BY <1>3, <1>4, <1>5 DEF Types
  <2> QED BY <1>1, <2>1, <2>2, <2>3 DEF Types
<1>13. Orderly(r)'
  BY <1>1, <1>2, <1>6, OwnItems DEF Orderly, o
<1>14. OncePerTry(r)'
  <2>1. ASSUME NEW x \in Range(Payload[r]) PROVE times'[x] <= tries'[r]
    <3>1. x \in Items
      BY <1>2, OwnItems
    <3> QED BY <1>1, <1>9, <1>11, <3>1 DEF Request, OncePerTry
  <2>2. ASSUME NEW j \in DOMAIN todo[r], ~Done(r, j)' PROVE times'[todo[r][j]] < tries'[r]
    <3>1. j # n /\ ~Done(r, j) /\ todo[r][j] # i
      BY <1>7, <2>2
    <3>2. todo[r][j] \in Items
      BY <1>2, OwnItems
    <3> QED BY <1>1, <1>9, <3>1, <3>2 DEF Request, OncePerTry
  <2> QED BY <1>1, <2>1, <2>2 DEF OncePerTry
<1>15. SentOnce(r)'
  <2> SUFFICES ASSUME ~unheard[r]
               PROVE  /\ \A x \in Range(Payload[r]) : times'[x] <= 1
                      /\ \A j \in DOMAIN todo[r] :
                           (Done(r, j)' /\ o[j] = "OK") \/ times'[todo[r][j]] = 0
    BY <1>1 DEF SentOnce, o
  <2>1. times[i] = 0
    BY <1>2, <1>7 DEF Request, SentOnce
  <2>2. ASSUME NEW x \in Range(Payload[r]) PROVE times'[x] <= 1
    <3>1. x \in Items
      BY <1>2, OwnItems
    <3> QED BY <1>9, <1>11, <2>1, <3>1 DEF Request, SentOnce
  <2>3. ASSUME NEW j \in DOMAIN todo[r]
        PROVE  (Done(r, j)' /\ o[j] = "OK") \/ times'[todo[r][j]] = 0
    <3>1. CASE j = n
      BY <1>2, <1>6, <1>7, <1>11, <2>1, <3>1
    <3>2. CASE j # n
      <4>1. todo[r][j] \in Items /\ times'[todo[r][j]] = times[todo[r][j]]
        BY <1>2, <1>7, <1>9, <3>2, OwnItems
      <4> QED BY <1>7, <3>2, <4>1 DEF Request, SentOnce
    <3> QED BY <3>1, <3>2
  <2> QED BY <2>2, <2>3
<1>16. NoneForgotten(r)'
  <2> SUFFICES ASSUME Shape[r] = "ok"
               PROVE  /\ \A x \in Range(Payload[r]) :
                           Verdict[x] = "valid" => times'[x] >= 1 \/ x \in Range(todo[r])
                      /\ \A j \in DOMAIN todo[r] :
                           Done(r, j)' /\ Verdict[todo[r][j]] = "valid" =>
                              \/ o[j] = "PUBLISH_FAILED"
                              \/ o[j] = "OK" /\ times'[todo[r][j]] >= 1
    BY <1>1 DEF NoneForgotten, o
  <2>1. i \in Range(todo[r])
    BY <1>2 DEF Range
  <2>2. ASSUME NEW x \in Range(Payload[r]), Verdict[x] = "valid"
        PROVE  times'[x] >= 1 \/ x \in Range(todo[r])
    <3>1. x \in Items
      BY <1>2, OwnItems
    <3> QED BY <1>9, <2>1, <2>2, <3>1 DEF Request, NoneForgotten
  <2>3. ASSUME NEW j \in DOMAIN todo[r], Done(r, j)', Verdict[todo[r][j]] = "valid"
        PROVE  o[j] = "PUBLISH_FAILED" \/ (o[j] = "OK" /\ times'[todo[r][j]] >= 1)
    <3>1. CASE j = n
      <4>1. code \in {"OK", "PUBLISH_FAILED"}
        BY <1>2, <1>3, <2>3, <3>1 DEF Admits
      <4> QED BY <1>2, <1>6, <1>8, <1>11, <3>1, <4>1
    <3>2. CASE j # n
      <4>1. todo[r][j] \in Items /\ times'[todo[r][j]] = times[todo[r][j]]
        BY <1>2, <1>7, <1>9, <3>2, OwnItems
      <4> QED BY <1>7, <2>3, <3>2, <4>1 DEF Request, NoneForgotten
    <3> QED BY <3>1, <3>2
  <2> QED BY <2>2, <2>3
<1> QED BY <1>1, <1>2, <1>4, <1>9, <1>12, <1>13, <1>14, <1>15, <1>16 DEF Request

(* The status says no less than the codes: a 202 is for all of them, a 503 *)
(* says that no item was admitted, and a 400 or 500 that none could be.    *)
LEMMA StatusIsFair ==
    ASSUME Types, NEW r \in Requests, Request(r), handler[r] = "items",
           Len(outcome[r]) = Len(todo[r]),
           NEW status, status = IF Route[r] = "bulk" THEN BulkStatus(outcome[r])
                                ELSE SingleStatus(outcome[r])
    PROVE  /\ status \in {202, 400, 500, 503}
           /\ status = 503 => \A j \in DOMAIN outcome[r] : outcome[r][j] # "OK"
           /\ status \in {400, 500} => \A j \in DOMAIN outcome[r] :
                                          outcome[r][j] \notin {"OK", "PUBLISH_FAILED"}
<1>1. /\ DOMAIN outcome[r] = 1..Len(outcome[r])
      /\ \A j \in DOMAIN outcome[r] : outcome[r][j] \in Codes
  <2>1. outcome[r] \in Seq(Codes)
    BY DEF Types
  <2> QED BY <2>1, LenProperties, ElementOfSeq
<1>2. CASE Route[r] = "bulk"
  BY <1>1, <1>2 DEF BulkStatus, Contains
<1>3. CASE Route[r] # "bulk"
  <2>1. Route[r] = "ingest"
    BY <1>3, IngestAssumption DEF Routes
  <2>2. Len(Payload[r]) = 1 /\ DOMAIN Payload[r] = 1..1
    BY <2>1, IngestAssumption, LenProperties
  <2>3. Len(todo[r]) \in Nat /\ DOMAIN todo[r] = 1..Len(todo[r]) /\ todo[r] # <<>>
        /\ IsInjective(todo[r])
    BY OwnItems DEF Request, Orderly
  <2>4. \A j \in DOMAIN todo[r] : todo[r][j] = Payload[r][1]
    BY <2>2, OwnItems DEF Request, Range
  <2>5. Len(todo[r]) <= 1
    <3> SUFFICES ASSUME Len(todo[r]) > 1 PROVE FALSE
      BY <2>3
    <3>1. 1 \in DOMAIN todo[r] /\ 2 \in DOMAIN todo[r]
      BY <2>3
    <3> QED BY <2>3, <2>4, <3>1 DEF IsInjective
  <2>6. Len(todo[r]) # 0
    BY <2>3, EmptySeq DEF Types
  <2>7. DOMAIN outcome[r] = {1} /\ outcome[r][1] \in Codes
    BY <1>1, <2>3, <2>5, <2>6
  <2>8. status = SingleStatus(outcome[r])
    BY <1>3
  <2> QED BY <2>7, <2>8 DEF SingleStatus, Codes
<1> QED BY <1>2, <1>3

(* The reply of the handler is fair. *)
LEMMA FinishKeeps ==
    ASSUME Types, NEW r \in Requests, Request(r), Finish(r)
    PROVE  Types' /\ Request(r)'
<1>1. /\ handler[r] = "items" /\ Len(outcome[r]) = Len(todo[r])
      /\ UNCHANGED <<count, outcome, gone, depth, times>>
      /\ count' \in [Routes -> Nat] /\ \A p \in Routes : count'[p] <= Limit[p]
  BY DEF Finish, Types
<1>2. PICK status : /\ status = IF Route[r] = "bulk" THEN BulkStatus(outcome[r])
                                ELSE SingleStatus(outcome[r])
                    /\ Answer(r, status, outcome[r])
  BY DEF Finish
<1>3. /\ status \in {202, 400, 500, 503}
      /\ status = 503 => \A j \in DOMAIN outcome[r] : outcome[r][j] # "OK"
      /\ status \in {400, 500} => \A j \in DOMAIN outcome[r] :
                                     outcome[r][j] \notin {"OK", "PUBLISH_FAILED"}
  BY <1>1, <1>2, StatusIsFair
<1>4. /\ DOMAIN todo[r] = DOMAIN outcome[r]
      /\ \A j \in DOMAIN todo[r] : Done(r, j)
  BY <1>1, OwnItems DEF Done, Request
<1>5. FairRest(r, Remaining(todo[r], status, outcome[r]))
  <2>1. CASE status = 503
    <3>1. Remaining(todo[r], status, outcome[r]) = todo[r]
      BY <2>1 DEF Remaining
    <3>2. ASSUME ~unheard[r], NEW i \in Range(todo[r]) PROVE times[i] = 0
      <4>1. PICK j \in DOMAIN todo[r] : todo[r][j] = i
        BY DEF Range
      <4> QED BY <1>3, <1>4, <2>1, <3>2, <4>1 DEF Request, SentOnce
    <3> QED BY <3>1, <3>2 DEF FairRest, Request, Orderly, Types
  <2>2. CASE status \in {400, 500}
    <3>1. Remaining(todo[r], status, outcome[r]) = <<>>
      BY <2>2 DEF Remaining
    <3>2. <<>> \in Seq(Items) /\ IsInjective(<<>>) /\ Range(<<>>) = {}
      BY EmptySeq DEF IsInjective, Range
    <3>3. ASSUME Shape[r] = "ok", NEW i \in Range(todo[r]) PROVE Verdict[i] # "valid"
      <4>1. PICK j \in DOMAIN todo[r] : todo[r][j] = i
        BY DEF Range
      <4> QED BY <1>3, <1>4, <2>2, <3>3, <4>1 DEF Request, NoneForgotten
    <3> QED BY <3>1, <3>2, <3>3 DEF FairRest
  <2>3. CASE status = 202
    <3> DEFINE T == Unpublished(todo[r], outcome[r])
    <3>1. Remaining(todo[r], status, outcome[r]) = T
      BY <2>3 DEF Remaining
    <3>2. /\ T \in Seq(Items) /\ IsInjective(T)
          /\ Range(T) = {todo[r][j] : j \in {k \in DOMAIN todo[r] :
                                               outcome[r][k] = "PUBLISH_FAILED"}}
      BY <1>1, UnpublishedIs, ZenonT(40) DEF Types, Request, Orderly
    <3> HIDE DEF T
    <3>3. Range(T) \subseteq Range(todo[r])
      BY <3>2 DEF Range
    <3>4. ASSUME ~unheard[r], NEW i \in Range(T) PROVE times[i] = 0
      <4>1. PICK j \in DOMAIN todo[r] : todo[r][j] = i /\ outcome[r][j] = "PUBLISH_FAILED"
        BY <3>2
      <4> QED BY <3>4, <4>1 DEF Request, SentOnce
    <3>5. ASSUME Shape[r] = "ok", NEW i \in Range(todo[r]) \ Range(T), Verdict[i] = "valid"
          PROVE  times[i] >= 1
      <4>1. PICK j \in DOMAIN todo[r] : todo[r][j] = i
        BY DEF Range
      <4>2. outcome[r][j] # "PUBLISH_FAILED"
        BY <3>2, <3>5, <4>1
      <4> QED BY <1>4, <3>5, <4>1, <4>2 DEF Request, NoneForgotten
    <3> QED BY <3>1, <3>2, <3>3, <3>4, <3>5 DEF FairRest
  <2> QED BY <1>3, <2>1, <2>2, <2>3
<1> QED BY <1>1, <1>2, <1>5, AnswerKeeps

-----------------------------------------------------------------------------
(* The theorems.                                                           *)

(* An action of one request leaves the others alone. *)
LEMMA OthersUntouched ==
    ASSUME IInv, NEW r \in Requests, NEW s \in Requests, s # r,
           \/ Send(r) \/ Disconnect(r) \/ Middleware(r) \/ Limiter(r)
           \/ Decode(r) \/ IngestItem(r) \/ Finish(r)
    PROVE  Request(s)'
<1>1. Types /\ Request(s) /\ Request(r)
  BY DEF IInv
<1>2. CASE IngestItem(r)
  <2>1. \A i \in Range(Payload[s]) : i \in Items /\ i \notin Range(Payload[r])
    BY <1>1, OwnItems, NothingShared DEF Request
  <2>2. /\ UNCHANGED <<handler[s], outcome[s], todo[s], tries[s], unheard[s]>>
        /\ \A i \in Range(Payload[s]) : times'[i] = times[i]
    BY <1>1, <1>2, <2>1, IngestItemKeeps
  <2> QED BY <1>1, <2>2, Untouched
<1>3. CASE Send(r) \/ Disconnect(r) \/ Middleware(r) \/ Limiter(r) \/ Decode(r) \/ Finish(r)
  <2>1. ASSUME NEW status, NEW codes, Answer(r, status, codes)
        PROVE  UNCHANGED <<handler[s], todo[s], tries[s], unheard[s]>>
    BY <1>1, <2>1 DEF Answer, Types
  <2>2. /\ UNCHANGED <<handler[s], outcome[s], todo[s], tries[s], unheard[s]>>
        /\ UNCHANGED times
    <3>1. CASE Send(r)
      BY <1>1, <3>1 DEF Send, Types
    <3>2. CASE Disconnect(r)
      BY <3>2 DEF Disconnect, clientVars
    <3>3. CASE Middleware(r)
      BY <1>1, <2>1, <3>3 DEF Middleware, Types, clientVars
    <3>4. CASE Limiter(r)
      BY <1>1, <2>1, <3>4 DEF Limiter, Types, clientVars
    <3>5. CASE Decode(r)
      BY <1>1, <2>1, <3>5 DEF Decode, Types, clientVars
    <3>6. CASE Finish(r)
      BY <2>1, <3>6 DEF Finish
    <3> QED BY <1>3, <3>1, <3>2, <3>3, <3>4, <3>5, <3>6
  <2> QED BY <1>1, <2>2, Untouched
<1> QED BY <1>2, <1>3

(* The limits hold, and every reply leaves its client with exactly what it *)
(* still has to send, in every reachable state (middleware.go:82,          *)
(* ingest.go:40-60, bulk.go:74-124).                                       *)
THEOREM IngestInvariance == Spec => []IInv
<1>1. Init => IInv
  <2> SUFFICES ASSUME Init PROVE IInv
    OBVIOUS
  <2>1. Types
    BY IngestAssumption, EmptySeq DEF Init, Types, Routes
  <2>2. ASSUME NEW r \in Requests PROVE Request(r)
    <3>1. /\ todo[r] = Payload[r] /\ handler[r] = "idle" /\ tries[r] = 0
          /\ Payload[r] \in Seq(Items) /\ DOMAIN Payload[r] = 1..Len(Payload[r])
      BY IngestAssumption, LenProperties DEF Init
    <3>2. \A i \in Range(Payload[r]) : i \in Items /\ times[i] = 0
      BY <3>1, ElementOfSeq DEF Init, Range
    <3>3. Orderly(r)
      <4>1. \A j, k \in DOMAIN Payload[r] : Payload[r][j] = Payload[r][k] => j = k
        BY IngestAssumption
      <4>2. IsInjective(Payload[r])
        BY <4>1 DEF IsInjective
      <4> QED BY <3>1, <4>2 DEF Orderly
    <3>4. OncePerTry(r)
      BY <3>1, <3>2 DEF OncePerTry
    <3>5. SentOnce(r)
      BY <3>1, <3>2 DEF SentOnce, Range
    <3>6. NoneForgotten(r)
      BY <3>1, <3>2 DEF NoneForgotten, Done
    <3> QED BY <3>3, <3>4, <3>5, <3>6 DEF Request
  <2> QED BY <2>1, <2>2 DEF IInv
<1>2. IInv /\ [Next]_vars => IInv'
  <2> SUFFICES ASSUME IInv, [Next]_vars PROVE IInv'
    OBVIOUS
  <2>0. Types /\ \A r \in Requests : Request(r)
    BY DEF IInv
  <2>1. ASSUME UNCHANGED <<handler, outcome, times, todo, tries, unheard>>, Types'
        PROVE  IInv'
    BY <2>0, <2>1, Untouched DEF IInv
  <2>2. CASE UNCHANGED vars
    BY <2>0, <2>1, <2>2 DEF vars, clientVars, Types
  <2>3. ASSUME NEW p \in Routes, ResetLimiter(p) PROVE IInv'
    <3>1. Types'
      <4>1. /\ count' = [count EXCEPT ![p] = 0]
            /\ UNCHANGED <<handler, outcome, gone, depth, times, todo, tries, unheard>>
        BY <2>3 DEF ResetLimiter, clientVars
      <4>2. \A q \in Routes : Limit[q] \in Nat
        BY IngestAssumption
      <4>3. \A q \in Routes : count'[q] \in Nat /\ count'[q] <= Limit[q]
        BY <2>0, <4>1, <4>2 DEF Types
      <4> QED BY <2>0, <4>1, <4>3 DEF Types
    <3> QED BY <2>1, <2>3, <3>1 DEF ResetLimiter, clientVars
  <2>4. CASE Drain
    <3>1. Types'
      BY <2>0, <2>4, IngestAssumption DEF Drain, Types, clientVars
    <3> QED BY <2>1, <2>4, <3>1 DEF Drain, clientVars
  <2>5. ASSUME NEW r \in Requests,
               \/ Send(r) \/ Disconnect(r) \/ Middleware(r) \/ Limiter(r)
               \/ Decode(r) \/ IngestItem(r) \/ Finish(r)
        PROVE  IInv'
    <3>1. Types' /\ Request(r)'
      <4>1. CASE Disconnect(r)
        <5>1. Types'
          BY <2>0, <4>1 DEF Disconnect, Types, clientVars
        <5>2. Request(r)'
          BY <2>0, <4>1, Untouched DEF Disconnect, clientVars
        <5> QED BY <5>1, <5>2
      <4> QED BY <2>0, <2>5, <4>1, SendKeeps, MiddlewareKeeps, LimiterKeeps, DecodeKeeps,
                 IngestItemKeeps, FinishKeeps
    <3>2. \A s \in Requests : Request(s)'
      BY <2>5, <3>1, OthersUntouched
    <3> QED BY <3>1, <3>2 DEF IInv
  <2> QED BY <2>2, <2>3, <2>4, <2>5 DEF Next
<1> QED BY <1>1, <1>2, PTL DEF Spec

(* The types; neither a limiter's count nor the channel passes its limit,  *)
(* however the requests interleave (middleware.go:82, buffer.go, Publish). *)
THEOREM IngestTyped == Spec => []TypeOK
<1>1. IInv => TypeOK
  <2> SUFFICES ASSUME IInv PROVE TypeOK
    OBVIOUS
  <2>1. Types /\ \A r \in Requests : Orderly(r)
    BY DEF IInv, Request
  <2>2. \A p \in Routes : count[p] \in 0..Limit[p]
    BY <2>1, IngestAssumption DEF Types
  <2>3. \A r \in Requests : outcome[r] \in Seq(Codes)
    BY <2>1 DEF Types
  <2> QED BY <2>1, <2>2, <2>3 DEF TypeOK, Types, Orderly, Codes
<1> QED BY <1>1, IngestInvariance, PTL

(* A client that hears every reply and does what it asks for gets no event *)
(* into the buffer twice, for every number of requests, items and tries    *)
(* (bulk.go:105-122).                                                      *)
THEOREM HeardOnce == Spec => []NoDuplicateIfHeard
<1>1. IInv => NoDuplicateIfHeard
  <2> SUFFICES ASSUME IInv, NEW r \in Requests, ~unheard[r], NEW i \in DOMAIN Payload[r]
               PROVE  times[Payload[r][i]] <= 1
    BY DEF NoDuplicateIfHeard
  <2>1. Payload[r][i] \in Range(Payload[r])
    BY DEF Range
  <2> QED BY <2>1 DEF IInv, Request, SentOnce
<1> QED BY <1>1, IngestInvariance, PTL

(* A client that stops because the replies tell it to has got every valid  *)
(* event of a well-formed request into the buffer (bulk.go:105-122).       *)
THEOREM NoneAbandoned == Spec => []NoValidItemAbandoned
<1>1. IInv => NoValidItemAbandoned
  <2> SUFFICES ASSUME IInv, NEW r \in Requests, Shape[r] = "ok", todo[r] = <<>>,
                      NEW i \in DOMAIN Payload[r], Verdict[Payload[r][i]] = "valid"
               PROVE  times[Payload[r][i]] >= 1
    BY DEF NoValidItemAbandoned
  <2>1. Payload[r][i] \in Range(Payload[r]) /\ Range(todo[r]) = {}
    BY DEF Range
  <2> QED BY <2>1 DEF IInv, Request, NoneForgotten
<1> QED BY <1>1, IngestInvariance, PTL
=============================================================================
