----------------------------- MODULE QueryProofs -----------------------------
(***************************************************************************)
(* Proofs about GET /metrics for every number of events, users, groups and *)
(* requests: what a complete reply counts.                                 *)
(***************************************************************************)
EXTENDS Query, DataLemmas

-----------------------------------------------------------------------------
(* The table.                                                              *)

(* Everything that is counted is finite. *)
LEMMA MatchingFinite ==
    ASSUME NEW q \in Queries
    PROVE  /\ Matching(q) \subseteq Events /\ IsFiniteSet(Matching(q))
           /\ IsFiniteSet(Users(Matching(q)))
           /\ Cardinality(Matching(q)) \in Nat /\ Cardinality(Users(Matching(q))) \in Nat
<1>1. Matching(q) \subseteq Events
  BY DEF Matching, Stored
<1>2. IsFiniteSet(Matching(q))
  BY <1>1, QueryAssumption, FS_Subset
<1>3. IsFiniteSet(Users(Matching(q)))
  BY <1>2, ImageFinite DEF Users
<1> QED BY <1>1, <1>2, <1>3, FS_CardinalityType

(* The same in the next state. *)
LEMMA MatchingFiniteNext ==
    ASSUME NEW q \in Queries
    PROVE  /\ IsFiniteSet(Matching(q)') /\ IsFiniteSet(Users(Matching(q))')
           /\ Cardinality(Matching(q)') \in Nat /\ Cardinality(Users(Matching(q))') \in Nat
<1>1. Matching(q)' \subseteq Events
  BY DEF Matching, Stored
<1>2. IsFiniteSet(Matching(q)')
  BY <1>1, QueryAssumption, FS_Subset
<1>3. IsFiniteSet(Users(Matching(q))')
  BY <1>2, ImageFinite DEF Users
<1> QED BY <1>2, <1>3, FS_CardinalityType

(* What has been inserted stays, merged or not. *)
LEMMA StoredGrows ==
    ASSUME copies \in [Events -> Nat], [Next]_vars
    PROVE  copies' \in [Events -> Nat] /\ Stored \subseteq Stored'
<1>1. CASE UNCHANGED copies
  BY <1>1 DEF Stored
<1>2. ASSUME NEW S \in SUBSET Events, Insert(S)
      PROVE  copies' \in [Events -> Nat] /\ Stored \subseteq Stored'
  BY <1>2 DEF Insert, Stored
<1>3. ASSUME NEW e \in Events, Merge(e)
      PROVE  copies' \in [Events -> Nat] /\ Stored \subseteq Stored'
  BY <1>3 DEF Merge, Stored
<1> QED BY <1>1, <1>2, <1>3
        DEF Next, vars, Refuse, Begin, Expire, Cancel, Answer, Fail, ReplyError,
            ScanTotals, ScanGroup, ScanFails, LastGroup, CutShort

(* A request matches what it matched, and more. *)
LEMMA MatchingGrows ==
    ASSUME Stored \subseteq Stored', NEW q \in Queries
    PROVE  /\ Matching(q) \subseteq Matching(q)'
           /\ Cardinality(Matching(q)) <= Cardinality(Matching(q)')
           /\ Cardinality(Users(Matching(q))) <= Cardinality(Users(Matching(q))')
<1>1. Matching(q) \subseteq Matching(q)'
  BY DEF Matching
<1>2. Users(Matching(q)) \subseteq Users(Matching(q))'
  BY <1>1 DEF Users
<1> QED BY <1>1, <1>2, MatchingFinite, MatchingFiniteNext, FS_Subset

-----------------------------------------------------------------------------
(* The groups of a reply.                                                  *)

(* What the groups of a reply sum up to. *)
TotalOf(G) == MapThenSumSet(LAMBDA g : g.total, G)
UniqueOf(G) == MapThenSumSet(LAMBDA g : g.unique, G)

(* The sum of the totals is one of Sums. *)
LEMMA TotalOfIs ==
    ASSUME NEW G, IsFiniteSet(G), NEW f \in [G -> Nat], \A g \in G : f[g] = g.total
    PROVE  \E h : Sums(G, f, h) /\ TotalOf(G) = h[G]
<1> DEFINE first(A) == CHOOSE x \in A : TRUE
<1>1. PICK h \in [SUBSET G -> Nat] : Sums(G, f, h)
  BY SumsExists
<1>2. \A A \in SUBSET G : A # {} => f[first(A)] = first(A).total
  OBVIOUS
<1>3. ASSUME NEW k, k = [A \in SUBSET G |->
                           IF A = {} THEN 0 ELSE first(A).total + k[A \ {first(A)}]]
      PROVE  k = h
  <2>1. k = [A \in SUBSET G |-> IF A = {} THEN 0 ELSE f[first(A)] + k[A \ {first(A)}]]
    BY <1>2, <1>3
  <2>2. Sums(G, f, k)
    BY <2>1 DEF Sums
  <2> QED BY <1>1, <2>2, SumsUnique
<1>4. h = [A \in SUBSET G |-> IF A = {} THEN 0 ELSE first(A).total + h[A \ {first(A)}]]
  BY <1>1, <1>2 DEF Sums
<1>5. TotalOf(G) = h[G]
  BY <1>3, <1>4 DEF TotalOf, MapThenSumSet, MapThenFoldSet
<1> QED BY <1>1, <1>5

(* So is the sum of the unique users. *)
LEMMA UniqueOfIs ==
    ASSUME NEW G, IsFiniteSet(G), NEW f \in [G -> Nat], \A g \in G : f[g] = g.unique
    PROVE  \E h : Sums(G, f, h) /\ UniqueOf(G) = h[G]
<1> DEFINE first(A) == CHOOSE x \in A : TRUE
<1>1. PICK h \in [SUBSET G -> Nat] : Sums(G, f, h)
  BY SumsExists
<1>2. \A A \in SUBSET G : A # {} => f[first(A)] = first(A).unique
  OBVIOUS
<1>3. ASSUME NEW k, k = [A \in SUBSET G |->
                           IF A = {} THEN 0 ELSE first(A).unique + k[A \ {first(A)}]]
      PROVE  k = h
  <2>1. k = [A \in SUBSET G |-> IF A = {} THEN 0 ELSE f[first(A)] + k[A \ {first(A)}]]
    BY <1>2, <1>3
  <2>2. Sums(G, f, k)
    BY <2>1 DEF Sums
  <2> QED BY <1>1, <2>2, SumsUnique
<1>4. h = [A \in SUBSET G |-> IF A = {} THEN 0 ELSE first(A).unique + h[A \ {first(A)}]]
  BY <1>1, <1>2 DEF Sums
<1>5. UniqueOf(G) = h[G]
  BY <1>3, <1>4 DEF UniqueOf, MapThenSumSet, MapThenFoldSet
<1> QED BY <1>1, <1>5

(* The groups that the database answers cover what the request matches.    *)
LEMMA GroupRowsCover ==
    ASSUME NEW q \in Queries
    PROVE  /\ TotalOf(GroupRows(q)) \in Nat /\ UniqueOf(GroupRows(q)) \in Nat
           /\ Cardinality(Matching(q)) <= TotalOf(GroupRows(q))
           /\ Cardinality(Users(Matching(q))) <= UniqueOf(GroupRows(q))
<1> DEFINE M == Matching(q)
           key == Group[Params[q].groupBy]
           members(k) == {e \in M : key[e] = k}
           G == GroupRows(q)
           F == [g \in G |-> members(g.key)]
           P == [g \in G |-> Users(members(g.key))]
           ft == [g \in G |-> Cardinality(F[g])]
           fu == [g \in G |-> Cardinality(P[g])]
<1>0. IsFiniteSet(M) /\ IsFiniteSet(Users(M))
  BY MatchingFinite
<1>1. G = {[key |-> k, total |-> Cardinality(members(k)),
            unique |-> Cardinality(Users(members(k)))] : k \in {key[e] : e \in M}}
  BY DEF GroupRows
<1>2. IsFiniteSet(G)
  <2>1. IsFiniteSet({key[e] : e \in M})
    BY <1>0, ImageFinite
  <2> DEFINE K == {key[e] : e \in M}
             r == [k \in K |-> [key |-> k, total |-> Cardinality(members(k)),
                                unique |-> Cardinality(Users(members(k)))]]
  <2>2. G = {r[k] : k \in K}
    BY <1>1
  <2> HIDE DEF G, r, K
  <2>3. IsFiniteSet({r[k] : k \in K})
    BY <2>1, ImageFinite DEF K
  <2> QED BY <2>2, <2>3
<1>3. ASSUME NEW g \in G
      PROVE  /\ g.total = Cardinality(F[g]) /\ g.unique = Cardinality(P[g])
             /\ F[g] \subseteq M /\ P[g] \subseteq Users(M)
             /\ Cardinality(F[g]) \in Nat /\ Cardinality(P[g]) \in Nat
             /\ IsFiniteSet(F[g]) /\ IsFiniteSet(P[g])
  <2>1. PICK k \in {key[e] : e \in M} :
           g = [key |-> k, total |-> Cardinality(members(k)),
                unique |-> Cardinality(Users(members(k)))]
    BY <1>1
  <2>2. F[g] = members(k) /\ P[g] = Users(members(k))
    BY <2>1
  <2>3. members(k) \subseteq M /\ Users(members(k)) \subseteq Users(M)
    BY DEF Users
  <2>4. /\ IsFiniteSet(members(k)) /\ IsFiniteSet(Users(members(k)))
        /\ Cardinality(members(k)) \in Nat /\ Cardinality(Users(members(k))) \in Nat
    BY <1>0, <2>3, FS_Subset, FS_CardinalityType
  <2> HIDE DEF members
  <2> QED BY <2>1, <2>2, <2>3, <2>4
<1>4. ASSUME NEW e \in M PROVE \E g \in G : e \in F[g]
  <2> DEFINE g == [key |-> key[e], total |-> Cardinality(members(key[e])),
                   unique |-> Cardinality(Users(members(key[e])))]
  <2>1. g \in G
    BY <1>1
  <2>2. g.key = key[e] /\ e \in members(key[e])
    OBVIOUS
  <2>3. e \in F[g]
    BY <2>1, <2>2
  <2> QED BY <2>1, <2>3
<1>5. M \subseteq AllOf(G, F)
  BY <1>4 DEF AllOf
<1>6. Users(M) \subseteq AllOf(G, P)
  <2> SUFFICES ASSUME NEW e \in M PROVE User[e] \in AllOf(G, P)
    BY DEF Users
  <2>1. PICK g \in G : e \in F[g]
    BY <1>4
  <2>2. User[e] \in P[g]
    BY <2>1 DEF Users
  <2> QED BY <2>2 DEF AllOf
<1>7. /\ F \in [G -> SUBSET M] /\ P \in [G -> SUBSET Users(M)]
      /\ ft \in [G -> Nat] /\ fu \in [G -> Nat]
      /\ \A g \in G : IsFiniteSet(F[g]) /\ ft[g] = Cardinality(F[g])
      /\ \A g \in G : IsFiniteSet(P[g]) /\ fu[g] = Cardinality(P[g])
      /\ \A g \in G : ft[g] = g.total /\ fu[g] = g.unique
  BY <1>3
<1> HIDE DEF F, P, ft, fu, G, M
<1>8. PICK h : Sums(G, ft, h) /\ TotalOf(G) = h[G]
  BY <1>2, <1>7, TotalOfIs
<1>9. PICK j : Sums(G, fu, j) /\ UniqueOf(G) = j[G]
  BY <1>2, <1>7, UniqueOfIs
<1>10. h[G] \in Nat /\ Cardinality(AllOf(G, F)) <= h[G]
  BY <1>2, <1>7, <1>8, SumsCover
<1>11. j[G] \in Nat /\ Cardinality(AllOf(G, P)) <= j[G]
  BY <1>2, <1>7, <1>9, SumsCover
<1>12. /\ AllOf(G, F) = M /\ AllOf(G, P) = Users(M)
  <2>1. AllOf(G, F) \subseteq M /\ AllOf(G, P) \subseteq Users(M)
    BY <1>7 DEF AllOf
  <2> QED BY <1>5, <1>6, <2>1
<1> QED BY <1>8, <1>9, <1>10, <1>11, <1>12 DEF G, M

-----------------------------------------------------------------------------
(* A request on its way.                                                   *)

QueryType ==
    /\ copies \in [Events -> Nat]
    /\ at \in [Queries -> {"new", "totals", "totalsRows", "groups", "groupRows", "done"}]
    /\ status \in [Queries -> {0, 200, 400, 405, 500, 504}]
    /\ total \in [Queries -> Nat] /\ unique \in [Queries -> Nat]
    /\ ctxErr \in [Queries -> {"nil", "deadline", "cancelled"}]
    /\ cut \in [Queries -> {"no", "nil", "deadline", "cancelled"}]
    /\ before \in [Queries -> SUBSET Events]
    /\ result = [q \in Queries |-> result[q]] /\ groups = [q \in Queries |-> groups[q]]

(* Totals that could have been read since the request began.               *)
Plausible(q, n, u) ==
    /\ n \in Nat /\ u \in Nat
    /\ Cardinality(MatchingBefore(q)) <= n /\ n <= Cardinality(Matching(q))
    /\ u <= Cardinality(Users(Matching(q)))

Covered(q, G) == total[q] <= TotalOf(G) /\ unique[q] <= UniqueOf(G)

(* A request that was not refused is valid; its totals are plausible from  *)
(* the database's answer on, whatever is inserted meanwhile; the groups    *)
(* read and those still to be read cover them.                             *)
Progress(q) ==
    /\ at[q] \notin {"new", "done"} => ValidParams(Params[q])
    /\ at[q] = "done" /\ status[q] = 200 => ValidParams(Params[q])
    /\ before[q] \subseteq Stored
    /\ at[q] = "totalsRows" => \A row \in result[q] : Plausible(q, row.total, row.unique)
    /\ at[q] \in {"groups", "groupRows"} /\ cut[q] = "no" => Plausible(q, total[q], unique[q])
    /\ Complete(q) => Plausible(q, total[q], unique[q])
    /\ at[q] \notin {"groupRows", "done"} => groups[q] = {}
    /\ at[q] = "groupRows" /\ cut[q] = "no" => Covered(q, groups[q] \cup result[q])
    /\ Complete(q) /\ Params[q].groupBy # "" => Covered(q, groups[q])

QInv == QueryType /\ \A q \in Queries : Progress(q)

(* Where a reply, or the end of the totals, leaves a request.              *)
LEMMA AfterTotalsType ==
    ASSUME QueryType, NEW q \in Queries, AfterTotals(q) \/ Reply(q, 200)
    PROVE  /\ at' \in [Queries -> {"new", "totals", "totalsRows", "groups", "groupRows", "done"}]
           /\ status' \in [Queries -> {0, 200, 400, 405, 500, 504}]
           /\ ctxErr' \in [Queries -> {"nil", "deadline", "cancelled"}]
<1>1. CASE Reply(q, 200)
  BY <1>1 DEF Reply, QueryType
<1>2. CASE at' = [at EXCEPT ![q] = "groups"] /\ UNCHANGED <<ctxErr, status>>
  BY <1>2 DEF QueryType
<1> QED BY <1>1, <1>2 DEF AfterTotals

(* Assigning at one place leaves a function a function. *)
LEMMA StaysFunction ==
    ASSUME NEW S, NEW f, f = [x \in S |-> f[x]], NEW i, NEW v, NEW g, g = [f EXCEPT ![i] = v]
    PROVE  g = [x \in S |-> g[x]]
OBVIOUS

(* Every step keeps the types. *)
LEMMA QueryTypeStep ==
    ASSUME QInv, [Next]_vars
    PROVE  QueryType'
<1>0. QueryType /\ \A q \in Queries : Progress(q)
  BY DEF QInv
<1>1. CASE UNCHANGED vars
  BY <1>0, <1>1 DEF QueryType, vars, resVars
<1>2. ASSUME NEW S \in SUBSET Events, Insert(S)
      PROVE  QueryType'
  BY <1>0, <1>2, StoredGrows DEF QueryType, Insert, resVars
<1>3. ASSUME NEW e \in Events, Merge(e)
      PROVE  QueryType'
  BY <1>0, <1>3, StoredGrows DEF QueryType, Merge, resVars
<1>4. ASSUME NEW q \in Queries, \/ Refuse(q) \/ Begin(q) \/ Expire(q) \/ Cancel(q)
                                 \/ LastGroup(q)
      PROVE  QueryType'
  <2>1. Stored \subseteq Events
    BY DEF Stored
  <2> QED BY <1>0, <1>4, <2>1
          DEF QueryType, Refuse, Begin, Expire, Cancel, LastGroup, Reply, resVars
<1>5. ASSUME NEW q \in Queries, Answer(q)
      PROVE  QueryType'
  BY <1>0, <1>5 DEF QueryType, Answer, resVars
<1>6. ASSUME NEW q \in Queries, ScanTotals(q)
      PROVE  QueryType'
  <2>1. PICK row \in result[q] : /\ total' = [total EXCEPT ![q] = row.total]
                                 /\ unique' = [unique EXCEPT ![q] = row.unique]
    BY <1>6 DEF ScanTotals
  <2>2. row.total \in Nat /\ row.unique \in Nat
    BY <1>0, <1>6, <2>1 DEF ScanTotals, Progress, Plausible
  <2>3. UNCHANGED <<copies, groups, before, cut>> /\ result' = [result EXCEPT ![q] = {}]
    BY <1>6 DEF ScanTotals
  <2>4. /\ at' \in [Queries -> {"new", "totals", "totalsRows", "groups", "groupRows", "done"}]
        /\ status' \in [Queries -> {0, 200, 400, 405, 500, 504}]
        /\ ctxErr' \in [Queries -> {"nil", "deadline", "cancelled"}]
    BY <1>0, <1>6, AfterTotalsType DEF ScanTotals, QueryType
  <2>5. total' \in [Queries -> Nat] /\ unique' \in [Queries -> Nat]
    BY <1>0, <2>1, <2>2 DEF QueryType
  <2>6. result' = [r \in Queries |-> result'[r]] /\ groups' = [r \in Queries |-> groups'[r]]
    <3>1. result = [r \in Queries |-> result[r]] /\ groups = [r \in Queries |-> groups[r]]
      BY <1>0 DEF QueryType
    <3>2. result' = [r \in Queries |-> result'[r]]
      BY <2>3, <3>1, StaysFunction
    <3>3. groups' = [r \in Queries |-> groups'[r]]
      BY <2>3, <3>1, StaysFunction
    <3> QED BY <3>2, <3>3
  <2>7. /\ copies' \in [Events -> Nat] /\ before' \in [Queries -> SUBSET Events]
        /\ cut' \in [Queries -> {"no", "nil", "deadline", "cancelled"}]
    BY <1>0, <2>3 DEF QueryType
  <2> QED BY <2>4, <2>5, <2>6, <2>7 DEF QueryType
<1>7. ASSUME NEW q \in Queries, ScanGroup(q)
      PROVE  QueryType'
  BY <1>0, <1>7, ZenonT(40) DEF QueryType, ScanGroup
<1>8. ASSUME NEW q \in Queries, CutShort(q)
      PROVE  QueryType'
  <2>1. /\ UNCHANGED <<copies, resVars, before>> /\ result' = [result EXCEPT ![q] = {}]
        /\ cut' = [cut EXCEPT ![q] = ctxErr[q]]
        /\ AfterTotals(q) \/ Reply(q, 200)
    BY <1>8 DEF CutShort
  <2>2. /\ at' \in [Queries -> {"new", "totals", "totalsRows", "groups", "groupRows", "done"}]
        /\ status' \in [Queries -> {0, 200, 400, 405, 500, 504}]
        /\ ctxErr' \in [Queries -> {"nil", "deadline", "cancelled"}]
    BY <1>0, <2>1, AfterTotalsType DEF QueryType
  <2>3. cut' \in [Queries -> {"no", "nil", "deadline", "cancelled"}]
    BY <1>0, <2>1 DEF QueryType
  <2> QED BY <1>0, <2>1, <2>2, <2>3, ZenonT(40) DEF QueryType, resVars
<1>9. ASSUME NEW q \in Queries, NEW code \in {500, 504}, ReplyError(q, code)
      PROVE  QueryType'
  <2>1. /\ at' \in [Queries -> {"new", "totals", "totalsRows", "groups", "groupRows", "done"}]
        /\ status' \in [Queries -> {0, 200, 400, 405, 500, 504}]
        /\ ctxErr' \in [Queries -> {"nil", "deadline", "cancelled"}]
    BY <1>0, <1>9 DEF ReplyError, Reply, QueryType
  <2>2. total' \in [Queries -> Nat] /\ unique' \in [Queries -> Nat]
    BY <1>0, <1>9 DEF ReplyError, QueryType
  <2>3. /\ result' = [result EXCEPT ![q] = {}] /\ groups' = [groups EXCEPT ![q] = {}]
        /\ UNCHANGED <<copies, before, cut>>
    BY <1>9 DEF ReplyError
  <2>4. result' = [r \in Queries |-> result'[r]] /\ groups' = [r \in Queries |-> groups'[r]]
    <3>1. result = [r \in Queries |-> result[r]] /\ groups = [r \in Queries |-> groups[r]]
      BY <1>0 DEF QueryType
    <3>2. result' = [r \in Queries |-> result'[r]]
      BY <2>3, <3>1, StaysFunction
    <3>3. groups' = [r \in Queries |-> groups'[r]]
      BY <2>3, <3>1, StaysFunction
    <3> QED BY <3>2, <3>3
  <2>5. /\ copies' \in [Events -> Nat] /\ before' \in [Queries -> SUBSET Events]
        /\ cut' \in [Queries -> {"no", "nil", "deadline", "cancelled"}]
    BY <1>0, <2>3 DEF QueryType
  <2> QED BY <2>1, <2>2, <2>4, <2>5 DEF QueryType
<1>10. ASSUME NEW q \in Queries, Fail(q) \/ ScanFails(q)
       PROVE  QueryType'
  BY <1>9, <1>10 DEF Fail, ScanFails
<1> QED BY <1>1, <1>2, <1>3, <1>4, <1>5, <1>6, <1>7, <1>8, <1>10 DEF Next

(* What matched when a request began is a part of what matches.            *)
LEMMA MatchedBefore ==
    ASSUME NEW q \in Queries, before[q] \subseteq Stored
    PROVE  /\ MatchingBefore(q) \subseteq Matching(q) /\ IsFiniteSet(MatchingBefore(q))
           /\ Cardinality(MatchingBefore(q)) \in Nat
           /\ Cardinality(MatchingBefore(q)) <= Cardinality(Matching(q))
<1>1. MatchingBefore(q) \subseteq Matching(q)
  BY DEF MatchingBefore, Matching
<1> QED BY <1>1, MatchingFinite, FS_Subset, FS_CardinalityType

(* What is plausible stays so. *)
LEMMA StaysPlausible ==
    ASSUME QueryType, QueryType', [Next]_vars, NEW q \in Queries, NEW n, NEW u,
           Plausible(q, n, u), before'[q] = before[q]
    PROVE  Plausible(q, n, u)'
<1>1. /\ Cardinality(Matching(q)) <= Cardinality(Matching(q)')
      /\ Cardinality(Users(Matching(q))) <= Cardinality(Users(Matching(q))')
  BY StoredGrows, MatchingGrows DEF QueryType
<1>2. n \in Nat /\ u \in Nat /\ Cardinality(MatchingBefore(q)) <= n
      /\ n <= Cardinality(Matching(q)) /\ u <= Cardinality(Users(Matching(q)))
  BY DEF Plausible
<1>3. n <= Cardinality(Matching(q)') /\ u <= Cardinality(Users(Matching(q))')
  BY <1>1, <1>2, MatchingFinite, MatchingFiniteNext
<1>4. MatchingBefore(q)' = MatchingBefore(q)
  BY DEF MatchingBefore, InRange
<1> QED BY <1>2, <1>3, <1>4 DEF Plausible

(* A request is not disturbed by what others, and the table, do.           *)
LEMMA Undisturbed ==
    ASSUME QueryType, QueryType', [Next]_vars, NEW q \in Queries, Progress(q),
           UNCHANGED <<at[q], status[q], total[q], unique[q], groups[q], result[q],
                       before[q], cut[q]>>
    PROVE  Progress(q)'
<1>1. Stored \subseteq Stored'
  BY StoredGrows DEF QueryType
<1>2. \A n, u : Plausible(q, n, u) => Plausible(q, n, u)'
  BY StaysPlausible
<1>3. Complete(q)' <=> Complete(q)
  BY DEF Complete
<1>4. \A G : Covered(q, G) => Covered(q, G)'
  BY DEF Covered
<1> QED BY <1>1, <1>2, <1>3, <1>4 DEF Progress

(* Whether a reply is complete, once it is sent. *)
LEMMA Replied ==
    ASSUME QueryType, NEW q \in Queries, NEW code \in Nat, Reply(q, code)
    PROVE  at'[q] = "done" /\ status'[q] = code
BY DEF Reply, QueryType

(* A reply other than 200 promises nothing. *)
LEMMA ErrorProgress ==
    ASSUME QueryType, NEW q \in Queries, Progress(q), UNCHANGED <<copies, before>>,
           at'[q] = "done", status'[q] # 200
    PROVE  Progress(q)'
<1>1. before'[q] \subseteq Stored'
  BY DEF Progress, Stored
<1>2. ~Complete(q)'
  BY DEF Complete
<1> QED BY <1>1, <1>2 DEF Progress

(* A request that is refused promises nothing. *)
LEMMA RefuseProgress ==
    ASSUME QueryType, NEW q \in Queries, Progress(q), Refuse(q)
    PROVE  Progress(q)'
<1>1. at'[q] = "done" /\ status'[q] \in {400, 405}
  BY Replied DEF Refuse
<1>2. status'[q] # 200 /\ UNCHANGED <<copies, before>>
  BY <1>1 DEF Refuse
<1> QED BY <1>1, <1>2, ErrorProgress

(* A valid request starts with nothing counted. *)
LEMMA BeginProgress ==
    ASSUME QueryType, NEW q \in Queries, Progress(q), Begin(q)
    PROVE  Progress(q)'
<1>1. UNCHANGED <<copies, groups>> /\ Stored' = Stored
  BY DEF Begin, resVars, Stored
<1>2. at'[q] = "totals" /\ before'[q] = Stored
  BY DEF Begin, QueryType
<1>3. groups[q] = {} /\ ValidParams(Params[q])
  BY DEF Begin, Progress, Accepted
<1> QED BY <1>1, <1>2, <1>3 DEF Progress, Complete

(* What the database answers is plausible, and its groups cover the totals *)
(* that were read before them.                                             *)
LEMMA AnswerProgress ==
    ASSUME QueryType, NEW q \in Queries, Progress(q), Answer(q)
    PROVE  Progress(q)'
<1>1. /\ UNCHANGED <<copies, total, unique, groups, status, before, cut>>
      /\ Matching(q)' = Matching(q)
  BY DEF Answer, resVars, Matching, Stored
<1>2. \A n, u : Plausible(q, n, u)' <=> Plausible(q, n, u)
  BY <1>1 DEF Plausible, MatchingBefore
<1>3. before'[q] \subseteq Stored'
  BY <1>1 DEF Progress, Stored
<1>4. CASE at[q] = "totals"
  <2>1. at'[q] = "totalsRows" /\ result'[q] = {TotalsRow(q)} /\ groups[q] = {}
    <3>1. /\ result' = [result EXCEPT ![q] = {TotalsRow(q)}]
          /\ at' = [at EXCEPT ![q] = "totalsRows"]
      BY <1>4 DEF Answer
    <3>2. at'[q] = "totalsRows" /\ result'[q] = {TotalsRow(q)}
      BY <3>1, ZenonT(40) DEF QueryType
    <3>3. groups[q] = {}
      BY <1>4 DEF Progress
    <3> QED BY <3>2, <3>3
  <2>2. Plausible(q, TotalsRow(q).total, TotalsRow(q).unique)
    <3>1. before[q] \subseteq Stored
      BY DEF Progress
    <3> QED BY <3>1, MatchedBefore, MatchingFinite DEF TotalsRow, Plausible
  <2> QED BY <1>1, <1>2, <1>3, <1>4, <2>1, <2>2 DEF Progress, Complete
<1>5. CASE at[q] = "groups"
  <2>1. at'[q] = "groupRows" /\ result'[q] = GroupRows(q) /\ groups[q] = {}
    BY <1>5, ZenonT(40) DEF Answer, QueryType, Progress
  <2>2. ASSUME cut[q] = "no" PROVE Covered(q, GroupRows(q))
    <3>1. Plausible(q, total[q], unique[q])
      BY <1>5, <2>2 DEF Progress
    <3> QED BY <3>1, MatchingFinite, GroupRowsCover DEF Plausible, Covered, QueryType
  <2>3. groups'[q] \cup result'[q] = GroupRows(q) /\ total'[q] = total[q]
        /\ unique'[q] = unique[q]
    BY <1>1, <2>1
  <2>4. cut'[q] = "no" => Covered(q, groups[q] \cup result[q])'
    BY <1>1, <2>2, <2>3 DEF Covered
  <2> QED BY <1>1, <1>2, <1>3, <1>5, <2>1, <2>4 DEF Progress, Complete
<1> QED BY <1>4, <1>5 DEF Answer

(* Where a request goes after the totals. *)
LEMMA TotalsRead ==
    ASSUME QueryType, NEW q \in Queries, AfterTotals(q)
    PROVE  \/ Params[q].groupBy = "" /\ at'[q] = "done" /\ status'[q] = 200
           \/ Params[q].groupBy # "" /\ at'[q] = "groups"
<1>1. CASE Params[q].groupBy = ""
  <2>1. Reply(q, 200)
    BY <1>1 DEF AfterTotals
  <2>2. at'[q] = "done" /\ status'[q] = 200
    BY <2>1, Replied
  <2> QED BY <1>1, <2>2
<1>2. CASE Params[q].groupBy # ""
  <2>1. at' = [at EXCEPT ![q] = "groups"]
    BY <1>2 DEF AfterTotals
  <2> QED BY <1>2, <2>1 DEF QueryType
<1> QED BY <1>1, <1>2

(* The totals read are those answered: older than the table by now.        *)
LEMMA ScanTotalsProgress ==
    ASSUME QueryType, NEW q \in Queries, Progress(q), ScanTotals(q)
    PROVE  Progress(q)'
<1>1. UNCHANGED <<copies, groups, before, cut>> /\ Matching(q)' = Matching(q)
  BY DEF ScanTotals, Matching, Stored
<1>2. PICK row \in result[q] : total'[q] = row.total /\ unique'[q] = row.unique
  BY DEF ScanTotals, QueryType
<1>3. Plausible(q, row.total, row.unique)
  BY DEF ScanTotals, Progress
<1>4. Plausible(q, total[q], unique[q])'
  BY <1>1, <1>2, <1>3 DEF Plausible, MatchingBefore
<1>5. groups[q] = {} /\ ValidParams(Params[q])
  BY DEF ScanTotals, Progress
<1>6. AfterTotals(q) /\ before'[q] \subseteq Stored'
  BY <1>1 DEF ScanTotals, Progress, Stored
<1> QED BY <1>1, <1>4, <1>5, <1>6, TotalsRead DEF Progress, Complete

(* A row of the groups moves from those to be read to those read.          *)
LEMMA ScanGroupProgress ==
    ASSUME QueryType, NEW q \in Queries, Progress(q), ScanGroup(q)
    PROVE  Progress(q)'
<1>1. /\ UNCHANGED <<copies, at, total, unique, status, before, cut>>
      /\ Matching(q)' = Matching(q) /\ at[q] = "groupRows"
  BY DEF ScanGroup, Matching, Stored
<1>2. groups'[q] \cup result'[q] = groups[q] \cup result[q]
  BY DEF ScanGroup, QueryType
<1>3. Covered(q, groups[q] \cup result[q])' <=> Covered(q, groups[q] \cup result[q])
  BY <1>1, <1>2 DEF Covered
<1>4. Plausible(q, total[q], unique[q])' <=> Plausible(q, total[q], unique[q])
  BY <1>1 DEF Plausible, MatchingBefore
<1>5. before'[q] \subseteq Stored'
  BY <1>1 DEF Progress, Stored
<1> QED BY <1>1, <1>3, <1>4, <1>5 DEF Progress, Complete

(* After the last row the groups read are all that were answered.          *)
LEMMA LastGroupProgress ==
    ASSUME QueryType, NEW q \in Queries, Progress(q), LastGroup(q)
    PROVE  Progress(q)'
<1>1. /\ UNCHANGED <<copies, result, total, unique, groups, before, cut>>
      /\ Matching(q)' = Matching(q) /\ at[q] = "groupRows" /\ result[q] = {}
  BY DEF LastGroup, resVars, Matching, Stored
<1>2. at'[q] = "done" /\ status'[q] = 200
  BY Replied DEF LastGroup
<1>3. groups[q] \cup result[q] = groups[q]
  BY <1>1
<1>4. Covered(q, groups[q])' <=> Covered(q, groups[q])
  BY <1>1 DEF Covered
<1>5. Plausible(q, total[q], unique[q])' <=> Plausible(q, total[q], unique[q])
  BY <1>1 DEF Plausible, MatchingBefore
<1>6. ValidParams(Params[q]) /\ before'[q] \subseteq Stored'
  BY <1>1 DEF Progress, Stored
<1>7. Complete(q)' => /\ Plausible(q, total[q], unique[q])'
                      /\ Covered(q, groups[q])'
  BY <1>1, <1>3, <1>4, <1>5 DEF Progress, Complete
<1> QED BY <1>2, <1>6, <1>7 DEF Progress

(* A request that fails promises nothing. *)
LEMMA FailProgress ==
    ASSUME QueryType, NEW q \in Queries, Progress(q), Fail(q) \/ ScanFails(q)
    PROVE  Progress(q)'
<1>1. PICK code \in {500, 504} : ReplyError(q, code)
  BY DEF Fail, ScanFails
<1>2. at'[q] = "done" /\ status'[q] = code
  BY <1>1, Replied DEF ReplyError
<1>3. status'[q] # 200 /\ UNCHANGED <<copies, before>>
  BY <1>1, <1>2 DEF ReplyError
<1> QED BY <1>2, <1>3, ErrorProgress

(* Neither do the counts of a request whose rows were cut short.           *)
LEMMA CutShortProgress ==
    ASSUME QueryType, NEW q \in Queries, Progress(q), CutShort(q)
    PROVE  Progress(q)'
<1>1. UNCHANGED <<copies, total, unique, groups, before>> /\ before'[q] \subseteq Stored'
  BY DEF CutShort, resVars, Stored, Progress
<1>2. cut'[q] # "no" /\ ValidParams(Params[q])
  <2>1. cut' = [cut EXCEPT ![q] = ctxErr[q]]
    BY DEF CutShort
  <2>2. cut'[q] = ctxErr[q] /\ ctxErr[q] # "no"
    BY <2>1 DEF QueryType
  <2>3. ValidParams(Params[q])
    BY DEF CutShort, Progress
  <2> QED BY <2>2, <2>3
<1>3. CASE at[q] = "totalsRows"
  <2>1. AfterTotals(q) /\ groups[q] = {}
    BY <1>3 DEF CutShort, Progress
  <2> QED BY <1>1, <1>2, <2>1, TotalsRead DEF Progress, Complete
<1>4. CASE at[q] = "groupRows"
  <2>1. at'[q] = "done"
    BY <1>4, Replied DEF CutShort
  <2> QED BY <1>1, <1>2, <2>1 DEF Progress, Complete
<1> QED BY <1>3, <1>4 DEF CutShort

(* Every step keeps every request's progress. *)
LEMMA ProgressStep ==
    ASSUME QInv, [Next]_vars, NEW q \in Queries
    PROVE  Progress(q)'
<1> DEFINE Still == UNCHANGED <<at[q], status[q], total[q], unique[q], groups[q], result[q],
                                before[q], cut[q]>>
<1>0. QueryType /\ QueryType' /\ Progress(q)
  BY QueryTypeStep DEF QInv
<1>1. CASE Still
  BY <1>0, <1>1, Undisturbed
<1>2. CASE UNCHANGED vars
  BY <1>1, <1>2 DEF vars, resVars
<1>3. ASSUME NEW S \in SUBSET Events, Insert(S) PROVE Still
  BY <1>3 DEF Insert, resVars
<1>4. ASSUME NEW e \in Events, Merge(e) PROVE Still
  BY <1>4 DEF Merge, resVars
<1>5. ASSUME Expire(q) \/ Cancel(q) PROVE Still
  BY <1>5 DEF Expire, Cancel, resVars
<1>6. ASSUME NEW r \in Queries, r # q,
             \/ Refuse(r) \/ Begin(r) \/ Expire(r) \/ Cancel(r) \/ Answer(r) \/ Fail(r)
             \/ ScanTotals(r) \/ ScanGroup(r) \/ ScanFails(r) \/ LastGroup(r) \/ CutShort(r)
      PROVE  Still
  <2>1. ASSUME NEW code, Reply(r, code) PROVE UNCHANGED <<at[q], status[q]>>
    BY <1>0, <1>6, <2>1 DEF Reply, QueryType
  <2>0. at \in [Queries -> {"new", "totals", "totalsRows", "groups", "groupRows", "done"}]
    BY <1>0 DEF QueryType
  <2>2. ASSUME AfterTotals(r) PROVE UNCHANGED <<at[q], status[q]>>
    <3>1. CASE Reply(r, 200)
      BY <2>1, <3>1
    <3>2. CASE at' = [at EXCEPT ![r] = "groups"] /\ UNCHANGED <<ctxErr, status>>
      BY <1>6, <2>0, <3>2
    <3> QED BY <2>2, <3>1, <3>2 DEF AfterTotals
  <2>3. CASE Begin(r)
    BY <1>0, <1>6, <2>1, <2>3 DEF Begin, QueryType, resVars
  <2>4. CASE Expire(r) \/ Cancel(r)
    BY <2>4 DEF Expire, Cancel, resVars
  <2>5. CASE Answer(r)
    BY <1>0, <1>6, <2>5 DEF Answer, QueryType, resVars
  <2>6. CASE Refuse(r) \/ LastGroup(r)
    BY <2>1, <2>6 DEF Refuse, LastGroup, resVars
  <2>7. CASE ScanTotals(r)
    BY <1>0, <1>6, <2>2, <2>7 DEF ScanTotals, QueryType
  <2>8. CASE ScanGroup(r)
    BY <1>0, <1>6, <2>8 DEF ScanGroup, QueryType
  <2>9. CASE CutShort(r)
    BY <1>0, <1>6, <2>1, <2>2, <2>9 DEF CutShort, QueryType, resVars
  <2>10. CASE Fail(r) \/ ScanFails(r)
    <3>1. PICK code : ReplyError(r, code)
      BY <2>10 DEF Fail, ScanFails
    <3> QED BY <1>0, <1>6, <2>1, <3>1 DEF ReplyError, QueryType
  <2> QED BY <1>6, <2>3, <2>4, <2>5, <2>6, <2>7, <2>8, <2>9, <2>10
<1>7. CASE \/ Refuse(q) \/ Begin(q) \/ Answer(q) \/ Fail(q) \/ ScanFails(q)
           \/ ScanTotals(q) \/ ScanGroup(q) \/ LastGroup(q) \/ CutShort(q)
  BY <1>0, <1>7, RefuseProgress, BeginProgress, AnswerProgress, FailProgress, ScanTotalsProgress,
     ScanGroupProgress, LastGroupProgress, CutShortProgress
<1> HIDE DEF Still
<1> QED BY <1>1, <1>2, <1>3, <1>4, <1>5, <1>6, <1>7 DEF Next

(* What relates a request's counts to the table holds in every reachable   *)
(* state (query.go:13-128).                                                *)
THEOREM QueryInvariance == Spec => []QInv
<1>1. Init => QInv
  <2> SUFFICES ASSUME Init PROVE QInv
    OBVIOUS
  <2>1. QueryType
    BY DEF Init, QueryType
  <2>2. ASSUME NEW q \in Queries PROVE Progress(q)
    BY <2>2 DEF Init, Progress, Complete
  <2> QED BY <2>1, <2>2 DEF QInv
<1>2. QInv /\ [Next]_vars => QInv'
  <2> SUFFICES ASSUME QInv, [Next]_vars PROVE QInv'
    OBVIOUS
  <2>1. QueryType'
    BY QueryTypeStep
  <2>2. \A q \in Queries : Progress(q)'
    BY ProgressStep
  <2> QED BY <2>1, <2>2 DEF QInv
<1> QED BY <1>1, <1>2, PTL DEF Spec

-----------------------------------------------------------------------------
(* The promises.                                                           *)

(* A complete reply counts what the table held at some moment of the       *)
(* request, for every number of events, copies and requests                *)
(* (query.go:28-49).                                                       *)
THEOREM TotalOfMoment == Spec => []TotalIsOfAMoment
<1>1. QInv => TotalIsOfAMoment
  BY DEF QInv, Progress, Plausible, TotalIsOfAMoment
<1> QED BY <1>1, QueryInvariance, PTL

(* The groups of a complete reply never sum up to less than its totals,    *)
(* whatever is inserted between the two queries (query.go:100-127).        *)
THEOREM GroupsCover == Spec => []GroupsCoverTotal
<1>1. QInv => GroupsCoverTotal
  BY DEF QInv, Progress, Covered, TotalOf, UniqueOf, GroupsCoverTotal
<1> QED BY <1>1, QueryInvariance, PTL

(* Complete replies for adjacent ranges count every event between them     *)
(* that both could find, and none twice: the range is closed below and     *)
(* open above (query.go:32).                                               *)
THEOREM AdjacentRanges == Spec => []AdjacentRangesAddUp
<1>1. QInv => AdjacentRangesAddUp
  <2> SUFFICES ASSUME QInv, NEW p \in Queries, NEW q \in Queries, Complete(p), Complete(q),
                      Params[p].to = Params[q].from
               PROVE  /\ Cardinality(Between(before[p] \cap before[q], p, q))
                           <= total[p] + total[q]
                      /\ total[p] + total[q] <= Cardinality(Between(Stored, p, q))
    BY DEF AdjacentRangesAddUp
  <2> DEFINE both == Between(Stored, p, q)
             early == Between(before[p] \cap before[q], p, q)
             P == Matching(p)
             Q == Matching(q)
             P0 == MatchingBefore(p)
             Q0 == MatchingBefore(q)
  <2>1. /\ total[p] \in Nat /\ Cardinality(P0) <= total[p] /\ total[p] <= Cardinality(P)
        /\ total[q] \in Nat /\ Cardinality(Q0) <= total[q] /\ total[q] <= Cardinality(Q)
        /\ Params[p].from < Params[p].to /\ Params[q].from < Params[q].to
        /\ before[p] \subseteq Stored /\ before[q] \subseteq Stored
    BY DEF QInv, Progress, Plausible, Complete, ValidParams
  <2>2. /\ Params[p].from \in Nat /\ Params[p].to \in Nat
        /\ Params[q].from \in Nat /\ Params[q].to \in Nat
        /\ \A e \in Stored : Time[e] \in Nat
    BY QueryAssumption DEF Stored
  <2>3. P \cup Q \subseteq both /\ P \cap Q = {}
    BY <2>1, <2>2 DEF Matching, InRange, Between
  <2>4. early \subseteq P0 \cup Q0
    BY <2>1, <2>2 DEF MatchingBefore, InRange, Between
  <2>5. IsFiniteSet(both)
    <3>1. both \subseteq Events
      BY DEF Stored, Between
    <3> QED BY <3>1, QueryAssumption, FS_Subset
  <2>6. IsFiniteSet(P) /\ IsFiniteSet(Q) /\ IsFiniteSet(P0) /\ IsFiniteSet(Q0)
    BY <2>1, MatchingFinite, MatchedBefore
  <2> HIDE DEF both, early, P, Q, P0, Q0
  <2>7. total[p] + total[q] <= Cardinality(both)
    <3>1. Cardinality(P \cup Q) = Cardinality(P) + Cardinality(Q) - Cardinality(P \cap Q)
      BY <2>6, FS_Union
    <3>2. Cardinality(P \cap Q) = 0
      BY <2>3, FS_EmptySet
    <3>3. Cardinality(P \cup Q) <= Cardinality(both)
      BY <2>3, <2>5, FS_Subset
    <3>4. Cardinality(both) \in Nat /\ Cardinality(P) \in Nat /\ Cardinality(Q) \in Nat
      BY <2>5, <2>6, FS_CardinalityType
    <3> QED BY <2>1, <3>1, <3>2, <3>3, <3>4
  <2>8. Cardinality(early) <= total[p] + total[q]
    <3>1. /\ IsFiniteSet(P0 \cup Q0) /\ IsFiniteSet(P0 \cap Q0)
          /\ Cardinality(P0 \cup Q0) =
               Cardinality(P0) + Cardinality(Q0) - Cardinality(P0 \cap Q0)
      BY <2>6, FS_Union, FS_Intersection
    <3>2. IsFiniteSet(early) /\ Cardinality(early) <= Cardinality(P0 \cup Q0)
      BY <2>4, <3>1, FS_Subset
    <3>3. /\ Cardinality(early) \in Nat /\ Cardinality(P0 \cap Q0) \in Nat
          /\ Cardinality(P0) \in Nat /\ Cardinality(Q0) \in Nat
      BY <2>6, <3>1, <3>2, FS_CardinalityType
    <3> QED BY <2>1, <3>1, <3>2, <3>3
  <2> QED BY <2>7, <2>8 DEF both, early
<1> QED BY <1>1, QueryInvariance, PTL
=============================================================================
