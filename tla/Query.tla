-------------------------------- MODULE Query --------------------------------
(***************************************************************************)
(* GET /metrics: handleMetrics, ValidateQueryParams and Repository.Query,  *)
(* which runs two queries one after the other, the totals and the groups,  *)
(* while the flush workers go on inserting into the same table.            *)
(*                                                                         *)
(* The table is a ReplacingMergeTree.  An event of this module is a value  *)
(* of its sorting key (event_name, user_id, timestamp_ms, payload_hash):   *)
(* the table holds one row or several of it until a merge, and a query     *)
(* with FINAL sees one.                                                    *)
(***************************************************************************)
EXTENDS Integers, FiniteSets, FiniteSetsExt

CONSTANTS
    Events,       \* the sorting keys, all of the event name that is asked for
    Time,         \* event -> timestamp_ms
    User,         \* event -> user_id
    Group,        \* group_by -> event -> the key of its group
    Queries,      \* the requests
    Params,       \* request -> [get, named, from, to, groupBy] after parsing
    DbFaults,     \* TRUE: a query or a Scan may fail although its context is live
    MaxCopies     \* bound: event -> rows the table holds of it

ASSUME QueryAssumption ==
    /\ IsFiniteSet(Events) /\ Time \in [Events -> Nat]
    /\ \A q \in Queries : Params[q].from \in Nat /\ Params[q].to \in Nat
    /\ DbFaults \in BOOLEAN /\ MaxCopies \in [Events -> Nat]

VARIABLES
    copies,       \* event -> the rows of it in the table
    at,           \* request -> where its handler stands
    ctxErr,       \* request -> qctx.Err() until Query returns: "nil", "deadline"
                  \*   or "cancelled"
    result,       \* request -> rows the database has answered, not yet read
    total, unique, groups,    \* request -> res
    status,       \* request -> the status of the reply
    before,       \* observer: request -> the events stored when Query began
    cut           \* observer: request -> "no", or what qctx.Err() was when Next
                  \*   returned false before the last row

resVars == <<total, unique, groups>>
vars == <<copies, at, ctxErr, result, resVars, status, before, cut>>

Init ==
    /\ copies = [e \in Events |-> 0]
    /\ at = [q \in Queries |-> "new"]
    /\ ctxErr = [q \in Queries |-> "nil"]
    /\ result = [q \in Queries |-> {}]
    /\ total = [q \in Queries |-> 0] /\ unique = [q \in Queries |-> 0]
    /\ groups = [q \in Queries |-> {}]
    /\ status = [q \in Queries |-> 0]
    /\ before = [q \in Queries |-> {}] /\ cut = [q \in Queries |-> "no"]

-----------------------------------------------------------------------------
(* The table.                                                              *)

(* Repository.Flush, with or without the retry that inserts a batch again. *)
Insert(S) ==
    /\ S # {} /\ \A e \in S : copies[e] < MaxCopies[e]
    /\ copies' = [e \in Events |-> IF e \in S THEN copies[e] + 1 ELSE copies[e]]
    /\ UNCHANGED <<at, ctxErr, result, resVars, status, before, cut>>

Merge(e) ==
    /\ copies[e] > 1 /\ copies' = [copies EXCEPT ![e] = 1]
    /\ UNCHANGED <<at, ctxErr, result, resVars, status, before, cut>>

Stored == {e \in Events : copies[e] > 0}

(* Mutants of InRange: timestamp_ms <= ?; timestamp_ms > ?. *)
InRangeClosed(e, p) == p.from <= Time[e] /\ Time[e] <= p.to
InRangeOpen(e, p) == p.from < Time[e] /\ Time[e] < p.to

InRange(e, p) == p.from <= Time[e] /\ Time[e] < p.to

Matching(q) == {e \in Stored : InRange(e, Params[q])}

Users(S) == {User[e] : e \in S}

(* Mutant of TotalsRow: without FINAL, every row counts. *)
TotalsRowRaw(q) ==
    [total |-> MapThenSumSet(LAMBDA e : copies[e], Matching(q)),
     unique |-> Cardinality(Users(Matching(q)))]

TotalsRow(q) ==
    [total |-> Cardinality(Matching(q)), unique |-> Cardinality(Users(Matching(q)))]

(* Mutant of GroupRows: timestamp_ms > ?. *)
GroupRowsOpen(q) ==
    LET in == {e \in Matching(q) : Time[e] > Params[q].from}
        key == Group[Params[q].groupBy]
        members(k) == {e \in in : key[e] = k}
    IN {[key |-> k, total |-> Cardinality(members(k)),
         unique |-> Cardinality(Users(members(k)))] : k \in {key[e] : e \in in}}

GroupRows(q) ==
    LET key == Group[Params[q].groupBy]
        members(k) == {e \in Matching(q) : key[e] = k}
    IN {[key |-> k, total |-> Cardinality(members(k)),
         unique |-> Cardinality(Users(members(k)))] : k \in {key[e] : e \in Matching(q)}}

-----------------------------------------------------------------------------
(* The request's context.                                                  *)

(* Mutant of Expire: the group query gets ctx instead of qctx. *)
ExpireTotalsOnly(q) ==
    /\ at[q] \in {"totals", "totalsRows"} /\ ctxErr[q] = "nil"
    /\ ctxErr' = [ctxErr EXCEPT ![q] = "deadline"]
    /\ UNCHANGED <<copies, at, result, resVars, status, before, cut>>

(* cfg.QueryTimeout has passed since Query began. *)
Expire(q) ==
    /\ at[q] \notin {"new", "done"} /\ ctxErr[q] = "nil"
    /\ ctxErr' = [ctxErr EXCEPT ![q] = "deadline"]
    /\ UNCHANGED <<copies, at, result, resVars, status, before, cut>>

(* The client disconnects. *)
Cancel(q) ==
    /\ at[q] \notin {"new", "done"} /\ ctxErr[q] = "nil"
    /\ ctxErr' = [ctxErr EXCEPT ![q] = "cancelled"]
    /\ UNCHANGED <<copies, at, result, resVars, status, before, cut>>

-----------------------------------------------------------------------------
(* The handler.                                                            *)

(* ValidateQueryParams; a bound that is missing, or is no number, is 0.    *)
ValidParams(p) ==
    /\ p.named /\ p.from > 0 /\ p.to > 0 /\ p.from < p.to
    /\ p.groupBy \in {""} \cup DOMAIN Group

(* The reply is sent; the context of Query, if it ran, is gone. *)
Reply(q, code) ==
    /\ status' = [status EXCEPT ![q] = code]
    /\ at' = [at EXCEPT ![q] = "done"]
    /\ ctxErr' = [ctxErr EXCEPT ![q] = "nil"]

(* Only GET is allowed, and only with parameters that are valid;           *)
(* ValidateQueryParams knows no error that is not one of validation.       *)
Accepted(p) == p.get /\ ValidParams(p)

Refuse(q) ==
    /\ at[q] = "new" /\ ~Accepted(Params[q])
    /\ Reply(q, IF Params[q].get THEN 400 ELSE 405)
    /\ UNCHANGED <<copies, result, resVars, before, cut>>

Begin(q) ==
    /\ at[q] = "new" /\ Accepted(Params[q])
    /\ at' = [at EXCEPT ![q] = "totals"]
    /\ before' = [before EXCEPT ![q] = Stored]
    /\ UNCHANGED <<copies, ctxErr, result, resVars, status, cut>>

(* conn.Query returns: the rows are those of the table as it is now.  It   *)
(* does not start on a context that has ended.                             *)
Answer(q) ==
    /\ ctxErr[q] = "nil"
    /\ \/ /\ at[q] = "totals"
          /\ result' = [result EXCEPT ![q] = {TotalsRow(q)}]
          /\ at' = [at EXCEPT ![q] = "totalsRows"]
       \/ /\ at[q] = "groups"
          /\ result' = [result EXCEPT ![q] = GroupRows(q)]
          /\ at' = [at EXCEPT ![q] = "groupRows"]
    /\ UNCHANGED <<copies, ctxErr, resVars, status, before, cut>>

(* Query returns an error: what was counted is dropped, the rows are closed. *)
ReplyError(q, code) ==
    /\ Reply(q, code)
    /\ result' = [result EXCEPT ![q] = {}]
    /\ total' = [total EXCEPT ![q] = 0] /\ unique' = [unique EXCEPT ![q] = 0]
    /\ groups' = [groups EXCEPT ![q] = {}]
    /\ UNCHANGED <<copies, before, cut>>

(* conn.Query returns an error: 504 only if it was the deadline. *)
Fail(q) ==
    /\ at[q] \in {"totals", "groups"} /\ (DbFaults \/ ctxErr[q] # "nil")
    /\ ReplyError(q, IF ctxErr[q] = "deadline" THEN 504 ELSE 500)

AfterTotals(q) ==
    IF Params[q].groupBy = ""
    THEN Reply(q, 200)
    ELSE at' = [at EXCEPT ![q] = "groups"] /\ UNCHANGED <<ctxErr, status>>

(* rows.Next and Scan; the totals have one row, and Next is called once.   *)
ScanTotals(q) ==
    /\ at[q] = "totalsRows"
    /\ \E row \in result[q] :
          /\ total' = [total EXCEPT ![q] = row.total]
          /\ unique' = [unique EXCEPT ![q] = row.unique]
    /\ result' = [result EXCEPT ![q] = {}]
    /\ AfterTotals(q)
    /\ UNCHANGED <<copies, groups, before, cut>>

ScanGroup(q) ==
    /\ at[q] = "groupRows"
    /\ \E row \in result[q] :
          /\ groups' = [groups EXCEPT ![q] = @ \cup {row}]
          /\ result' = [result EXCEPT ![q] = @ \ {row}]
    /\ UNCHANGED <<copies, at, ctxErr, total, unique, status, before, cut>>

(* Scan returns an error, whatever the context: never a timeout.           *)
ScanFails(q) ==
    /\ at[q] \in {"totalsRows", "groupRows"} /\ result[q] # {} /\ DbFaults
    /\ ReplyError(q, 500)

LastGroup(q) ==
    /\ at[q] = "groupRows" /\ result[q] = {}
    /\ Reply(q, 200)
    /\ UNCHANGED <<copies, result, resVars, before, cut>>

(* Next returns false because the connection or the context ended in the   *)
(* middle of the rows; nobody asks rows.Err.                               *)
CutShort(q) ==
    /\ at[q] \in {"totalsRows", "groupRows"} /\ result[q] # {}
    /\ DbFaults \/ ctxErr[q] # "nil"
    /\ cut' = [cut EXCEPT ![q] = ctxErr[q]]
    /\ result' = [result EXCEPT ![q] = {}]
    /\ IF at[q] = "totalsRows" THEN AfterTotals(q) ELSE Reply(q, 200)
    /\ UNCHANGED <<copies, resVars, before>>

Next ==
    \/ \E S \in SUBSET Events : Insert(S)
    \/ \E e \in Events : Merge(e)
    \/ \E q \in Queries :
          \/ Refuse(q) \/ Begin(q) \/ Expire(q) \/ Cancel(q) \/ Answer(q) \/ Fail(q)
          \/ ScanTotals(q) \/ ScanGroup(q) \/ ScanFails(q) \/ LastGroup(q) \/ CutShort(q)
    \/ (\A q \in Queries : at[q] = "done") /\ UNCHANGED vars

Spec == Init /\ [][Next]_vars

(* The deadline passes and a call whose context has ended returns.  The    *)
(* database need not answer and a client need not go.                      *)
Fairness ==
    \A q \in Queries :
        /\ WF_vars(Expire(q))
        /\ WF_vars(ctxErr[q] # "nil" /\ (Fail(q) \/ CutShort(q) \/ LastGroup(q)))

FairSpec == Spec /\ Fairness

-----------------------------------------------------------------------------

Complete(q) == at[q] = "done" /\ status[q] = 200 /\ cut[q] = "no"

(* What a request would have matched when it began. *)
MatchingBefore(q) == {e \in before[q] : InRange(e, Params[q])}

(* What happened from the start of one range to the end of another.        *)
Between(S, p, q) == {e \in S : Params[p].from <= Time[e] /\ Time[e] < Params[q].to}

(* What a complete reply counts is what the table held at some moment of   *)
(* the request: every event that was there when it began, no event twice   *)
(* however often a retry inserted it, and none from the future.            *)
TotalIsOfAMoment ==
    \A q \in Queries : Complete(q) =>
        /\ Cardinality(MatchingBefore(q)) <= total[q]
        /\ total[q] <= Cardinality(Matching(q))

(* The groups are read after the totals and inserts only add: the groups   *)
(* of a complete reply never sum up to less than the total they divide.    *)
GroupsCoverTotal ==
    \A q \in Queries : Complete(q) /\ Params[q].groupBy # "" =>
        /\ total[q] <= MapThenSumSet(LAMBDA g : g.total, groups[q])
        /\ unique[q] <= MapThenSumSet(LAMBDA g : g.unique, groups[q])

(* Two requests for adjacent ranges, made at any two moments, neither miss *)
(* an event between them nor count one twice: together they count, of the  *)
(* range from the one's start to the other's end, at least what both could *)
(* find when they began, and no more than the table holds.                 *)
AdjacentRangesAddUp ==
    \A p, q \in Queries :
        Complete(p) /\ Complete(q) /\ Params[p].to = Params[q].from =>
            /\ Cardinality(Between(before[p] \cap before[q], p, q)) <= total[p] + total[q]
            /\ total[p] + total[q] <= Cardinality(Between(Stored, p, q))

(* A request is answered within its deadline even if the database is not   *)
(* heard of again.                                                         *)
QueryAnswered == \A q \in Queries : at[q] = "totals" ~> at[q] = "done"

(* handler.go:150: if the backend timed out, the status is 504.            *)
TimeoutIs504 ==
    \A q \in Queries : at[q] = "done" /\ cut[q] = "deadline" => status[q] = 504
=============================================================================
