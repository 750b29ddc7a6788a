------------------------------- MODULE Domain -------------------------------
(***************************************************************************)
(* From a RawEvent to the row's sorting key: Validate, NormalizeTimestamp, *)
(* ComputePayloadHash and ToEvent of internal/domain/event.go; and from a  *)
(* request's from and to to the rows it counts (handleMetrics).            *)
(*                                                                         *)
(* Timestamps are int64 and uint64 in the code; here they have Width bits  *)
(* and wrap in the same way, with the factor and the threshold scaled down *)
(* with them.  A string is a sequence of bytes, and xxHash64 is the        *)
(* identity: two different inputs are taken to have different hashes.      *)
(***************************************************************************)
EXTENDS Integers, Sequences, SequencesExt, FiniteSets, TLC

CONSTANTS
    Raws,          \* the events that clients send
    Asked,         \* the ranges that clients ask for: [from, to]
    Width,         \* bits of a timestamp (64)
    MsPerSecond,   \* 1000
    MsThreshold,   \* 10^12: below, a timestamp is in seconds
    MaxFuture, MaxPast,   \* the window, in milliseconds
    Start,         \* the clock when the first event arrives
    MaxTicks,      \* bound: how far the clock runs
    MaxAccepted    \* bound: events looked at together

Modulus == 2 ^ Width

Byte == 0 .. 255

(* The window must not reach back to the threshold (September 2001), where *)
(* the code could not tell the unit of a timestamp any more.               *)
ASSUME DomainAssumption ==
    /\ Modulus \in Nat \ {0} /\ MsPerSecond \in Nat \ {0} /\ MsThreshold \in Nat
    /\ Start \in Nat /\ MaxTicks \in Nat /\ MaxFuture \in Nat /\ MaxPast \in Nat
    /\ \A raw \in Raws :
          /\ raw.timestamp \in Int /\ 2 * raw.timestamp < Modulus
          /\ raw.channel \in Seq(Byte) /\ raw.campaign \in Seq(Byte)
          /\ raw.tags \in Seq(Seq(Byte)) /\ raw.priority \in Seq(Seq(Byte))
          /\ raw.metadata \in Seq(Byte)
    /\ \A q \in Asked : /\ q.from \in Int /\ 2 * q.from < Modulus
                       /\ q.to \in Int /\ 2 * q.to < Modulus
    /\ MsThreshold * MsPerSecond < Modulus
    /\ Start + MaxTicks + MaxFuture < Modulus
    /\ Start - MaxPast >= MsThreshold

VARIABLES
    now,           \* time.Now().UnixMilli()
    accepted       \* what Validate let through: [raw, at, event]

vars == <<now, accepted>>

Init == now = Start /\ accepted = {}

-----------------------------------------------------------------------------

Uint(n) == n % Modulus

NormalizeTimestamp(ts) ==
    IF ts < MsThreshold THEN Uint(Uint(ts) * MsPerSecond) ELSE Uint(ts)

InWindow(ms) ==
    /\ ms <= Uint(now + MaxFuture)
    /\ ms >= Uint(now - MaxPast)

(* Mutant of Valid: the sign of the timestamp is not looked at. *)
ValidUnsigned(raw) ==
    /\ raw.name = "named" /\ raw.user = "named"
    /\ InWindow(NormalizeTimestamp(raw.timestamp))

(* Validate returns no error; a name is "blank", "tooLong" or "named".     *)
Valid(raw) ==
    /\ raw.name = "named" /\ raw.user = "named"
    /\ raw.timestamp > 0
    /\ InWindow(NormalizeTimestamp(raw.timestamp))

-----------------------------------------------------------------------------

Nul == <<0>>

(* The order of sort.Strings. *)
Before(s, t) ==
    \/ IsStrictPrefix(s, t)
    \/ \E i \in DOMAIN s \cap DOMAIN t :
          s[i] < t[i] /\ SubSeq(s, 1, i - 1) = SubSeq(t, 1, i - 1)

(* The tags in an order in which none comes after one it is before. *)
Sorts(p, tags) ==
    \A i, j \in DOMAIN tags : i < j => ~Before(tags[p[j]], tags[p[i]])
Sorted(tags) ==
    LET order == CHOOSE p \in Bijection(DOMAIN tags, DOMAIN tags) : Sorts(p, tags)
    IN  [i \in DOMAIN tags |-> tags[order[i]]]

Terminated(strings) == FlattenSeq([i \in DOMAIN strings |-> strings[i] \o Nul])

(* The priority is <<>>, for nil, or one string; ToEvent hashes nil as the *)
(* empty string.                                                           *)
PriorityString(raw) == FlattenSeq(raw.priority)

(* Mutant of Canonical: no separator after the campaign. *)
CanonicalRunOn(raw) ==
    Terminated(<<raw.channel>>) \o raw.campaign \o Terminated(Sorted(raw.tags))
        \o Terminated(<<PriorityString(raw)>>) \o raw.metadata

(* Mutant of Canonical: the tags in the order they came. *)
CanonicalUnsorted(raw) ==
    Terminated(<<raw.channel, raw.campaign>> \o raw.tags \o <<PriorityString(raw)>>)
        \o raw.metadata

(* The bytes that ComputePayloadHash hashes. *)
Canonical(raw) ==
    Terminated(<<raw.channel, raw.campaign>> \o Sorted(raw.tags)
                   \o <<PriorityString(raw)>>)
        \o raw.metadata

ToEvent(raw) ==
    [timestampMs |-> NormalizeTimestamp(raw.timestamp), payloadHash |-> Canonical(raw)]

-----------------------------------------------------------------------------

(* handleMetrics' parsing of a bound; one that is absent, or no number, is *)
(* 0.  Its mutant takes it as it was sent.                                 *)
BoundAsSent(n) == Uint(n)
Bound(n) == NormalizeTimestamp(n)

(* ValidateQueryParams on the range, and the query's WHERE on an event. *)
ValidRange(q) == Bound(q.from) > 0 /\ Bound(q.to) > 0 /\ Bound(q.from) < Bound(q.to)
Counted(q, event) ==
    ValidRange(q) /\ Bound(q.from) <= event.timestampMs /\ event.timestampMs < Bound(q.to)

-----------------------------------------------------------------------------

Accept(raw) ==
    /\ Valid(raw) /\ Cardinality(accepted) < MaxAccepted
    /\ accepted' = accepted \cup {[raw |-> raw, at |-> now, event |-> ToEvent(raw)]}
    /\ UNCHANGED now

Tick == now < Start + MaxTicks /\ now' = now + 1 /\ UNCHANGED accepted

Next ==
    \/ Tick \/ \E raw \in Raws : Accept(raw)
    \/ now = Start + MaxTicks /\ UNCHANGED vars

Spec == Init /\ [][Next]_vars

-----------------------------------------------------------------------------

(* The moment that a client means by a timestamp: whole numbers that never *)
(* wrap.                                                                   *)
Moment(ts) == IF ts < MsThreshold THEN ts * MsPerSecond ELSE ts

(* Every event that gets in happened within the window, by the moment its  *)
(* sender meant, and is stored under that moment: no timestamp wraps into  *)
(* the window.                                                             *)
StoredWithinWindow ==
    \A a \in accepted :
        /\ Moment(a.raw.timestamp) \in (a.at - MaxPast) .. (a.at + MaxFuture)
        /\ a.event.timestampMs = Moment(a.raw.timestamp)

(* The same tags, in any order. *)
Permuted(t, u) ==
    /\ Len(t) = Len(u)
    /\ \E p \in Bijection(DOMAIN t, DOMAIN u) : \A i \in DOMAIN t : t[i] = u[p[i]]

(* What makes two events of a user and a name the same occurrence: moment  *)
(* and fields, whatever unit the timestamp and whatever order the tags     *)
(* were sent in.  An absent priority is an empty one.                      *)
SameOccurrence(r, s) ==
    /\ Moment(r.timestamp) = Moment(s.timestamp)
    /\ r.channel = s.channel /\ r.campaign = s.campaign /\ r.metadata = s.metadata
    /\ PriorityString(r) = PriorityString(s) /\ Permuted(r.tags, s.tags)

(* A retry gets the key of the event it repeats: the table keeps one row.  *)
RetriesShareAKey ==
    \A a, b \in accepted : SameOccurrence(a.raw, b.raw) => a.event = b.event

(* No string that is hashed holds the byte that separates them. *)
NulFree(raw) ==
    \A s \in {raw.channel, raw.campaign, PriorityString(raw), raw.metadata} \cup Range(raw.tags) :
        0 \notin Range(s)

(* Two occurrences never share a key, so the table never drops one of them *)
(* for the other, if no string of theirs holds a byte 0: the separators    *)
(* keep the fields and the tags apart, empty ones too.                     *)
OccurrencesKeptApart ==
    \A a, b \in accepted : a.event = b.event /\ NulFree(a.raw) /\ NulFree(b.raw)
                              => SameOccurrence(a.raw, b.raw)

(* A request counts an event if and only if the event happened in the      *)
(* range that was asked for, in whatever units the event's timestamp and   *)
(* the two bounds were sent; 0 or no bound is refused.  It does not hold   *)
(* for negative bounds, which nothing refuses: they wrap, and to=-1 is     *)
(* "no upper bound".                                                       *)
RangeAsAsked ==
    \A a \in accepted, q \in Asked : q.from >= 0 /\ q.to >= 0 =>
        (Counted(q, a.event)
            <=> /\ q.from > 0 /\ Moment(q.from) <= Moment(a.raw.timestamp)
                /\ Moment(a.raw.timestamp) < Moment(q.to))
=============================================================================
