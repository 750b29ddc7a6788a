---------------------------- MODULE DomainProofs ----------------------------
(***************************************************************************)
(* The properties of Domain.tla, proved for words of any width, any window *)
(* and any events and ranges, with strings of any length and any number of *)
(* tags: no timestamp wraps into the window (WindowHolds), a request       *)
(* counts what happened in the range it asks for (RangeHolds), a retry     *)
(* gets the key of the event it repeats (RetriesHold) and two occurrences  *)
(* never share one (OccurrencesHold).                                      *)
(*                                                                         *)
(* The last two rest on what the key's bytes are made of: strings have a   *)
(* total order, so that there is one ascending order of a list of tags     *)
(* (SortedOnce), and strings without a byte 0 can be read back from the    *)
(* list of them with a byte 0 after each (TerminatedInjective).            *)
(***************************************************************************)
EXTENDS Domain, DataLemmas

(* The clock, which the bounds of the window are computed from. *)
ClockOK == now \in Start .. Start + MaxTicks

(* For a natural number the conversion does not wrap: it is the moment the *)
(* sender meant.                                                           *)
LEMMA NormalizeExact ==
    ASSUME NEW ts \in Nat, 2 * ts < Modulus
    PROVE  NormalizeTimestamp(ts) = Moment(ts)
<1>1. ts \in Int /\ ts >= 0 /\ 2 * ts < Modulus
  OBVIOUS
<1>2. Uint(ts) = ts
  <2>1. 0 <= ts /\ ts < Modulus
    BY <1>1, DomainAssumption
  <2> QED BY <2>1, <1>1, DomainAssumption DEF Uint
<1>3. CASE ts < MsThreshold
  <2>1. 0 <= ts * MsPerSecond
    BY <1>1, DomainAssumption
  <2>2. ts * MsPerSecond <= MsThreshold * MsPerSecond
    BY <1>1, <1>3, DomainAssumption
  <2>3. ts * MsPerSecond \in Int /\ ts * MsPerSecond < Modulus
    BY <1>1, <2>2, DomainAssumption
  <2>4. Uint(ts * MsPerSecond) = ts * MsPerSecond
    BY <2>1, <2>3, DomainAssumption DEF Uint
  <2> QED BY <1>2, <1>3, <2>4 DEF NormalizeTimestamp, Moment
<1>4. CASE ~(ts < MsThreshold)
  BY <1>2, <1>4 DEF NormalizeTimestamp, Moment
<1> QED BY <1>3, <1>4

(* The bounds that Validate compares with do not wrap either. *)
LEMMA WindowExact ==
    ASSUME ClockOK
    PROVE  Uint(now + MaxFuture) = now + MaxFuture /\ Uint(now - MaxPast) = now - MaxPast
<1>1. now \in Int /\ Start <= now /\ now <= Start + MaxTicks
  BY DomainAssumption DEF ClockOK
<1>2. 0 <= now + MaxFuture /\ now + MaxFuture < Modulus
  BY <1>1, DomainAssumption
<1>3. 0 <= now - MaxPast /\ now - MaxPast < Modulus
  BY <1>1, DomainAssumption
<1> QED BY <1>1, <1>2, <1>3, DomainAssumption DEF Uint

(* The inductive invariant: the property, the range of the clock, and      *)
(* where the events come from.                                             *)
WindowInv ==
    ClockOK /\ StoredWithinWindow /\ \A a \in accepted : a.raw \in Raws

(* An event that Validate lets through keeps the invariant. *)
LEMMA AcceptKeepsWindow ==
    ASSUME WindowInv, NEW raw \in Raws, Accept(raw)
    PROVE  WindowInv'
<1> DEFINE new == [raw |-> raw, at |-> now, event |-> ToEvent(raw)]
<1>1. now' = now /\ accepted' = accepted \cup {new}
  BY DEF Accept
<1>2. ClockOK'
  BY <1>1 DEF WindowInv, ClockOK
<1>3. NormalizeTimestamp(raw.timestamp) = Moment(raw.timestamp)
  BY NormalizeExact, DomainAssumption DEF Accept, Valid
<1>4. /\ Moment(raw.timestamp) <= now + MaxFuture
      /\ Moment(raw.timestamp) >= now - MaxPast
  BY <1>3, WindowExact DEF Accept, Valid, InWindow, WindowInv
<1>5. Moment(raw.timestamp) \in Int /\ now \in Int
  BY DomainAssumption DEF Moment, WindowInv, ClockOK
<1>6. /\ Moment(new.raw.timestamp) \in (new.at - MaxPast) .. (new.at + MaxFuture)
      /\ new.event.timestampMs = Moment(new.raw.timestamp)
  BY <1>3, <1>4, <1>5, DomainAssumption DEF ToEvent
<1>7. StoredWithinWindow'
  BY <1>1, <1>6 DEF WindowInv, StoredWithinWindow
<1> QED BY <1>1, <1>2, <1>7 DEF WindowInv

(* The invariant is one. *)
THEOREM WindowInvariance == Spec => []WindowInv
<1>1. Init => WindowInv
  BY DomainAssumption DEF Init, WindowInv, ClockOK, StoredWithinWindow
<1>2. WindowInv /\ [Next]_vars => WindowInv'
  <2> SUFFICES ASSUME WindowInv, [Next]_vars PROVE WindowInv'
    OBVIOUS
  <2>1. CASE Tick
    BY <2>1, DomainAssumption DEF Tick, WindowInv, ClockOK, StoredWithinWindow
  <2>2. CASE \E raw \in Raws : Accept(raw)
    BY <2>2, AcceptKeepsWindow
  <2>3. CASE UNCHANGED vars
    BY <2>3 DEF vars, WindowInv, ClockOK, StoredWithinWindow
  <2> QED BY <2>1, <2>2, <2>3 DEF Next
<1> QED BY <1>1, <1>2, PTL DEF Spec

(* Every event that gets in happened within the window and is stored under *)
(* the moment its sender meant.                                            *)
THEOREM WindowHolds == Spec => []StoredWithinWindow
<1>1. WindowInv => StoredWithinWindow
  BY DEF WindowInv
<1> QED BY <1>1, WindowInvariance, PTL

(* A bound that is given, and not negative, means its moment to the query, *)
(* and its moment is zero only if it is.                                   *)
LEMMA BoundExact ==
    ASSUME NEW n \in Nat, 2 * n < Modulus
    PROVE  /\ Moment(n) \in Int /\ Bound(n) = Moment(n)
           /\ Moment(n) > 0 <=> n > 0
<1>1. Bound(n) = Moment(n)
  BY NormalizeExact DEF Bound
<1>2. n > 0 => n * MsPerSecond >= n
  BY DomainAssumption
<1>3. n = 0 => n * MsPerSecond = 0
  BY DomainAssumption
<1>4. n * MsPerSecond \in Int
  BY DomainAssumption
<1> QED BY <1>1, <1>2, <1>3, <1>4, DomainAssumption DEF Moment

(* The window is what makes ranges right: under the moment its sender      *)
(* meant, an event is in a range or it is not.                             *)
LEMMA RangeFollows == WindowInv => RangeAsAsked
<1> SUFFICES ASSUME WindowInv, NEW a \in accepted, NEW q \in Asked,
                    q.from >= 0, q.to >= 0
             PROVE  Counted(q, a.event)
                      <=> /\ q.from > 0 /\ Moment(q.from) <= Moment(a.raw.timestamp)
                          /\ Moment(a.raw.timestamp) < Moment(q.to)
  BY DEF RangeAsAsked
<1>1. a.event.timestampMs = Moment(a.raw.timestamp)
  BY DEF WindowInv, StoredWithinWindow
<1>2. Moment(a.raw.timestamp) \in Int
  BY DomainAssumption DEF WindowInv, Moment
<1>3. /\ Moment(q.from) \in Int /\ Bound(q.from) = Moment(q.from)
      /\ Moment(q.from) > 0 <=> q.from > 0
  BY BoundExact, DomainAssumption
<1>4. /\ Moment(q.to) \in Int /\ Bound(q.to) = Moment(q.to)
  BY BoundExact, DomainAssumption
<1> QED BY <1>1, <1>2, <1>3, <1>4 DEF Counted, ValidRange

(* A request counts exactly the events that happened in the range it asks  *)
(* for.                                                                    *)
THEOREM RangeHolds == Spec => []RangeAsAsked
  BY WindowInvariance, RangeFollows, PTL

-----------------------------------------------------------------------------

(* The strings of the code. *)
Text == Seq(Byte)

(* The byte at i, with an end that is before every byte. *)
Padded(s, i) == IF i <= Len(s) THEN s[i] + 1 ELSE 0

(* i is the first place where they differ, and s is less there. *)
Less(s, t, i) ==
    /\ i \in Nat \ {0} /\ Padded(s, i) < Padded(t, i)
    /\ \A j \in 1 .. (i - 1) : Padded(s, j) = Padded(t, j)

(* What a string is made of. *)
LEMMA StringTyped ==
    ASSUME NEW s \in Text
    PROVE  /\ Len(s) \in Nat /\ DOMAIN s = 1..Len(s) /\ s \in Seq(Nat)
           /\ \A i \in 1..Len(s) : s[i] \in Byte /\ s[i] \in Nat
           /\ \A i \in Nat \ {0} : Padded(s, i) \in Nat
<1>1. /\ Len(s) \in Nat /\ DOMAIN s = 1..Len(s) /\ \A i \in 1..Len(s) : s[i] \in Byte
  BY LenProperties, ElementOfSeq DEF Text
<1>2. Byte \subseteq Nat
  BY DEF Byte
<1>3. s \in Seq(Nat)
  BY <1>2, SeqMonotonic DEF Text
<1> QED BY <1>1, <1>2, <1>3 DEF Padded

(* Two strings have a prefix in common if their first bytes are equal. *)
LEMMA SamePrefix ==
    ASSUME NEW s \in Text, NEW t \in Text, NEW n \in Nat, n <= Len(s), n <= Len(t)
    PROVE  SubSeq(s, 1, n) = SubSeq(t, 1, n) <=> \A j \in 1..n : s[j] = t[j]
<1>0. /\ Len(s) \in Nat /\ \A i \in 1..Len(s) : s[i] \in Nat
      /\ Len(t) \in Nat /\ \A i \in 1..Len(t) : t[i] \in Nat
  BY StringTyped
<1>1. \A i \in 1..n : s[i] \in Nat /\ t[i] \in Nat
  BY <1>0
<1> DEFINE u == SubSeq(s, 1, n)  v == SubSeq(t, 1, n)
<1>2. /\ u \in Seq(Nat) /\ Len(u) = IF 1 <= n THEN n - 1 + 1 ELSE 0
      /\ \A i \in 1..(n - 1 + 1) : u[i] = s[1 + i - 1]
  BY <1>1, SubSeqProperties
<1>3. /\ v \in Seq(Nat) /\ Len(v) = IF 1 <= n THEN n - 1 + 1 ELSE 0
      /\ \A i \in 1..(n - 1 + 1) : v[i] = t[1 + i - 1]
  BY <1>1, SubSeqProperties
<1> HIDE DEF u, v
<1>4. /\ Len(u) = n /\ Len(v) = n
      /\ \A i \in 1..n : u[i] = s[i] /\ v[i] = t[i]
  BY <1>2, <1>3
<1>5. (\A j \in 1..n : s[j] = t[j]) => u = v
  BY <1>2, <1>3, <1>4, SeqEqual
<1>6. u = v => \A j \in 1..n : s[j] = t[j]
  BY <1>4
<1> QED BY <1>5, <1>6 DEF u, v

(* The order of Before, in one condition instead of two: at the first place *)
(* where they differ, padded, the one before has less.                     *)
LEMMA BeforeIs ==
    ASSUME NEW s \in Text, NEW t \in Text
    PROVE  Before(s, t) <=> \E i : Less(s, t, i)
<1>1. /\ Len(s) \in Nat /\ DOMAIN s = 1..Len(s) /\ \A i \in 1..Len(s) : s[i] \in Nat
      /\ Len(t) \in Nat /\ DOMAIN t = 1..Len(t) /\ \A i \in 1..Len(t) : t[i] \in Nat
      /\ s \in Seq(Nat) /\ t \in Seq(Nat)
  BY StringTyped
<1>2. ASSUME IsStrictPrefix(s, t) PROVE Less(s, t, Len(s) + 1)
  <2>1. Len(s) <= Len(t) /\ s # t /\ \A j \in 1..Len(s) : s[j] = t[j]
    BY <1>1, <1>2, SamePrefix DEF IsStrictPrefix, IsPrefix
  <2>2. Len(s) # Len(t)
    BY <1>1, <2>1, SeqEqual
  <2>3. Padded(s, Len(s) + 1) = 0 /\ Padded(t, Len(s) + 1) > 0
    <3>1. \A m, n \in Nat : m <= n /\ m # n => ~(m + 1 <= m) /\ m + 1 \in 1..n /\ m + 1 <= n
      OBVIOUS
    <3>2. ~(Len(s) + 1 <= Len(s)) /\ Len(s) + 1 \in 1..Len(t) /\ Len(s) + 1 <= Len(t)
      BY <1>1, <2>1, <2>2, <3>1
    <3>3. t[Len(s) + 1] \in Nat
      BY <1>1, <3>2
    <3> QED BY <3>2, <3>3 DEF Padded
  <2>4. \A j \in 1..(Len(s) + 1 - 1) : Padded(s, j) = Padded(t, j)
    BY <1>1, <2>1 DEF Padded
  <2> QED BY <1>1, <2>3, <2>4 DEF Less
<1>3. ASSUME NEW i \in DOMAIN s \cap DOMAIN t, s[i] < t[i], SubSeq(s, 1, i - 1) = SubSeq(t, 1, i - 1)
      PROVE  Less(s, t, i)
  <2>1. i - 1 \in Nat /\ i - 1 <= Len(s) /\ i - 1 <= Len(t)
    BY <1>1, <1>3
  <2>2. \A j \in 1..(i - 1) : s[j] = t[j]
    BY <1>3, <2>1, SamePrefix
  <2> QED BY <1>1, <1>3, <2>1, <2>2 DEF Less, Padded
<1>4. ASSUME NEW i, Less(s, t, i), i <= Len(s)
      PROVE  i \in DOMAIN s \cap DOMAIN t /\ s[i] < t[i] /\ SubSeq(s, 1, i - 1) = SubSeq(t, 1, i - 1)
  <2>1. i \in Nat \ {0} /\ Padded(s, i) < Padded(t, i)
        /\ \A j \in 1..(i - 1) : Padded(s, j) = Padded(t, j)
    BY <1>4 DEF Less
  <2>2. i <= Len(t) /\ s[i] < t[i]
    BY <1>1, <1>4, <2>1 DEF Padded
  <2>3. ASSUME NEW j \in 1..(i - 1) PROVE s[j] = t[j]
    <3>1. Padded(s, j) = Padded(t, j) /\ j \in 1..Len(s) /\ j \in 1..Len(t)
      BY <1>1, <1>4, <2>1, <2>2
    <3> QED BY <1>1, <3>1 DEF Padded
  <2>4. SubSeq(s, 1, i - 1) = SubSeq(t, 1, i - 1)
    BY <1>1, <1>4, <2>1, <2>2, <2>3, SamePrefix
  <2> QED BY <1>1, <1>4, <2>1, <2>2, <2>4
<1>5. ASSUME NEW i, Less(s, t, i), ~(i <= Len(s))
      PROVE  IsStrictPrefix(s, t)
  <2>1. i \in Nat \ {0} /\ Padded(s, i) < Padded(t, i)
        /\ \A j \in 1..(i - 1) : Padded(s, j) = Padded(t, j)
    BY <1>5 DEF Less
  <2>2. i <= Len(t)
    BY <1>1, <1>5, <2>1 DEF Padded
  <2>3. ASSUME NEW j \in 1..Len(s) PROVE s[j] = t[j]
    <3>1. Padded(s, j) = Padded(t, j) /\ j \in 1..Len(t) /\ j <= Len(s)
      BY <1>1, <1>5, <2>1, <2>2
    <3> QED BY <1>1, <3>1 DEF Padded
  <2>4. SubSeq(s, 1, Len(s)) = SubSeq(t, 1, Len(s))
    BY <1>1, <1>5, <2>1, <2>2, <2>3, SamePrefix
  <2> QED BY <1>1, <1>5, <2>1, <2>2, <2>4 DEF IsStrictPrefix, IsPrefix
<1> QED BY <1>2, <1>3, <1>4, <1>5 DEF Before

(* The order of strings is a total one. *)
LEMMA BeforeTotal ==
    ASSUME NEW s \in Text, NEW t \in Text
    PROVE  s = t \/ Before(s, t) \/ Before(t, s)
<1>1. /\ \A i \in Nat \ {0} : Padded(s, i) \in Nat /\ Padded(t, i) \in Nat
      /\ Len(s) \in Nat /\ Len(t) \in Nat
      /\ \A i \in 1..Len(s) : s[i] \in Nat
      /\ \A i \in 1..Len(t) : t[i] \in Nat
      /\ s \in Seq(Nat) /\ t \in Seq(Nat)
  BY StringTyped
<1> DEFINE D == {i \in Nat \ {0} : Padded(s, i) # Padded(t, i)}
<1>2. CASE D = {}
  <2>1. \A i \in Nat \ {0} : Padded(s, i) = Padded(t, i)
    BY <1>2
  <2>2. Len(s) = Len(t)
    <3>1. CASE Len(s) < Len(t)
      <4>1. Padded(s, Len(t)) = 0 /\ Padded(t, Len(t)) > 0 /\ Len(t) \in Nat \ {0}
        BY <1>1, <3>1 DEF Padded
      <4> QED BY <2>1, <4>1
    <3>2. CASE Len(t) < Len(s)
      <4>1. Padded(t, Len(s)) = 0 /\ Padded(s, Len(s)) > 0 /\ Len(s) \in Nat \ {0}
        BY <1>1, <3>2 DEF Padded
      <4> QED BY <2>1, <4>1
    <3> QED BY <1>1, <3>1, <3>2
  <2>3. \A i \in 1..Len(s) : s[i] = t[i]
    BY <1>1, <2>1, <2>2 DEF Padded
  <2> QED BY <1>1, <2>2, <2>3, SeqEqual
<1>3. CASE D # {}
  <2>1. PICK i \in D : \A j \in D : i <= j
    BY <1>3, LeastNumber
  <2>2. i \in Nat \ {0} /\ Padded(s, i) # Padded(t, i)
    OBVIOUS
  <2>3. \A j \in 1..(i - 1) : Padded(s, j) = Padded(t, j)
    BY <2>1, <2>2
  <2>4. Less(s, t, i) \/ Less(t, s, i)
    BY <1>1, <2>2, <2>3 DEF Less
  <2> QED BY <2>4, BeforeIs
<1> QED BY <1>2, <1>3

(* Neither of two strings is before the other if the other is before it. *)
LEMMA BeforeAsymmetric ==
    ASSUME NEW s \in Text, NEW t \in Text, Before(s, t)
    PROVE  ~Before(t, s)
<1> SUFFICES ASSUME Before(t, s) PROVE FALSE
  OBVIOUS
<1>1. \A i \in Nat \ {0} : Padded(s, i) \in Nat /\ Padded(t, i) \in Nat
  BY StringTyped
<1>2. PICK i : Less(s, t, i)
  BY BeforeIs
<1>3. PICK j : Less(t, s, j)
  BY BeforeIs
<1>4. i \in Nat \ {0} /\ j \in Nat \ {0}
  BY <1>2, <1>3 DEF Less
<1>5. CASE i < j
  <2>1. i \in 1..(j - 1)
    BY <1>4, <1>5
  <2> QED BY <1>1, <1>2, <1>3, <1>4, <2>1 DEF Less
<1>6. CASE j < i
  <2>1. j \in 1..(i - 1)
    BY <1>4, <1>6
  <2> QED BY <1>1, <1>2, <1>3, <1>4, <2>1 DEF Less
<1>7. CASE i = j
  BY <1>1, <1>2, <1>3, <1>4, <1>7 DEF Less
<1> QED BY <1>4, <1>5, <1>6, <1>7

(* And the order is transitive. *)
LEMMA BeforeTransitive ==
    ASSUME NEW s \in Text, NEW t \in Text, NEW u \in Text,
           Before(s, t), Before(t, u)
    PROVE  Before(s, u)
<1>1. \A i \in Nat \ {0} : Padded(s, i) \in Nat /\ Padded(t, i) \in Nat /\ Padded(u, i) \in Nat
  BY StringTyped
<1>2. PICK i : Less(s, t, i)
  BY BeforeIs
<1>3. PICK j : Less(t, u, j)
  BY BeforeIs
<1>4. i \in Nat \ {0} /\ j \in Nat \ {0}
  BY <1>2, <1>3 DEF Less
<1>5. CASE i <= j
  <2>1. \A k \in 1..(i - 1) : k \in 1..(j - 1)
    BY <1>4, <1>5
  <2>2. Padded(s, i) < Padded(u, i)
    <3>1. i \in 1..(j - 1) \/ i = j
      BY <1>4, <1>5
    <3> QED BY <1>1, <1>2, <1>3, <1>4, <3>1 DEF Less
  <2>3. Less(s, u, i)
    BY <1>2, <1>3, <2>1, <2>2 DEF Less
  <2> QED BY <2>3, BeforeIs
<1>6. CASE j < i
  <2>1. j \in 1..(i - 1) /\ \A k \in 1..(j - 1) : k \in 1..(i - 1)
    BY <1>4, <1>6
  <2>2. Less(s, u, j)
    BY <1>1, <1>2, <1>3, <2>1 DEF Less
  <2> QED BY <2>2, BeforeIs
<1> QED BY <1>4, <1>5, <1>6

-----------------------------------------------------------------------------

(* A bijection, spelled out. *)
LEMMA BijectionIs ==
    ASSUME NEW S, NEW T, NEW p
    PROVE  p \in Bijection(S, T) <=>
             /\ p \in [S -> T] /\ \A x, y \in S : p[x] = p[y] => x = y
             /\ \A y \in T : \E x \in S : p[x] = y
BY DEF Bijection, Injection, Surjection, IsInjective

(* Being the same tags in another order is symmetric, *)
LEMMA PermutedSymmetric ==
    ASSUME NEW t, NEW u, Permuted(t, u)
    PROVE  Permuted(u, t)
<1>1. PICK p \in Bijection(DOMAIN t, DOMAIN u) : \A i \in DOMAIN t : t[i] = u[p[i]]
  BY DEF Permuted
<1>2. /\ p \in [DOMAIN t -> DOMAIN u] /\ \A x, y \in DOMAIN t : p[x] = p[y] => x = y
      /\ \A y \in DOMAIN u : \E x \in DOMAIN t : p[x] = y
  BY BijectionIs
<1> DEFINE q == [y \in DOMAIN u |-> CHOOSE x \in DOMAIN t : p[x] = y]
<1>3. \A y \in DOMAIN u : q[y] \in DOMAIN t /\ p[q[y]] = y
  BY <1>2
<1>4. q \in [DOMAIN u -> DOMAIN t]
  BY <1>3
<1> HIDE DEF q
<1>5. /\ \A x, y \in DOMAIN u : q[x] = q[y] => x = y
      /\ \A i \in DOMAIN t : q[p[i]] = i /\ p[i] \in DOMAIN u
  BY <1>2, <1>3
<1>6. q \in Bijection(DOMAIN u, DOMAIN t)
  BY <1>4, <1>5, BijectionIs
<1>7. \A y \in DOMAIN u : u[y] = t[q[y]]
  BY <1>1, <1>3
<1> QED BY <1>6, <1>7 DEF Permuted

(* and transitive. *)
LEMMA PermutedTransitive ==
    ASSUME NEW t, NEW u, NEW v, Permuted(t, u), Permuted(u, v)
    PROVE  Permuted(t, v)
<1>1. PICK p \in Bijection(DOMAIN t, DOMAIN u) : \A i \in DOMAIN t : t[i] = u[p[i]]
  BY DEF Permuted
<1>2. PICK q \in Bijection(DOMAIN u, DOMAIN v) : \A i \in DOMAIN u : u[i] = v[q[i]]
  BY DEF Permuted
<1>3. /\ p \in [DOMAIN t -> DOMAIN u] /\ \A x, y \in DOMAIN t : p[x] = p[y] => x = y
      /\ \A y \in DOMAIN u : \E x \in DOMAIN t : p[x] = y
  BY BijectionIs
<1>4. /\ q \in [DOMAIN u -> DOMAIN v] /\ \A x, y \in DOMAIN u : q[x] = q[y] => x = y
      /\ \A y \in DOMAIN v : \E x \in DOMAIN u : q[x] = y
  BY BijectionIs
<1> DEFINE r == [i \in DOMAIN t |-> q[p[i]]]
<1>5. /\ r \in [DOMAIN t -> DOMAIN v] /\ \A x, y \in DOMAIN t : r[x] = r[y] => x = y
      /\ \A i \in DOMAIN t : r[i] = q[p[i]] /\ p[i] \in DOMAIN u
  BY <1>3, <1>4
<1> HIDE DEF r
<1>6. \A y \in DOMAIN v : \E x \in DOMAIN t : r[x] = y
  <2> TAKE y \in DOMAIN v
  <2>1. PICK z \in DOMAIN u : q[z] = y
    BY <1>4
  <2>2. PICK x \in DOMAIN t : p[x] = z
    BY <1>3
  <2> QED BY <1>5, <2>1, <2>2
<1>7. r \in Bijection(DOMAIN t, DOMAIN v)
  BY <1>5, <1>6, BijectionIs
<1>8. \A i \in DOMAIN t : t[i] = v[r[i]]
  BY <1>1, <1>2, <1>5
<1> QED BY <1>7, <1>8 DEF Permuted

(* None comes after one it is before. *)
Ascending(t) == \A i, j \in DOMAIN t : i < j => ~Before(t[j], t[i])

(* How many of the tags, in order, are not after e. *)
LEMMA Position ==
    ASSUME NEW n \in Nat, NEW v \in [1..n -> Text], NEW e \in Text,
           \A i, j \in 1..n : i < j => ~Before(v[j], v[i])
    PROVE  \E k \in 0..n : \A i \in 1..n : i <= k <=> ~Before(e, v[i])
<1> DEFINE K == {i \in 1..n : ~Before(e, v[i])}
<1>1. CASE K = {}
  <2>1. \A i \in 1..n : i <= 0 <=> ~Before(e, v[i])
    BY <1>1
  <2>2. 0 \in 0..n
    OBVIOUS
  <2> QED BY <2>1, <2>2
<1>2. CASE K # {}
  <2>1. IsFiniteSet(K) /\ K \subseteq Nat
    <3>1. IsFiniteSet(1..n) /\ K \subseteq 1..n
      BY FS_Interval
    <3> QED BY <3>1, FS_Subset
  <2> DEFINE k == Max(K)
  <2>2. k \in K /\ \A x \in K : x <= k
    <3> HIDE DEF K
    <3> QED BY <1>2, <2>1, MaxIsGreatest
  <2> HIDE DEF k
  <2>3. k \in 1..n /\ ~Before(e, v[k])
    BY <2>2
  <2>4. ASSUME NEW i \in 1..n, i <= k PROVE ~Before(e, v[i])
    <3> SUFFICES ASSUME Before(e, v[i]) PROVE FALSE
      OBVIOUS
    <3>1. i < k
      BY <2>3, <2>4
    <3>2. v[i] \in Text /\ v[k] \in Text /\ ~Before(v[k], v[i])
      BY <2>3, <3>1
    <3>3. v[i] = v[k] \/ Before(v[i], v[k])
      BY <3>2, BeforeTotal
    <3>4. Before(e, v[k])
      BY <3>2, <3>3, BeforeTransitive
    <3> QED BY <2>3, <3>4
  <2>5. ASSUME NEW i \in 1..n, ~Before(e, v[i]) PROVE i <= k
    BY <2>2, <2>5
  <2>6. k \in 0..n
    BY <2>3
  <2> HIDE DEF K
  <2>7. \A i \in 1..n : i <= k <=> ~Before(e, v[i])
    BY <2>4, <2>5
  <2> QED BY <2>6, <2>7
<1> QED BY <1>1, <1>2

(* One more tag finds its place in the order. *)
LEMMA Insertion ==
    ASSUME NEW s \in Seq(Text), NEW e \in Text,
           NEW p \in Bijection(DOMAIN s, DOMAIN s), Sorts(p, s)
    PROVE  \E q \in Bijection(DOMAIN Append(s, e), DOMAIN Append(s, e)) : Sorts(q, Append(s, e))
<1> DEFINE n == Len(s)  t == Append(s, e)
<1>1. /\ n \in Nat /\ DOMAIN s = 1..n /\ DOMAIN t = 1..(n + 1)
      /\ \A i \in 1..n : t[i] = s[i] /\ s[i] \in Text
      /\ t[n + 1] = e
  <2>1. /\ t \in Seq(Text) /\ Len(t) = n + 1 /\ \A i \in 1..n : t[i] = s[i]
        /\ t[n + 1] = e
    BY AppendProperties
  <2>2. DOMAIN t = 1..Len(t)
    BY <2>1, LenProperties
  <2>3. n \in Nat /\ DOMAIN s = 1..n /\ \A i \in 1..n : s[i] \in Text
    BY LenProperties, ElementOfSeq
  <2> QED BY <2>1, <2>2, <2>3
<1> HIDE DEF n, t
<1>2. /\ p \in [1..n -> 1..n] /\ \A x, y \in 1..n : p[x] = p[y] => x = y
      /\ \A y \in 1..n : \E x \in 1..n : p[x] = y
  <2>1. /\ p \in [DOMAIN s -> DOMAIN s] /\ \A x, y \in DOMAIN s : p[x] = p[y] => x = y
        /\ \A y \in DOMAIN s : \E x \in DOMAIN s : p[x] = y
    BY BijectionIs
  <2> QED BY <1>1, <2>1
<1> DEFINE v == [i \in 1..n |-> s[p[i]]]
<1>3. v \in [1..n -> Text] /\ \A i \in 1..n : v[i] = s[p[i]] /\ p[i] \in 1..n /\ t[p[i]] = v[i]
  BY <1>1, <1>2
<1> HIDE DEF v
<1>4. \A i, j \in 1..n : i < j => ~Before(v[j], v[i])
  BY <1>1, <1>3 DEF Sorts
<1>5. PICK k \in 0..n : \A i \in 1..n : i <= k <=> ~Before(e, v[i])
  BY <1>1, <1>3, <1>4, Position
<1> DEFINE q == [i \in 1..(n + 1) |-> IF i <= k THEN p[i] ELSE IF i = k + 1 THEN n + 1 ELSE p[i - 1]]
<1>6. ASSUME NEW i \in 1..(n + 1)
      PROVE  \/ i <= k /\ i \in 1..n /\ q[i] = p[i]
             \/ i = k + 1 /\ q[i] = n + 1
             \/ i > k + 1 /\ i - 1 \in 1..n /\ i - 1 > k /\ q[i] = p[i - 1]
  <2>1. k \in Nat /\ k <= n
    BY <1>1
  <2>2. CASE i <= k
    BY <1>1, <2>1, <2>2
  <2>3. CASE i = k + 1
    BY <1>1, <2>1, <2>3
  <2>4. CASE i > k + 1
    BY <1>1, <2>1, <2>4
  <2> QED BY <2>1, <2>2, <2>3, <2>4
<1>7. DOMAIN q = 1..(n + 1)
  OBVIOUS
<1> HIDE DEF q
<1>8. \A i \in 1..(n + 1) : q[i] \in 1..(n + 1)
  <2>1. \A x \in 1..n : p[x] \in 1..(n + 1)
    BY <1>1, <1>2
  <2>2. n + 1 \in 1..(n + 1)
    BY <1>1
  <2> QED BY <1>6, <2>1, <2>2
<1>9. \A x \in 1..n : p[x] # n + 1
  BY <1>1, <1>2
<1>10. ASSUME NEW i \in 1..(n + 1), NEW j \in 1..(n + 1), q[i] = q[j]
       PROVE  i = j
  <2>1. k \in Nat /\ n \in Nat
    BY <1>1
  <2> DEFINE back(x) == IF x <= k THEN x ELSE x - 1
  <2>2. \A x \in 1..(n + 1) : x = k + 1 => q[x] = n + 1
    BY <1>6, <2>1
  <2>3. \A x \in 1..(n + 1) : x # k + 1 => back(x) \in 1..n /\ q[x] = p[back(x)]
    BY <1>6, <2>1
  <2>4. \A x \in 1..(n + 1), y \in 1..(n + 1) :
           x # k + 1 /\ y # k + 1 /\ back(x) = back(y) => x = y
    BY <2>1
  <2> HIDE DEF back
  <2>5. \A x \in 1..(n + 1) : x # k + 1 => q[x] # n + 1
    BY <1>9, <2>3
  <2>6. CASE i = k + 1
    BY <1>10, <2>2, <2>5, <2>6
  <2>7. CASE i # k + 1
    <3>1. j # k + 1
      BY <1>10, <2>2, <2>5, <2>7
    <3>2. back(i) \in 1..n /\ back(j) \in 1..n /\ p[back(i)] = p[back(j)]
      BY <1>10, <2>3, <2>7, <3>1
    <3>3. back(i) = back(j)
      BY <1>2, <3>2
    <3> QED BY <2>4, <2>7, <3>1, <3>3
  <2> QED BY <2>6, <2>7
<1>11. ASSUME NEW y \in 1..(n + 1) PROVE \E x \in 1..(n + 1) : q[x] = y
  <2>1. k \in Nat /\ n \in Nat /\ k <= n
    BY <1>1
  <2>2. CASE y = n + 1
    <3>1. k + 1 \in 1..(n + 1)
      BY <2>1
    <3>2. q[k + 1] = n + 1
      BY <1>6, <2>1, <3>1
    <3> QED BY <2>2, <3>1, <3>2
  <2>3. CASE y # n + 1
    <3>1. y \in 1..n
      BY <2>1, <2>3
    <3>2. PICK x \in 1..n : p[x] = y
      BY <1>2, <3>1
    <3>3. CASE x <= k
      <4>1. x \in 1..(n + 1)
        BY <2>1
      <4>2. q[x] = p[x]
        BY <1>6, <2>1, <3>3, <4>1
      <4> QED BY <3>2, <4>1, <4>2
    <3>4. CASE x > k
      <4>1. x + 1 \in 1..(n + 1) /\ x + 1 > k + 1 /\ (x + 1) - 1 = x
        BY <2>1, <3>4
      <4>2. q[x + 1] = p[x]
        BY <1>6, <2>1, <4>1
      <4> QED BY <3>2, <4>1, <4>2
    <3> QED BY <2>1, <3>3, <3>4
  <2> QED BY <2>2, <2>3
<1>12. q \in Bijection(1..(n + 1), 1..(n + 1))
  <2>1. q \in [1..(n + 1) -> 1..(n + 1)]
    <3>1. q = [i \in 1..(n + 1) |-> q[i]]
      BY DEF q
    <3> QED BY <1>8, <3>1
  <2>2. \A x, y \in 1..(n + 1) : q[x] = q[y] => x = y
    BY <1>10
  <2>3. \A y \in 1..(n + 1) : \E x \in 1..(n + 1) : q[x] = y
    BY <1>11
  <2> DEFINE D == 1..(n + 1)
  <2>4. /\ q \in [D -> D] /\ \A x, y \in D : q[x] = q[y] => x = y
        /\ \A y \in D : \E x \in D : q[x] = y
    BY <2>1, <2>2, <2>3
  <2> HIDE DEF q, D
  <2>5. q \in Bijection(D, D)
    BY <2>4, BijectionIs
  <2> QED BY <2>5 DEF D
<1>13. Sorts(q, t)
  <2> SUFFICES ASSUME NEW i \in 1..(n + 1), NEW j \in 1..(n + 1), i < j
               PROVE  ~Before(t[q[j]], t[q[i]])
    BY <1>1 DEF Sorts
  <2>1. k \in Nat /\ n \in Nat
    BY <1>1
  <2>2. /\ i <= k => i \in 1..n /\ t[q[i]] = v[i]
        /\ i = k + 1 => t[q[i]] = e
        /\ i > k + 1 => i - 1 \in 1..n /\ i - 1 > k /\ t[q[i]] = v[i - 1]
    BY <1>1, <1>3, <1>6, <2>1
  <2>3. /\ j <= k => j \in 1..n /\ t[q[j]] = v[j]
        /\ j = k + 1 => t[q[j]] = e
        /\ j > k + 1 => j - 1 \in 1..n /\ j - 1 > k /\ t[q[j]] = v[j - 1]
    BY <1>1, <1>3, <1>6, <2>1
  <2>4. CASE j <= k
    <3>1. i <= k
      BY <2>1, <2>4
    <3> QED BY <1>4, <2>2, <2>3, <2>4, <3>1
  <2>5. CASE j = k + 1
    <3>1. i <= k
      BY <2>1, <2>5
    <3> QED BY <1>5, <2>2, <2>3, <2>5, <3>1
  <2>6. CASE j > k + 1
    <3>1. CASE i <= k
      <4>1. i < j - 1
        BY <2>1, <2>6, <3>1
      <4> QED BY <1>4, <2>2, <2>3, <2>6, <3>1, <4>1
    <3>2. CASE i = k + 1
      <4>1. Before(e, v[j - 1]) /\ v[j - 1] \in Text
        <5>1. ~(j - 1 <= k)
          BY <2>1, <2>6
        <5> QED BY <1>3, <1>5, <2>3, <2>6, <5>1
      <4> QED BY <2>2, <2>3, <2>6, <3>2, <4>1, BeforeAsymmetric
    <3>3. CASE i > k + 1
      <4>1. i - 1 < j - 1
        BY <2>1
      <4> QED BY <1>4, <2>2, <2>3, <2>6, <3>3, <4>1
    <3> QED BY <2>1, <3>1, <3>2, <3>3
  <2> QED BY <2>1, <2>4, <2>5, <2>6
<1> QED BY <1>1, <1>12, <1>13 DEF t

(* Every list of tags can be sorted. *)
LEMMA SortingExists ==
    ASSUME NEW tags \in Seq(Text)
    PROVE  \E p \in Bijection(DOMAIN tags, DOMAIN tags) : Sorts(p, tags)
<1> DEFINE P(t) == \E p \in Bijection(DOMAIN t, DOMAIN t) : Sorts(p, t)
           T == {t \in Seq(Text) : P(t)}
<1>1. P(<<>>)
  <2>1. <<>> \in Bijection(DOMAIN <<>>, DOMAIN <<>>)
    <3>1. DOMAIN <<>> = {} /\ <<>> \in [{} -> {}]
      OBVIOUS
    <3> QED BY <3>1, BijectionIs
  <2>2. Sorts(<<>>, <<>>)
    BY DEF Sorts
  <2> QED BY <2>1, <2>2
<1>2. ASSUME NEW s \in Seq(Text), NEW e \in Text, P(s)
      PROVE  P(Append(s, e))
  BY <1>2, Insertion
<1> HIDE DEF P
<1>3. /\ <<>> \in T
      /\ \A s \in Seq(Text), e \in Text : s \in T => Append(s, e) \in T
  <2>1. <<>> \in Seq(Text)
    BY EmptySeq
  <2>2. \A s \in Seq(Text), e \in Text : Append(s, e) \in Seq(Text)
    BY AppendProperties
  <2> QED BY <1>1, <1>2, <2>1, <2>2
<1> HIDE DEF T
<1>4. tags \in T
  BY <1>3, SeqSetInduction
<1>5. P(tags)
  BY <1>4 DEF T
<1> QED BY <1>5 DEF P

(* The sorted tags are the same tags, in ascending order. *)
LEMMA SortedIs ==
    ASSUME NEW tags \in Seq(Text)
    PROVE  /\ Sorted(tags) \in Seq(Text) /\ Permuted(Sorted(tags), tags)
           /\ Ascending(Sorted(tags))
<1> DEFINE order == CHOOSE p \in Bijection(DOMAIN tags, DOMAIN tags) : Sorts(p, tags)
           u == [i \in DOMAIN tags |-> tags[order[i]]]
<1>1. order \in Bijection(DOMAIN tags, DOMAIN tags) /\ Sorts(order, tags)
  BY SortingExists
<1> HIDE DEF order
<1>2. Sorted(tags) = u
  BY DEF Sorted, order
<1>3. /\ Len(tags) \in Nat /\ DOMAIN tags = 1..Len(tags) /\ \A i \in 1..Len(tags) : tags[i] \in Text
  BY LenProperties, ElementOfSeq
<1>4. \A i \in DOMAIN tags : order[i] \in DOMAIN tags
  BY <1>1, BijectionIs
<1>5. /\ u \in Seq(Text) /\ DOMAIN u = DOMAIN tags /\ Len(u) = Len(tags)
      /\ \A i \in DOMAIN u : u[i] = tags[order[i]]
  BY <1>3, <1>4
<1> HIDE DEF u
<1>6. Permuted(u, tags)
  BY <1>1, <1>5 DEF Permuted
<1>7. Ascending(u)
  BY <1>1, <1>5 DEF Ascending, Sorts
<1> QED BY <1>2, <1>5, <1>6, <1>7

(* Of two orders of the same tags, both ascending, neither has a lesser    *)
(* tag anywhere.                                                           *)
LEMMA NoneLess ==
    ASSUME NEW t \in Seq(Text), NEW u \in Seq(Text), Permuted(t, u),
           Ascending(t), Ascending(u), NEW i \in DOMAIN t
    PROVE  ~Before(u[i], t[i])
<1> SUFFICES ASSUME Before(u[i], t[i]) PROVE FALSE
  OBVIOUS
<1> DEFINE n == Len(t)
<1>1. /\ n \in Nat /\ DOMAIN t = 1..n /\ DOMAIN u = 1..n /\ i \in 1..n
      /\ \A j \in 1..n : t[j] \in Text /\ u[j] \in Text
  BY LenProperties, ElementOfSeq DEF Permuted
<1> HIDE DEF n
<1>2. PICK p \in Bijection(DOMAIN t, DOMAIN u) : \A j \in DOMAIN t : t[j] = u[p[j]]
  BY DEF Permuted
<1>3. p \in [1..n -> 1..n] /\ \A x, y \in 1..n : p[x] = p[y] => x = y
  <2>1. p \in [DOMAIN t -> DOMAIN u] /\ \A x, y \in DOMAIN t : p[x] = p[y] => x = y
    BY BijectionIs
  <2> QED BY <1>1, <2>1
<1>4. ASSUME NEW j \in i..n PROVE p[j] \in (i + 1)..n
  <2>1. j \in 1..n /\ i <= j /\ p[j] \in 1..n /\ t[j] = u[p[j]]
    <3>1. j \in 1..n /\ i <= j
      BY <1>1
    <3> QED BY <1>1, <1>2, <1>3, <3>1
  <2>2. t[i] = t[j] \/ Before(t[i], t[j])
    <3>1. i = j \/ ~Before(t[j], t[i])
      BY <1>1, <2>1 DEF Ascending
    <3> QED BY <1>1, <2>1, <3>1, BeforeTotal
  <2>3. Before(u[i], u[p[j]])
    <3>1. u[i] \in Text /\ t[i] \in Text /\ t[j] \in Text
      BY <1>1, <2>1
    <3>2. Before(u[i], t[j])
      BY <2>2, <3>1, BeforeTransitive
    <3> QED BY <2>1, <3>2
  <2>4. ~(p[j] < i)
    BY <1>1, <2>1, <2>3 DEF Ascending
  <2>5. p[j] # i
    BY <1>1, <2>3, BeforeAsymmetric
  <2> QED BY <1>1, <2>1, <2>4, <2>5
<1> DEFINE f == [j \in i..n |-> p[j]]
<1>5. f \in [i..n -> (i + 1)..n]
  BY <1>4
<1>6. /\ IsFiniteSet(i..n) /\ IsFiniteSet((i + 1)..n)
      /\ Cardinality((i + 1)..n) < Cardinality(i..n)
  <2>1. i \in Int /\ n \in Int /\ i + 1 \in Int /\ i <= n
    BY <1>1
  <2>2. /\ IsFiniteSet(i..n) /\ Cardinality(i..n) = IF i > n THEN 0 ELSE n - i + 1
        /\ IsFiniteSet((i + 1)..n)
        /\ Cardinality((i + 1)..n) = IF i + 1 > n THEN 0 ELSE n - (i + 1) + 1
    BY <2>1, FS_Interval
  <2> QED BY <2>1, <2>2
<1>7. PICK x \in i..n, y \in i..n : x # y /\ f[x] = f[y]
  <2> HIDE DEF f
  <2> QED BY <1>5, <1>6, FS_PigeonHole
<1>8. x \in 1..n /\ y \in 1..n /\ p[x] = p[y]
  BY <1>1, <1>7
<1> QED BY <1>3, <1>7, <1>8

(* There is one ascending order of them. *)
LEMMA SortedOnce ==
    ASSUME NEW t \in Seq(Text), NEW u \in Seq(Text), Permuted(t, u)
    PROVE  Sorted(t) = Sorted(u)
<1> DEFINE a == Sorted(t)  b == Sorted(u)
<1>1. /\ a \in Seq(Text) /\ Permuted(a, t) /\ Ascending(a)
      /\ b \in Seq(Text) /\ Permuted(b, u) /\ Ascending(b)
  BY SortedIs
<1> HIDE DEF a, b
<1>2. Permuted(a, b)
  <2>1. Permuted(a, u)
    BY <1>1, PermutedTransitive
  <2>2. Permuted(u, b)
    BY <1>1, PermutedSymmetric
  <2> QED BY <2>1, <2>2, PermutedTransitive
<1>3. Permuted(b, a)
  BY <1>2, PermutedSymmetric
<1>4. /\ Len(a) = Len(b) /\ DOMAIN a = 1..Len(a) /\ DOMAIN b = 1..Len(b)
      /\ \A i \in 1..Len(a) : a[i] \in Text /\ b[i] \in Text
  BY <1>1, <1>2, LenProperties, ElementOfSeq DEF Permuted
<1>5. ASSUME NEW i \in 1..Len(a) PROVE a[i] = b[i]
  <2>1. ~Before(b[i], a[i]) /\ ~Before(a[i], b[i])
    BY <1>1, <1>2, <1>3, <1>4, NoneLess
  <2> QED BY <1>4, <2>1, BeforeTotal
<1>6. a = b
  BY <1>1, <1>4, <1>5, SeqEqual
<1> QED BY <1>6 DEF a, b

-----------------------------------------------------------------------------

(* The strings without a byte 0. *)
Words == {s \in Text : \A i \in 1..Len(s) : s[i] # 0}

(* Empty, or with a byte 0 at its end. *)
Ended(s) == s = <<>> \/ s[Len(s)] = 0

(* No byte 0 is among the bytes that follow the last one. *)
LEMMA NotShorter ==
    ASSUME NEW a \in Text, NEW b \in Text, NEW m \in Words, NEW n \in Words,
           Ended(b), a \o m = b \o n
    PROVE  ~(Len(a) < Len(b))
<1> SUFFICES ASSUME Len(a) < Len(b) PROVE FALSE
  OBVIOUS
<1>1. /\ Len(a) \in Nat /\ Len(b) \in Nat /\ Len(m) \in Nat /\ Len(n) \in Nat
      /\ m \in Text /\ n \in Text /\ \A i \in 1..Len(m) : m[i] # 0
  BY StringTyped DEF Words
<1>2. /\ Len(a) + Len(m) = Len(b) + Len(n)
      /\ \A i \in 1..(Len(a) + Len(m)) : (a \o m)[i] = IF i <= Len(a) THEN a[i] ELSE m[i - Len(a)]
      /\ \A i \in 1..(Len(b) + Len(n)) : (b \o n)[i] = IF i <= Len(b) THEN b[i] ELSE n[i - Len(b)]
  BY <1>1, ConcatProperties DEF Text
<1>3. b[Len(b)] = 0
  <2>1. b # <<>>
    BY <1>1, EmptySeq
  <2> QED BY <2>1 DEF Ended
<1>4. /\ Len(b) \in 1..(Len(a) + Len(m)) /\ Len(b) \in 1..(Len(b) + Len(n))
      /\ ~(Len(b) <= Len(a)) /\ Len(b) <= Len(b) /\ Len(b) - Len(a) \in 1..Len(m)
  BY <1>1, <1>2
<1>5. (a \o m)[Len(b)] = m[Len(b) - Len(a)] /\ (b \o n)[Len(b)] = 0
  BY <1>2, <1>3, <1>4
<1> QED BY <1>1, <1>4, <1>5

(* What follows the last byte 0 is where the rest begins. *)
LEMMA LastApart ==
    ASSUME NEW a \in Text, NEW b \in Text, NEW m \in Words, NEW n \in Words,
           Ended(a), Ended(b), a \o m = b \o n
    PROVE  a = b /\ m = n
<1>1. /\ Len(a) \in Nat /\ Len(b) \in Nat /\ Len(m) \in Nat /\ Len(n) \in Nat
      /\ m \in Text /\ n \in Text
  BY StringTyped DEF Words
<1>2. Len(a) = Len(b)
  <2>1. ~(Len(a) < Len(b)) /\ ~(Len(b) < Len(a))
    BY NotShorter
  <2> QED BY <1>1, <2>1
<1>3. /\ Len(a) + Len(m) = Len(b) + Len(n)
      /\ \A i \in 1..(Len(a) + Len(m)) : (a \o m)[i] = IF i <= Len(a) THEN a[i] ELSE m[i - Len(a)]
      /\ \A i \in 1..(Len(b) + Len(n)) : (b \o n)[i] = IF i <= Len(b) THEN b[i] ELSE n[i - Len(b)]
  BY <1>1, ConcatProperties DEF Text
<1>4. \A i \in 1..Len(a) : a[i] = b[i]
  <2> TAKE i \in 1..Len(a)
  <2>1. i \in 1..(Len(a) + Len(m)) /\ i \in 1..(Len(b) + Len(n)) /\ i <= Len(a) /\ i <= Len(b)
    BY <1>1, <1>2
  <2> QED BY <1>3, <2>1
<1>5. a = b
  BY <1>2, <1>4, SeqEqual DEF Text
<1>6. m = n
  BY <1>1, <1>5, ConcatSimplifications DEF Text
<1> QED BY <1>5, <1>6

(* A list with one string more is that string and a byte 0 more. *)
LEMMA TerminatedStep ==
    ASSUME NEW u \in Seq(Words), NEW x \in Words
    PROVE  /\ Terminated(u) \in Text
           /\ Terminated(Append(u, x)) = (Terminated(u) \o x) \o Nul
<1> DEFINE T(v) == [i \in DOMAIN v |-> v[i] \o Nul]
<1>1. Nul \in Text
  BY DEF Nul, Text, Byte
<1>2. ASSUME NEW v \in Seq(Words)
      PROVE  T(v) \in Seq(Text) /\ Len(T(v)) = Len(v) /\ \A i \in 1..Len(v) : T(v)[i] = v[i] \o Nul
  <2>1. Len(v) \in Nat /\ DOMAIN v = 1..Len(v) /\ \A i \in 1..Len(v) : v[i] \in Text
    BY LenProperties, ElementOfSeq DEF Words
  <2>2. \A i \in 1..Len(v) : v[i] \o Nul \in Text
    BY <1>1, <2>1, ConcatProperties DEF Text
  <2> QED BY <2>1, <2>2
<1> DEFINE w == Append(u, x)
<1>3. /\ w \in Seq(Words) /\ Len(w) = Len(u) + 1 /\ Len(u) \in Nat
      /\ \A i \in 1..Len(u) : w[i] = u[i]
      /\ w[Len(u) + 1] = x
  BY AppendProperties, LenProperties
<1> HIDE DEF w
<1>4. x \o Nul \in Text /\ x \in Text
  BY <1>1, ConcatProperties DEF Text, Words
<1>5. /\ Append(T(u), x \o Nul) \in Seq(Text) /\ Len(Append(T(u), x \o Nul)) = Len(u) + 1
      /\ \A i \in 1..Len(u) : Append(T(u), x \o Nul)[i] = T(u)[i]
      /\ Append(T(u), x \o Nul)[Len(u) + 1] = x \o Nul
  <2>1. T(u) \in Seq(Text) /\ Len(T(u)) = Len(u)
    BY <1>2
  <2> HIDE DEF T
  <2> QED BY <1>4, <2>1, AppendProperties
<1>6. T(w) \in Seq(Text) /\ Len(T(w)) = Len(u) + 1 /\ \A i \in 1..Len(w) : T(w)[i] = w[i] \o Nul
  BY <1>2, <1>3
<1>7. \A i \in 1..Len(u) : T(u)[i] = u[i] \o Nul
  BY <1>2
<1>9. T(u) \in Seq(Text)
  BY <1>2
<1> HIDE DEF T
<1>8. T(w) = Append(T(u), x \o Nul)
  <2>1. \A i \in 1..(Len(u) + 1) : T(w)[i] = Append(T(u), x \o Nul)[i]
    <3> TAKE i \in 1..(Len(u) + 1)
    <3>1. CASE i = Len(u) + 1
      BY <1>3, <1>5, <1>6, <3>1
    <3>2. CASE i # Len(u) + 1
      <4>1. i \in 1..Len(u) /\ i \in 1..Len(w)
        BY <1>3, <3>2
      <4> QED BY <1>3, <1>5, <1>6, <1>7, <4>1
    <3> QED BY <3>1, <3>2
  <2> QED BY <1>5, <1>6, <2>1, SeqEqual
<1>10. FlattenSeq(T(u)) \in Text /\ FlattenSeq(T(w)) = FlattenSeq(T(u)) \o (x \o Nul)
  BY <1>4, <1>8, <1>9, FlattenAppend, FlattenType DEF Text
<1>11. FlattenSeq(T(u)) \o (x \o Nul) = (FlattenSeq(T(u)) \o x) \o Nul
  BY <1>1, <1>4, <1>10, ConcatAssociative DEF Text
<1> QED BY <1>10, <1>11 DEF Terminated, T, w

(* Unless the list is empty, it ends in a byte 0. *)
LEMMA TerminatedEnds ==
    ASSUME NEW u \in Seq(Words)
    PROVE  /\ Terminated(u) \in Text /\ Ended(Terminated(u))
           /\ Terminated(u) = <<>> <=> u = <<>>
<1>1. CASE u = <<>>
  <2>1. [i \in DOMAIN <<>> |-> <<>>[i] \o Nul] = <<>>
    OBVIOUS
  <2>2. Terminated(<<>>) = <<>>
    BY <2>1, FlattenEmpty DEF Terminated
  <2> QED BY <1>1, <2>2, EmptySeq DEF Ended, Text
<1>2. CASE u # <<>>
  <2>1. PICK w \in Seq(Words), y \in Words : u = Append(w, y)
    BY <1>2, SequenceEmptyOrAppend
  <2> DEFINE a == Terminated(w) \o y
  <2>2. Terminated(u) = a \o Nul /\ Terminated(w) \in Text
    BY <2>1, TerminatedStep
  <2>3. a \in Text /\ Len(a) \in Nat /\ Nul \in Text /\ Len(Nul) = 1 /\ Nul[1] = 0
    <3>1. Nul \in Text /\ Len(Nul) = 1 /\ Nul[1] = 0
      BY DEF Nul, Text, Byte
    <3>2. a \in Text
      BY <2>2, ConcatProperties DEF Text, Words
    <3> HIDE DEF a
    <3> QED BY <3>1, <3>2, LenProperties DEF Text
  <2> HIDE DEF a
  <2>4. /\ a \o Nul \in Text /\ Len(a \o Nul) = Len(a) + 1
        /\ (a \o Nul)[Len(a) + 1] = 0
    <3>1. /\ a \o Nul \in Text /\ Len(a \o Nul) = Len(a) + Len(Nul)
          /\ \A i \in 1..(Len(a) + Len(Nul)) :
                (a \o Nul)[i] = IF i <= Len(a) THEN a[i] ELSE Nul[i - Len(a)]
      BY <2>3, ConcatProperties DEF Text
    <3>2. Len(a) + 1 \in 1..(Len(a) + Len(Nul)) /\ ~(Len(a) + 1 <= Len(a)) /\ Len(a) + 1 - Len(a) = 1
      BY <2>3
    <3> QED BY <2>3, <3>1, <3>2
  <2>5. a \o Nul # <<>>
    BY <2>3, <2>4, EmptySeq
  <2> QED BY <1>2, <2>2, <2>4, <2>5 DEF Ended
<1> QED BY <1>1, <1>2

(* The separators keep the strings of a list apart. *)
LEMMA TerminatedInjective ==
    ASSUME NEW u \in Seq(Words), NEW v \in Seq(Words), Terminated(u) = Terminated(v)
    PROVE  u = v
<1> DEFINE P(s) == \A t \in Seq(Words) : Terminated(s) = Terminated(t) => s = t
           T == {s \in Seq(Words) : P(s)}
<1>1. P(<<>>)
  BY TerminatedEnds, EmptySeq
<1>2. ASSUME NEW s \in Seq(Words), NEW x \in Words, P(s),
             NEW t \in Seq(Words), Terminated(Append(s, x)) = Terminated(t)
      PROVE  Append(s, x) = t
  <2>1. Append(s, x) \in Seq(Words) /\ Append(s, x) # <<>>
    BY AppendProperties
  <2>2. t # <<>>
    BY <1>2, <2>1, TerminatedEnds
  <2>3. PICK w \in Seq(Words), y \in Words : t = Append(w, y)
    BY <2>2, SequenceEmptyOrAppend
  <2> DEFINE a == Terminated(s)  b == Terminated(w)
  <2>4. (a \o x) \o Nul = (b \o y) \o Nul
    <3>1. Terminated(Append(s, x)) = (a \o x) \o Nul
      BY TerminatedStep
    <3>2. Terminated(Append(w, y)) = (b \o y) \o Nul
      BY TerminatedStep
    <3> QED BY <1>2, <2>3, <3>1, <3>2
  <2>5. a \in Text /\ b \in Text /\ Ended(a) /\ Ended(b)
    BY TerminatedEnds
  <2> HIDE DEF a, b
  <2>6. a \o x = b \o y
    <3>1. a \o x \in Text /\ b \o y \in Text
      BY <2>5, ConcatProperties DEF Text, Words
    <3>2. Nul \in Text
      BY DEF Nul, Text, Byte
    <3> QED BY <2>4, <3>1, <3>2, ConcatSimplifications DEF Text
  <2>7. a = b /\ x = y
    BY <2>5, <2>6, LastApart
  <2>8. s = w
    BY <1>2, <2>7 DEF a, b
  <2> QED BY <2>3, <2>7, <2>8
<1>3. \A s \in Seq(Words), x \in Words : P(s) => P(Append(s, x))
  BY <1>2
<1> HIDE DEF P
<1>4. /\ <<>> \in T
      /\ \A s \in Seq(Words), x \in Words : s \in T => Append(s, x) \in T
  <2>1. <<>> \in Seq(Words)
    BY EmptySeq
  <2>2. \A s \in Seq(Words), x \in Words : Append(s, x) \in Seq(Words)
    BY AppendProperties
  <2> QED BY <1>1, <1>3, <2>1, <2>2
<1> HIDE DEF T
<1>5. u \in T
  BY <1>4, SeqSetInduction
<1>6. P(u)
  BY <1>5 DEF T
<1> QED BY <1>6 DEF P

-----------------------------------------------------------------------------

(* Its strings are strings of bytes. *)
Typed(raw) ==
    /\ raw.channel \in Text /\ raw.campaign \in Text /\ raw.metadata \in Text
    /\ raw.tags \in Seq(Text) /\ PriorityString(raw) \in Text

(* The strings of the events that clients send are ones. *)
LEMMA RawTyped ==
    ASSUME NEW raw \in Raws
    PROVE  Typed(raw)
<1>1. PriorityString(raw) \in Text
  BY DomainAssumption, FlattenType DEF PriorityString, Text
<1> QED BY <1>1, DomainAssumption DEF Typed, Text

(* The two ways to say that a string holds no byte 0. *)
LEMMA NulFreeWord ==
    ASSUME NEW s \in Text, 0 \notin Range(s)
    PROVE  s \in Words
<1>1. DOMAIN s = 1..Len(s)
  BY StringTyped
<1> QED BY <1>1 DEF Words, Range

(* The strings that are terminated. *)
Fields(raw) == <<raw.channel, raw.campaign>> \o Sorted(raw.tags) \o <<PriorityString(raw)>>

(* No string that is terminated holds a byte 0, if none of the event does. *)
LEMMA FieldsTyped ==
    ASSUME NEW raw, Typed(raw), NulFree(raw)
    PROVE  /\ Sorted(raw.tags) \in Seq(Words) /\ Fields(raw) \in Seq(Words)
           /\ <<raw.channel, raw.campaign>> \in Seq(Words)
           /\ raw.metadata \in Words /\ PriorityString(raw) \in Words
<1>1. /\ raw.channel \in Words /\ raw.campaign \in Words /\ raw.metadata \in Words
      /\ PriorityString(raw) \in Words
  BY NulFreeWord DEF Typed, NulFree
<1> DEFINE t == raw.tags
           u == Sorted(t)
<1>2. t \in Seq(Text) /\ Len(t) \in Nat /\ DOMAIN t = 1..Len(t)
  BY LenProperties DEF Typed
<1>3. ASSUME NEW i \in DOMAIN t PROVE t[i] \in Words
  <2>1. t[i] \in Range(t) /\ t[i] \in Text
    BY <1>2, ElementOfSeq DEF Range
  <2> QED BY <2>1, NulFreeWord DEF NulFree
<1>4. u \in Seq(Text) /\ Permuted(u, t)
  BY <1>2, SortedIs
<1>5. Len(u) \in Nat /\ DOMAIN u = 1..Len(u) /\ u = [i \in 1..Len(u) |-> u[i]]
  BY <1>4, LenProperties
<1> HIDE DEF u, t
<1>6. PICK p \in Bijection(DOMAIN u, DOMAIN t) : \A i \in DOMAIN u : u[i] = t[p[i]]
  BY <1>4 DEF Permuted
<1>7. \A i \in DOMAIN u : p[i] \in DOMAIN t
  BY BijectionIs
<1>8. \A i \in 1..Len(u) : u[i] \in Words
  BY <1>3, <1>5, <1>6, <1>7
<1>9. u \in Seq(Words)
  <2>1. [i \in 1..Len(u) |-> u[i]] \in Seq(Words)
    BY <1>5, <1>8
  <2> QED BY <1>5, <2>1
<1>10. <<raw.channel, raw.campaign>> \in Seq(Words) /\ <<PriorityString(raw)>> \in Seq(Words)
  BY <1>1
<1>11. (<<raw.channel, raw.campaign>> \o u) \o <<PriorityString(raw)>> \in Seq(Words)
  BY <1>9, <1>10, ConcatProperties
<1> QED BY <1>1, <1>9, <1>10, <1>11 DEF Fields, u, t

(* Equal lists of fields have equal fields. *)
LEMMA FieldsApart ==
    ASSUME NEW r, Typed(r), NulFree(r), NEW s, Typed(s), NulFree(s), Fields(r) = Fields(s)
    PROVE  /\ r.channel = s.channel /\ r.campaign = s.campaign
           /\ PriorityString(r) = PriorityString(s) /\ Sorted(r.tags) = Sorted(s.tags)
<1> DEFINE A(x) == <<x.channel, x.campaign>>
           B(x) == Sorted(x.tags)
           C(x) == PriorityString(x)
<1>1. ASSUME NEW x, Typed(x), NulFree(x)
      PROVE  /\ A(x) \in Seq(Words) /\ B(x) \in Seq(Words) /\ C(x) \in Words
             /\ Fields(x) = (A(x) \o B(x)) \o <<C(x)>>
             /\ Len(A(x)) = 2 /\ A(x)[1] = x.channel /\ A(x)[2] = x.campaign
  BY <1>1, FieldsTyped DEF Fields
<1>2. /\ A(r) \in Seq(Words) /\ B(r) \in Seq(Words) /\ C(r) \in Words
      /\ A(s) \in Seq(Words) /\ B(s) \in Seq(Words) /\ C(s) \in Words
      /\ (A(r) \o B(r)) \o <<C(r)>> = (A(s) \o B(s)) \o <<C(s)>>
      /\ Len(A(r)) = 2 /\ A(r)[1] = r.channel /\ A(r)[2] = r.campaign
      /\ Len(A(s)) = 2 /\ A(s)[1] = s.channel /\ A(s)[2] = s.campaign
  BY <1>1
<1> HIDE DEF A, B, C
<1>3. A(r) \o B(r) \in Seq(Words) /\ A(s) \o B(s) \in Seq(Words)
  BY <1>2, ConcatProperties
<1>4. A(r) \o B(r) = A(s) \o B(s) /\ C(r) = C(s)
  <2>1. /\ Append(A(r) \o B(r), C(r)) = (A(r) \o B(r)) \o <<C(r)>>
        /\ Append(A(s) \o B(s), C(s)) = (A(s) \o B(s)) \o <<C(s)>>
    BY <1>2, <1>3, AppendIsConcat
  <2>2. Append(A(r) \o B(r), C(r)) = Append(A(s) \o B(s), C(s))
    BY <1>2, <2>1
  <2>3. ASSUME NEW a \in Seq(Words), NEW b \in Seq(Words), NEW x \in Words, NEW y \in Words,
               Append(a, x) = Append(b, y)
        PROVE  a = b /\ x = y
    BY <2>3, AppendInjective
  <2> DEFINE a == A(r) \o B(r)  b == A(s) \o B(s)
  <2>4. a \in Seq(Words) /\ b \in Seq(Words) /\ Append(a, C(r)) = Append(b, C(s))
    BY <1>3, <2>2
  <2> HIDE DEF a, b
  <2>5. a = b /\ C(r) = C(s)
    BY <1>2, <2>3, <2>4
  <2> QED BY <2>5 DEF a, b
<1>5. ASSUME NEW a \in Seq(Words), NEW b \in Seq(Words), Len(a) = 2
      PROVE  (a \o b)[1] = a[1] /\ (a \o b)[2] = a[2]
  <2>1. Len(b) \in Nat
    BY LenProperties
  <2>2. 1 \in 1..(Len(a) + Len(b)) /\ 2 \in 1..(Len(a) + Len(b)) /\ 1 <= Len(a) /\ 2 <= Len(a)
    BY <1>5, <2>1
  <2> QED BY <2>2, ConcatProperties
<1>6. A(r)[1] = A(s)[1] /\ A(r)[2] = A(s)[2]
  <2>1. (A(r) \o B(r))[1] = A(r)[1] /\ (A(r) \o B(r))[2] = A(r)[2]
    BY <1>2, <1>5
  <2>2. (A(s) \o B(s))[1] = A(s)[1] /\ (A(s) \o B(s))[2] = A(s)[2]
    BY <1>2, <1>5
  <2> QED BY <1>4, <2>1, <2>2
<1>7. A(r) = A(s)
  BY <1>2, <1>6 DEF A
<1>8. B(r) = B(s)
  BY <1>2, <1>4, <1>7, ConcatSimplifications
<1> QED BY <1>2, <1>4, <1>6, <1>8 DEF B, C

(* What is hashed tells everything but the order of the tags. *)
LEMMA CanonicalApart ==
    ASSUME NEW r \in Raws, NulFree(r), NEW s \in Raws, NulFree(s),
           Canonical(r) = Canonical(s)
    PROVE  /\ r.channel = s.channel /\ r.campaign = s.campaign /\ r.metadata = s.metadata
           /\ PriorityString(r) = PriorityString(s) /\ Permuted(r.tags, s.tags)
<1>1. Typed(r) /\ Typed(s)
  BY RawTyped
<1>2. /\ Fields(r) \in Seq(Words) /\ r.metadata \in Words
      /\ Fields(s) \in Seq(Words) /\ s.metadata \in Words
  BY <1>1, FieldsTyped
<1>3. Terminated(Fields(r)) \o r.metadata = Terminated(Fields(s)) \o s.metadata
  BY DEF Canonical, Fields
<1>4. Terminated(Fields(r)) = Terminated(Fields(s)) /\ r.metadata = s.metadata
  <2>1. /\ Terminated(Fields(r)) \in Text /\ Ended(Terminated(Fields(r)))
        /\ Terminated(Fields(s)) \in Text /\ Ended(Terminated(Fields(s)))
    BY <1>2, TerminatedEnds
  <2> DEFINE a == Terminated(Fields(r))  b == Terminated(Fields(s))
             m == r.metadata  n == s.metadata
  <2>2. a \in Text /\ b \in Text /\ m \in Words /\ n \in Words
    BY <1>2, <2>1
  <2>3. Ended(a) /\ Ended(b) /\ a \o m = b \o n
    BY <1>3, <2>1
  <2> HIDE DEF a, b, m, n
  <2>4. a = b /\ m = n
    BY <2>2, <2>3, LastApart
  <2> QED BY <2>4 DEF a, b, m, n
<1>5. Fields(r) = Fields(s)
  BY <1>2, <1>4, TerminatedInjective
<1>6. /\ r.channel = s.channel /\ r.campaign = s.campaign
      /\ PriorityString(r) = PriorityString(s) /\ Sorted(r.tags) = Sorted(s.tags)
  BY <1>1, <1>5, FieldsApart
<1>7. Permuted(r.tags, s.tags)
  <2>1. Permuted(Sorted(r.tags), r.tags) /\ Permuted(Sorted(s.tags), s.tags)
    BY <1>1, SortedIs DEF Typed
  <2>2. Permuted(r.tags, Sorted(r.tags))
    BY <2>1, PermutedSymmetric
  <2> QED BY <1>6, <2>1, <2>2, PermutedTransitive
<1> QED BY <1>4, <1>6, <1>7

(* And nothing of the order of the tags. *)
LEMMA CanonicalShared ==
    ASSUME NEW r \in Raws, NEW s \in Raws, SameOccurrence(r, s)
    PROVE  Canonical(r) = Canonical(s)
<1>1. r.tags \in Seq(Text) /\ s.tags \in Seq(Text)
  BY RawTyped DEF Typed
<1>2. Sorted(r.tags) = Sorted(s.tags)
  BY <1>1, SortedOnce DEF SameOccurrence
<1> QED BY <1>2 DEF SameOccurrence, Canonical

(* Where the keys come from. *)
KeyInv == \A a \in accepted : a.raw \in Raws /\ a.event = ToEvent(a.raw)

(* The event that is stored is the one that ToEvent made of what was sent. *)
THEOREM KeyInvariance == Spec => []KeyInv
<1>1. Init => KeyInv
  BY DEF Init, KeyInv
<1>2. KeyInv /\ [Next]_vars => KeyInv'
  <2> SUFFICES ASSUME KeyInv, [Next]_vars PROVE KeyInv'
    OBVIOUS
  <2>1. CASE Tick
    BY <2>1 DEF Tick, KeyInv, ToEvent, Canonical, NormalizeTimestamp
  <2>2. ASSUME NEW raw \in Raws, Accept(raw) PROVE KeyInv'
    BY <2>2 DEF Accept, KeyInv
  <2>3. CASE UNCHANGED vars
    BY <2>3 DEF vars, KeyInv
  <2> QED BY <2>1, <2>2, <2>3 DEF Next
<1> QED BY <1>1, <1>2, PTL DEF Spec

(* A retry gets the key of the event it repeats, however long its fields   *)
(* and however many its tags.                                              *)
THEOREM RetriesHold == Spec => []RetriesShareAKey
<1>1. WindowInv /\ KeyInv => RetriesShareAKey
  <2> SUFFICES ASSUME WindowInv, KeyInv, NEW a \in accepted, NEW b \in accepted,
                      SameOccurrence(a.raw, b.raw)
               PROVE  a.event = b.event
    BY DEF RetriesShareAKey
  <2>1. a.raw \in Raws /\ b.raw \in Raws /\ a.event = ToEvent(a.raw) /\ b.event = ToEvent(b.raw)
    BY DEF KeyInv
  <2>2. Canonical(a.raw) = Canonical(b.raw)
    BY <2>1, CanonicalShared
  <2>3. NormalizeTimestamp(a.raw.timestamp) = NormalizeTimestamp(b.raw.timestamp)
    BY <2>1 DEF WindowInv, StoredWithinWindow, SameOccurrence, ToEvent
  <2> QED BY <2>1, <2>2, <2>3 DEF ToEvent
<1> QED BY <1>1, WindowInvariance, KeyInvariance, PTL

(* Two occurrences never share a key, if no string of theirs holds a byte  *)
(* 0 and no two inputs have one hash.                                      *)
THEOREM OccurrencesHold == Spec => []OccurrencesKeptApart
<1>1. WindowInv /\ KeyInv => OccurrencesKeptApart
  <2> SUFFICES ASSUME WindowInv, KeyInv, NEW a \in accepted, NEW b \in accepted,
                      NulFree(a.raw), NulFree(b.raw), a.event = b.event
               PROVE  SameOccurrence(a.raw, b.raw)
    BY DEF OccurrencesKeptApart
  <2>1. a.raw \in Raws /\ b.raw \in Raws /\ a.event = ToEvent(a.raw) /\ b.event = ToEvent(b.raw)
    BY DEF KeyInv
  <2>2. Canonical(a.raw) = Canonical(b.raw)
    <3>1. \A raw : ToEvent(raw).payloadHash = Canonical(raw)
      BY DEF ToEvent
    <3>2. ToEvent(a.raw) = ToEvent(b.raw)
      BY <2>1
    <3> QED BY <3>1, <3>2
  <2>3. Moment(a.raw.timestamp) = Moment(b.raw.timestamp)
    BY DEF WindowInv, StoredWithinWindow
  <2> QED BY <2>1, <2>2, <2>3, CanonicalApart DEF SameOccurrence
<1> QED BY <1>1, WindowInvariance, KeyInvariance, PTL
=============================================================================
