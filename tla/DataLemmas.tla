---------------------------- MODULE DataLemmas ----------------------------
(***************************************************************************)
(* Facts about sequences and sums that the proofs need, for data of every  *)
(* size.  The library's induction theorems take a predicate; these are     *)
(* proved by induction on a set of numbers, which the provers can use.     *)
(***************************************************************************)
EXTENDS SequencesExt, SequenceTheorems, FiniteSetTheorems, TLAPS

(* A set that holds 0 and every successor of a member holds all naturals.  *)
LEMMA NatSetInduction ==
    ASSUME NEW T, 0 \in T, \A n \in Nat : n \in T => n + 1 \in T
    PROVE  Nat \subseteq T
<1> DEFINE R == OpToRel(<, Nat)
<1>1. IsWellFoundedOn(R, Nat)
  BY NatLessThanWellFounded
<1>2. \A x, y \in Nat : x < y => <<x, y>> \in R
  BY DEF OpToRel
<1> HIDE DEF R
<1> SUFFICES ASSUME Nat \ T # {} PROVE FALSE
  OBVIOUS
<1>3. PICK x \in Nat \ T : \A y \in Nat \ T : ~(<<y, x>> \in R)
  BY <1>1, WFMin
<1>4. x # 0 /\ x - 1 \in Nat /\ x - 1 < x
  BY <1>3
<1>5. x - 1 \in T
  BY <1>2, <1>3, <1>4
<1> QED BY <1>3, <1>4, <1>5

(* A set of numbers has a least one. *)
LEMMA LeastNumber ==
    ASSUME NEW S, S \subseteq Nat, S # {}
    PROVE  \E m \in S : \A x \in S : m <= x
<1> DEFINE R == OpToRel(<, Nat)
<1>1. IsWellFoundedOn(R, Nat)
  BY NatLessThanWellFounded
<1>2. \A x, y \in Nat : x < y => <<x, y>> \in R
  BY DEF OpToRel
<1> HIDE DEF R
<1>3. PICK m \in S : \A x \in S : ~(<<x, m>> \in R)
  BY <1>1, WFMin
<1>4. ASSUME NEW x \in S PROVE m <= x
  <2>1. x \in Nat /\ m \in Nat
    OBVIOUS
  <2>2. ~(x < m)
    BY <1>2, <1>3, <2>1
  <2> QED BY <2>1, <2>2
<1> QED BY <1>4

(* Applied n times to b, step gives f[n]. *)
Iterates(b, step, f) == f = [n \in Nat |-> IF n = 0 THEN b ELSE step[f[n - 1]]]

(* What is defined by recursion over the numbers exists. *)
LEMMA IteratesExists ==
    ASSUME NEW S, NEW b \in S, NEW step, \A x \in S : step[x] \in S
    PROVE  \E f : Iterates(b, step, f)
<1> DEFINE Good(n, f) == /\ f \in [Nat -> S] /\ f[0] = b
                         /\ \A i \in Nat : i < n => f[i + 1] = step[f[i]]
           P(n) == \E f : Good(n, f)
           T == {n \in Nat : P(n)}
<1>1. P(0)
  <2>1. Good(0, [i \in Nat |-> b])
    OBVIOUS
  <2> QED BY <2>1
<1>2. ASSUME NEW n \in Nat, P(n) PROVE P(n + 1)
  <2>1. PICK f : Good(n, f)
    BY <1>2
  <2> DEFINE g == [i \in Nat |-> IF i = n + 1 THEN step[f[n]] ELSE f[i]]
  <2>2. Good(n + 1, g)
    BY <2>1
  <2> HIDE DEF g, Good
  <2> QED BY <2>2
<1> HIDE DEF P
<1>3. 0 \in T /\ \A n \in Nat : n \in T => n + 1 \in T
  BY <1>1, <1>2
<1> HIDE DEF T
<1>4. Nat \subseteq T
  BY <1>3, NatSetInduction
<1>5. \A n \in Nat : \E f : Good(n, f)
  BY <1>4 DEF T, P
<1>6. ASSUME NEW n \in Nat, NEW f, NEW g, Good(n, f), Good(n + 1, g)
      PROVE  f[n] = g[n]
  <2> DEFINE Q(i) == i <= n => f[i] = g[i]
             U == {i \in Nat : Q(i)}
  <2>1. Q(0)
    BY <1>6
  <2>2. ASSUME NEW i \in Nat, Q(i) PROVE Q(i + 1)
    BY <1>6, <2>2
  <2> HIDE DEF Q
  <2>3. 0 \in U /\ \A i \in Nat : i \in U => i + 1 \in U
    BY <2>1, <2>2
  <2> HIDE DEF U
  <2>4. n \in U
    BY <2>3, NatSetInduction
  <2> QED BY <2>4 DEF U, Q
<1> DEFINE F(n) == CHOOSE f : Good(n, f)
           h == [n \in Nat |-> F(n)[n]]
<1>7. \A n \in Nat : Good(n, F(n))
  <2> HIDE DEF Good
  <2> QED BY <1>5
<1> HIDE DEF F
<1>8. h \in [Nat -> S] /\ h[0] = b
  BY <1>7
<1>9. ASSUME NEW n \in Nat PROVE h[n + 1] = step[h[n]]
  <2>1. F(n)[n] = F(n + 1)[n]
    <3> HIDE DEF Good
    <3> QED BY <1>6, <1>7
  <2>2. F(n + 1)[n + 1] = step[F(n + 1)[n]]
    BY <1>7
  <2> QED BY <2>1, <2>2
<1> HIDE DEF h, Good
<1>10. h = [n \in Nat |-> IF n = 0 THEN b ELSE step[h[n - 1]]]
  <2>1. ASSUME NEW n \in Nat PROVE h[n] = IF n = 0 THEN b ELSE step[h[n - 1]]
    <3>1. CASE n = 0
      BY <1>8, <3>1
    <3>2. CASE n # 0
      <4>1. n - 1 \in Nat /\ (n - 1) + 1 = n
        BY <3>2
      <4> QED BY <1>9, <3>2, <4>1
    <3> QED BY <3>1, <3>2
  <2> QED BY <1>8, <2>1
<1> QED BY <1>10 DEF Iterates

(* Induction over sequences, built by appending.                           *)
LEMMA SeqSetInduction ==
    ASSUME NEW S, NEW T, <<>> \in T, \A s \in Seq(S), e \in S : s \in T => Append(s, e) \in T
    PROVE  Seq(S) \subseteq T
<1> DEFINE P(n) == \A s \in Seq(S) : Len(s) = n => s \in T
           N == {n \in Nat : P(n)}
<1>1. P(0)
  BY EmptySeq
<1>2. ASSUME NEW n \in Nat, P(n), NEW s \in Seq(S), Len(s) = n + 1
      PROVE  s \in T
  <2>1. s # <<>>
    BY <1>2, EmptySeq
  <2>2. PICK r \in Seq(S), e \in S : s = Append(r, e)
    BY <2>1, SequenceEmptyOrAppend
  <2>3. Len(r) = n
    BY <1>2, <2>2, AppendProperties, LenProperties
  <2> QED BY <1>2, <2>2, <2>3
<1>3. \A n \in Nat : P(n) => P(n + 1)
  BY <1>2
<1> HIDE DEF P
<1>4. 0 \in N /\ \A n \in Nat : n \in N => n + 1 \in N
  BY <1>1, <1>3
<1> HIDE DEF N
<1>5. Nat \subseteq N
  BY <1>4, NatSetInduction
<1> QED BY <1>5, LenProperties DEF N, P

(* And for the subsets of a finite set, taking the element that a fold     *)
(* takes.                                                                  *)
LEMMA SubsetInduction ==
    ASSUME NEW S, IsFiniteSet(S), NEW T, {} \in T,
           \A A \in SUBSET S : A # {} /\ A \ {CHOOSE x \in A : TRUE} \in T => A \in T
    PROVE  SUBSET S \subseteq T
<1> DEFINE R == StrictSubsetOrdering(S)
<1>1. IsWellFoundedOn(R, SUBSET S)
  BY FS_StrictSubsetOrderingWellFounded, FS_FiniteSubsetsOfFinite
<1>2. \A A, B \in SUBSET S : A \subseteq B /\ A # B => <<A, B>> \in R
  BY DEF StrictSubsetOrdering
<1> HIDE DEF R
<1> SUFFICES ASSUME (SUBSET S) \ T # {} PROVE FALSE
  OBVIOUS
<1> DEFINE U == (SUBSET S) \ T
<1>3. PICK A \in U : \A B \in U : ~(<<B, A>> \in R)
  <2>1. U \subseteq SUBSET S /\ U # {}
    OBVIOUS
  <2> HIDE DEF U
  <2> QED BY <1>1, <2>1, WFMin
<1>4. A # {} /\ (CHOOSE x \in A : TRUE) \in A
  <2>1. A # {}
    BY <1>3
  <2>2. \E x \in A : TRUE
    BY <2>1
  <2> QED BY <2>1, <2>2
<1> DEFINE B == A \ {CHOOSE x \in A : TRUE}
<1>5. B \in SUBSET S /\ B \subseteq A /\ B # A
  BY <1>4
<1> HIDE DEF B
<1>6. B \in T
  BY <1>2, <1>3, <1>5
<1> QED BY <1>3, <1>4, <1>6 DEF B

-----------------------------------------------------------------------------
(* FlattenSeq.                                                             *)

(* What FlattenSeq computes for the first i sequences of s.                *)
Flattens(s, f) ==
    f = [i \in 1..Len(s) |-> IF i = 1 THEN s[i] ELSE f[i - 1] \o s[i]]

(* The equation, an index at a time. *)
LEMMA FlattensStep ==
    ASSUME NEW s, NEW f, Flattens(s, f), NEW i \in 1..Len(s)
    PROVE  f[i] = IF i = 1 THEN s[i] ELSE f[i - 1] \o s[i]
BY DEF Flattens

(* At most one function satisfies it. *)
LEMMA FlattensUnique ==
    ASSUME NEW S, NEW s \in Seq(Seq(S)), NEW f, NEW g, Flattens(s, f), Flattens(s, g)
    PROVE  f = g
<1> DEFINE P(n) == n \in 1..Len(s) => f[n] = g[n]
           T == {n \in Nat : P(n)}
<1>1. P(0)
  OBVIOUS
<1>2. ASSUME NEW n \in Nat, P(n) PROVE P(n + 1)
  <2> SUFFICES ASSUME n + 1 \in 1..Len(s) PROVE f[n + 1] = g[n + 1]
    OBVIOUS
  <2>4. f[n + 1] = IF n + 1 = 1 THEN s[n + 1] ELSE f[(n + 1) - 1] \o s[n + 1]
    BY FlattensStep
  <2>3. g[n + 1] = IF n + 1 = 1 THEN s[n + 1] ELSE g[(n + 1) - 1] \o s[n + 1]
    BY FlattensStep
  <2>1. CASE n = 0
    BY <2>4, <2>3, <2>1
  <2>2. CASE n # 0
    <3>1. f[n] = g[n] /\ (n + 1) - 1 = n
      BY <1>2, <2>2, LenProperties
    <3> QED BY <2>4, <2>3, <3>1
  <2> QED BY <2>1, <2>2
<1>3. \A n \in Nat : P(n)
  <2> HIDE DEF P
  <2>1. 0 \in T /\ \A n \in Nat : n \in T => n + 1 \in T
    BY <1>1, <1>2
  <2> HIDE DEF T
  <2>2. Nat \subseteq T
    BY <2>1, NatSetInduction
  <2> QED BY <2>2 DEF T
<1>4. \A n \in 1..Len(s) : f[n] = g[n]
  BY <1>3
<1> QED BY <1>4 DEF Flattens

(* One does, and its values are sequences. *)
LEMMA FlattensExists ==
    ASSUME NEW S, NEW s \in Seq(Seq(S))
    PROVE  \E f \in [1..Len(s) -> Seq(S)] : Flattens(s, f)
<1> DEFINE Val(f, i) == IF i = 1 THEN s[i] ELSE f[i - 1] \o s[i]
           Good(n, f) == f \in [1..n -> Seq(S)] /\ \A i \in 1..n : f[i] = Val(f, i)
           P(n) == n <= Len(s) => \E f : Good(n, f)
           T == {n \in Nat : P(n)}
<1>1. P(0)
  <2>1. Good(0, [i \in 1..0 |-> <<>>])
    OBVIOUS
  <2> QED BY <2>1
<1>2. ASSUME NEW n \in Nat, P(n), n + 1 <= Len(s)
      PROVE  \E f : Good(n + 1, f)
  <2>1. PICK f : Good(n, f)
    BY <1>2
  <2> DEFINE g == [i \in 1..(n + 1) |-> IF i <= n THEN f[i] ELSE Val(f, i)]
  <2>2. Val(f, n + 1) \in Seq(S)
    <3>1. s[n + 1] \in Seq(S)
      BY <1>2
    <3>2. CASE n = 0
      BY <3>1, <3>2
    <3>3. CASE n # 0
      <4>1. f[n] \in Seq(S) /\ (n + 1) - 1 = n /\ n + 1 # 1
        BY <2>1, <3>3
      <4> QED BY <3>1, <4>1, ConcatProperties
    <3> QED BY <3>2, <3>3
  <2>3. g \in [1..(n + 1) -> Seq(S)]
    BY <2>1, <2>2
  <2>4. ASSUME NEW i \in 1..(n + 1) PROVE g[i] = Val(g, i)
    <3>1. ASSUME i # 1 PROVE g[i - 1] = f[i - 1]
      <4>1. i - 1 \in 1..(n + 1) /\ i - 1 <= n
        BY <3>1
      <4> QED BY <4>1
    <3>2. Val(g, i) = Val(f, i)
      BY <3>1
    <3>3. g[i] = Val(f, i)
      <4>1. CASE i <= n
        <5>1. i \in 1..n /\ g[i] = f[i]
          BY <4>1
        <5> QED BY <2>1, <5>1
      <4>2. CASE ~(i <= n)
        BY <4>2
      <4> QED BY <4>1, <4>2
    <3> QED BY <3>2, <3>3
  <2>5. Good(n + 1, g)
    BY <2>3, <2>4
  <2> QED BY <2>5
<1>3. \A n \in Nat : P(n)
  <2>1. \A n \in Nat : P(n) => P(n + 1)
    BY <1>2
  <2> HIDE DEF P
  <2>2. 0 \in T /\ \A n \in Nat : n \in T => n + 1 \in T
    BY <1>1, <2>1
  <2> HIDE DEF T
  <2>3. Nat \subseteq T
    BY <2>2, NatSetInduction
  <2> QED BY <2>3 DEF T
<1>4. Len(s) \in Nat /\ Len(s) <= Len(s)
  BY LenProperties
<1>5. PICK f : Good(Len(s), f)
  BY <1>3, <1>4
<1>6. Flattens(s, f)
  BY <1>5 DEF Flattens
<1> QED BY <1>5, <1>6

(* FlattenSeq is its last value. *)
LEMMA FlattenIs ==
    ASSUME NEW S, NEW s \in Seq(Seq(S)), s # <<>>, NEW f, Flattens(s, f)
    PROVE  /\ FlattenSeq(s) = f[Len(s)]
           /\ Len(s) \in 1..Len(s)
<1>1. ASSUME NEW g, g = [i \in 1..Len(s) |-> IF i = 1 THEN s[i] ELSE g[i - 1] \o s[i]]
      PROVE  g = f
  <2>1. Flattens(s, g)
    BY <1>1 DEF Flattens
  <2> QED BY <2>1, FlattensUnique
<1>2. f = [i \in 1..Len(s) |-> IF i = 1 THEN s[i] ELSE f[i - 1] \o s[i]]
  BY DEF Flattens
<1>3. Len(s) # 0 /\ Len(s) \in 1..Len(s)
  BY EmptySeq
<1> QED BY <1>1, <1>2, <1>3 DEF FlattenSeq

(* No sequence at all. *)
LEMMA FlattenEmpty == FlattenSeq(<<>>) = <<>>
  BY DEF FlattenSeq

(* A sequence of the same elements. *)
LEMMA FlattenType ==
    ASSUME NEW S, NEW s \in Seq(Seq(S))
    PROVE  FlattenSeq(s) \in Seq(S)
<1>1. CASE s = <<>>
  <2>1. FlattenSeq(s) = <<>> /\ <<>> \in Seq(S)
    BY <1>1, FlattenEmpty
  <2> QED BY <2>1
<1>2. CASE s # <<>>
  <2>1. PICK f \in [1..Len(s) -> Seq(S)] : Flattens(s, f)
    BY FlattensExists
  <2> QED BY <1>2, <2>1, FlattenIs
<1> QED BY <1>1, <1>2

(* One sequence more at the end. *)
LEMMA FlattenAppend ==
    ASSUME NEW S, NEW s \in Seq(Seq(S)), NEW x \in Seq(S)
    PROVE  FlattenSeq(Append(s, x)) = FlattenSeq(s) \o x
<1> DEFINE t == Append(s, x)
<1>1. /\ t \in Seq(Seq(S)) /\ Len(t) = Len(s) + 1 /\ t # <<>> /\ Len(s) \in Nat
      /\ t[Len(s) + 1] = x /\ \A i \in 1..Len(s) : t[i] = s[i]
  BY AppendProperties
<1>3. PICK g \in [1..Len(t) -> Seq(S)] : Flattens(t, g)
  BY <1>1, FlattensExists
<1> HIDE DEF t
<1>4. FlattenSeq(t) = g[Len(t)]
  BY <1>1, <1>3, FlattenIs
<1>5. CASE s = <<>>
  <2>1. Len(t) = 1 /\ t[1] = x
    BY <1>1, <1>5, EmptySeq
  <2>2. g[1] = x
    BY <1>3, <2>1, FlattensStep
  <2>3. FlattenSeq(s) \o x = x
    BY <1>5, FlattenEmpty, ConcatEmptySeq
  <2> QED BY <1>4, <2>1, <2>2, <2>3 DEF t
<1>6. CASE s # <<>>
  <2>1. Len(s) \in Nat \ {0} /\ Len(s) + 1 \in 1..Len(t)
    BY <1>1, <1>6, EmptySeq
  <2>2. g[Len(t)] = g[Len(s)] \o x
    <3>1. Len(t) # 1 /\ Len(t) - 1 = Len(s) /\ Len(t) \in 1..Len(t) /\ t[Len(t)] = x
      BY <1>1, <2>1
    <3>2. g[Len(t)] = IF Len(t) = 1 THEN t[Len(t)] ELSE g[Len(t) - 1] \o t[Len(t)]
      BY <1>3, <3>1, FlattensStep
    <3> QED BY <3>1, <3>2
  <2> DEFINE h == [i \in 1..Len(s) |-> g[i]]
  <2>3. Flattens(s, h)
    <3>1. ASSUME NEW i \in 1..Len(s)
          PROVE  h[i] = IF i = 1 THEN s[i] ELSE h[i - 1] \o s[i]
      <4>1. /\ i \in 1..Len(t) /\ t[i] = s[i]
            /\ i # 1 => i - 1 \in Nat \ {0} /\ i - 1 \in 1..Len(s) /\ (i - 1) + 1 = i
        BY <1>1
      <4>2. g[i] = IF i = 1 THEN t[i] ELSE g[i - 1] \o t[i]
        BY <1>3, <4>1 DEF Flattens
      <4> QED BY <4>1, <4>2
    <3>2. h = [i \in 1..Len(s) |-> IF i = 1 THEN s[i] ELSE h[i - 1] \o s[i]]
      BY <3>1
    <3> QED BY <3>2 DEF Flattens
  <2>4. FlattenSeq(s) = h[Len(s)] /\ h[Len(s)] = g[Len(s)]
    BY <1>6, <2>3, FlattenIs
  <2> QED BY <1>4, <2>2, <2>4 DEF t
<1> QED BY <1>5, <1>6

(* The first sequence comes first. *)
LEMMA FlattenHead ==
    ASSUME NEW S, NEW s \in Seq(Seq(S)), s # <<>>
    PROVE  FlattenSeq(s) = Head(s) \o FlattenSeq(Tail(s))
<1>7. \A u, v, w \in Seq(S) : (u \o v) \o w = u \o (v \o w)
  BY ConcatAssociative, SMTT(30)
<1> DEFINE t == Tail(s)
<1>1. /\ t \in Seq(Seq(S)) /\ Len(t) = Len(s) - 1 /\ Head(s) = s[1] /\ Head(s) \in Seq(S)
      /\ \A i \in 1..Len(t) : t[i] = s[i + 1]
      /\ Len(s) \in Nat \ {0}
  BY HeadTailProperties, EmptySeq
<1>2. PICK f \in [1..Len(s) -> Seq(S)] : Flattens(s, f)
  BY FlattensExists
<1>3. PICK g \in [1..Len(t) -> Seq(S)] : Flattens(t, g)
  BY <1>1, FlattensExists
<1> HIDE DEF t
<1>4. FlattenSeq(s) = f[Len(s)] /\ f[1] = Head(s)
  <2>1. 1 \in 1..Len(s)
    BY <1>1
  <2>2. f[1] = s[1]
    BY <1>2, <2>1, FlattensStep
  <2> QED BY <1>1, <1>2, <2>2, FlattenIs
<1>5. CASE t = <<>>
  <2>1. Len(s) = 1
    BY <1>1, <1>5, EmptySeq
  <2>2. Head(s) \o FlattenSeq(t) = Head(s)
    BY <1>1, <1>5, FlattenEmpty, ConcatEmptySeq
  <2> QED BY <1>4, <2>1, <2>2 DEF t
<1>6. CASE t # <<>>
  <2>1. FlattenSeq(t) = g[Len(t)] /\ Len(t) \in 1..Len(t)
    BY <1>1, <1>3, <1>6, FlattenIs
  <2> DEFINE P(n) == n \in 1..Len(t) => f[n + 1] = Head(s) \o g[n]
             T == {n \in Nat : P(n)}
  <2>2. P(0)
    OBVIOUS
  <2>3. ASSUME NEW n \in Nat, P(n), n + 1 \in 1..Len(t)
        PROVE  f[(n + 1) + 1] = Head(s) \o g[n + 1]
    <3> DEFINE m == n + 1
    <3>1. /\ m \in 1..Len(t) /\ m \in Nat \ {0} /\ m + 1 \in 1..Len(s) /\ m + 1 # 1
          /\ (m + 1) - 1 = m /\ m - 1 = n /\ s[m + 1] = t[m] /\ t[m] \in Seq(S)
      BY <1>1, <2>3, SMTT(30)
    <3>2. f[m + 1] = IF m + 1 = 1 THEN s[m + 1] ELSE f[(m + 1) - 1] \o s[m + 1]
      BY <1>2, <3>1, FlattensStep
    <3>3. g[m] = IF m = 1 THEN t[m] ELSE g[m - 1] \o t[m]
      BY <1>3, <3>1, FlattensStep
    <3>6. n = 0 <=> m = 1
      OBVIOUS
    <3> SUFFICES f[m + 1] = Head(s) \o g[m]
      OBVIOUS
    <3> HIDE DEF m
    <3>4. CASE n = 0
      <4>1. m = 1
        BY <3>4, <3>6
      <4>2. f[m] = Head(s) /\ g[m] = t[m]
        BY <1>4, <3>3, <4>1
      <4> QED BY <3>1, <3>2, <4>2
    <3>5. CASE n # 0
      <4>1. n \in 1..Len(t) /\ m # 1
        BY <3>1, <3>5, <3>6
      <4>2. f[m] = Head(s) \o g[n] /\ g[n] \in Seq(S)
        BY <2>3, <4>1 DEF m
      <4>3. f[m + 1] = (Head(s) \o g[n]) \o t[m] /\ g[m] = g[n] \o t[m]
        BY <3>1, <3>2, <3>3, <4>1, <4>2
      <4>4. (Head(s) \o g[n]) \o t[m] = Head(s) \o (g[n] \o t[m])
        <5>1. Head(s) \in Seq(S) /\ g[n] \in Seq(S) /\ t[m] \in Seq(S)
          BY <1>1, <3>1, <4>2
        <5> QED BY <5>1, <1>7
      <4> QED BY <4>3, <4>4
    <3> QED BY <3>4, <3>5
  <2>4. \A n \in Nat : P(n)
    <3>1. \A n \in Nat : P(n) => P(n + 1)
      BY <2>3
    <3> HIDE DEF P
    <3>2. 0 \in T /\ \A n \in Nat : n \in T => n + 1 \in T
      BY <2>2, <3>1
    <3> HIDE DEF T
    <3>3. Nat \subseteq T
      BY <3>2, NatSetInduction
    <3> QED BY <3>3 DEF T
  <2>5. f[Len(t) + 1] = Head(s) \o g[Len(t)]
    <3>1. Len(t) \in Nat
      BY <1>1
    <3> QED BY <2>1, <2>4, <3>1
  <2>6. Len(t) + 1 = Len(s)
    BY <1>1
  <2> QED BY <1>4, <2>1, <2>5, <2>6 DEF t
<1> QED BY <1>5, <1>6

(* What appending adds to the range. *)
LEMMA RangeAppend ==
    ASSUME NEW U, NEW s \in Seq(U), NEW x \in U
    PROVE  /\ Append(s, x) \in Seq(U) /\ Len(Append(s, x)) = Len(s) + 1
           /\ Range(Append(s, x)) = Range(s) \cup {x}
<1> DEFINE t == Append(s, x)
<1>1. /\ t \in Seq(U) /\ Len(t) = Len(s) + 1
      /\ Len(s) \in Nat /\ DOMAIN s = 1..Len(s) /\ DOMAIN t = 1..(Len(s) + 1)
      /\ t[Len(s) + 1] = x /\ \A i \in 1..Len(s) : t[i] = s[i]
  BY AppendProperties
<1>2. Range(t) = Range(s) \cup {x}
  BY <1>1 DEF Range
<1> QED BY <1>1, <1>2

(* Nothing is lost and nothing is added.                                   *)
LEMMA FlattenRange ==
    ASSUME NEW S, NEW s \in Seq(Seq(S))
    PROVE  Range(FlattenSeq(s)) = UNION {Range(b) : b \in Range(s)}
<1> DEFINE All(t) == UNION {Range(b) : b \in Range(t)}
           T == {t \in Seq(Seq(S)) : Range(FlattenSeq(t)) = All(t)}
<1>1. <<>> \in T
  BY FlattenEmpty, EmptySeq DEF Range
<1>2. ASSUME NEW t \in Seq(Seq(S)), NEW b \in Seq(S), t \in T
      PROVE  Append(t, b) \in T
  <2>1. Append(t, b) \in Seq(Seq(S)) /\ Range(Append(t, b)) = Range(t) \cup {b}
    BY RangeAppend
  <2>2. FlattenSeq(t) \in Seq(S) /\ FlattenSeq(Append(t, b)) = FlattenSeq(t) \o b
    BY FlattenType, FlattenAppend
  <2>3. Range(FlattenSeq(t) \o b) = Range(FlattenSeq(t)) \cup Range(b)
    BY <2>2, RangeConcatenation
  <2>4. All(Append(t, b)) = All(t) \cup Range(b)
    BY <2>1
  <2>5. Range(FlattenSeq(t)) = All(t)
    BY <1>2
  <2> HIDE DEF All
  <2> QED BY <2>1, <2>2, <2>3, <2>4, <2>5
<1>3. \A t \in Seq(Seq(S)), b \in Seq(S) : t \in T => Append(t, b) \in T
  BY <1>2
<1>4. s \in T
  <2> HIDE DEF T
  <2> QED BY <1>1, <1>3, SeqSetInduction
<1> QED BY <1>4

(* Sequences of at most B elements make one of at most B times as many.    *)
LEMMA FlattenLen ==
    ASSUME NEW S, NEW s \in Seq(Seq(S)), NEW B \in Nat, \A b \in Range(s) : Len(b) <= B
    PROVE  Len(FlattenSeq(s)) <= B * Len(s)
<1> DEFINE T == {t \in Seq(Seq(S)) :
                   (\A b \in Range(t) : Len(b) <= B) => Len(FlattenSeq(t)) <= B * Len(t)}
<1>1. <<>> \in T
  BY FlattenEmpty, EmptySeq DEF Range
<1>2. ASSUME NEW t \in Seq(Seq(S)), NEW b \in Seq(S), t \in T,
             \A c \in Range(Append(t, b)) : Len(c) <= B
      PROVE  Len(FlattenSeq(Append(t, b))) <= B * Len(Append(t, b))
  <2>1. Range(Append(t, b)) = Range(t) \cup {b} /\ Len(Append(t, b)) = Len(t) + 1
    BY RangeAppend
  <2>2. Len(b) <= B /\ Len(FlattenSeq(t)) <= B * Len(t)
    BY <1>2, <2>1
  <2>3. FlattenSeq(t) \in Seq(S) /\ FlattenSeq(Append(t, b)) = FlattenSeq(t) \o b
    BY FlattenType, FlattenAppend
  <2>4. /\ Len(FlattenSeq(t) \o b) = Len(FlattenSeq(t)) + Len(b)
        /\ Len(FlattenSeq(t)) \in Nat /\ Len(b) \in Nat /\ Len(t) \in Nat
    BY <2>3, ConcatProperties, LenProperties
  <2>5. B * (Len(t) + 1) = B * Len(t) + B /\ B * Len(t) \in Nat
    BY <2>4
  <2> QED BY <2>1, <2>2, <2>3, <2>4, <2>5
<1>3. \A t \in Seq(Seq(S)), b \in Seq(S) : t \in T => Append(t, b) \in T
  BY <1>2, AppendProperties
<1>4. s \in T
  <2> HIDE DEF T
  <2> QED BY <1>1, <1>3, SeqSetInduction
<1> QED BY <1>4

-----------------------------------------------------------------------------
(* IsSuffix.                                                               *)

(* An index at a time, counted from the end. *)
LEMMA SuffixAt ==
    ASSUME NEW S, NEW s \in Seq(S), NEW t \in Seq(S)
    PROVE  IsSuffix(s, t) <=> /\ Len(s) <= Len(t)
                              /\ \A i \in 1..Len(s) : s[i] = t[i + (Len(t) - Len(s))]
<1> DEFINE r == Reverse(s)  q == Reverse(t)
<1>1. /\ Len(s) \in Nat /\ Len(t) \in Nat
      /\ \A i \in 1..Len(s) : s[(Len(s) - i) + 1] \in S
      /\ \A i \in 1..Len(t) : t[(Len(t) - i) + 1] \in S
  BY LenProperties
<1>2. /\ r \in Seq(S) /\ Len(r) = Len(s) /\ \A i \in 1..Len(s) : r[i] = s[(Len(s) - i) + 1]
      /\ q \in Seq(S) /\ Len(q) = Len(t) /\ \A i \in 1..Len(t) : q[i] = t[(Len(t) - i) + 1]
  BY <1>1 DEF Reverse
<1> HIDE DEF r, q
<1>3. CASE ~(Len(s) <= Len(t))
  BY <1>2, <1>3 DEF IsSuffix, IsPrefix, r, q
<1>4. CASE Len(s) <= Len(t)
  <2>1. /\ SubSeq(r, 1, Len(r)) \in Seq(S) /\ SubSeq(q, 1, Len(r)) \in Seq(S)
        /\ Len(SubSeq(r, 1, Len(r))) = Len(s) /\ Len(SubSeq(q, 1, Len(r))) = Len(s)
        /\ \A i \in 1..Len(s) : /\ SubSeq(r, 1, Len(r))[i] = r[i]
                                /\ SubSeq(q, 1, Len(r))[i] = q[i]
    <3>1. /\ 1 \in Int /\ Len(r) \in Int /\ \A i \in 1..Len(r) : r[i] \in S /\ q[i] \in S
          /\ 1..(Len(r) - 1 + 1) = 1..Len(s)
      BY <1>1, <1>2, <1>4
    <3>2. \A i \in 1..Len(s) : 1 + i - 1 = i
      BY <1>1
    <3>3. /\ SubSeq(r, 1, Len(r)) \in Seq(S)
          /\ Len(SubSeq(r, 1, Len(r))) = IF 1 <= Len(r) THEN Len(r) - 1 + 1 ELSE 0
          /\ \A i \in 1..(Len(r) - 1 + 1) : SubSeq(r, 1, Len(r))[i] = r[1 + i - 1]
      BY <3>1, SubSeqProperties
    <3>4. /\ SubSeq(q, 1, Len(r)) \in Seq(S)
          /\ Len(SubSeq(q, 1, Len(r))) = IF 1 <= Len(r) THEN Len(r) - 1 + 1 ELSE 0
          /\ \A i \in 1..(Len(r) - 1 + 1) : SubSeq(q, 1, Len(r))[i] = q[1 + i - 1]
      BY <3>1, SubSeqProperties
    <3> QED BY <1>1, <1>2, <3>1, <3>2, <3>3, <3>4
  <2>2. SubSeq(r, 1, Len(r)) = SubSeq(q, 1, Len(r)) <=> \A i \in 1..Len(s) : r[i] = q[i]
    BY <2>1, SeqEqual
  <2>3. (\A i \in 1..Len(s) : r[i] = q[i])
          <=> \A i \in 1..Len(s) : s[(Len(s) - i) + 1] = t[(Len(t) - i) + 1]
    <3>1. ASSUME NEW i \in 1..Len(s)
          PROVE  r[i] = s[(Len(s) - i) + 1] /\ q[i] = t[(Len(t) - i) + 1]
      <4>1. i \in 1..Len(t)
        BY <1>1, <1>4
      <4> QED BY <1>2, <4>1
    <3>2. ASSUME \A i \in 1..Len(s) : r[i] = q[i], NEW i \in 1..Len(s)
          PROVE  s[(Len(s) - i) + 1] = t[(Len(t) - i) + 1]
      BY <3>1, <3>2
    <3>3. ASSUME \A i \in 1..Len(s) : s[(Len(s) - i) + 1] = t[(Len(t) - i) + 1],
                 NEW i \in 1..Len(s)
          PROVE  r[i] = q[i]
      <4>1. s[(Len(s) - i) + 1] = t[(Len(t) - i) + 1]
        BY <3>3
      <4> QED BY <3>1, <4>1
    <3> QED BY <3>2, <3>3
  <2>4. (\A i \in 1..Len(s) : s[(Len(s) - i) + 1] = t[(Len(t) - i) + 1])
          <=> \A i \in 1..Len(s) : s[i] = t[i + (Len(t) - Len(s))]
    <3>1. ASSUME NEW i \in 1..Len(s)
          PROVE  /\ (Len(s) - i) + 1 \in 1..Len(s)
                 /\ (Len(s) - ((Len(s) - i) + 1)) + 1 = i
                 /\ (Len(t) - ((Len(s) - i) + 1)) + 1 = i + (Len(t) - Len(s))
                 /\ ((Len(s) - i) + 1) + (Len(t) - Len(s)) = (Len(t) - i) + 1
      BY <1>1
    <3>2. ASSUME \A i \in 1..Len(s) : s[(Len(s) - i) + 1] = t[(Len(t) - i) + 1],
                 NEW i \in 1..Len(s)
          PROVE  s[i] = t[i + (Len(t) - Len(s))]
      <4>1. s[(Len(s) - ((Len(s) - i) + 1)) + 1] = t[(Len(t) - ((Len(s) - i) + 1)) + 1]
        BY <3>1, <3>2
      <4> QED BY <3>1, <4>1
    <3>3. ASSUME \A i \in 1..Len(s) : s[i] = t[i + (Len(t) - Len(s))],
                 NEW i \in 1..Len(s)
          PROVE  s[(Len(s) - i) + 1] = t[(Len(t) - i) + 1]
      <4>1. s[(Len(s) - i) + 1] = t[((Len(s) - i) + 1) + (Len(t) - Len(s))]
        BY <3>1, <3>3
      <4> QED BY <3>1, <4>1
    <3> QED BY <3>2, <3>3
  <2> QED BY <1>2, <1>4, <2>2, <2>3, <2>4 DEF IsSuffix, IsPrefix, r, q
<1> QED BY <1>3, <1>4

(* Both sequences grow by the same element. *)
LEMMA SuffixAppend ==
    ASSUME NEW S, NEW s \in Seq(S), NEW t \in Seq(S), NEW x \in S, IsSuffix(s, t)
    PROVE  IsSuffix(Append(s, x), Append(t, x))
<1> DEFINE u == Append(s, x)  v == Append(t, x)
<1>1. /\ u \in Seq(S) /\ v \in Seq(S)
      /\ Len(u) = Len(s) + 1 /\ Len(v) = Len(t) + 1 /\ Len(s) \in Nat /\ Len(t) \in Nat
      /\ u[Len(s) + 1] = x /\ v[Len(t) + 1] = x
      /\ \A i \in 1..Len(s) : u[i] = s[i]
      /\ \A i \in 1..Len(t) : v[i] = t[i]
  BY AppendProperties
<1>2. Len(s) <= Len(t) /\ \A i \in 1..Len(s) : s[i] = t[i + (Len(t) - Len(s))]
  BY SuffixAt
<1> HIDE DEF u, v
<1>3. ASSUME NEW i \in 1..Len(u)
      PROVE  u[i] = v[i + (Len(v) - Len(u))]
  <2>1. Len(v) - Len(u) = Len(t) - Len(s)
    BY <1>1
  <2>2. CASE i = Len(s) + 1
    <3>1. i + (Len(t) - Len(s)) = Len(t) + 1
      BY <1>1, <2>2
    <3> QED BY <1>1, <2>1, <2>2, <3>1
  <2>3. CASE i # Len(s) + 1
    <3>1. i \in 1..Len(s)
      BY <1>1, <2>3
    <3>2. i + (Len(t) - Len(s)) \in 1..Len(t)
      BY <1>1, <1>2, <3>1
    <3>3. u[i] = s[i] /\ v[i + (Len(t) - Len(s))] = t[i + (Len(t) - Len(s))]
      BY <1>1, <3>1, <3>2
    <3>4. s[i] = t[i + (Len(t) - Len(s))]
      BY <1>2, <3>1
    <3> QED BY <2>1, <3>3, <3>4
  <2> QED BY <2>2, <2>3
<1>4. Len(u) <= Len(v)
  BY <1>1, <1>2
<1>5. IsSuffix(u, v)
  BY <1>1, <1>3, <1>4, SuffixAt
<1> QED BY <1>5 DEF u, v

(* The shorter sequence loses what it begins with. *)
LEMMA SuffixDrop ==
    ASSUME NEW S, NEW r \in Seq(S), NEW s \in Seq(S), NEW t \in Seq(S), IsSuffix(r \o s, t)
    PROVE  IsSuffix(s, t)
<1> DEFINE u == r \o s
<1>1. /\ u \in Seq(S) /\ Len(u) = Len(r) + Len(s)
      /\ Len(r) \in Nat /\ Len(s) \in Nat /\ Len(t) \in Nat
  BY ConcatProperties, LenProperties
<1>2. ASSUME NEW i \in 1..Len(s)
      PROVE  Len(r) + i \in 1..Len(u) /\ u[Len(r) + i] = s[i]
  <2>1. Len(r) + i \in 1..(Len(r) + Len(s)) /\ ~(Len(r) + i <= Len(r)) /\ (Len(r) + i) - Len(r) = i
    BY <1>1
  <2>2. u[Len(r) + i] = IF Len(r) + i <= Len(r) THEN r[Len(r) + i] ELSE s[(Len(r) + i) - Len(r)]
    BY <2>1, ConcatProperties
  <2> QED BY <1>1, <2>1, <2>2
<1> HIDE DEF u
<1>3. Len(u) <= Len(t) /\ \A i \in 1..Len(u) : u[i] = t[i + (Len(t) - Len(u))]
  BY <1>1, SuffixAt DEF u
<1>4. Len(s) <= Len(t)
  BY <1>1, <1>3
<1>5. ASSUME NEW i \in 1..Len(s)
      PROVE  s[i] = t[i + (Len(t) - Len(s))]
  <2>1. u[Len(r) + i] = t[(Len(r) + i) + (Len(t) - Len(u))]
    BY <1>2, <1>3
  <2>2. (Len(r) + i) + (Len(t) - Len(u)) = i + (Len(t) - Len(s))
    BY <1>1
  <2> QED BY <1>2, <2>1, <2>2
<1> QED BY <1>4, <1>5, SuffixAt

(* A suffix of a sequence has no other elements, and repeats none that the *)
(* sequence does not repeat.                                               *)
LEMMA SuffixKeeps ==
    ASSUME NEW S, NEW s \in Seq(S), NEW t \in Seq(S), IsSuffix(s, t)
    PROVE  /\ Range(s) \subseteq Range(t)
           /\ IsInjective(t) => IsInjective(s)
<1>1. Len(s) \in Nat /\ Len(t) \in Nat /\ DOMAIN s = 1..Len(s) /\ DOMAIN t = 1..Len(t)
  BY LenProperties
<1>2. Len(s) <= Len(t) /\ \A i \in 1..Len(s) : s[i] = t[i + (Len(t) - Len(s))]
  BY SuffixAt
<1>3. ASSUME NEW i \in 1..Len(s)
      PROVE  i + (Len(t) - Len(s)) \in 1..Len(t)
  BY <1>1, <1>2
<1>4. Range(s) \subseteq Range(t)
  BY <1>1, <1>2, <1>3 DEF Range
<1>5. ASSUME IsInjective(t), NEW i \in 1..Len(s), NEW j \in 1..Len(s), s[i] = s[j]
      PROVE  i = j
  <2>1. i + (Len(t) - Len(s)) = j + (Len(t) - Len(s))
    <3>1. t[i + (Len(t) - Len(s))] = t[j + (Len(t) - Len(s))]
      BY <1>2, <1>5
    <3>2. \A a, b \in 1..Len(t) : t[a] = t[b] => a = b
      BY <1>1, <1>5 DEF IsInjective
    <3> QED BY <1>3, <3>1, <3>2
  <2> QED BY <1>1, <2>1
<1>6. IsInjective(t) => IsInjective(s)
  BY <1>1, <1>5 DEF IsInjective
<1> QED BY <1>4, <1>6

(* The halves of a sequence without repetitions have nothing in common.    *)
LEMMA InjectiveHalves ==
    ASSUME NEW S, NEW r \in Seq(S), NEW s \in Seq(S), IsInjective(r \o s)
    PROVE  Range(r) \cap Range(s) = {}
<1> DEFINE u == r \o s
<1>1. /\ u \in Seq(S) /\ Len(u) = Len(r) + Len(s) /\ DOMAIN u = 1..Len(u)
      /\ Len(r) \in Nat /\ Len(s) \in Nat /\ DOMAIN r = 1..Len(r) /\ DOMAIN s = 1..Len(s)
  BY ConcatProperties, LenProperties
<1>2. ASSUME NEW i \in 1..Len(r)
      PROVE  i \in 1..Len(u) /\ u[i] = r[i]
  <2>1. i \in 1..(Len(r) + Len(s)) /\ i <= Len(r)
    BY <1>1
  <2>2. u[i] = IF i <= Len(r) THEN r[i] ELSE s[i - Len(r)]
    BY <2>1, ConcatProperties
  <2> QED BY <1>1, <2>1, <2>2
<1>3. ASSUME NEW i \in 1..Len(s)
      PROVE  Len(r) + i \in 1..Len(u) /\ u[Len(r) + i] = s[i]
  <2>1. Len(r) + i \in 1..(Len(r) + Len(s)) /\ ~(Len(r) + i <= Len(r)) /\ (Len(r) + i) - Len(r) = i
    BY <1>1
  <2>2. u[Len(r) + i] = IF Len(r) + i <= Len(r) THEN r[Len(r) + i] ELSE s[(Len(r) + i) - Len(r)]
    BY <2>1, ConcatProperties
  <2> QED BY <1>1, <2>1, <2>2
<1>4. ASSUME NEW i \in 1..Len(r), NEW j \in 1..Len(s) PROVE r[i] # s[j]
  <2>1. \A a, b \in 1..Len(u) : u[a] = u[b] => a = b
    BY <1>1 DEF IsInjective
  <2> HIDE DEF u
  <2>2. i # Len(r) + j
    BY <1>1
  <2> QED BY <1>2, <1>3, <2>1, <2>2
<1> QED BY <1>1, <1>4 DEF Range

(* A new element at the end. *)
LEMMA InjectiveAppend ==
    ASSUME NEW S, NEW s \in Seq(S), NEW x \in S, x \notin Range(s), IsInjective(s)
    PROVE  IsInjective(Append(s, x))
<1> DEFINE u == Append(s, x)
<1>1. /\ u \in Seq(S) /\ Len(u) = Len(s) + 1 /\ Len(s) \in Nat
      /\ DOMAIN u = 1..(Len(s) + 1) /\ DOMAIN s = 1..Len(s)
      /\ u[Len(s) + 1] = x /\ \A i \in 1..Len(s) : u[i] = s[i]
  BY AppendProperties
<1> HIDE DEF u
<1>2. \A i \in 1..Len(s) : s[i] # x
  BY <1>1 DEF Range
<1>3. \A i, j \in 1..Len(s) : s[i] = s[j] => i = j
  BY <1>1 DEF IsInjective
<1>4. ASSUME NEW i \in 1..(Len(s) + 1), NEW j \in 1..(Len(s) + 1), u[i] = u[j]
      PROVE  i = j
  <2>1. i \in 1..Len(s) \/ i = Len(s) + 1
    BY <1>1
  <2>2. j \in 1..Len(s) \/ j = Len(s) + 1
    BY <1>1
  <2> QED BY <1>1, <1>2, <1>3, <1>4, <2>1, <2>2
<1> QED BY <1>1, <1>4 DEF IsInjective, u

(* What a sequence holds is no more than its length. *)
LEMMA RangeCard ==
    ASSUME NEW S, NEW s \in Seq(S)
    PROVE  IsFiniteSet(Range(s)) /\ Cardinality(Range(s)) <= Len(s)
<1> DEFINE Q(t) == IsFiniteSet(Range(t)) /\ Cardinality(Range(t)) <= Len(t)
           T == {t \in Seq(S) : Q(t)}
<1>1. <<>> \in T
  <2>1. Range(<<>>) = {} /\ Len(<<>>) = 0
    BY DEF Range
  <2>2. Q(<<>>)
    BY <2>1, FS_EmptySet
  <2> QED BY <2>2
<1>2. ASSUME NEW t \in Seq(S), NEW x \in S, Q(t) PROVE Q(Append(t, x))
  <2>1. Range(Append(t, x)) = Range(t) \cup {x} /\ Len(Append(t, x)) = Len(t) + 1
    BY RangeAppend
  <2>2. /\ IsFiniteSet(Range(t) \cup {x}) /\ Cardinality(Range(t)) \in Nat
        /\ \/ Cardinality(Range(t) \cup {x}) = Cardinality(Range(t))
           \/ Cardinality(Range(t) \cup {x}) = Cardinality(Range(t)) + 1
    BY <1>2, FS_AddElement, FS_CardinalityType
  <2>3. Len(t) \in Nat /\ Cardinality(Range(t)) <= Len(t)
    BY <1>2, LenProperties
  <2> QED BY <2>1, <2>2, <2>3
<1>3. \A t \in Seq(S), x \in S : t \in T => Append(t, x) \in T
  <2>1. \A t \in Seq(S), x \in S : Append(t, x) \in Seq(S)
    BY AppendProperties
  <2>2. \A t \in Seq(S), x \in S : Q(t) => Q(Append(t, x))
    BY <1>2
  <2> HIDE DEF Q
  <2> QED BY <2>1, <2>2
<1> HIDE DEF Q
<1>4. s \in T
  <2> HIDE DEF T
  <2> QED BY <1>1, <1>3, SeqSetInduction
<1> QED BY <1>4 DEF Q

-----------------------------------------------------------------------------
(* Sums over a finite set.                                                 *)

(* What MapThenSumSet computes for the subsets of S, f[x] for each x.      *)
Sums(S, f, h) ==
    h = [A \in SUBSET S |->
           IF A = {} THEN 0
           ELSE f[CHOOSE x \in A : TRUE] + h[A \ {CHOOSE x \in A : TRUE}]]

(* There is such a function. *)
LEMMA SumsExists ==
    ASSUME NEW S, IsFiniteSet(S), NEW f \in [S -> Nat]
    PROVE  \E h \in [SUBSET S -> Nat] : Sums(S, f, h)
<1> DEFINE pick(A) == CHOOSE x \in A : TRUE
           Val(h, A) == IF A = {} THEN 0 ELSE f[pick(A)] + h[A \ {pick(A)}]
           Good(n, h) == /\ h \in [SUBSET S -> Nat]
                         /\ \A A \in SUBSET S : Cardinality(A) <= n => h[A] = Val(h, A)
           P(n) == \E h : Good(n, h)
           T == {n \in Nat : P(n)}
<1>1. ASSUME NEW A \in SUBSET S
      PROVE  /\ IsFiniteSet(A) /\ Cardinality(A) \in Nat /\ Cardinality(A) <= Cardinality(S)
             /\ A # {} => /\ pick(A) \in A /\ A \ {pick(A)} \in SUBSET S
                          /\ Cardinality(A \ {pick(A)}) = Cardinality(A) - 1
  <2>1. IsFiniteSet(A) /\ Cardinality(A) \in Nat /\ Cardinality(A) <= Cardinality(S)
    BY FS_Subset, FS_CardinalityType
  <2>2. A # {} => pick(A) \in A
    OBVIOUS
  <2> QED BY <2>1, <2>2, FS_RemoveElement
<1>2. \A A \in SUBSET S : Cardinality(A) = 0 <=> A = {}
  BY <1>1, FS_EmptySet
<1>3. ASSUME NEW A \in SUBSET S, NEW h \in [SUBSET S -> Nat]
      PROVE  Val(h, A) \in Nat
  BY <1>1
<1>4. P(0)
  <2>1. Good(0, [A \in SUBSET S |-> 0])
    BY <1>1, <1>2
  <2> QED BY <2>1
<1>5. ASSUME NEW n \in Nat, P(n) PROVE P(n + 1)
  <2>1. PICK h : Good(n, h)
    BY <1>5
  <2> DEFINE g == [A \in SUBSET S |-> IF Cardinality(A) <= n THEN h[A] ELSE Val(h, A)]
  <2>2. g \in [SUBSET S -> Nat]
    <3> HIDE DEF Val
    <3> QED BY <1>3, <2>1
  <2>3. ASSUME NEW A \in SUBSET S, Cardinality(A) <= n + 1
        PROVE  g[A] = Val(g, A)
    <3>1. CASE A = {}
      <4>1. Cardinality(A) <= n
        BY <1>2, <3>1
      <4> QED BY <2>1, <3>1, <4>1
    <3>2. CASE A # {}
      <4>1. A \ {pick(A)} \in SUBSET S /\ Cardinality(A \ {pick(A)}) <= n
        BY <1>1, <2>3, <3>2
      <4>2. g[A \ {pick(A)}] = h[A \ {pick(A)}]
        BY <4>1
      <4>3. Val(g, A) = Val(h, A)
        <5> HIDE DEF g
        <5> QED BY <3>2, <4>2
      <4>4. g[A] = Val(h, A)
        <5> HIDE DEF Val
        <5> QED BY <2>1
      <4> QED BY <4>3, <4>4
    <3> QED BY <3>1, <3>2
  <2> HIDE DEF g
  <2> QED BY <2>2, <2>3
<1>6. \A n \in Nat : P(n) => P(n + 1)
  BY <1>5
<1> HIDE DEF P
<1>7. 0 \in T /\ \A n \in Nat : n \in T => n + 1 \in T
  BY <1>4, <1>6
<1> HIDE DEF T
<1>8. Nat \subseteq T
  BY <1>7, NatSetInduction
<1>9. P(Cardinality(S))
  BY <1>8, FS_CardinalityType DEF T
<1>10. PICK h : Good(Cardinality(S), h)
  BY <1>9 DEF P
<1>11. h \in [SUBSET S -> Nat] /\ \A A \in SUBSET S : h[A] = Val(h, A)
  BY <1>1, <1>10
<1>12. h = [A \in SUBSET S |-> Val(h, A)]
  BY <1>11
<1> QED BY <1>11, <1>12 DEF Sums

(* And only one. *)
LEMMA SumsUnique ==
    ASSUME NEW S, IsFiniteSet(S), NEW f, NEW g, NEW h, Sums(S, f, g), Sums(S, f, h)
    PROVE  g = h
<1>0. ASSUME NEW A \in SUBSET S
      PROVE  /\ g[A] = IF A = {} THEN 0
                  ELSE f[CHOOSE x \in A : TRUE] + g[A \ {CHOOSE x \in A : TRUE}]
             /\ h[A] = IF A = {} THEN 0
                  ELSE f[CHOOSE x \in A : TRUE] + h[A \ {CHOOSE x \in A : TRUE}]
  BY DEF Sums
<1> DEFINE T == {A \in SUBSET S : g[A] = h[A]}
<1>1. g[{}] = h[{}]
  BY <1>0
<1>2. ASSUME NEW A \in SUBSET S, A # {}, A \ {CHOOSE x \in A : TRUE} \in T
      PROVE  g[A] = h[A]
  BY <1>0, <1>2
<1>3. {} \in T /\ \A A \in SUBSET S : A # {} /\ A \ {CHOOSE x \in A : TRUE} \in T => A \in T
  BY <1>1, <1>2
<1> HIDE DEF T
<1>4. SUBSET S \subseteq T
  BY <1>3, SubsetInduction
<1>5. \A A \in SUBSET S : g[A] = h[A]
  BY <1>4 DEF T
<1> QED BY <1>5 DEF Sums

(* What a function makes of finitely many arguments is finite.             *)
LEMMA ImageFinite ==
    ASSUME NEW S, IsFiniteSet(S), NEW f
    PROVE  IsFiniteSet({f[x] : x \in S})
<1> DEFINE T == {f[x] : x \in S}
           g == [x \in S |-> f[x]]
<1>1. g \in Surjection(S, T)
  BY DEF Surjection
<1> HIDE DEF T, g
<1>2. IsFiniteSet(T)
  BY <1>1, FS_Surjection
<1> QED BY <1>2 DEF T

(* As many terms as elements, none above B. *)
LEMMA SumsBound ==
    ASSUME NEW S, IsFiniteSet(S), NEW f \in [S -> Nat], NEW h, Sums(S, f, h),
           NEW B \in Nat, \A x \in S : f[x] <= B
    PROVE  h[S] \in Nat /\ h[S] <= B * Cardinality(S)
<1>0. ASSUME NEW A \in SUBSET S
      PROVE  h[A] = IF A = {} THEN 0
                  ELSE f[CHOOSE x \in A : TRUE] + h[A \ {CHOOSE x \in A : TRUE}]
  BY DEF Sums
<1> DEFINE Q(A) == h[A] \in Nat /\ h[A] <= B * Cardinality(A)
           T == {A \in SUBSET S : Q(A)}
<1>1. Q({})
  <2>1. h[{}] = 0 /\ {} \in SUBSET S
    BY <1>0
  <2>2. Cardinality({}) = 0
    BY FS_EmptySet
  <2> QED BY <2>1, <2>2
<1>2. ASSUME NEW A \in SUBSET S, A # {}, Q(A \ {CHOOSE x \in A : TRUE})
      PROVE  Q(A)
  <2> DEFINE x == CHOOSE y \in A : TRUE
  <2>1. x \in A /\ x \in S
    BY <1>2
  <2>2. h[A] = f[x] + h[A \ {x}]
    BY <1>0, <1>2
  <2>3. /\ Cardinality(A) \in Nat /\ Cardinality(A \ {x}) \in Nat
        /\ Cardinality(A \ {x}) = Cardinality(A) - 1
    <3>1. IsFiniteSet(A)
      BY FS_Subset
    <3> QED BY <2>1, <3>1, FS_RemoveElement, FS_CardinalityType
  <2>4. f[x] \in Nat /\ f[x] <= B
    BY <2>1
  <2>5. h[A \ {x}] \in Nat /\ h[A \ {x}] <= B * Cardinality(A \ {x})
    BY <1>2
  <2> HIDE DEF x
  <2>6. B * (Cardinality(A) - 1) = B * Cardinality(A) - B /\ B * Cardinality(A) \in Nat
    BY <2>3
  <2> QED BY <2>2, <2>3, <2>4, <2>5, <2>6
<1>3. \A A \in SUBSET S : A # {} /\ Q(A \ {CHOOSE x \in A : TRUE}) => Q(A)
  BY <1>2
<1> HIDE DEF Q
<1>4. {} \in T /\ \A A \in SUBSET S : A # {} /\ A \ {CHOOSE x \in A : TRUE} \in T => A \in T
  BY <1>1, <1>3
<1> HIDE DEF T
<1>5. SUBSET S \subseteq T
  BY <1>4, SubsetInduction
<1>6. S \in T
  BY <1>5
<1> QED BY <1>6 DEF T, Q

(* The elements of some sets. *)
AllOf(S, F) == UNION {F[x] : x \in S}

(* The sum of the sizes of some sets is no less than the size of their union. *)
LEMMA SumsCover ==
    ASSUME NEW S, IsFiniteSet(S), NEW f, NEW h, Sums(S, f, h),
           NEW F, \A x \in S : IsFiniteSet(F[x]) /\ f[x] = Cardinality(F[x])
    PROVE  h[S] \in Nat /\ Cardinality(AllOf(S, F)) <= h[S]
<1>0. ASSUME NEW A \in SUBSET S
      PROVE  h[A] = IF A = {} THEN 0
                  ELSE f[CHOOSE x \in A : TRUE] + h[A \ {CHOOSE x \in A : TRUE}]
  BY DEF Sums
<1> DEFINE V(A) == AllOf(A, F)
           Q(A) == h[A] \in Nat /\ IsFiniteSet(V(A)) /\ Cardinality(V(A)) <= h[A]
           T == {A \in SUBSET S : Q(A)}
<1>1. Q({})
  <2>1. V({}) = {}
    BY DEF AllOf
  <2>2. h[{}] = 0 /\ IsFiniteSet(V({})) /\ Cardinality(V({})) = 0
    BY <1>0, <2>1, FS_EmptySet
  <2> QED BY <2>2
<1>2. ASSUME NEW A \in SUBSET S, A # {}, Q(A \ {CHOOSE x \in A : TRUE})
      PROVE  Q(A)
  <2> DEFINE x == CHOOSE y \in A : TRUE
  <2>1. x \in A /\ x \in S
    BY <1>2
  <2>2. h[A] = f[x] + h[A \ {x}]
    BY <1>0, <1>2
  <2>3. h[A \ {x}] \in Nat /\ Cardinality(V(A \ {x})) <= h[A \ {x}]
    BY <1>2
  <2>5. IsFiniteSet(F[x]) /\ IsFiniteSet(V(A \ {x}))
    BY <1>2, <2>1
  <2> HIDE DEF x
  <2>4. V(A) = F[x] \cup V(A \ {x})
    BY <2>1 DEF AllOf
  <2> HIDE DEF V
  <2>9. IsFiniteSet(F[x] \cup V(A \ {x}))
    BY <2>5, FS_Union
  <2>8. IsFiniteSet(V(A))
    BY <2>4, <2>9
  <2>6. /\ Cardinality(V(A)) = Cardinality(F[x]) + Cardinality(V(A \ {x}))
                                   - Cardinality(F[x] \cap V(A \ {x}))
        /\ Cardinality(F[x]) \in Nat /\ Cardinality(V(A \ {x})) \in Nat
        /\ Cardinality(F[x] \cap V(A \ {x})) \in Nat
    <3>1. IsFiniteSet(F[x] \cap V(A \ {x}))
      BY <2>5, FS_Intersection
    <3> QED BY <2>4, <2>5, <3>1, FS_Union, FS_CardinalityType
  <2>7. f[x] = Cardinality(F[x])
    BY <2>1
  <2> QED BY <2>2, <2>3, <2>6, <2>7, <2>8
<1>3. \A A \in SUBSET S : A # {} /\ Q(A \ {CHOOSE x \in A : TRUE}) => Q(A)
  BY <1>2
<1> HIDE DEF Q
<1>4. {} \in T /\ \A A \in SUBSET S : A # {} /\ A \ {CHOOSE x \in A : TRUE} \in T => A \in T
  BY <1>1, <1>3
<1> HIDE DEF T
<1>5. SUBSET S \subseteq T
  BY <1>4, SubsetInduction
<1>6. S \in T
  BY <1>5
<1> QED BY <1>6 DEF T, Q

-----------------------------------------------------------------------------
(* What is left of a sequence.                                             *)

(* Induction over the subsets of a finite set, an element at a time. *)
LEMMA FiniteSetInduction ==
    ASSUME NEW S, IsFiniteSet(S), NEW T, {} \in T,
           \A A \in SUBSET S : A # {} /\ (\A x \in A : A \ {x} \in T) => A \in T
    PROVE  SUBSET S \subseteq T
<1> DEFINE R == StrictSubsetOrdering(S)
<1>1. IsWellFoundedOn(R, SUBSET S)
  BY FS_StrictSubsetOrderingWellFounded, FS_FiniteSubsetsOfFinite
<1>2. \A A, B \in SUBSET S : A \subseteq B /\ A # B => <<A, B>> \in R
  BY DEF StrictSubsetOrdering
<1> HIDE DEF R
<1> SUFFICES ASSUME (SUBSET S) \ T # {} PROVE FALSE
  OBVIOUS
<1>3. PICK A \in (SUBSET S) \ T : \A B \in (SUBSET S) \ T : ~(<<B, A>> \in R)
  BY <1>1, WFMin
<1>4. ASSUME NEW x \in A PROVE A \ {x} \in T
  <2>1. A \ {x} \in SUBSET S /\ A \ {x} \subseteq A /\ A \ {x} # A
    BY <1>4
  <2> QED BY <1>2, <1>3, <2>1
<1> QED BY <1>3, <1>4

(* A finite set of numbers has a greatest one, which Max is. *)
LEMMA MaxIsGreatest ==
    ASSUME NEW S, IsFiniteSet(S), S \subseteq Nat, S # {}
    PROVE  Max(S) \in S /\ \A x \in S : x <= Max(S)
<1> DEFINE P(A) == A # {} => \E m \in A : \A x \in A : m >= x
           T == {A \in SUBSET S : P(A)}
<1>1. {} \in T
  OBVIOUS
<1>2. ASSUME NEW A \in SUBSET S, A # {}, \A x \in A : A \ {x} \in T
      PROVE  P(A)
  <2>1. PICK x \in A : TRUE
    BY <1>2
  <2>2. P(A \ {x}) /\ A \subseteq Nat
    BY <1>2, <2>1
  <2>3. CASE A \ {x} = {}
    <3>1. \A y \in A : x >= y
      BY <2>1, <2>2, <2>3
    <3> QED BY <3>1
  <2>4. CASE A \ {x} # {}
    <3>1. PICK m \in A \ {x} : \A y \in A \ {x} : m >= y
      BY <2>2, <2>4
    <3>2. CASE x >= m
      BY <2>1, <2>2, <3>1, <3>2
    <3>3. CASE m >= x
      BY <2>1, <2>2, <3>1, <3>3
    <3> QED BY <2>1, <2>2, <3>1, <3>2, <3>3
  <2> QED BY <2>3, <2>4
<1>3. \A A \in SUBSET S : A # {} /\ (\A x \in A : A \ {x} \in T) => A \in T
  BY <1>2
<1> HIDE DEF T
<1>4. S \in T
  BY <1>1, <1>3, FiniteSetInduction
<1> HIDE DEF P
<1>5. P(S)
  BY <1>4 DEF T
<1>6. \E m \in S : \A x \in S : m >= x
  BY <1>5 DEF P
<1>7. Max(S) \in S /\ \A x \in S : Max(S) >= x
  BY <1>6 DEF Max
<1> QED BY <1>7

(* What is left of a sequence s of the indices in K: for the indices in A, *)
(* what FoldLeftDomain computes when it appends those to keep.             *)
Keeps(s, K, h) ==
    h = [A \in SUBSET DOMAIN s |->
           IF A = {} THEN <<>>
           ELSE IF Max(A) \in K THEN Append(h[A \ {Max(A)}], s[Max(A)])
                ELSE h[A \ {Max(A)}]]

(* There is such a function. *)
LEMMA KeepsExists ==
    ASSUME NEW U, NEW s \in Seq(U), NEW K
    PROVE  \E h \in [SUBSET DOMAIN s -> Seq(U)] : Keeps(s, K, h)
<1> DEFINE S == DOMAIN s
           Val(h, A) == IF A = {} THEN <<>>
                        ELSE IF Max(A) \in K THEN Append(h[A \ {Max(A)}], s[Max(A)])
                             ELSE h[A \ {Max(A)}]
           Good(n, h) == /\ h \in [SUBSET S -> Seq(U)]
                         /\ \A A \in SUBSET S : Cardinality(A) <= n => h[A] = Val(h, A)
           P(n) == \E h : Good(n, h)
           T == {n \in Nat : P(n)}
<1>0. S = 1..Len(s) /\ Len(s) \in Nat /\ IsFiniteSet(S)
  BY LenProperties, FS_Interval
<1>1. ASSUME NEW A \in SUBSET S
      PROVE  /\ IsFiniteSet(A) /\ Cardinality(A) \in Nat /\ Cardinality(A) <= Cardinality(S)
             /\ A # {} => /\ Max(A) \in A /\ A \ {Max(A)} \in SUBSET S
                          /\ Cardinality(A \ {Max(A)}) = Cardinality(A) - 1
  <2>1. IsFiniteSet(A) /\ Cardinality(A) \in Nat /\ Cardinality(A) <= Cardinality(S)
    BY <1>0, FS_Subset, FS_CardinalityType
  <2>2. A # {} => Max(A) \in A
    BY <1>0, <2>1, MaxIsGreatest
  <2> QED BY <2>1, <2>2, FS_RemoveElement
<1>2. \A A \in SUBSET S : Cardinality(A) = 0 <=> A = {}
  BY <1>1, FS_EmptySet
<1>3. ASSUME NEW A \in SUBSET S, NEW h \in [SUBSET S -> Seq(U)]
      PROVE  Val(h, A) \in Seq(U)
  <2>1. CASE A = {}
    BY <2>1, EmptySeq
  <2>2. CASE A # {}
    <3>1. h[A \ {Max(A)}] \in Seq(U) /\ s[Max(A)] \in U
      BY <1>0, <1>1, <2>2, ElementOfSeq
    <3>2. Append(h[A \ {Max(A)}], s[Max(A)]) \in Seq(U)
      BY <3>1, AppendProperties
    <3> QED BY <2>2, <3>1, <3>2
  <2> QED BY <2>1, <2>2
<1> HIDE DEF S
<1>4. P(0)
  <2> DEFINE g == [A \in SUBSET S |-> <<>>]
  <2>1. g \in [SUBSET S -> Seq(U)]
    BY EmptySeq
  <2>2. ASSUME NEW A \in SUBSET S, Cardinality(A) <= 0 PROVE g[A] = Val(g, A)
    <3>1. A = {}
      <4>1. Cardinality(A) \in Nat
        BY <1>1
      <4>2. Cardinality(A) = 0
        BY <2>2, <4>1
      <4> QED BY <1>2, <4>2
    <3>2. Val(g, A) = <<>>
      <4> HIDE DEF g
      <4> QED BY <3>1
    <3> HIDE DEF Val
    <3> QED BY <3>2
  <2> HIDE DEF g
  <2>3. Good(0, g)
    BY <2>1, <2>2
  <2> QED BY <2>3
<1>5. ASSUME NEW n \in Nat, P(n) PROVE P(n + 1)
  <2>1. PICK h : Good(n, h)
    BY <1>5
  <2> DEFINE g == [A \in SUBSET S |-> IF Cardinality(A) <= n THEN h[A] ELSE Val(h, A)]
  <2>2. g \in [SUBSET S -> Seq(U)]
    <3> HIDE DEF Val
    <3> QED BY <1>3, <2>1
  <2>3. ASSUME NEW A \in SUBSET S, Cardinality(A) <= n + 1
        PROVE  g[A] = Val(g, A)
    <3>1. CASE A = {}
      <4>1. Cardinality(A) <= n
        BY <1>2, <3>1
      <4>2. g[A] = h[A] /\ h[A] = Val(h, A)
        BY <2>1, <4>1
      <4>3. Val(h, A) = <<>> /\ Val(g, A) = <<>>
        BY <3>1
      <4> QED BY <4>2, <4>3
    <3>2. CASE A # {}
      <4>1. A \ {Max(A)} \in SUBSET S /\ Cardinality(A \ {Max(A)}) <= n
        BY <1>1, <2>3, <3>2
      <4>2. g[A \ {Max(A)}] = h[A \ {Max(A)}]
        BY <4>1
      <4>3. Val(g, A) = Val(h, A)
        <5> HIDE DEF g
        <5> QED BY <3>2, <4>2
      <4>4. g[A] = Val(h, A)
        <5> HIDE DEF Val
        <5> QED BY <2>1
      <4> QED BY <4>3, <4>4
    <3> QED BY <3>1, <3>2
  <2> HIDE DEF g
  <2>4. Good(n + 1, g)
    BY <2>2, <2>3
  <2> QED BY <2>4
<1>6. \A n \in Nat : P(n) => P(n + 1)
  BY <1>5
<1> HIDE DEF P
<1>7. 0 \in T /\ \A n \in Nat : n \in T => n + 1 \in T
  BY <1>4, <1>6
<1> HIDE DEF T
<1>8. Nat \subseteq T
  BY <1>7, NatSetInduction
<1>9. P(Cardinality(S))
  BY <1>0, <1>8, FS_CardinalityType DEF T
<1>10. PICK h : Good(Cardinality(S), h)
  BY <1>9 DEF P
<1>11. h \in [SUBSET S -> Seq(U)] /\ \A A \in SUBSET S : h[A] = Val(h, A)
  BY <1>1, <1>10
<1>12. h = [A \in SUBSET S |-> Val(h, A)]
  BY <1>11
<1> QED BY <1>11, <1>12 DEF Keeps, S

(* And only one. *)
LEMMA KeepsUnique ==
    ASSUME NEW U, NEW s \in Seq(U), NEW K, NEW g, NEW h, Keeps(s, K, g), Keeps(s, K, h)
    PROVE  g = h
<1> DEFINE S == DOMAIN s
<1>0. ASSUME NEW A \in SUBSET S
      PROVE  /\ g[A] = IF A = {} THEN <<>>
                  ELSE IF Max(A) \in K THEN Append(g[A \ {Max(A)}], s[Max(A)])
                       ELSE g[A \ {Max(A)}]
             /\ h[A] = IF A = {} THEN <<>>
                  ELSE IF Max(A) \in K THEN Append(h[A \ {Max(A)}], s[Max(A)])
                       ELSE h[A \ {Max(A)}]
  BY DEF Keeps
<1> DEFINE T == {A \in SUBSET S : g[A] = h[A]}
<1>1. S = 1..Len(s) /\ Len(s) \in Nat /\ IsFiniteSet(S)
  BY LenProperties, FS_Interval
<1>2. {} \in T
  BY <1>0
<1>3. ASSUME NEW A \in SUBSET S, A # {}, \A x \in A : A \ {x} \in T
      PROVE  g[A] = h[A]
  <2>1. IsFiniteSet(A)
    BY <1>1, FS_Subset
  <2>2. Max(A) \in A
    BY <1>1, <1>3, <2>1, MaxIsGreatest
  <2>3. g[A \ {Max(A)}] = h[A \ {Max(A)}]
    BY <1>3, <2>2
  <2> QED BY <1>0, <1>3, <2>3
<1>4. \A A \in SUBSET S : A # {} /\ (\A x \in A : A \ {x} \in T) => A \in T
  BY <1>3
<1> HIDE DEF T, S
<1>5. IsFiniteSet(S)
  BY <1>1
<1>6. SUBSET S \subseteq T
  BY <1>2, <1>4, <1>5, FiniteSetInduction
<1>7. \A A \in SUBSET S : g[A] = h[A]
  BY <1>6 DEF T
<1> QED BY <1>7 DEF Keeps, S

(* The elements at the indices in K. *)
At(s, K) == {s[i] : i \in K \cap DOMAIN s}

(* It keeps the elements at the indices of K and no other, and no two      *)
(* places hold the same unless they did before.                            *)
LEMMA KeepsRange ==
    ASSUME NEW U, NEW s \in Seq(U), NEW K, NEW h, Keeps(s, K, h),
           IsInjective(s)
    PROVE  /\ h[DOMAIN s] \in Seq(U) /\ IsInjective(h[DOMAIN s])
           /\ Range(h[DOMAIN s]) = At(s, K)
<1> DEFINE S == DOMAIN s
           Q(A) == /\ h[A] \in Seq(U)
                   /\ \A j, k \in DOMAIN h[A] : h[A][j] = h[A][k] => j = k
                   /\ \A x : x \in Range(h[A]) <=> \E i \in A : i \in K /\ s[i] = x
           T == {A \in SUBSET S : Q(A)}
<1>0. ASSUME NEW A \in SUBSET S
      PROVE  h[A] = IF A = {} THEN <<>>
                  ELSE IF Max(A) \in K THEN Append(h[A \ {Max(A)}], s[Max(A)])
                       ELSE h[A \ {Max(A)}]
  BY DEF Keeps
<1>1. S = 1..Len(s) /\ Len(s) \in Nat /\ IsFiniteSet(S) /\ \A i \in S : s[i] \in U
  BY LenProperties, FS_Interval, ElementOfSeq
<1>2. {} \in T
  <2>1. h[{}] = <<>>
    BY <1>0
  <2>2. <<>> \in Seq(U) /\ DOMAIN <<>> = {} /\ Range(<<>>) = {}
    BY EmptySeq DEF Range
  <2> QED BY <2>1, <2>2
<1>3. ASSUME NEW A \in SUBSET S, A # {}, \A x \in A : A \ {x} \in T
      PROVE  Q(A)
  <2> DEFINE m == Max(A)  t == h[A \ {m}]
  <2>1. IsFiniteSet(A)
    BY <1>1, FS_Subset
  <2>2. m \in A
    BY <1>1, <1>3, <2>1, MaxIsGreatest
  <2>3. Q(A \ {m})
    BY <1>3, <2>2
  <2>4. h[A] = IF m \in K THEN Append(t, s[m]) ELSE t
    BY <1>0, <1>3
  <2>5. s[m] \in U /\ t \in Seq(U)
    BY <1>1, <2>2, <2>3
  <2> HIDE DEF m
  <2>6. CASE m \notin K
    <3>1. h[A] = t
      BY <2>4, <2>6
    <3>2. \A x : (\E i \in A : i \in K /\ s[i] = x) <=> \E i \in A \ {m} : i \in K /\ s[i] = x
      BY <2>6
    <3> QED BY <2>3, <3>1, <3>2
  <2>7. CASE m \in K
    <3> DEFINE u == Append(t, s[m])
    <3>1. h[A] = u
      BY <2>4, <2>7
    <3>2. s[m] \notin Range(t)
      <4>1. \A i \in A \ {m} : s[i] # s[m]
        BY <2>2 DEF IsInjective
      <4> QED BY <2>3, <4>1
    <3>3. u \in Seq(U) /\ Range(u) = Range(t) \cup {s[m]}
      <4> HIDE DEF t
      <4> QED BY <2>5, RangeAppend
    <3>4. IsInjective(t)
      BY <2>3 DEF IsInjective
    <3>5. IsInjective(u)
      BY <2>5, <3>2, <3>4, InjectiveAppend
    <3>6. \A j, k \in DOMAIN u : u[j] = u[k] => j = k
      BY <3>5 DEF IsInjective
    <3>7. ASSUME NEW x
          PROVE  x \in Range(u) <=> \E i \in A : i \in K /\ s[i] = x
      <4>1. x \in Range(t) <=> \E i \in A \ {m} : i \in K /\ s[i] = x
        BY <2>3
      <4> QED BY <2>2, <2>7, <3>3, <4>1
    <3> HIDE DEF u, t
    <3> QED BY <3>1, <3>3, <3>6, <3>7
  <2> QED BY <2>6, <2>7
<1>4. \A A \in SUBSET S : A # {} /\ (\A x \in A : A \ {x} \in T) => A \in T
  BY <1>3
<1> HIDE DEF Q
<1> HIDE DEF T, S
<1>5. IsFiniteSet(S)
  BY <1>1
<1>6. SUBSET S \subseteq T
  BY <1>2, <1>4, <1>5, FiniteSetInduction
<1>7. Q(S)
  BY <1>6 DEF T
<1>8. IsInjective(h[S])
  BY <1>7 DEF Q, IsInjective
<1>9. \A x : x \in Range(h[S]) <=> \E i \in S : i \in K /\ s[i] = x
  BY <1>7 DEF Q
<1>10. Range(h[S]) = At(s, K)
  BY <1>9 DEF At, S
<1> QED BY <1>7, <1>8, <1>10 DEF Q, S
=============================================================================
