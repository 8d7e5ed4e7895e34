------------------------------- MODULE Induction --------------------------------
(* Facts about natural numbers, finite sets and the operators of the community      *)
(* modules that the proofs of the components cite.  Induction is stated with sets:   *)
(* a set of numbers that holds 0 and every successor of a member is Nat.             *)
EXTENDS Integers, SequencesExt, SequenceTheorems, FiniteSetTheorems, TLAPS

(* Division with remainder. *)
LEMMA DivMod ==
  ASSUME NEW a \in Nat, NEW d \in Nat \ {0}
  PROVE  a \div d \in Nat /\ a % d \in 0 .. d - 1 /\ a = (a % d) + (a \div d) * d
<1> DEFINE q == a \div d
<1>1. q \in Nat /\ a % d \in 0 .. d - 1 /\ a = (a % d) + q * d
  OBVIOUS
<1> QED BY <1>1

(* A set of natural numbers that is not empty has a least member. *)
LEMMA NatLeast ==
  ASSUME NEW T \in SUBSET Nat, T # {}
  PROVE  \E n \in T : \A m \in T : n <= m
<1> DEFINE R == StrictSubsetOrdering(Nat)
           U == {0 .. n : n \in T}
<1>1. IsWellFoundedOn(R, FiniteSubsetsOf(Nat))
  BY FS_StrictSubsetOrderingWellFounded
<1>2. U \subseteq FiniteSubsetsOf(Nat) /\ U # {}
  <2>1. \A n \in T : 0..n \in SUBSET Nat /\ IsFiniteSet(0..n)
    BY FS_Interval
  <2> QED BY <2>1 DEF FiniteSubsetsOf
<1>3. \E x \in U : \A y \in U : <<y, x>> \notin R
  <2> HIDE DEF R, U
  <2> QED BY <1>1, <1>2, WFMin
<1>4. PICK n \in T : \A m \in T : <<0 .. m, 0 .. n>> \notin R
  BY <1>3
<1>5. ASSUME NEW m \in T, m < n PROVE FALSE
  <2>1. 0 .. m \subseteq 0 .. n /\ n \in 0 .. n /\ n \notin 0 .. m /\ 0 .. m \in SUBSET Nat
          /\ 0 .. n \in SUBSET Nat
    BY <1>5
  <2> QED BY <1>4, <2>1 DEF StrictSubsetOrdering
<1> QED BY <1>4, <1>5

LEMMA SetInduction ==
  ASSUME NEW P \in SUBSET Nat, 0 \in P, \A n \in Nat : n \in P => n + 1 \in P
  PROVE  P = Nat
<1> SUFFICES ASSUME P # Nat PROVE FALSE
  OBVIOUS
<1>1. PICK n \in Nat \ P : \A m \in Nat \ P : n <= m
  BY NatLeast
<1>2. n # 0 /\ n - 1 \in Nat /\ ~(n <= n - 1)
  BY <1>1
<1>3. n - 1 \in P
  BY <1>1, <1>2
<1> QED BY <1>1, <1>2, <1>3

(* A finite set of natural numbers that is not empty has a greatest member. *)
LEMMA NatGreatest ==
  ASSUME NEW S \in SUBSET Nat, IsFiniteSet(S), S # {}
  PROVE  \E n \in S : \A m \in S : m <= n
<1> DEFINE P == {k \in Nat : \A T \in SUBSET S :
                   T # {} /\ Cardinality(T) <= k => \E n \in T : \A m \in T : m <= n}
<1>1. \A T \in SUBSET S : IsFiniteSet(T) /\ Cardinality(T) \in Nat
  BY FS_Subset, FS_CardinalityType
<1>2. 0 \in P
  <2>1. ASSUME NEW T \in SUBSET S, Cardinality(T) <= 0 PROVE T = {}
    BY <1>1, <2>1, FS_EmptySet
  <2> QED BY <2>1
<1>3. ASSUME NEW k \in Nat, k \in P PROVE k + 1 \in P
  <2> SUFFICES ASSUME NEW T \in SUBSET S, T # {}, Cardinality(T) <= k + 1
               PROVE  \E n \in T : \A m \in T : m <= n
    OBVIOUS
  <2>1. PICK x \in T : TRUE
    OBVIOUS
  <2>2. T \ {x} \in SUBSET S /\ Cardinality(T \ {x}) <= k
    BY <1>1, <2>1, FS_RemoveElement
  <2>3. CASE T \ {x} = {}
    <3>1. \A m \in T : m = x
      BY <2>3
    <3> QED BY <2>1, <3>1
  <2>4. CASE T \ {x} # {}
    <3>1. PICK y \in T \ {x} : \A m \in T \ {x} : m <= y
      BY <1>3, <2>2, <2>4
    <3>2. x \in Nat /\ y \in Nat /\ \A m \in T : m \in Nat /\ (m = x \/ m <= y)
      BY <2>1, <3>1
    <3>3. CASE x <= y
      BY <3>1, <3>2, <3>3
    <3>4. CASE y <= x
      <4>1. \A m \in T : m <= x
        BY <3>2, <3>4
      <4> QED BY <2>1, <4>1
    <3> QED BY <3>2, <3>3, <3>4
  <2> QED BY <2>3, <2>4
<1> HIDE DEF P
<1>4. P = Nat
  <2>1. P \in SUBSET Nat
    BY DEF P
  <2> QED BY <1>2, <1>3, <2>1, SetInduction
<1>5. Cardinality(S) \in P
  BY <1>1, <1>4
<1> QED BY <1>1, <1>5 DEF P

(* Max of a set of the first numbers. *)
LEMMA MaxOfFirst ==
  ASSUME NEW n \in Nat \ {0}
  PROVE  Max(1..n) = n
<1>1. n \in 1..n /\ \A y \in 1..n : n >= y
  OBVIOUS
<1>2. \A x \in 1..n : (\A y \in 1..n : x >= y) => x = n
  BY <1>1
<1> QED BY <1>1, <1>2 DEF Max

--------------------------------------------------------------------------------
(* A finite set of numbers has one enumeration in increasing order. *)

Increasing(f) == \A i, j \in DOMAIN f : i < j => f[i] < f[j]

LEMMA IncreasingExists ==
  ASSUME NEW S \in SUBSET Nat, IsFiniteSet(S)
  PROVE  \E f \in [1..Cardinality(S) -> S] : Increasing(f)
<1> DEFINE P == {k \in Nat : \A T \in SUBSET S :
                   Cardinality(T) = k => \E f \in [1..k -> T] : Increasing(f)}
<1>1. \A T \in SUBSET S : IsFiniteSet(T) /\ Cardinality(T) \in Nat
  BY FS_Subset, FS_CardinalityType
<1>2. 0 \in P
  <2>1. ASSUME NEW T \in SUBSET S PROVE \E f \in [1..0 -> T] : Increasing(f)
    <3>1. [i \in 1..0 |-> 0] \in [1..0 -> T] /\ Increasing([i \in 1..0 |-> 0])
      BY DEF Increasing
    <3> QED BY <3>1
  <2> QED BY <2>1
<1>3. ASSUME NEW k \in Nat, k \in P PROVE k + 1 \in P
  <2> SUFFICES ASSUME NEW T \in SUBSET S, Cardinality(T) = k + 1
               PROVE  \E f \in [1..(k + 1) -> T] : Increasing(f)
    OBVIOUS
  <2>1. T # {} /\ IsFiniteSet(T) /\ T \in SUBSET Nat
    BY <1>1, FS_EmptySet
  <2>2. PICK x \in T : \A m \in T : m <= x
    BY <2>1, NatGreatest
  <2>3. T \ {x} \in SUBSET S /\ Cardinality(T \ {x}) = k
    <3>1. Cardinality(T \ {x}) = Cardinality(T) - 1
      BY <2>1, <2>2, FS_RemoveElement
    <3> QED BY <3>1
  <2>4. PICK f \in [1..k -> T \ {x}] : Increasing(f)
    BY <1>3, <2>3
  <2> DEFINE g == [i \in 1..(k + 1) |-> IF i <= k THEN f[i] ELSE x]
  <2>5. \A i \in 1..k : i \in 1..(k + 1) /\ g[i] = f[i] /\ f[i] \in T /\ f[i] \in Nat /\ f[i] < x
    <3>1. \A m \in T \ {x} : m \in Nat /\ x \in Nat /\ m < x
      BY <2>1, <2>2
    <3>2. ASSUME NEW i \in 1..k
          PROVE  i \in 1..(k + 1) /\ g[i] = f[i] /\ f[i] \in T \ {x}
      BY <2>4
    <3> HIDE DEF g
    <3> QED BY <3>1, <3>2
  <2>6. g[k + 1] = x /\ DOMAIN g = 1..(k + 1)
    OBVIOUS
  <2>7. \A i \in 1..(k + 1) : i \in 1..k \/ i = k + 1
    OBVIOUS
  <2>8. g \in [1..(k + 1) -> T]
    BY <2>2, <2>5, <2>6, <2>7
  <2> HIDE DEF g
  <2>9. ASSUME NEW i \in 1..(k + 1), NEW j \in 1..(k + 1), i < j PROVE g[i] < g[j]
    <3>1. i \in 1..k
      BY <2>9
    <3>2. CASE j \in 1..k
      <4>1. f[i] < f[j]
        BY <2>4, <2>9, <3>1, <3>2 DEF Increasing
      <4> QED BY <2>5, <3>1, <3>2, <4>1
    <3>3. CASE j = k + 1
      BY <2>5, <2>6, <3>1, <3>3
    <3> QED BY <2>7, <3>2, <3>3
  <2> QED BY <2>6, <2>8, <2>9 DEF Increasing
<1> HIDE DEF P
<1>4. P = Nat
  <2>1. P \in SUBSET Nat
    BY DEF P
  <2> QED BY <1>2, <1>3, <2>1, SetInduction
<1>5. Cardinality(S) \in P
  BY <1>1, <1>4
<1> QED BY <1>5 DEF P

(* An increasing enumeration of as many members as the set has meets each once. *)
LEMMA IncreasingIsBijective ==
  ASSUME NEW S \in SUBSET Nat, IsFiniteSet(S), NEW f \in [1..Cardinality(S) -> S], Increasing(f)
  PROVE  /\ \A i, j \in 1..Cardinality(S) : f[i] = f[j] => i = j
         /\ \A x \in S : \E i \in 1..Cardinality(S) : f[i] = x
<1>1. Cardinality(S) \in Nat
  BY FS_CardinalityType
<1>2. ASSUME NEW i \in 1..Cardinality(S), NEW j \in 1..Cardinality(S), f[i] = f[j] PROVE i = j
  <2>1. f[i] \in Nat /\ f[j] \in Nat
    OBVIOUS
  <2>2. ~(i < j) /\ ~(j < i)
    BY <1>2, <2>1 DEF Increasing
  <2> QED BY <1>1, <2>2
<1>3. f \in Injection(1..Cardinality(S), S)
  BY <1>2 DEF Injection, IsInjective
<1>4. Cardinality(1..Cardinality(S)) = Cardinality(S)
  BY <1>1, FS_Interval
<1>5. f \in Surjection(1..Cardinality(S), S)
  BY <1>3, <1>4, FS_Injection
<1> QED BY <1>2, <1>5 DEF Surjection

--------------------------------------------------------------------------------
(* FlattenSeq: a member of the result is a member of one of the sequences; sequences *)
(* of length one give the sequence of their members.                                  *)

(* The recursive function FlattenSeq is defined with exists. *)
LEMMA FlattenRecursion ==
  ASSUME NEW S, NEW seqs \in Seq(Seq(S)), seqs # <<>>
  PROVE  \E g \in [1..Len(seqs) -> Seq(S)] :
           /\ FlattenSeq(seqs) = g[Len(seqs)]
           /\ \A i \in 1..Len(seqs) : g[i] = IF i = 1 THEN seqs[i] ELSE g[i - 1] \o seqs[i]
<1>1. Len(seqs) \in Nat \ {0} /\ \A i \in 1..Len(seqs) : seqs[i] \in Seq(S)
  BY EmptySeq, LenProperties, ElementOfSeq
<1> DEFINE Solves(g, k) == \A i \in 1..k : g[i] = IF i = 1 THEN seqs[i] ELSE g[i - 1] \o seqs[i]
           P == {k \in Nat : k <= Len(seqs) => \E g \in [1..k -> Seq(S)] : Solves(g, k)}
<1>2. 0 \in P
  <2>1. [i \in 1..0 |-> <<>>] \in [1..0 -> Seq(S)] /\ Solves([i \in 1..0 |-> <<>>], 0)
    OBVIOUS
  <2> QED BY <2>1
<1>3. ASSUME NEW k \in Nat, k \in P PROVE k + 1 \in P
  <2> SUFFICES ASSUME k + 1 <= Len(seqs)
               PROVE  \E g \in [1..(k + 1) -> Seq(S)] : Solves(g, k + 1)
    OBVIOUS
  <2>1. k <= Len(seqs) /\ k + 1 \in 1..Len(seqs)
    BY <1>1
  <2>2. PICK g \in [1..k -> Seq(S)] : Solves(g, k)
    BY <1>3, <2>1
  <2> DEFINE last == IF k = 0 THEN seqs[k + 1] ELSE g[k] \o seqs[k + 1]
             h == [i \in 1..(k + 1) |-> IF i <= k THEN g[i] ELSE last]
  <2>3. last \in Seq(S)
    <3>1. CASE k = 0
      BY <1>1, <2>1, <3>1
    <3>2. CASE k # 0
      <4>1. g[k] \in Seq(S) /\ seqs[k + 1] \in Seq(S)
        BY <1>1, <2>1, <3>2
      <4> QED BY <3>2, <4>1, ConcatProperties
    <3> QED BY <3>1, <3>2
  <2> HIDE DEF last
  <2>4. h \in [1..(k + 1) -> Seq(S)]
    BY <2>2, <2>3
  <2>5. ASSUME NEW i \in 1..(k + 1)
        PROVE  h[i] = IF i = 1 THEN seqs[i] ELSE h[i - 1] \o seqs[i]
    <3>1. CASE i <= k
      <4>1. h[i] = g[i] /\ (i # 1 => h[i - 1] = g[i - 1])
        BY <3>1
      <4>2. i \in 1..k
        BY <3>1
      <4>3. g[i] = IF i = 1 THEN seqs[i] ELSE g[i - 1] \o seqs[i]
        BY <2>2, <4>2
      <4> QED BY <4>1, <4>3
    <3>2. CASE i = k + 1
      <4>1. h[i] = last /\ (i # 1 => h[i - 1] = g[k] /\ k # 0) /\ (i = 1 => k = 0)
        BY <3>2
      <4> QED BY <3>2, <4>1 DEF last
    <3> QED BY <3>1, <3>2
  <2> QED BY <2>4, <2>5
<1> HIDE DEF P
<1>4. P = Nat
  <2>1. P \in SUBSET Nat
    BY DEF P
  <2> QED BY <1>2, <1>3, <2>1, SetInduction
<1>5. PICK g \in [1..Len(seqs) -> Seq(S)] : Solves(g, Len(seqs))
  <2>1. Len(seqs) \in P
    BY <1>1, <1>4
  <2> QED BY <1>1, <2>1, SMTT(30) DEF P
<1> DEFINE Eq(f) == f = [i \in 1..Len(seqs) |-> IF i = 1 THEN seqs[i] ELSE f[i - 1] \o seqs[i]]
           flatten == CHOOSE f : Eq(f)
<1>6. Eq(g)
  BY <1>5
<1>7. Eq(flatten)
  <2>1. \E f : Eq(f)
    BY <1>6
  <2> HIDE DEF Eq
  <2> QED BY <2>1
<1>8. FlattenSeq(seqs) = flatten[Len(seqs)]
  BY <1>1 DEF FlattenSeq
<1> HIDE DEF flatten
<1>9. Solves(flatten, Len(seqs)) /\ DOMAIN flatten = 1..Len(seqs)
  BY <1>7
<1>10. flatten \in [1..Len(seqs) -> Seq(S)]
  <2> DEFINE Q == {k \in Nat : k \in 1..Len(seqs) => flatten[k] \in Seq(S)}
  <2>1. 0 \in Q
    OBVIOUS
  <2>2. ASSUME NEW k \in Nat, k \in Q PROVE k + 1 \in Q
    <3> SUFFICES ASSUME k + 1 \in 1..Len(seqs) PROVE flatten[k + 1] \in Seq(S)
      OBVIOUS
    <3>0. flatten[k + 1] = IF k + 1 = 1 THEN seqs[k + 1] ELSE flatten[(k + 1) - 1] \o seqs[k + 1]
      BY <1>9
    <3>1. CASE k = 0
      BY <1>1, <3>0, <3>1
    <3>2. CASE k # 0
      <4>1. flatten[k + 1] = flatten[k] \o seqs[k + 1]
        <5>1. k + 1 # 1 /\ (k + 1) - 1 = k
          BY <3>2
        <5> QED BY <3>0, <5>1, Zenon
      <4>2. flatten[k] \in Seq(S) /\ seqs[k + 1] \in Seq(S)
        BY <1>1, <2>2, <3>2
      <4> QED BY <4>1, <4>2, ConcatProperties
    <3> QED BY <3>1, <3>2
  <2> HIDE DEF Q
  <2>3. Q = Nat
    <3>1. Q \in SUBSET Nat
      BY DEF Q
    <3> QED BY <2>1, <2>2, <3>1, SetInduction
  <2>4. ASSUME NEW k \in 1..Len(seqs) PROVE flatten[k] \in Seq(S)
    <3>1. k \in Q
      BY <1>1, <2>3
    <3> QED BY <3>1 DEF Q
  <2>5. flatten = [i \in 1..Len(seqs) |-> flatten[i]]
    BY <1>7
  <2> QED BY <2>4, <2>5
<1> QED BY <1>8, <1>9, <1>10

(* What is in the result is in one of the sequences, and nothing of them is left out. *)
LEMMA FlattenMembers ==
  ASSUME NEW S, NEW seqs \in Seq(Seq(S))
  PROVE  /\ FlattenSeq(seqs) \in Seq(S)
         /\ \A x : (\E i \in 1..Len(FlattenSeq(seqs)) : FlattenSeq(seqs)[i] = x)
                  <=> \E k \in 1..Len(seqs) : \E j \in 1..Len(seqs[k]) : seqs[k][j] = x
<1>1. Len(seqs) \in Nat /\ \A i \in 1..Len(seqs) : seqs[i] \in Seq(S)
  BY LenProperties, ElementOfSeq
<1>2. CASE seqs = <<>>
  <2>1. Len(seqs) = 0 /\ FlattenSeq(seqs) = seqs /\ <<>> \in Seq(S)
    BY <1>2, EmptySeq DEF FlattenSeq
  <2>2. FlattenSeq(seqs) \in Seq(S)
    BY <1>2, <2>1, Zenon
  <2>3. Len(FlattenSeq(seqs)) = 0 /\ 1..0 = {}
    BY <2>1
  <2> QED BY <2>1, <2>2, <2>3, Zenon
<1>3. CASE seqs # <<>>
  <2>1. PICK g \in [1..Len(seqs) -> Seq(S)] :
           /\ FlattenSeq(seqs) = g[Len(seqs)]
           /\ \A i \in 1..Len(seqs) : g[i] = IF i = 1 THEN seqs[i] ELSE g[i - 1] \o seqs[i]
    BY <1>3, FlattenRecursion
  <2>2. Len(seqs) \in Nat \ {0}
    BY <1>1, <1>3, EmptySeq
  <2> DEFINE In(s, x) == \E i \in 1..Len(s) : s[i] = x
             P == {n \in Nat : n \in 1..Len(seqs) =>
                     \A x : In(g[n], x) <=> \E k \in 1..n : In(seqs[k], x)}
  <2>3. ASSUME NEW s \in Seq(S), NEW t \in Seq(S), NEW x PROVE In(s \o t, x) <=> In(s, x) \/ In(t, x)
    <3>1. /\ Len(s) \in Nat /\ Len(t) \in Nat /\ Len(s \o t) = Len(s) + Len(t)
          /\ \A i \in 1..(Len(s) + Len(t)) :
               (s \o t)[i] = IF i <= Len(s) THEN s[i] ELSE t[i - Len(s)]
      BY ConcatProperties, LenProperties
    <3>2. ASSUME NEW i \in 1..Len(s) PROVE In(s \o t, s[i])
      <4>1. i \in 1..(Len(s) + Len(t)) /\ (s \o t)[i] = s[i]
        BY <3>1
      <4> QED BY <3>1, <4>1
    <3>3. ASSUME NEW i \in 1..Len(t) PROVE In(s \o t, t[i])
      <4>1. Len(s) + i \in 1..(Len(s) + Len(t)) /\ ~(Len(s) + i <= Len(s)) /\ (Len(s) + i) - Len(s) = i
        BY <3>1
      <4>2. (s \o t)[Len(s) + i] = t[i]
        BY <3>1, <4>1
      <4> QED BY <3>1, <4>1, <4>2
    <3>4. ASSUME NEW i \in 1..(Len(s) + Len(t)) PROVE In(s, (s \o t)[i]) \/ In(t, (s \o t)[i])
      <4>1. CASE i <= Len(s)
        <5>1. i \in 1..Len(s) /\ (s \o t)[i] = s[i]
          BY <3>1, <4>1
        <5> QED BY <5>1
      <4>2. CASE ~(i <= Len(s))
        <5>1. i - Len(s) \in 1..Len(t) /\ (s \o t)[i] = t[i - Len(s)]
          BY <3>1, <4>2
        <5> QED BY <5>1
      <4> QED BY <4>1, <4>2
    <3> QED BY <3>1, <3>2, <3>3, <3>4, ZenonT(40)
  <2> HIDE DEF In
  <2>4. 0 \in P
    OBVIOUS
  <2>5. ASSUME NEW n \in Nat, n \in P PROVE n + 1 \in P
    <3> SUFFICES ASSUME n + 1 \in 1..Len(seqs)
                 PROVE  \A x : In(g[n + 1], x) <=> \E k \in 1..(n + 1) : In(seqs[k], x)
      OBVIOUS
    <3> TAKE x
    <3>1. g[n + 1] = IF n + 1 = 1 THEN seqs[n + 1] ELSE g[(n + 1) - 1] \o seqs[n + 1]
      BY <2>1
    <3>2. CASE n = 0
      <4>1. g[1] = seqs[1] /\ n + 1 = 1 /\ \A k \in 1..(n + 1) : k = 1
        BY <3>1, <3>2
      <4> QED BY <4>1
    <3>3. CASE n # 0
      <4>1. n + 1 # 1 /\ (n + 1) - 1 = n /\ n \in 1..Len(seqs)
        BY <1>1, <3>3
      <4>2. g[n + 1] = g[n] \o seqs[n + 1]
        BY <3>1, <4>1, Zenon
      <4>3. g[n] \in Seq(S) /\ seqs[n + 1] \in Seq(S)
        BY <1>1, <2>1, <4>1
      <4>4. In(g[n + 1], x) <=> In(g[n], x) \/ In(seqs[n + 1], x)
        BY <2>3, <4>2, <4>3
      <4>5. In(g[n], x) <=> \E k \in 1..n : In(seqs[k], x)
        BY <2>5, <4>1
      <4>6. \A k : k \in 1..(n + 1) <=> k \in 1..n \/ k = n + 1
        OBVIOUS
      <4> QED BY <4>4, <4>5, <4>6
    <3> QED BY <3>2, <3>3
  <2> HIDE DEF P
  <2>6. P = Nat
    <3>1. P \in SUBSET Nat
      BY DEF P
    <3> QED BY <2>4, <2>5, <3>1, SetInduction
  <2>7. Len(seqs) \in P /\ Len(seqs) \in 1..Len(seqs)
    BY <2>2, <2>6
  <2>8. \A x : In(g[Len(seqs)], x) <=> \E k \in 1..Len(seqs) : In(seqs[k], x)
    BY <2>7 DEF P
  <2>9. g[Len(seqs)] \in Seq(S)
    BY <2>1, <2>7
  <2> QED BY <2>1, <2>8, <2>9 DEF In
<1> QED BY <1>2, <1>3

(* Sequences of one member each. *)
LEMMA FlattenSingles ==
  ASSUME NEW S, NEW seqs \in Seq(Seq(S)), \A i \in 1..Len(seqs) : Len(seqs[i]) = 1
  PROVE  FlattenSeq(seqs) = [i \in 1..Len(seqs) |-> seqs[i][1]]
<1> DEFINE n == Len(seqs)
           e == [i \in 1..n |-> seqs[i][1]]
<1>1. n \in Nat /\ \A i \in 1..n : seqs[i] \in Seq(S) /\ Len(seqs[i]) = 1 /\ seqs[i][1] \in S
  BY LenProperties, ElementOfSeq
<1>2. e \in Seq(S) /\ Len(e) = n /\ \A i \in 1..n : e[i] = seqs[i][1]
  <2>1. e \in [1..n -> S]
    BY <1>1
  <2> QED BY <1>1, <2>1, SeqDef, LenProperties
<1> HIDE DEF n, e
<1>3. CASE n = 0
  <2>1. FlattenSeq(seqs) = seqs /\ seqs = <<>>
    BY <1>3, EmptySeq DEF FlattenSeq, n
  <2>2. e = <<>>
    BY <1>2, <1>3, EmptySeq
  <2> QED BY <2>1, <2>2, Zenon DEF e, n
<1>4. CASE n # 0
  <2>1. seqs # <<>>
    BY <1>4, EmptySeq DEF n
  <2>2. PICK g \in [1..n -> Seq(S)] :
           /\ FlattenSeq(seqs) = g[n]
           /\ \A i \in 1..n : g[i] = IF i = 1 THEN seqs[i] ELSE g[i - 1] \o seqs[i]
    BY <2>1, FlattenRecursion, ZenonT(40) DEF n
  <2> DEFINE P == {k \in Nat : k \in 1..n =>
                     Len(g[k]) = k /\ \A i \in 1..k : g[k][i] = e[i]}
  <2>3. 0 \in P
    OBVIOUS
  <2>4. ASSUME NEW k \in Nat, k \in P PROVE k + 1 \in P
    <3> SUFFICES ASSUME k + 1 \in 1..n
                 PROVE  Len(g[k + 1]) = k + 1 /\ \A i \in 1..(k + 1) : g[k + 1][i] = e[i]
      OBVIOUS
    <3>1. g[k + 1] = IF k + 1 = 1 THEN seqs[k + 1] ELSE g[(k + 1) - 1] \o seqs[k + 1]
      BY <2>2
    <3>2. seqs[k + 1] \in Seq(S) /\ Len(seqs[k + 1]) = 1 /\ seqs[k + 1][1] = e[k + 1]
      BY <1>1, <1>2
    <3>3. CASE k = 0
      <4>1. g[1] = seqs[1] /\ k + 1 = 1
        BY <3>1, <3>3
      <4>2. \A i \in 1..1 : i = 1
        OBVIOUS
      <4> QED BY <3>2, <4>1, <4>2
    <3>4. CASE k # 0
      <4>1. k + 1 # 1 /\ (k + 1) - 1 = k /\ k \in 1..n
        BY <1>1, <3>4
      <4>2. g[k + 1] = g[k] \o seqs[k + 1]
        BY <3>1, <4>1, Zenon
      <4>3. g[k] \in Seq(S) /\ Len(g[k]) = k /\ \A i \in 1..k : g[k][i] = e[i]
        BY <2>2, <2>4, <4>1
      <4>4. /\ Len(g[k] \o seqs[k + 1]) = Len(g[k]) + Len(seqs[k + 1])
            /\ \A i \in 1..(Len(g[k]) + Len(seqs[k + 1])) :
                 (g[k] \o seqs[k + 1])[i] =
                    IF i <= Len(g[k]) THEN g[k][i] ELSE seqs[k + 1][i - Len(g[k])]
        BY <3>2, <4>3, ConcatProperties, ZenonT(40)
      <4>5. /\ Len(g[k + 1]) = k + 1
            /\ \A i \in 1..(k + 1) :
                 g[k + 1][i] = IF i <= k THEN g[k][i] ELSE seqs[k + 1][i - k]
        BY <3>2, <4>2, <4>3, <4>4
      <4>6. ASSUME NEW i \in 1..(k + 1) PROVE g[k + 1][i] = e[i]
        <5>1. CASE i <= k
          <6>1. i \in 1..k
            BY <5>1
          <6> QED BY <4>3, <4>5, <5>1, <6>1
        <5>2. CASE ~(i <= k)
          <6>1. i = k + 1 /\ i - k = 1
            BY <5>2
          <6>2. g[k + 1][i] = seqs[k + 1][1]
            BY <4>5, <5>2, <6>1
          <6> QED BY <3>2, <6>1, <6>2
        <5> QED BY <5>1, <5>2
      <4> QED BY <4>5, <4>6
    <3> QED BY <3>3, <3>4
  <2> HIDE DEF P
  <2>5. P = Nat
    <3>1. P \in SUBSET Nat
      BY DEF P
    <3> QED BY <2>3, <2>4, <3>1, SetInduction
  <2>6. Len(g[n]) = n /\ \A i \in 1..n : g[n][i] = e[i]
    <3>1. n \in P /\ n \in 1..n
      BY <1>1, <1>4, <2>5
    <3> QED BY <3>1 DEF P
  <2>7. g[n] \in Seq(S)
    BY <1>1, <1>4, <2>2
  <2>8. g[n] = e
    BY <1>2, <2>6, <2>7, SeqEqual
  <2> QED BY <2>2, <2>8 DEF e, n
<1> QED BY <1>3, <1>4

--------------------------------------------------------------------------------
(* A fold over a finite set, as MapThenFoldSet defines it: take a member of the set, *)
(* fold what is left, combine.                                                        *)
PickAndStep(S, V, base, pick, step) ==
  /\ IsFiniteSet(S)
  /\ base \in V
  /\ \A s \in SUBSET S : s # {} => pick[s] \in s
  /\ \A x \in S, v \in V : step[<<x, v>>] \in V

Folds(iter, S, V, base, pick, step) ==
  /\ iter \in [SUBSET S -> V]
  /\ \A s \in SUBSET S :
       iter[s] = IF s = {} THEN base ELSE step[<<pick[s], iter[s \ {pick[s]}]>>]

LEMMA SetRecursion ==
  ASSUME NEW S, NEW V, NEW base, NEW pick, NEW step, PickAndStep(S, V, base, pick, step)
  PROVE  \E iter : Folds(iter, S, V, base, pick, step)
<1>0. /\ IsFiniteSet(S)
      /\ base \in V
      /\ \A s \in SUBSET S : s # {} => pick[s] \in s
      /\ \A x \in S, v \in V : step[<<x, v>>] \in V
  BY DEF PickAndStep
<1> DEFINE Of(f, s) == IF s = {} THEN base ELSE step[<<pick[s], f[s \ {pick[s]}]>>]
           P == {k \in Nat : \E f \in [SUBSET S -> V] :
                   \A s \in SUBSET S : Cardinality(s) <= k => f[s] = Of(f, s)}
<1>1. \A s \in SUBSET S : IsFiniteSet(s) /\ Cardinality(s) \in Nat /\ Cardinality(s) <= Cardinality(S)
  BY <1>0, FS_Subset, FS_CardinalityType
<1>2. ASSUME NEW s \in SUBSET S, s # {}
      PROVE  /\ pick[s] \in S /\ s \ {pick[s]} \in SUBSET S
             /\ Cardinality(s \ {pick[s]}) = Cardinality(s) - 1 /\ Cardinality(s) # 0
  <2>1. pick[s] \in s /\ IsFiniteSet(s)
    BY <1>0, <1>1, <1>2
  <2>2. Cardinality(s \ {pick[s]}) = Cardinality(s) - 1
    BY <2>1, FS_RemoveElement
  <2>3. Cardinality(s) # 0
    BY <1>2, <2>1, FS_EmptySet
  <2> QED BY <2>1, <2>2, <2>3
<1>3. ASSUME NEW f \in [SUBSET S -> V], NEW s \in SUBSET S PROVE Of(f, s) \in V
  <2>1. CASE s = {}
    BY <1>0, <2>1
  <2>2. CASE s # {}
    <3>1. pick[s] \in S /\ f[s \ {pick[s]}] \in V
      BY <1>2, <2>2
    <3> QED BY <1>0, <2>2, <3>1
  <2> QED BY <2>1, <2>2
<1>4. 0 \in P
  <2>1. ASSUME NEW s \in SUBSET S, Cardinality(s) <= 0 PROVE s = {}
    <3>1. IsFiniteSet(s) /\ Cardinality(s) = 0
      BY <1>1, <2>1
    <3> QED BY <3>1, FS_EmptySet
  <2> DEFINE f == [s \in SUBSET S |-> base]
  <2>2. f \in [SUBSET S -> V] /\ \A s \in SUBSET S : Cardinality(s) <= 0 => f[s] = Of(f, s)
    BY <1>0, <2>1
  <2> HIDE DEF f, Of
  <2> QED BY <2>2
<1>5. ASSUME NEW k \in Nat, k \in P PROVE k + 1 \in P
  <2>1. PICK f \in [SUBSET S -> V] : \A s \in SUBSET S : Cardinality(s) <= k => f[s] = Of(f, s)
    BY <1>5
  <2> DEFINE h == [s \in SUBSET S |-> IF Cardinality(s) <= k THEN f[s] ELSE Of(f, s)]
  <2>2. h \in [SUBSET S -> V]
    <3> HIDE DEF Of
    <3> QED BY <1>3
  <2>3. ASSUME NEW s \in SUBSET S, Cardinality(s) <= k + 1 PROVE h[s] = Of(h, s)
    <3>1. h[s] = Of(f, s)
      <4> HIDE DEF Of
      <4> QED BY <2>1
    <3>2. CASE s = {}
      BY <3>1, <3>2
    <3>3. CASE s # {}
      <4>1. s \ {pick[s]} \in SUBSET S /\ Cardinality(s \ {pick[s]}) <= k
        BY <1>1, <1>2, <2>3, <3>3
      <4>2. h[s \ {pick[s]}] = f[s \ {pick[s]}]
        <5> HIDE DEF Of
        <5> QED BY <4>1
      <4> HIDE DEF h
      <4> QED BY <3>1, <3>3, <4>2
    <3> QED BY <3>2, <3>3
  <2> HIDE DEF h, Of
  <2> QED BY <2>2, <2>3
<1>6. P = Nat
  <2>1. P \in SUBSET Nat
    OBVIOUS
  <2> HIDE DEF P
  <2> QED BY <1>4, <1>5, <2>1, SetInduction
<1>7. PICK f \in [SUBSET S -> V] :
         \A s \in SUBSET S : Cardinality(s) <= Cardinality(S) => f[s] = Of(f, s)
  <2>1. Cardinality(S) \in P
    BY <1>1, <1>6
  <2> HIDE DEF Of
  <2> QED BY <2>1
<1>8. \A s \in SUBSET S : f[s] = Of(f, s)
  <2> HIDE DEF Of
  <2> QED BY <1>1, <1>7
<1>9. Folds(f, S, V, base, pick, step)
  BY <1>7, <1>8 DEF Folds
<1> QED BY <1>9

(* A function on the natural numbers that is defined by recursion. *)
Recurs(f, V, base, step) ==
  /\ f \in [Nat -> V]
  /\ \A n \in Nat : f[n] = IF n = 0 THEN base ELSE step[<<n, f[n - 1]>>]

LEMMA NatRecursion ==
  ASSUME NEW V, NEW base \in V, NEW step \in [Nat \X V -> V]
  PROVE  \E f : Recurs(f, V, base, step)
<1> DEFINE Solves(g, k) == /\ g \in [0..k -> V]
                           /\ \A n \in 0..k : g[n] = IF n = 0 THEN base ELSE step[<<n, g[n - 1]>>]
           P == {k \in Nat : \E g : Solves(g, k)}
<1>1. 0 \in P
  <2>1. Solves([n \in 0..0 |-> base], 0)
    OBVIOUS
  <2> QED BY <2>1
<1>2. ASSUME NEW k \in Nat, k \in P PROVE k + 1 \in P
  <2>1. PICK g : Solves(g, k)
    BY <1>2
  <2> DEFINE v == step[<<k + 1, g[k]>>]
             h == [n \in 0..(k + 1) |-> IF n = k + 1 THEN v ELSE g[n]]
  <2>2. v \in V
    BY <2>1
  <2> HIDE DEF v
  <2>3. h \in [0..(k + 1) -> V]
    BY <2>1, <2>2
  <2>4. ASSUME NEW n \in 0..(k + 1) PROVE h[n] = IF n = 0 THEN base ELSE step[<<n, h[n - 1]>>]
    <3>1. CASE n = k + 1
      <4>1. n # 0 /\ n - 1 = k /\ k # k + 1 /\ k \in 0..(k + 1)
        BY <3>1
      <4>2. h[n] = v /\ h[k] = g[k]
        BY <3>1, <4>1
      <4> QED BY <3>1, <4>1, <4>2 DEF v
    <3>2. CASE n # k + 1
      <4>1. n \in 0..k /\ h[n] = g[n]
        BY <3>2
      <4>2. n # 0 => n - 1 \in 0..(k + 1) /\ n - 1 # k + 1
        BY <4>1
      <4>3. n # 0 => h[n - 1] = g[n - 1]
        BY <4>2
      <4> QED BY <2>1, <4>1, <4>3
    <3> QED BY <3>1, <3>2
  <2> HIDE DEF h
  <2>5. Solves(h, k + 1)
    BY <2>3, <2>4
  <2> QED BY <2>5
<1>3. P = Nat
  <2>1. P \in SUBSET Nat
    OBVIOUS
  <2> HIDE DEF P
  <2> QED BY <1>1, <1>2, <2>1, SetInduction
<1> DEFINE G(k) == CHOOSE g : Solves(g, k)
<1>4. \A k \in Nat : Solves(G(k), k)
  <2> HIDE DEF Solves
  <2> QED BY <1>3
<1>5. ASSUME NEW k \in Nat, NEW g, NEW h, Solves(g, k), Solves(h, k + 1) PROVE g[k] = h[k]
  <2> DEFINE Q == {n \in Nat : n <= k => g[n] = h[n]}
  <2>1. 0 \in Q
    <3>1. 0 \in 0..k /\ 0 \in 0..(k + 1)
      OBVIOUS
    <3>2. g[0] = base /\ h[0] = base
      BY <1>5, <3>1
    <3> QED BY <3>2
  <2>2. ASSUME NEW n \in Nat, n \in Q PROVE n + 1 \in Q
    <3> SUFFICES ASSUME n + 1 <= k PROVE g[n + 1] = h[n + 1]
      OBVIOUS
    <3>1. n + 1 \in 0..k /\ n + 1 \in 0..(k + 1) /\ n + 1 # 0 /\ (n + 1) - 1 = n
      OBVIOUS
    <3>2. g[n] = h[n]
      BY <2>2, <3>1
    <3>3. g[n + 1] = step[<<n + 1, g[n]>>]
      BY <1>5, <3>1
    <3>4. h[n + 1] = step[<<n + 1, h[n]>>]
      BY <1>5, <3>1
    <3> QED BY <3>2, <3>3, <3>4
  <2>3. Q = Nat
    <3>1. Q \in SUBSET Nat
      OBVIOUS
    <3> HIDE DEF Q
    <3> QED BY <2>1, <2>2, <3>1, SetInduction
  <2> QED BY <2>3
<1> DEFINE f == [k \in Nat |-> G(k)[k]]
<1>6. ASSUME NEW k \in Nat PROVE f[k] = G(k)[k]
  OBVIOUS
<1> HIDE DEF G
<1>7. f \in [Nat -> V]
  BY <1>4
<1>8. ASSUME NEW n \in Nat PROVE f[n] = IF n = 0 THEN base ELSE step[<<n, f[n - 1]>>]
  <2>1. Solves(G(n), n) /\ n \in 0..n
    BY <1>4
  <2>2. CASE n = 0
    BY <2>1, <2>2
  <2>3. CASE n # 0
    <3>1. n - 1 \in Nat /\ (n - 1) + 1 = n
      BY <2>3
    <3>2. Solves(G(n - 1), n - 1)
      BY <1>4, <3>1
    <3>3. G(n - 1)[n - 1] = G(n)[n - 1]
      <4> HIDE DEF Solves
      <4>1. Solves(G(n), (n - 1) + 1)
        BY <2>1, <3>1
      <4> QED BY <1>5, <3>1, <3>2, <4>1
    <3>4. G(n)[n] = step[<<n, G(n)[n - 1]>>]
      BY <2>1, <2>3
    <3> QED BY <2>3, <3>1, <3>3, <3>4
  <2> QED BY <2>2, <2>3
<1> HIDE DEF f
<1>9. Recurs(f, V, base, step)
  BY <1>7, <1>8 DEF Recurs
<1> QED BY <1>9

--------------------------------------------------------------------------------
(* The sum of the values a function has on a finite set, as MapThenSumSet computes   *)
(* it: the member that CHOOSE takes, and what is left.                                *)
AnyOf(s) == CHOOSE x \in s : TRUE

SumOf(f, S) == MapThenSumSet(LAMBDA x : f[x], S)

Sums(g, f, S) ==
  g = [s \in SUBSET S |-> IF s = {} THEN 0 ELSE f[AnyOf(s)] + g[s \ {AnyOf(s)}]]

LEMMA SumsExist ==
  ASSUME NEW S, IsFiniteSet(S), NEW f, \A x \in S : f[x] \in Nat
  PROVE  \E g \in [SUBSET S -> Nat] : Sums(g, f, S)
<1> DEFINE pick == [s \in SUBSET S |-> AnyOf(s)]
           step == [p \in S \X Nat |-> f[p[1]] + p[2]]
<1>1. \A s \in SUBSET S : pick[s] = AnyOf(s) /\ (s # {} => pick[s] \in s)
  BY DEF AnyOf
<1>2. \A x \in S, v \in Nat : step[<<x, v>>] = f[x] + v /\ step[<<x, v>>] \in Nat
  OBVIOUS
<1> HIDE DEF pick, step
<1>3. PickAndStep(S, Nat, 0, pick, step)
  BY <1>1, <1>2 DEF PickAndStep
<1>4. PICK g : Folds(g, S, Nat, 0, pick, step)
  BY <1>3, SetRecursion
<1>5. /\ g \in [SUBSET S -> Nat]
      /\ \A s \in SUBSET S : g[s] = IF s = {} THEN 0 ELSE step[<<pick[s], g[s \ {pick[s]}]>>]
  BY <1>4 DEF Folds
<1>6. ASSUME NEW s \in SUBSET S
      PROVE  g[s] = IF s = {} THEN 0 ELSE f[AnyOf(s)] + g[s \ {AnyOf(s)}]
  <2>1. CASE s = {}
    BY <1>5, <2>1
  <2>2. CASE s # {}
    <3>1. pick[s] \in S /\ s \ {pick[s]} \in SUBSET S /\ pick[s] = AnyOf(s)
      BY <1>1, <2>2
    <3>2. g[s \ {pick[s]}] \in Nat
      BY <1>5, <3>1
    <3>3. g[s] = f[pick[s]] + g[s \ {pick[s]}]
      BY <1>2, <1>5, <2>2, <3>1, <3>2
    <3> QED BY <2>2, <3>1, <3>3
  <2> QED BY <2>1, <2>2
<1>7. Sums(g, f, S)
  BY <1>5, <1>6 DEF Sums
<1> QED BY <1>5, <1>7

LEMMA SumIsOne ==
  ASSUME NEW S, NEW f, \E g : Sums(g, f, S)
  PROVE  \E g : Sums(g, f, S) /\ SumOf(f, S) = g[S]
<1> DEFINE sums == CHOOSE g : Sums(g, f, S)
<1>1. Sums(sums, f, S)
  OBVIOUS
<1>2. SumOf(f, S) = sums[S]
  BY DEF SumOf, MapThenSumSet, MapThenFoldSet, Sums, AnyOf
<1> QED BY <1>1, <1>2

(* The sums of a set and of a larger one agree, and any member can be taken first. *)
LEMMA SumsAgree ==
  ASSUME NEW S, IsFiniteSet(S), NEW T \in SUBSET S, NEW f, NEW g, NEW h,
         Sums(g, f, S), Sums(h, f, T)
  PROVE  \A s \in SUBSET T : g[s] = h[s]
<1> DEFINE P == {k \in Nat : \A s \in SUBSET T : Cardinality(s) <= k => g[s] = h[s]}
<1>1. \A s \in SUBSET T : s \in SUBSET S /\ IsFiniteSet(s) /\ Cardinality(s) \in Nat
  <2>1. \A s \in SUBSET T : s \in SUBSET S
    OBVIOUS
  <2> QED BY <2>1, FS_Subset, FS_CardinalityType
<1>2. /\ \A s \in SUBSET S : g[s] = IF s = {} THEN 0 ELSE f[AnyOf(s)] + g[s \ {AnyOf(s)}]
      /\ \A s \in SUBSET T : h[s] = IF s = {} THEN 0 ELSE f[AnyOf(s)] + h[s \ {AnyOf(s)}]
  BY DEF Sums
<1>3. 0 \in P
  <2>1. ASSUME NEW s \in SUBSET T, Cardinality(s) <= 0 PROVE s = {}
    <3>1. IsFiniteSet(s) /\ Cardinality(s) = 0
      BY <1>1, <2>1
    <3> QED BY <3>1, FS_EmptySet
  <2> QED BY <1>1, <1>2, <2>1
<1>4. ASSUME NEW k \in Nat, k \in P PROVE k + 1 \in P
  <2> SUFFICES ASSUME NEW s \in SUBSET T, Cardinality(s) <= k + 1 PROVE g[s] = h[s]
    OBVIOUS
  <2>1. CASE s = {}
    BY <1>1, <1>2, <2>1
  <2>2. CASE s # {}
    <3>1. PICK x : x = AnyOf(s)
      OBVIOUS
    <3>2. x \in s
      BY <2>2, <3>1 DEF AnyOf
    <3>3. Cardinality(s \ {x}) = Cardinality(s) - 1
      BY <1>1, <3>2, FS_RemoveElement
    <3>4. s \ {x} \in SUBSET T /\ Cardinality(s \ {x}) <= k
      BY <1>1, <3>3
    <3>5. g[s \ {x}] = h[s \ {x}]
      BY <1>4, <3>4
    <3> QED BY <1>1, <1>2, <2>2, <3>1, <3>5
  <2> QED BY <2>1, <2>2
<1> HIDE DEF P
<1>5. P = Nat
  <2>1. P \in SUBSET Nat
    BY DEF P
  <2> QED BY <1>3, <1>4, <2>1, SetInduction
<1> QED BY <1>1, <1>5 DEF P

FirstTaken(g, f, s, x) == g[s] = f[x] + g[s \ {x}]

LEMMA SumsAnyOrder ==
  ASSUME NEW S, IsFiniteSet(S), NEW f, \A x \in S : f[x] \in Nat,
         NEW g, g \in [SUBSET S -> Nat], Sums(g, f, S), NEW s \in SUBSET S, NEW x \in s
  PROVE  FirstTaken(g, f, s, x)
<1> DEFINE P == {k \in Nat : \A t \in SUBSET S : Cardinality(t) <= k =>
                               \A z \in t : g[t] = f[z] + g[t \ {z}]}
<1>1. \A t \in SUBSET S : IsFiniteSet(t) /\ Cardinality(t) \in Nat
  BY FS_Subset, FS_CardinalityType
<1>2. \A t \in SUBSET S : t # {} => g[t] = f[AnyOf(t)] + g[t \ {AnyOf(t)}] /\ AnyOf(t) \in t
  BY DEF Sums, AnyOf
<1>3. 0 \in P
  <2>1. ASSUME NEW t \in SUBSET S, Cardinality(t) <= 0 PROVE t = {}
    <3>1. IsFiniteSet(t) /\ Cardinality(t) = 0
      BY <1>1, <2>1
    <3> QED BY <3>1, FS_EmptySet
  <2> QED BY <2>1
<1>4. ASSUME NEW k \in Nat, k \in P PROVE k + 1 \in P
  <2> SUFFICES ASSUME NEW t \in SUBSET S, Cardinality(t) <= k + 1, NEW z \in t
               PROVE  g[t] = f[z] + g[t \ {z}]
    OBVIOUS
  <2>1. PICK y : y = AnyOf(t)
    OBVIOUS
  <2>2. y \in t /\ g[t] = f[y] + g[t \ {y}]
    BY <1>2, <2>1
  <2>3. CASE z = y
    BY <2>2, <2>3
  <2>4. CASE z # y
    <3>1. Cardinality(t \ {y}) = Cardinality(t) - 1 /\ Cardinality(t \ {z}) = Cardinality(t) - 1
      BY <1>1, <2>2, FS_RemoveElement
    <3>2. /\ t \ {y} \in SUBSET S /\ Cardinality(t \ {y}) <= k /\ z \in t \ {y}
          /\ t \ {z} \in SUBSET S /\ Cardinality(t \ {z}) <= k /\ y \in t \ {z}
      BY <1>1, <2>2, <2>4, <3>1
    <3>3. g[t \ {y}] = f[z] + g[(t \ {y}) \ {z}] /\ g[t \ {z}] = f[y] + g[(t \ {z}) \ {y}]
      BY <1>4, <3>2
    <3>4. PICK r \in SUBSET S : r = (t \ {y}) \ {z} /\ r = (t \ {z}) \ {y}
      OBVIOUS
    <3>5. f[z] \in Nat /\ f[y] \in Nat /\ g[r] \in Nat
      BY <2>2
    <3>6. g[t] = f[y] + (f[z] + g[r]) /\ g[t \ {z}] = f[y] + g[r]
      BY <2>2, <3>3, <3>4
    <3> QED BY <3>5, <3>6
  <2> QED BY <2>3, <2>4
<1> HIDE DEF P
<1>5. P = Nat
  <2>1. P \in SUBSET Nat
    BY DEF P
  <2> QED BY <1>3, <1>4, <2>1, SetInduction
<1>6. g[s] = f[x] + g[s \ {x}]
  <2>1. Cardinality(s) \in P /\ Cardinality(s) <= Cardinality(s)
    BY <1>1, <1>5
  <2> QED BY <2>1 DEF P
<1> QED BY <1>6 DEF FirstTaken

(* MapThenSumSet of a finite set is a natural number, 0 for the empty set, and the   *)
(* value of any member more than the sum of the others.                               *)
LEMMA SumOfSet ==
  ASSUME NEW S, IsFiniteSet(S), NEW f, \A x \in S : f[x] \in Nat
  PROVE  /\ SumOf(f, S) \in Nat
         /\ S = {} => SumOf(f, S) = 0
         /\ \A x \in S : SumOf(f, S) = f[x] + SumOf(f, S \ {x})
<1>1. PICK g \in [SUBSET S -> Nat] : Sums(g, f, S)
  BY SumsExist
<1>2. ASSUME NEW T \in SUBSET S PROVE SumOf(f, T) = g[T]
  <2>1. IsFiniteSet(T) /\ \A x \in T : f[x] \in Nat
    BY <1>2, FS_Subset
  <2>2. \E h : Sums(h, f, T)
    BY <2>1, SumsExist
  <2>3. PICK h : Sums(h, f, T) /\ SumOf(f, T) = h[T]
    BY <2>2, SumIsOne
  <2> QED BY <1>1, <2>3, SumsAgree
<1>3. SumOf(f, S) = g[S] /\ \A x \in S : SumOf(f, S \ {x}) = g[S \ {x}]
  BY <1>2
<1>4. g[S] \in Nat
  BY <1>1
<1>5. S = {} => g[S] = 0
  BY <1>1 DEF Sums
<1>6. ASSUME NEW x \in S PROVE FirstTaken(g, f, S, x)
  BY <1>1, SumsAnyOrder
<1>7. ASSUME NEW x \in S PROVE SumOf(f, S) = f[x] + SumOf(f, S \ {x})
  <2>2. g[S] = f[x] + g[S \ {x}]
    BY <1>6 DEF FirstTaken
  <2> QED BY <1>3, <2>2
<1> QED BY <1>3, <1>4, <1>5, <1>7
=================================================================================
