----------------------------- MODULE PipelineProofs -----------------------------
(***************************************************************************)
(* Proofs about Pipeline, for any sources, sidecars and edits: what the    *)
(* parser, the move to the slug, the diff and the claim graph make of a    *)
(* paper.                                                                  *)
(***************************************************************************)
EXTENDS Pipeline, FiniteSetTheorems, SequenceTheorems, WellFoundedInduction, TLAPS

-----------------------------------------------------------------------------
(***************************************************************************)
(* Numbers, places and sequences.                                          *)
(***************************************************************************)

LEMMA LeastOf ==
  ASSUME NEW S \in SUBSET Nat, S # {}
  PROVE  \E m \in S : \A k \in S : m <= k
<1> DEFINE R == OpToRel(<, Nat)
<1>1. PICK x \in S : \A y \in S : <<y, x>> \notin R
  <2>1. IsWellFoundedOn(R, Nat)
    BY NatLessThanWellFounded
  <2> HIDE DEF R
  <2> QED
    BY <2>1, WFMin
<1>2. ASSUME NEW y \in S PROVE x <= y
  <2>1. <<y, x>> \notin {p \in Nat \X Nat : p[1] < p[2]}
    BY <1>1 DEF OpToRel
  <2> QED
    BY <2>1
<1> QED
  BY <1>2

\* What holds of no least number in a set of numbers holds of none.
LEMMA NoLeast ==
  ASSUME NEW S \in SUBSET Nat, \A m \in S : \E k \in S : k < m
  PROVE  S = {}
<1> SUFFICES ASSUME S # {} PROVE FALSE
  OBVIOUS
<1>1. PICK m \in S : \A k \in S : m <= k
  BY LeastOf
<1> QED
  BY <1>1

LEMMA SmallestOf ==
  ASSUME NEW S \in SUBSET Nat, S # {}
  PROVE  Min(S) \in S /\ \A i \in S : Min(S) <= i
BY LeastOf DEF Min

\* The places of a finite set, in order: each once, and the nth has n up to it.
LEMMA Ordered ==
  ASSUME NEW S \in SUBSET Nat, IsFiniteSet(S)
  PROVE  /\ Cardinality(S) \in Nat
         /\ InOrder(S) \in Seq(S) /\ Len(InOrder(S)) = Cardinality(S)
         /\ DOMAIN InOrder(S) = 1 .. Cardinality(S)
         /\ \A n \in 1 .. Cardinality(S) :
              InOrder(S)[n] \in S /\ Cardinality({j \in S : j <= InOrder(S)[n]}) = n
         /\ \A i \in S : \E n \in 1 .. Cardinality(S) : InOrder(S)[n] = i
         /\ \A m, n \in 1 .. Cardinality(S) : m < n <=> InOrder(S)[m] < InOrder(S)[n]
<1> DEFINE N == Cardinality(S)
           UpTo(i) == {j \in S : j <= i}
           rank == [i \in S |-> Cardinality(UpTo(i))]
<1>1. N \in Nat /\ \A i \in S : i \in Nat
  BY FS_CardinalityType
<1>2. \A i \in S : IsFiniteSet(UpTo(i)) /\ rank[i] \in 1 .. N
  <2> SUFFICES ASSUME NEW i \in S PROVE IsFiniteSet(UpTo(i)) /\ Cardinality(UpTo(i)) \in 1 .. N
    OBVIOUS
  <2>1. UpTo(i) \subseteq S /\ i \in UpTo(i)
    OBVIOUS
  <2> HIDE DEF UpTo
  <2>2. IsFiniteSet(UpTo(i)) /\ Cardinality(UpTo(i)) <= N /\ Cardinality(UpTo(i)) \in Nat
    BY <2>1, FS_Subset, FS_CardinalityType
  <2>3. Cardinality(UpTo(i)) # 0
    BY <2>1, <2>2, FS_EmptySet
  <2> QED
    BY <1>1, <2>2, <2>3
<1>3. \A i, j \in S : i < j => rank[i] < rank[j]
  <2> SUFFICES ASSUME NEW i \in S, NEW j \in S, i < j PROVE Cardinality(UpTo(i)) < Cardinality(UpTo(j))
    OBVIOUS
  <2>1. UpTo(i) \subseteq UpTo(j) /\ j \in UpTo(j) /\ j \notin UpTo(i)
    <3>1. i \in Nat /\ j \in Nat /\ \A k \in S : k \in Nat
      BY <1>1
    <3>2. \A k \in S : k <= i => k <= j
      BY <3>1
    <3>3. ~(j <= i) /\ j <= j
      BY <3>1
    <3> HIDE DEF rank, N
    <3> QED
      BY <3>1, <3>2, <3>3
  <2>2. IsFiniteSet(UpTo(j)) /\ IsFiniteSet(UpTo(i))
    BY <1>2
  <2> HIDE DEF UpTo
  <2>3. Cardinality(UpTo(i)) <= Cardinality(UpTo(j)) /\ Cardinality(UpTo(i)) # Cardinality(UpTo(j))
    BY <2>1, <2>2, FS_Subset
  <2> QED
    BY <2>2, <2>3, FS_CardinalityType
<1>4. \A i, j \in S : rank[i] < rank[j] => i < j
  <2> SUFFICES ASSUME NEW i \in S, NEW j \in S, rank[i] < rank[j], ~(i < j) PROVE FALSE
    OBVIOUS
  <2>1. rank[i] \in Nat /\ rank[j] \in Nat /\ i \in Nat /\ j \in Nat
    BY <1>1, <1>2
  <2>2. i = j \/ j < i
    BY <2>1
  <2>3. rank[j] <= rank[i]
    BY <1>3, <2>1, <2>2
  <2> QED
    BY <2>1, <2>3
<1>5. \A n \in 1 .. N : \E i \in S : rank[i] = n
  <2>1. rank \in [S -> 1 .. N]
    BY <1>2
  <2>2. \A i, j \in S : rank[i] = rank[j] => i = j
    <3> SUFFICES ASSUME NEW i \in S, NEW j \in S, rank[i] = rank[j], i # j PROVE FALSE
      OBVIOUS
    <3>1. i < j \/ j < i
      OBVIOUS
    <3>2. rank[i] \in Nat /\ rank[j] \in Nat
      BY <1>1, <1>2
    <3> QED
      BY <1>3, <3>1, <3>2
  <2>3. IsFiniteSet(1 .. N) /\ Cardinality(1 .. N) = N
    BY <1>1, FS_Interval
  <2> HIDE DEF rank, N
  <2>4. rank \in Injection(S, 1 .. N)
    BY <2>1, <2>2 DEF Injection, IsInjective
  <2>5. rank \in Surjection(S, 1 .. N)
    BY <2>3, <2>4, FS_Injection DEF N
  <2> QED
    BY <2>5 DEF Surjection
<1>6. \A n \in 1 .. N : InOrder(S)[n] \in S /\ rank[InOrder(S)[n]] = n
  <2> SUFFICES ASSUME NEW n \in 1 .. N PROVE InOrder(S)[n] \in S /\ Cardinality(UpTo(InOrder(S)[n])) = n
    OBVIOUS
  <2>1. \E i \in S : Cardinality(UpTo(i)) = n
    BY <1>5
  <2> QED
    BY <2>1 DEF InOrder
<1>7. DOMAIN InOrder(S) = 1 .. N /\ InOrder(S) = [n \in 1 .. N |-> InOrder(S)[n]]
  <2> DEFINE place(n) == CHOOSE i \in S : Cardinality(UpTo(i)) = n
  <2>1. InOrder(S) = [n \in 1 .. N |-> place(n)]
    BY DEF InOrder
  <2> HIDE DEF place, N
  <2> QED
    BY <2>1
<1>8. \A i \in S : InOrder(S)[rank[i]] = i
  <2> SUFFICES ASSUME NEW i \in S PROVE InOrder(S)[rank[i]] = i
    OBVIOUS
  <2> DEFINE n == rank[i]
             j == InOrder(S)[n]
  <2>1. n \in 1 .. N /\ j \in S /\ rank[j] = rank[i]
    BY <1>2, <1>6
  <2>2. ~(i < j) /\ ~(j < i)
    <3>1. rank[i] \in Nat
      BY <1>1, <1>2
    <3> HIDE DEF rank, n, j
    <3> QED
      BY <1>3, <2>1, <3>1
  <2>3. i \in Nat /\ j \in Nat
    BY <2>1
  <2> QED
    BY <2>2, <2>3
<1>9. InOrder(S) \in Seq(S) /\ Len(InOrder(S)) = N
  <2> HIDE DEF N
  <2>1. InOrder(S) \in [1 .. N -> S]
    BY <1>6, <1>7
  <2> QED
    BY <1>1, <2>1
<1> HIDE DEF rank
<1>10. \A m, n \in 1 .. N : m < n <=> InOrder(S)[m] < InOrder(S)[n]
  <2> SUFFICES ASSUME NEW m \in 1 .. N, NEW n \in 1 .. N PROVE m < n <=> InOrder(S)[m] < InOrder(S)[n]
    OBVIOUS
  <2>1. rank[InOrder(S)[m]] = m /\ rank[InOrder(S)[n]] = n /\ InOrder(S)[m] \in S /\ InOrder(S)[n] \in S
    BY <1>6
  <2> DEFINE a == InOrder(S)[m]
             b == InOrder(S)[n]
  <2>2. rank[a] < rank[b] => a < b
    BY <1>4, <2>1
  <2>3. a < b => rank[a] < rank[b]
    BY <1>3, <2>1
  <2> QED
    BY <2>1, <2>2, <2>3
<1>11. \A i \in S : rank[i] \in 1 .. N
  BY <1>2
<1> QED
  BY <1>1, <1>6, <1>7, <1>8, <1>9, <1>10, <1>11 DEF rank

LEMMA GreatestOf ==
  ASSUME NEW S \in SUBSET Nat, IsFiniteSet(S), S # {}
  PROVE  Max(S) \in S /\ \A i \in S : i <= Max(S)
<1> DEFINE N == Cardinality(S)
           top == InOrder(S)[N]
<1>1. N \in Nat /\ N # 0 /\ N \in 1 .. N
  BY FS_CardinalityType, FS_EmptySet
<1>2. top \in S
  BY <1>1, Ordered
<1>3. \A i \in S : top >= i
  <2> SUFFICES ASSUME NEW i \in S PROVE i <= top
    OBVIOUS
  <2>1. PICK n \in 1 .. N : InOrder(S)[n] = i
    BY Ordered
  <2>2. n < N => i < top
    BY <1>1, <2>1, Ordered
  <2>3. i \in Nat /\ top \in Nat /\ n \in Nat
    <3> HIDE DEF top
    <3> QED
      BY <1>2, <2>1
  <2> QED
    BY <1>1, <2>1, <2>2, <2>3
<1> HIDE DEF top
<1> QED
  BY <1>2, <1>3 DEF Max

\* FlattenSeq puts its sequences together one by one.
LEMMA FlattenSteps ==
  ASSUME NEW S, NEW ss \in Seq(Seq(S)), ss # << >>
  PROVE  \E f \in [1 .. Len(ss) -> Seq(S)] :
           /\ f[1] = ss[1]
           /\ \A i \in 2 .. Len(ss) : f[i] = f[i - 1] \o ss[i]
           /\ FlattenSeq(ss) = f[Len(ss)]
<1> DEFINE N == Len(ss)
           Step(f, i) == IF i = 1 THEN ss[i] ELSE f[i - 1] \o ss[i]
           Built(k) == \E f \in [1 .. k -> Seq(S)] : \A i \in 1 .. k : f[i] = Step(f, i)
           Bad == {k \in 1 .. N : ~Built(k)}
<1>1. N \in Nat /\ N > 0 /\ \A i \in 1 .. N : ss[i] \in Seq(S)
  OBVIOUS
<1>2. Built(1)
  <2> DEFINE f == [i \in 1 .. 1 |-> ss[i]]
  <2>1. f \in [1 .. 1 -> Seq(S)] /\ \A i \in 1 .. 1 : f[i] = Step(f, i)
    BY <1>1
  <2> QED
    BY <2>1
<1>3. ASSUME NEW k \in 1 .. N, k > 1, Built(k - 1) PROVE Built(k)
  <2>1. PICK f \in [1 .. k - 1 -> Seq(S)] : \A i \in 1 .. k - 1 : f[i] = Step(f, i)
    BY <1>3
  <2> DEFINE g == [i \in 1 .. k |-> IF i < k THEN f[i] ELSE f[k - 1] \o ss[k]]
  <2>2. k - 1 \in 1 .. k - 1 /\ f[k - 1] \in Seq(S) /\ f[k - 1] \o ss[k] \in Seq(S)
    BY <1>1, <1>3, ConcatProperties
  <2>3. g \in [1 .. k -> Seq(S)]
    BY <2>2
  <2>4. \A i \in 1 .. k : g[i] = Step(g, i)
    <3> SUFFICES ASSUME NEW i \in 1 .. k PROVE g[i] = Step(g, i)
      OBVIOUS
    <3>1. CASE i = k
      BY <1>3, <2>2, <3>1
    <3>2. CASE i < k
      <4>1. i \in 1 .. k - 1 /\ (i > 1 => i - 1 \in 1 .. k - 1)
        BY <3>2
      <4>2. g[i] = f[i] /\ (i > 1 => g[i - 1] = f[i - 1])
        BY <3>2, <4>1
      <4>3. f[i] = Step(f, i)
        BY <2>1, <4>1
      <4> HIDE DEF g
      <4> QED
        BY <4>1, <4>2, <4>3
    <3> QED
      BY <3>1, <3>2
  <2> QED
    BY <2>3, <2>4
<1> HIDE DEF Built
<1>4. \A k \in Bad : \E j \in Bad : j < k
  <2> SUFFICES ASSUME NEW k \in 1 .. N, ~Built(k) PROVE k - 1 \in Bad /\ k - 1 < k
    BY <1>1
  <2>1. k # 1
    BY <1>2
  <2> QED
    BY <1>1, <1>3, <2>1
<1>5. Built(N)
  <2>1. Bad \in SUBSET Nat /\ N \in 1 .. N
    BY <1>1
  <2>2. Bad = {}
    BY <1>4, <2>1, NoLeast
  <2> QED
    BY <2>1, <2>2
<1>6. PICK f \in [1 .. N -> Seq(S)] : \A i \in 1 .. N : f[i] = Step(f, i)
  BY <1>5 DEF Built
<1> DEFINE flatten == CHOOSE g : g = [i \in 1 .. N |-> Step(g, i)]
<1>7. flatten = [i \in 1 .. N |-> Step(flatten, i)]
  <2>1. f = [i \in 1 .. N |-> Step(f, i)]
    BY <1>6
  <2> HIDE DEF Step
  <2> QED
    BY <2>1
<1>8. FlattenSeq(ss) = flatten[N]
  BY <1>1 DEF FlattenSeq
<1> HIDE DEF flatten
<1>9. \A i \in 1 .. N : flatten[i] = Step(flatten, i)
  BY <1>7
<1>10. \A i \in 1 .. N : flatten[i] \in Seq(S)
  <2> DEFINE Wrong == {i \in 1 .. N : flatten[i] \notin Seq(S)}
  <2>1. \A i \in Wrong : \E j \in Wrong : j < i
    <3> SUFFICES ASSUME NEW i \in 1 .. N, flatten[i] \notin Seq(S) PROVE i - 1 \in Wrong /\ i - 1 < i
      BY <1>1
    <3>1. i # 1
      BY <1>1, <1>9
    <3>2. i - 1 \in 1 .. N
      BY <1>1, <3>1
    <3>3. flatten[i - 1] \notin Seq(S)
      <4>1. flatten[i] = flatten[i - 1] \o ss[i]
        BY <1>9, <3>1
      <4> QED
        BY <1>1, <4>1, ConcatProperties
    <3> QED
      BY <3>2, <3>3
  <2>2. Wrong \in SUBSET Nat
    OBVIOUS
  <2> HIDE DEF Wrong
  <2>3. Wrong = {}
    BY <2>1, <2>2, NoLeast
  <2> QED
    BY <2>3 DEF Wrong
<1>11. flatten \in [1 .. N -> Seq(S)]
  <2>1. flatten = [i \in 1 .. N |-> flatten[i]]
    <3> HIDE DEF Step
    <3> QED
      BY <1>7
  <2> QED
    BY <1>10, <2>1
<1>12. flatten[1] = ss[1]
  <2>1. 1 \in 1 .. N
    BY <1>1
  <2> QED
    BY <1>9, <2>1
<1>13. \A i \in 2 .. N : flatten[i] = flatten[i - 1] \o ss[i]
  <2> SUFFICES ASSUME NEW i \in 2 .. N PROVE flatten[i] = flatten[i - 1] \o ss[i]
    OBVIOUS
  <2>1. i \in 1 .. N /\ i # 1
    BY <1>1
  <2> QED
    BY <1>9, <2>1
<1> HIDE DEF Step
<1> QED
  BY <1>8, <1>11, <1>12, <1>13

LEMMA FlattenIs ==
  ASSUME NEW S, NEW ss \in Seq(Seq(S))
  PROVE  /\ FlattenSeq(ss) \in Seq(S)
         /\ ToSet(FlattenSeq(ss)) = UNION {ToSet(ss[i]) : i \in DOMAIN ss}
<1>1. CASE ss = << >>
  <2>1. FlattenSeq(ss) = << >>
    BY <1>1 DEF FlattenSeq
  <2>2. << >> \in Seq(S) /\ DOMAIN ss = {} /\ ToSet(<< >>) = {}
    <3>1. DOMAIN << >> = {}
      OBVIOUS
    <3> QED
      BY <1>1, <3>1 DEF ToSet
  <2> QED
    BY <2>1, <2>2
<1>2. CASE ss # << >>
  <2> DEFINE N == Len(ss)
  <2>1. N \in Nat /\ N > 0 /\ DOMAIN ss = 1 .. N /\ \A i \in 1 .. N : ss[i] \in Seq(S)
    BY <1>2
  <2>2. PICK f \in [1 .. N -> Seq(S)] :
          /\ f[1] = ss[1] /\ \A i \in 2 .. N : f[i] = f[i - 1] \o ss[i]
          /\ FlattenSeq(ss) = f[N]
    BY <1>2, FlattenSteps
  <2> DEFINE All(k) == UNION {ToSet(ss[i]) : i \in 1 .. k}
             Bad == {k \in 1 .. N : ToSet(f[k]) # All(k)}
  <2>3. \A k \in Bad : \E j \in Bad : j < k
    <3> SUFFICES ASSUME NEW k \in 1 .. N, ToSet(f[k]) # All(k), \A j \in 1 .. N : j < k => ToSet(f[j]) = All(j)
                 PROVE  FALSE
      OBVIOUS
    <3>1. k # 1
      <4>1. All(1) = ToSet(ss[1])
        OBVIOUS
      <4> QED
        BY <2>2, <4>1
    <3>2. k - 1 \in 1 .. N /\ k - 1 < k /\ k \in 2 .. N
      BY <2>1, <3>1
    <3>3. f[k] = f[k - 1] \o ss[k] /\ f[k - 1] \in Seq(S) /\ ss[k] \in Seq(S)
      BY <2>1, <2>2, <3>2
    <3>4. ToSet(f[k]) = ToSet(f[k - 1]) \cup ToSet(ss[k])
      <4> DEFINE s == f[k - 1]
                 t == ss[k]
      <4> HIDE DEF s, t
      <4>1. s \in Seq(S) /\ t \in Seq(S) => ToSet(s \o t) = ToSet(s) \cup ToSet(t)
        <5> SUFFICES ASSUME s \in Seq(S), t \in Seq(S) PROVE ToSet(s \o t) = ToSet(s) \cup ToSet(t)
          OBVIOUS
        <5>1. Len(s) \in Nat /\ Len(t) \in Nat /\ DOMAIN s = 1 .. Len(s) /\ DOMAIN t = 1 .. Len(t)
              /\ DOMAIN (s \o t) = 1 .. Len(s) + Len(t)
          OBVIOUS
        <5>2. \A i \in 1 .. Len(s) + Len(t) : (s \o t)[i] = IF i <= Len(s) THEN s[i] ELSE t[i - Len(s)]
          OBVIOUS
        <5>3. ToSet(s \o t) \subseteq ToSet(s) \cup ToSet(t)
          BY <5>1, <5>2 DEF ToSet
        <5>4. \A i \in 1 .. Len(s) : i \in 1 .. Len(s) + Len(t) /\ (s \o t)[i] = s[i]
          BY <5>1, <5>2
        <5>5. \A i \in 1 .. Len(t) : i + Len(s) \in 1 .. Len(s) + Len(t) /\ (s \o t)[i + Len(s)] = t[i]
          BY <5>1, <5>2, SMTT(30)
        <5> QED
          BY <5>1, <5>3, <5>4, <5>5 DEF ToSet
      <4> QED
        BY <3>3, <4>1 DEF s, t
    <3>5. All(k) = All(k - 1) \cup ToSet(ss[k])
      <4>1. 1 .. k = (1 .. k - 1) \cup {k}
        BY <3>2
      <4> QED
        BY <4>1
    <3> QED
      BY <3>2, <3>4, <3>5
  <2> HIDE DEF All
  <2>4. Bad = {}
    <3>1. Bad \in SUBSET Nat
      OBVIOUS
    <3> QED
      BY <2>3, <3>1, NoLeast
  <2>5. ToSet(f[N]) = All(N) /\ f[N] \in Seq(S)
    BY <2>1, <2>4, SMTT(30)
  <2> QED
    BY <2>1, <2>2, <2>5 DEF All
<1> QED
  BY <1>1, <1>2
-----------------------------------------------------------------------------
(***************************************************************************)
(* Recursive functions: there is one wherever a value depends on smaller   *)
(* ones only, and what a step keeps, every value has.                      *)
(***************************************************************************)

\* step[<<x, f>>] is the value at x when f has those of smaller measure.
IsRecursion(D, S, mu, M, step) ==
  /\ S # {} /\ M \in Nat /\ mu \in [D -> Nat] /\ \A x \in D : mu[x] <= M
  /\ step \in [D \X [D -> S] -> S]
  /\ \A x \in D : \A f, g \in [D -> S] :
       (\A y \in D : mu[y] < mu[x] => f[y] = g[y]) => step[<<x, f>>] = step[<<x, g>>]

LEMMA Recursion ==
  ASSUME NEW D, NEW S, NEW mu, NEW M, NEW step, IsRecursion(D, S, mu, M, step)
  PROVE  \E f \in [D -> S] : \A x \in D : f[x] = step[<<x, f>>]
<1> USE DEF IsRecursion
<1> DEFINE Good(k) == \E f \in [D -> S] : \A x \in D : mu[x] < k => f[x] = step[<<x, f>>]
           Bad == {k \in 0 .. M + 1 : ~Good(k)}
<1>1. Good(0)
  <2>1. PICK s \in S : TRUE
    OBVIOUS
  <2>2. [x \in D |-> s] \in [D -> S] /\ \A x \in D : ~(mu[x] < 0)
    OBVIOUS
  <2> QED
    BY <2>2
<1>2. ASSUME NEW k \in Nat, Good(k) PROVE Good(k + 1)
  <2>1. PICK f \in [D -> S] : \A x \in D : mu[x] < k => f[x] = step[<<x, f>>]
    BY <1>2
  <2> DEFINE g == [x \in D |-> step[<<x, f>>]]
  <2>2. g \in [D -> S]
    OBVIOUS
  <2>3. ASSUME NEW x \in D, mu[x] < k + 1 PROVE g[x] = step[<<x, g>>]
    <3>1. \A y \in D : mu[y] < mu[x] => f[y] = g[y]
      <4> SUFFICES ASSUME NEW y \in D, mu[y] < mu[x] PROVE f[y] = g[y]
        OBVIOUS
      <4>1. mu[y] \in Nat /\ mu[x] \in Nat /\ mu[y] < k
        BY <2>3
      <4> QED
        BY <2>1, <4>1
    <3>2. g[x] = step[<<x, f>>]
      OBVIOUS
    <3> HIDE DEF g
    <3> QED
      BY <2>2, <3>1, <3>2
  <2> HIDE DEF g
  <2> QED
    BY <2>2, <2>3
<1> HIDE DEF Good
<1>3. Bad = {}
  <2>1. Bad \in SUBSET Nat
    OBVIOUS
  <2>2. \A k \in Bad : \E j \in Bad : j < k
    <3> SUFFICES ASSUME NEW k \in 0 .. M + 1, ~Good(k) PROVE k - 1 \in Bad /\ k - 1 < k
      OBVIOUS
    <3>1. k # 0
      BY <1>1
    <3>2. k - 1 \in Nat /\ (k - 1) + 1 = k
      BY <3>1
    <3>3. ~Good(k - 1)
      BY <1>2, <3>2
    <3> QED
      BY <3>2, <3>3
  <2> QED
    BY <2>1, <2>2, NoLeast
<1>4. Good(M + 1)
  BY <1>3
<1>5. \A x \in D : mu[x] < M + 1
  OBVIOUS
<1> QED
  BY <1>4, <1>5 DEF Good

-----------------------------------------------------------------------------
(***************************************************************************)
(* The text of a paper.                                                    *)
(***************************************************************************)

\* Files as an author has them.
IsFiles(files) ==
  /\ IsFiniteSet(DOMAIN files) /\ "main" \in DOMAIN files
  /\ \A f \in DOMAIN files : files[f] \in Seq(ToSet(files[f]))

AuthorsLines(files) == UNION {ToSet(files[f]) : f \in DOMAIN files}

Places(files) ==
  {p \in [mark : {"line", "comment", "rest", "inlined", "end", "missing"}, file : DOMAIN files, line : Nat] :
     p.mark = "line" => p.line \in DOMAIN files[p.file]}

\* Whom the search for what a file includes may still meet.
Ahead(files) ==
  [v \in [file : DOMAIN files, seen : SUBSET DOMAIN files] |-> Cardinality(DOMAIN files \ (v.seen \cup {v.file}))]

LEMMA AheadShrinks ==
  ASSUME NEW files, IsFiles(files), NEW v \in [file : DOMAIN files, seen : SUBSET DOMAIN files]
  PROVE  /\ Ahead(files)[v] \in Nat /\ Ahead(files)[v] <= Cardinality(DOMAIN files)
         /\ Cardinality(DOMAIN files) \in Nat
         /\ \A f \in DOMAIN files \ (v.seen \cup {v.file}) :
              LET w == [file |-> f, seen |-> v.seen \cup {v.file}]
              IN w \in [file : DOMAIN files, seen : SUBSET DOMAIN files] /\ Ahead(files)[w] < Ahead(files)[v]
<1> DEFINE F == DOMAIN files
           D == [file : F, seen : SUBSET F]
           Rest(u) == F \ (u.seen \cup {u.file})
<1>1. \A u \in D : Ahead(files)[u] = Cardinality(Rest(u)) /\ IsFiniteSet(Rest(u)) /\ Ahead(files)[u] \in Nat
  <2> SUFFICES ASSUME NEW u \in D
               PROVE  Ahead(files)[u] = Cardinality(Rest(u)) /\ IsFiniteSet(Rest(u)) /\ Ahead(files)[u] \in Nat
    OBVIOUS
  <2>1. Ahead(files)[u] = Cardinality(Rest(u))
    BY DEF Ahead
  <2>2. Rest(u) \subseteq F /\ IsFiniteSet(F)
    BY DEF IsFiles
  <2> HIDE DEF Rest, F
  <2> QED
    BY <2>1, <2>2, FS_Subset, FS_CardinalityType
<1>2. Ahead(files)[v] <= Cardinality(F) /\ Cardinality(F) \in Nat
  <2>1. Rest(v) \subseteq F /\ IsFiniteSet(F)
    BY DEF IsFiles
  <2> HIDE DEF Rest, F
  <2> QED
    BY <1>1, <2>1, FS_Subset, FS_CardinalityType DEF F
<1>3. ASSUME NEW f \in F \ (v.seen \cup {v.file})
      PROVE  LET w == [file |-> f, seen |-> v.seen \cup {v.file}]
             IN w \in D /\ Ahead(files)[w] < Ahead(files)[v]
  <2> DEFINE w == [file |-> f, seen |-> v.seen \cup {v.file}]
  <2>1. w \in D
    OBVIOUS
  <2>2. Rest(w) \subseteq Rest(v) /\ f \in Rest(v) /\ f \notin Rest(w)
    OBVIOUS
  <2>3. Ahead(files)[v] = Cardinality(Rest(v)) /\ IsFiniteSet(Rest(v)) /\ Ahead(files)[v] \in Nat
        /\ Ahead(files)[w] = Cardinality(Rest(w)) /\ Ahead(files)[w] \in Nat
    BY <1>1, <2>1
  <2>4. Rest(w) # Rest(v)
    BY <2>2
  <2> HIDE DEF Rest, w, D
  <2>5. Cardinality(Rest(w)) <= Cardinality(Rest(v)) /\ Cardinality(Rest(w)) # Cardinality(Rest(v))
    BY <2>2, <2>3, <2>4, FS_Subset
  <2> QED
    BY <2>1, <2>3, <2>5 DEF w
<1> QED
  BY <1>1, <1>2, <1>3

\* A recursive function over the files not met yet, from what its step does.
FlatStep(files, flat, v) ==
  FlattenSeq([n \in DOMAIN files[v.file] |->
    LET x == files[v.file][n]
        within == v.seen \cup {v.file}
    IN IF x.k \notin {"input", "figure"} THEN <<Place(v.file, n)>>
       ELSE IF x.k = "input" /\ x.file \in DOMAIN files \ within
       THEN <<Mark("inlined", x.file)>> \o flat[[file |-> x.file, seen |-> within]] \o <<Mark("end", x.file)>>
       ELSE <<Mark("missing", v.file), Place(v.file, n)>>])

SetStep(files, set, v) ==
  FlattenSeq([n \in DOMAIN files[v.file] |->
    LET x == files[v.file][n]
        within == v.seen \cup {v.file}
    IN IF x.k # "input" THEN <<x>>
       ELSE IF ~x.off /\ x.file \in DOMAIN files \ within
       THEN set[[file |-> x.file, seen |-> within]] ELSE <<>>])

\* The step asks the function for no more than the files ahead, and keeps the type.
LEMMA FlatStepIs ==
  ASSUME NEW files, IsFiles(files), NEW v \in [file : DOMAIN files, seen : SUBSET DOMAIN files], NEW flat
  PROVE  /\ (\A w \in [file : DOMAIN files, seen : SUBSET DOMAIN files] :
               Ahead(files)[w] < Ahead(files)[v] => flat[w] \in Seq(Places(files)))
            => FlatStep(files, flat, v) \in Seq(Places(files))
         /\ \A g : (\A w \in [file : DOMAIN files, seen : SUBSET DOMAIN files] :
                      Ahead(files)[w] < Ahead(files)[v] => flat[w] = g[w])
                   => FlatStep(files, flat, v) = FlatStep(files, g, v)
<1> DEFINE F == DOMAIN files
           D == [file : F, seen : SUBSET F]
           P == Places(files)
           lines == files[v.file]
           within == v.seen \cup {v.file}
           At(x) == [file |-> x.file, seen |-> within]
           Piece(h, n) == LET x == lines[n]
                          IN IF x.k \notin {"input", "figure"} THEN <<Place(v.file, n)>>
                             ELSE IF x.k = "input" /\ x.file \in F \ within
                             THEN <<Mark("inlined", x.file)>> \o h[At(x)] \o <<Mark("end", x.file)>>
                             ELSE <<Mark("missing", v.file), Place(v.file, n)>>
<1>1. lines \in Seq(ToSet(lines)) /\ DOMAIN lines = 1 .. Len(lines) /\ Len(lines) \in Nat /\ v.file \in F
  BY DEF IsFiles
<1>2. Mark("missing", v.file) \in P /\ (\A n \in DOMAIN lines : Place(v.file, n) \in P)
      /\ \A f \in F : Mark("inlined", f) \in P /\ Mark("end", f) \in P
  BY <1>1 DEF Mark, Place, Places
<1>3. \A h : FlatStep(files, h, v) = FlattenSeq([n \in DOMAIN lines |-> Piece(h, n)])
  BY DEF FlatStep
<1>4. \A x : x.file \in F \ within => At(x) \in D /\ Ahead(files)[At(x)] < Ahead(files)[v]
  BY AheadShrinks
<1>5. ASSUME \A w \in D : Ahead(files)[w] < Ahead(files)[v] => flat[w] \in Seq(P)
      PROVE  FlatStep(files, flat, v) \in Seq(P)
  <2>1. ASSUME NEW n \in DOMAIN lines PROVE Piece(flat, n) \in Seq(P)
    <3> DEFINE x == lines[n]
               inside == flat[At(x)]
    <3>1. CASE x.k \notin {"input", "figure"}
      BY <1>2, <3>1
    <3>2. CASE x.k = "input" /\ x.file \in F \ within
      <4>1. inside \in Seq(P) /\ Mark("inlined", x.file) \in P /\ Mark("end", x.file) \in P
        BY <1>2, <1>4, <1>5, <3>2
      <4>2. Piece(flat, n) = <<Mark("inlined", x.file)>> \o inside \o <<Mark("end", x.file)>>
        BY <3>2
      <4> HIDE DEF inside, P, Piece, x
      <4>3. <<Mark("inlined", x.file)>> \in Seq(P) /\ <<Mark("end", x.file)>> \in Seq(P)
        BY <4>1
      <4>4. <<Mark("inlined", x.file)>> \o inside \in Seq(P)
        BY <4>1, <4>3, ConcatProperties
      <4> QED
        BY <4>2, <4>3, <4>4, ConcatProperties
    <3>3. CASE x.k = "figure" \/ (x.k = "input" /\ x.file \notin F \ within)
      <4>1. Piece(flat, n) = <<Mark("missing", v.file), Place(v.file, n)>>
        BY <3>3
      <4> HIDE DEF P, Piece, x
      <4> QED
        BY <1>2, <4>1
    <3> QED
      BY <3>1, <3>2, <3>3
  <2> HIDE DEF P, Piece, lines
  <2>2. [n \in 1 .. Len(lines) |-> Piece(flat, n)] \in Seq(Seq(P))
    BY <1>1, <2>1
  <2>3. FlatStep(files, flat, v) = FlattenSeq([n \in 1 .. Len(lines) |-> Piece(flat, n)])
    BY <1>1, <1>3
  <2> QED
    BY <2>2, <2>3, FlattenIs
<1>6. ASSUME NEW g, \A w \in D : Ahead(files)[w] < Ahead(files)[v] => flat[w] = g[w]
      PROVE  FlatStep(files, flat, v) = FlatStep(files, g, v)
  <2>1. \A n \in DOMAIN lines : Piece(flat, n) = Piece(g, n)
    <3> SUFFICES ASSUME NEW n \in DOMAIN lines PROVE Piece(flat, n) = Piece(g, n)
      OBVIOUS
    <3>1. lines[n].file \in F \ within => flat[At(lines[n])] = g[At(lines[n])]
      BY <1>4, <1>6
    <3> HIDE DEF At
    <3> QED
      BY <3>1
  <2> HIDE DEF Piece
  <2> QED
    BY <1>3, <2>1
<1> QED
  BY <1>5, <1>6

LEMMA SetStepIs ==
  ASSUME NEW files, IsFiles(files), NEW v \in [file : DOMAIN files, seen : SUBSET DOMAIN files], NEW set
  PROVE  /\ (\A w \in [file : DOMAIN files, seen : SUBSET DOMAIN files] :
               Ahead(files)[w] < Ahead(files)[v] => set[w] \in Seq(AuthorsLines(files)))
            => SetStep(files, set, v) \in Seq(AuthorsLines(files))
         /\ \A g : (\A w \in [file : DOMAIN files, seen : SUBSET DOMAIN files] :
                      Ahead(files)[w] < Ahead(files)[v] => set[w] = g[w])
                   => SetStep(files, set, v) = SetStep(files, g, v)
<1> DEFINE F == DOMAIN files
           D == [file : F, seen : SUBSET F]
           P == AuthorsLines(files)
           lines == files[v.file]
           within == v.seen \cup {v.file}
           At(x) == [file |-> x.file, seen |-> within]
           Piece(h, n) == LET x == lines[n]
                          IN IF x.k # "input" THEN <<x>>
                             ELSE IF ~x.off /\ x.file \in F \ within THEN h[At(x)] ELSE <<>>
<1>1. lines \in Seq(ToSet(lines)) /\ DOMAIN lines = 1 .. Len(lines) /\ Len(lines) \in Nat /\ v.file \in F
  BY DEF IsFiles
<1>2. \A n \in DOMAIN lines : lines[n] \in P
  BY <1>1 DEF AuthorsLines, ToSet
<1>3. \A h : SetStep(files, h, v) = FlattenSeq([n \in DOMAIN lines |-> Piece(h, n)])
  BY DEF SetStep
<1>4. \A x : x.file \in F \ within => At(x) \in D /\ Ahead(files)[At(x)] < Ahead(files)[v]
  BY AheadShrinks
<1>5. ASSUME \A w \in D : Ahead(files)[w] < Ahead(files)[v] => set[w] \in Seq(P)
      PROVE  SetStep(files, set, v) \in Seq(P)
  <2>1. ASSUME NEW n \in DOMAIN lines PROVE Piece(set, n) \in Seq(P)
    <3> DEFINE x == lines[n]
               inside == set[At(x)]
    <3>1. x.file \in F \ within => inside \in Seq(P)
      BY <1>4, <1>5
    <3>2. x \in P
      BY <1>2
    <3>3. Piece(set, n) = IF x.k # "input" THEN <<x>> ELSE IF ~x.off /\ x.file \in F \ within THEN inside ELSE <<>>
      OBVIOUS
    <3> HIDE DEF inside, P, Piece, x
    <3>4. <<x>> \in Seq(P) /\ << >> \in Seq(P)
      BY <3>2
    <3> QED
      BY <3>1, <3>3, <3>4
  <2> HIDE DEF P, Piece, lines
  <2>2. [n \in 1 .. Len(lines) |-> Piece(set, n)] \in Seq(Seq(P))
    BY <1>1, <2>1
  <2>3. SetStep(files, set, v) = FlattenSeq([n \in 1 .. Len(lines) |-> Piece(set, n)])
    BY <1>1, <1>3
  <2> QED
    BY <2>2, <2>3, FlattenIs
<1>6. ASSUME NEW g, \A w \in D : Ahead(files)[w] < Ahead(files)[v] => set[w] = g[w]
      PROVE  SetStep(files, set, v) = SetStep(files, g, v)
  <2>1. \A n \in DOMAIN lines : Piece(set, n) = Piece(g, n)
    <3> SUFFICES ASSUME NEW n \in DOMAIN lines PROVE Piece(set, n) = Piece(g, n)
      OBVIOUS
    <3>1. lines[n].file \in F \ within => set[At(lines[n])] = g[At(lines[n])]
      BY <1>4, <1>6
    <3> HIDE DEF At
    <3> QED
      BY <3>1
  <2> HIDE DEF Piece
  <2> QED
    BY <1>3, <2>1
<1> QED
  BY <1>5, <1>6

LEMMA FlattenTexIs ==
  ASSUME NEW files, IsFiles(files)
  PROVE  /\ FlattenTex(files) \in Seq(Places(files))
         /\ \E flat : /\ FlattenTex(files) = flat[[file |-> "main", seen |-> {}]]
                      /\ \A v \in [file : DOMAIN files, seen : SUBSET DOMAIN files] :
                           flat[v] = FlatStep(files, flat, v) /\ flat[v] \in Seq(Places(files))
<1> DEFINE F == DOMAIN files
           P == Places(files)
           D == [file : F, seen : SUBSET F]
           mu == [v \in D |-> Ahead(files)[v]]
           step == [p \in D \X [D -> Seq(P)] |-> FlatStep(files, p[2], p[1])]
           flat == CHOOSE f : f = [v \in D |-> FlatStep(files, f, v)]
<1>1. Cardinality(F) \in Nat /\ mu \in [D -> Nat] /\ \A v \in D : mu[v] <= Cardinality(F)
  <2>1. \A v \in D : Ahead(files)[v] \in Nat /\ Ahead(files)[v] <= Cardinality(F)
    BY AheadShrinks
  <2>2. IsFiniteSet(F)
    BY DEF IsFiles
  <2>3. Cardinality(F) \in Nat
    BY <2>2, FS_CardinalityType
  <2> HIDE DEF D, F
  <2> QED
    BY <2>1, <2>3
<1>2. step \in [D \X [D -> Seq(P)] -> Seq(P)]
  <2>1. \A v \in D, f \in [D -> Seq(P)] : FlatStep(files, f, v) \in Seq(P)
    BY FlatStepIs
  <2> QED
    BY <2>1
<1>3. \A v \in D : \A f, g \in [D -> Seq(P)] :
        (\A w \in D : mu[w] < mu[v] => f[w] = g[w]) => step[<<v, f>>] = step[<<v, g>>]
  <2> SUFFICES ASSUME NEW v \in D, NEW f \in [D -> Seq(P)], NEW g \in [D -> Seq(P)],
                      \A w \in D : mu[w] < mu[v] => f[w] = g[w]
               PROVE  step[<<v, f>>] = step[<<v, g>>]
    OBVIOUS
  <2>1. \A w \in D : Ahead(files)[w] < Ahead(files)[v] => f[w] = g[w]
    OBVIOUS
  <2>2. FlatStep(files, f, v) = FlatStep(files, g, v)
    BY <2>1, FlatStepIs
  <2> QED
    BY <2>2
<1>4. PICK f \in [D -> Seq(P)] : \A v \in D : f[v] = step[<<v, f>>]
  <2> HIDE DEF mu, step, D, P, F
  <2>1. Seq(P) # {}
    <3>1. << >> \in Seq(P)
      OBVIOUS
    <3> QED
      BY <3>1
  <2>2. IsRecursion(D, Seq(P), mu, Cardinality(F), step)
    BY <1>1, <1>2, <1>3, <2>1 DEF IsRecursion
  <2> QED
    BY <2>2, Recursion
<1>5. flat = [v \in D |-> FlatStep(files, flat, v)]
  <2>1. \A v \in D : step[<<v, f>>] = FlatStep(files, f, v)
    OBVIOUS
  <2>2. f = [v \in D |-> FlatStep(files, f, v)]
    <3> HIDE DEF step, P, D
    <3> QED
      BY <1>4, <2>1
  <2> HIDE DEF D
  <2> QED
    BY <2>2
<1>6. FlattenTex(files) = flat[[file |-> "main", seen |-> {}]]
  BY DEF FlattenTex, FlatStep
<1> HIDE DEF flat
<1>7. \A v \in D : flat[v] \in Seq(P)
  <2> DEFINE Wrong == {m \in Nat : \E v \in D : mu[v] = m /\ flat[v] \notin Seq(P)}
  <2>1. \A m \in Wrong : \E j \in Wrong : j < m
    <3> SUFFICES ASSUME NEW v \in D, flat[v] \notin Seq(P) PROVE \E j \in Wrong : j < mu[v]
      OBVIOUS
    <3>1. flat[v] = FlatStep(files, flat, v)
      BY <1>5
    <3>2. PICK w \in D : Ahead(files)[w] < Ahead(files)[v] /\ flat[w] \notin Seq(P)
      BY <3>1, FlatStepIs
    <3>3. mu[w] < mu[v] /\ mu[w] \in Nat
      BY <1>1, <3>2
    <3> QED
      BY <3>2, <3>3
  <2>2. Wrong \in SUBSET Nat
    OBVIOUS
  <2> HIDE DEF Wrong
  <2>3. Wrong = {}
    BY <2>1, <2>2, NoLeast
  <2> HIDE DEF mu, P, D
  <2> QED
    BY <1>1, <2>3 DEF Wrong
<1>8. [file |-> "main", seen |-> {}] \in D
  BY DEF IsFiles
<1>9. \A v \in D : flat[v] = FlatStep(files, flat, v)
  BY <1>5
<1> QED
  BY <1>6, <1>7, <1>8, <1>9

LEMMA TypesetIs ==
  ASSUME NEW files, IsFiles(files)
  PROVE  Typeset(files) \in Seq(AuthorsLines(files))
<1> DEFINE F == DOMAIN files
           P == AuthorsLines(files)
           D == [file : F, seen : SUBSET F]
           mu == [v \in D |-> Ahead(files)[v]]
           step == [p \in D \X [D -> Seq(P)] |-> SetStep(files, p[2], p[1])]
           set == CHOOSE f : f = [v \in D |-> SetStep(files, f, v)]
<1>1. Cardinality(F) \in Nat /\ mu \in [D -> Nat] /\ \A v \in D : mu[v] <= Cardinality(F)
  <2>1. \A v \in D : Ahead(files)[v] \in Nat /\ Ahead(files)[v] <= Cardinality(F)
    BY AheadShrinks
  <2>2. IsFiniteSet(F)
    BY DEF IsFiles
  <2>3. Cardinality(F) \in Nat
    BY <2>2, FS_CardinalityType
  <2> HIDE DEF D, F
  <2> QED
    BY <2>1, <2>3
<1>2. step \in [D \X [D -> Seq(P)] -> Seq(P)]
  <2>1. \A v \in D, f \in [D -> Seq(P)] : SetStep(files, f, v) \in Seq(P)
    BY SetStepIs
  <2> QED
    BY <2>1
<1>3. \A v \in D : \A f, g \in [D -> Seq(P)] :
        (\A w \in D : mu[w] < mu[v] => f[w] = g[w]) => step[<<v, f>>] = step[<<v, g>>]
  <2> SUFFICES ASSUME NEW v \in D, NEW f \in [D -> Seq(P)], NEW g \in [D -> Seq(P)],
                      \A w \in D : mu[w] < mu[v] => f[w] = g[w]
               PROVE  step[<<v, f>>] = step[<<v, g>>]
    OBVIOUS
  <2>1. \A w \in D : Ahead(files)[w] < Ahead(files)[v] => f[w] = g[w]
    OBVIOUS
  <2>2. SetStep(files, f, v) = SetStep(files, g, v)
    BY <2>1, SetStepIs
  <2> QED
    BY <2>2
<1>4. PICK f \in [D -> Seq(P)] : \A v \in D : f[v] = step[<<v, f>>]
  <2> HIDE DEF mu, step, D, P, F
  <2>1. Seq(P) # {}
    <3>1. << >> \in Seq(P)
      OBVIOUS
    <3> QED
      BY <3>1
  <2>2. IsRecursion(D, Seq(P), mu, Cardinality(F), step)
    BY <1>1, <1>2, <1>3, <2>1 DEF IsRecursion
  <2> QED
    BY <2>2, Recursion
<1>5. set = [v \in D |-> SetStep(files, set, v)]
  <2>1. \A v \in D : step[<<v, f>>] = SetStep(files, f, v)
    OBVIOUS
  <2>2. f = [v \in D |-> SetStep(files, f, v)]
    <3> HIDE DEF step, P, D
    <3> QED
      BY <1>4, <2>1
  <2> HIDE DEF D
  <2> QED
    BY <2>2
<1>6. Typeset(files) = set[[file |-> "main", seen |-> {}]]
  BY DEF Typeset, SetStep
<1> HIDE DEF set
<1>7. \A v \in D : set[v] \in Seq(P)
  <2> DEFINE Wrong == {m \in Nat : \E v \in D : mu[v] = m /\ set[v] \notin Seq(P)}
  <2>1. \A m \in Wrong : \E j \in Wrong : j < m
    <3> SUFFICES ASSUME NEW v \in D, set[v] \notin Seq(P) PROVE \E j \in Wrong : j < mu[v]
      OBVIOUS
    <3>1. set[v] = SetStep(files, set, v)
      BY <1>5
    <3>2. PICK w \in D : Ahead(files)[w] < Ahead(files)[v] /\ set[w] \notin Seq(P)
      BY <3>1, SetStepIs
    <3>3. mu[w] < mu[v] /\ mu[w] \in Nat
      BY <1>1, <3>2
    <3> QED
      BY <3>2, <3>3
  <2>2. Wrong \in SUBSET Nat
    OBVIOUS
  <2> HIDE DEF Wrong
  <2>3. Wrong = {}
    BY <2>1, <2>2, NoLeast
  <2> HIDE DEF mu, P, D
  <2> QED
    BY <1>1, <2>3 DEF Wrong
<1>8. [file |-> "main", seen |-> {}] \in D
  BY DEF IsFiles
<1> QED
  BY <1>6, <1>7, <1>8

\* The file on disk, and the text that is made of it.
LEMMA RawTextIs ==
  ASSUME NEW paper, IsFiles(paper.files)
  PROVE  RawText(paper) \in Seq(Places(paper.files))
<1> DEFINE files == paper.files
           P == Places(files)
           main == files["main"]
<1>1. FlattenTex(files) \in Seq(P)
  BY FlattenTexIs
<1>2. AsPlaces(files, "main") \in Seq(P)
  <2>1. main \in Seq(ToSet(main)) /\ DOMAIN main = 1 .. Len(main) /\ Len(main) \in Nat /\ "main" \in DOMAIN files
    BY DEF IsFiles
  <2>2. \A n \in DOMAIN main : Place("main", n) \in P
    BY <2>1 DEF Place, Places
  <2>3. AsPlaces(files, "main") = [n \in DOMAIN main |-> Place("main", n)]
    BY DEF AsPlaces
  <2> HIDE DEF P, main
  <2>4. AsPlaces(files, "main") \in [1 .. Len(main) -> P]
    BY <2>1, <2>2, <2>3
  <2> QED
    BY <2>1, <2>4
<1> QED
  BY <1>1, <1>2 DEF RawText

\* What stands in the place of p: what its directive names, read at this depth.
Resolving(files, p, read, depth, seen) ==
  LET x == files[p.file][p.line]
      got == IF x.file \in DOMAIN files THEN read[[depth |-> depth, file |-> x.file, seen |-> seen]]
             ELSE <<Mark("comment", p.file)>>
  IN IF p.mark # "line" \/ x.k # "input" THEN <<p>>
     ELSE (IF x.off THEN CommentOut(got) ELSE got) \o <<Mark("rest", p.file)>>

ReadStep(files, read, v) ==
  IF v.depth > MaxDepth \/ v.file \in v.seen THEN <<Mark("comment", v.file)>>
  ELSE FlattenSeq([n \in DOMAIN files[v.file] |->
         Resolving(files, Place(v.file, n), read, v.depth + 1, v.seen \cup {v.file})])

ReadCalls(files) == [depth : 1 .. MaxDepth + 1, file : DOMAIN files, seen : SUBSET DOMAIN files]

LEMMA ResolvingIs ==
  ASSUME NEW files, IsFiles(files), NEW p \in Places(files), NEW read,
         NEW depth \in 1 .. MaxDepth + 1, NEW seen \in SUBSET DOMAIN files,
         \A w \in ReadCalls(files) : w.depth = depth => read[w] \in Seq(Places(files))
  PROVE  Resolving(files, p, read, depth, seen) \in Seq(Places(files))
<1> DEFINE F == DOMAIN files
           P == Places(files)
           x == files[p.file][p.line]
           w == [depth |-> depth, file |-> x.file, seen |-> seen]
           got == IF x.file \in F THEN read[w] ELSE <<Mark("comment", p.file)>>
           put == IF x.off THEN CommentOut(got) ELSE got
<1>1. p.file \in F /\ "main" \in F
  BY DEF Places, IsFiles
<1>2. Mark("comment", p.file) \in P /\ Mark("comment", "main") \in P /\ Mark("rest", p.file) \in P
  BY <1>1 DEF Mark, Places
<1>3. got \in Seq(P)
  <2>1. CASE x.file \in F
    <3>1. w \in ReadCalls(files) /\ w.depth = depth
      BY <2>1 DEF ReadCalls
    <3> QED
      BY <2>1, <3>1
  <2>2. CASE x.file \notin F
    <3> HIDE DEF P
    <3> QED
      BY <1>2, <2>2
  <2> QED
    BY <2>1, <2>2
<1> HIDE DEF got
<1>4. CommentOut(got) \in Seq(P)
  <2> HIDE DEF P
  <2>1. CASE got = <<>>
    BY <2>1 DEF CommentOut
  <2>2. CASE got # <<>>
    <3>1. Tail(got) \in Seq(P) /\ <<Mark("comment", "main")>> \in Seq(P)
      BY <1>2, <1>3, <2>2
    <3>2. <<Mark("comment", "main")>> \o Tail(got) \in Seq(P)
      BY <3>1, ConcatProperties
    <3> QED
      BY <2>2, <3>2 DEF CommentOut
  <2> QED
    BY <2>1, <2>2
<1>5. put \in Seq(P) /\ <<Mark("rest", p.file)>> \in Seq(P) /\ <<p>> \in Seq(P)
  <2>1. p \in P
    OBVIOUS
  <2> HIDE DEF P
  <2> QED
    BY <1>2, <1>3, <1>4, <2>1
<1>6. Resolving(files, p, read, depth, seen)
        = IF p.mark # "line" \/ x.k # "input" THEN <<p>> ELSE put \o <<Mark("rest", p.file)>>
  BY DEF Resolving, got
<1> HIDE DEF put, P
<1>7. put \o <<Mark("rest", p.file)>> \in Seq(P)
  BY <1>5, ConcatProperties
<1> QED
  BY <1>5, <1>6, <1>7 DEF P

LEMMA ReadStepIs ==
  ASSUME NEW files, IsFiles(files), NEW v \in ReadCalls(files), NEW read
  PROVE  /\ (\A w \in ReadCalls(files) : w.depth > v.depth => read[w] \in Seq(Places(files)))
            => ReadStep(files, read, v) \in Seq(Places(files))
         /\ \A g : (\A w \in ReadCalls(files) : w.depth > v.depth => read[w] = g[w])
                   => ReadStep(files, read, v) = ReadStep(files, g, v)
<1> DEFINE F == DOMAIN files
           P == Places(files)
           lines == files[v.file]
           seen == v.seen \cup {v.file}
           Piece(h, n) == Resolving(files, Place(v.file, n), h, v.depth + 1, seen)
<1>1. v.file \in F /\ v.depth \in 1 .. MaxDepth + 1 /\ seen \in SUBSET F /\ MaxDepth \in Nat
  BY WindowAssumption DEF ReadCalls
<1>2. lines \in Seq(ToSet(lines)) /\ DOMAIN lines = 1 .. Len(lines) /\ Len(lines) \in Nat
  BY <1>1 DEF IsFiles
<1>3. Mark("comment", v.file) \in P /\ \A n \in DOMAIN lines : Place(v.file, n) \in P
  BY <1>1, <1>2 DEF Mark, Place, Places
<1>4. CASE v.depth > MaxDepth \/ v.file \in v.seen
  <2>1. \A h : ReadStep(files, h, v) = <<Mark("comment", v.file)>>
    BY <1>4 DEF ReadStep
  <2>2. <<Mark("comment", v.file)>> \in Seq(P)
    <3> HIDE DEF P
    <3> QED
      BY <1>3
  <2> QED
    BY <2>1, <2>2
<1>5. CASE ~(v.depth > MaxDepth \/ v.file \in v.seen)
  <2>1. \A h : ReadStep(files, h, v) = FlattenSeq([n \in DOMAIN lines |-> Piece(h, n)])
    BY <1>5 DEF ReadStep
  <2>2. v.depth + 1 \in 1 .. MaxDepth + 1
    BY <1>1, <1>5
  <2>3. ASSUME \A w \in ReadCalls(files) : w.depth > v.depth => read[w] \in Seq(P)
        PROVE  ReadStep(files, read, v) \in Seq(P)
    <3>1. \A w \in ReadCalls(files) : w.depth = v.depth + 1 => read[w] \in Seq(P)
      BY <1>1, <2>3
    <3>2. \A n \in DOMAIN lines : Piece(read, n) \in Seq(P)
      <4> HIDE DEF P, seen
      <4> QED
        BY <1>1, <1>3, <2>2, <3>1, ResolvingIs DEF P
    <3> HIDE DEF P, Piece, lines
    <3>3. [n \in 1 .. Len(lines) |-> Piece(read, n)] \in Seq(Seq(P))
      BY <1>2, <3>2
    <3>4. ReadStep(files, read, v) = FlattenSeq([n \in 1 .. Len(lines) |-> Piece(read, n)])
      BY <1>2, <2>1
    <3> QED
      BY <3>3, <3>4, FlattenIs
  <2>4. ASSUME NEW g, \A w \in ReadCalls(files) : w.depth > v.depth => read[w] = g[w]
        PROVE  ReadStep(files, read, v) = ReadStep(files, g, v)
    <3>1. \A n \in DOMAIN lines : Piece(read, n) = Piece(g, n)
      <4> SUFFICES ASSUME NEW n \in DOMAIN lines PROVE Piece(read, n) = Piece(g, n)
        OBVIOUS
      <4> DEFINE x == files[Place(v.file, n).file][Place(v.file, n).line]
                 w == [depth |-> v.depth + 1, file |-> x.file, seen |-> seen]
      <4>1. x.file \in F => read[w] = g[w]
        <5> SUFFICES ASSUME x.file \in F PROVE read[w] = g[w]
          OBVIOUS
        <5>1. w \in ReadCalls(files) /\ w.depth > v.depth
          BY <1>1, <2>2 DEF ReadCalls
        <5> QED
          BY <2>4, <5>1
      <4> QED
        BY <4>1 DEF Resolving
    <3> HIDE DEF Piece
    <3> QED
      BY <2>1, <3>1
  <2> QED
    BY <2>3, <2>4
<1> QED
  BY <1>4, <1>5

\* read is what the recursion finds, files being read from the one at the root.
Root(paper) == IF paper.flat THEN {} ELSE {"main"}
ReadsAs(paper, read) ==
  Body(paper) = FlattenSeq([n \in DOMAIN RawText(paper) |->
                              Resolving(paper.files, RawText(paper)[n], read, 1, Root(paper))])

LEMMA ReadIs ==
  ASSUME NEW paper, IsFiles(paper.files)
  PROVE  /\ Body(paper) \in Seq(Places(paper.files))
         /\ \E read : /\ \A w \in ReadCalls(paper.files) : read[w] \in Seq(Places(paper.files))
                      /\ ReadsAs(paper, read)
<1> DEFINE files == paper.files
           F == DOMAIN files
           P == Places(files)
           D == ReadCalls(files)
           raw == RawText(paper)
           mu == [v \in D |-> MaxDepth + 1 - v.depth]
           step == [p \in D \X [D -> Seq(P)] |-> ReadStep(files, p[2], p[1])]
           read == CHOOSE f : f = [v \in D |-> ReadStep(files, f, v)]
<1>1. MaxDepth \in Nat /\ MaxDepth + 1 \in Nat
  BY WindowAssumption
<1>2. mu \in [D -> Nat] /\ \A v \in D : mu[v] <= MaxDepth + 1
  BY <1>1 DEF ReadCalls
<1>3. step \in [D \X [D -> Seq(P)] -> Seq(P)]
  <2>1. \A v \in D, f \in [D -> Seq(P)] : ReadStep(files, f, v) \in Seq(P)
    BY ReadStepIs
  <2> QED
    BY <2>1
<1>4. \A v \in D : \A f, g \in [D -> Seq(P)] :
        (\A w \in D : mu[w] < mu[v] => f[w] = g[w]) => step[<<v, f>>] = step[<<v, g>>]
  <2> SUFFICES ASSUME NEW v \in D, NEW f \in [D -> Seq(P)], NEW g \in [D -> Seq(P)],
                      \A w \in D : mu[w] < mu[v] => f[w] = g[w]
               PROVE  step[<<v, f>>] = step[<<v, g>>]
    OBVIOUS
  <2>1. \A w \in D : w.depth > v.depth => f[w] = g[w]
    <3> SUFFICES ASSUME NEW w \in D, w.depth > v.depth PROVE f[w] = g[w]
      OBVIOUS
    <3>1. w.depth \in Nat /\ v.depth \in Nat
      BY DEF ReadCalls
    <3>2. mu[w] < mu[v]
      BY <1>1, <3>1
    <3> HIDE DEF mu, D
    <3> QED
      BY <3>2
  <2>2. ReadStep(files, f, v) = ReadStep(files, g, v)
    BY <2>1, ReadStepIs
  <2> QED
    BY <2>2
<1>5. PICK f \in [D -> Seq(P)] : \A v \in D : f[v] = step[<<v, f>>]
  <2> HIDE DEF mu, step, D, P, F
  <2>1. Seq(P) # {}
    <3>1. << >> \in Seq(P)
      OBVIOUS
    <3> QED
      BY <3>1
  <2>2. IsRecursion(D, Seq(P), mu, MaxDepth + 1, step)
    BY <1>1, <1>2, <1>3, <1>4, <2>1 DEF IsRecursion
  <2> QED
    BY <2>2, Recursion
<1>6. read = [v \in D |-> ReadStep(files, read, v)]
  <2>1. \A v \in D : step[<<v, f>>] = ReadStep(files, f, v)
    OBVIOUS
  <2>2. f = [v \in D |-> ReadStep(files, f, v)]
    <3> HIDE DEF step, P, D
    <3> QED
      BY <1>5, <2>1
  <2> HIDE DEF D
  <2> QED
    BY <2>2
<1>7. ReadsAs(paper, read)
  BY DEF ReadsAs, Body, ReadTexResolvingInputs, ReadStep, Resolved, Resolving, ReadCalls, Root
<1> HIDE DEF read
<1>8. \A v \in D : read[v] \in Seq(P)
  <2> DEFINE Wrong == {m \in Nat : \E v \in D : mu[v] = m /\ read[v] \notin Seq(P)}
  <2>1. \A m \in Wrong : \E j \in Wrong : j < m
    <3> SUFFICES ASSUME NEW v \in D, read[v] \notin Seq(P) PROVE \E j \in Wrong : j < mu[v]
      OBVIOUS
    <3>1. read[v] = ReadStep(files, read, v)
      BY <1>6
    <3>2. PICK w \in D : w.depth > v.depth /\ read[w] \notin Seq(P)
      BY <3>1, ReadStepIs
    <3>3. mu[w] < mu[v] /\ mu[w] \in Nat
      BY <1>1, <3>2 DEF ReadCalls
    <3> QED
      BY <3>2, <3>3
  <2>2. Wrong \in SUBSET Nat
    OBVIOUS
  <2> HIDE DEF Wrong
  <2>3. Wrong = {}
    BY <2>1, <2>2, NoLeast
  <2> HIDE DEF mu, P, D
  <2> QED
    BY <1>2, <2>3 DEF Wrong
<1>9. raw \in Seq(P) /\ Root(paper) \in SUBSET F
  BY RawTextIs DEF Root, IsFiles
<1>10. Body(paper) \in Seq(P)
  <2> DEFINE Piece(n) == Resolving(files, raw[n], read, 1, Root(paper))
  <2>1. DOMAIN raw = 1 .. Len(raw) /\ Len(raw) \in Nat /\ \A n \in DOMAIN raw : raw[n] \in P
    <3> HIDE DEF raw, P
    <3> QED
      BY <1>9
  <2>2. \A n \in DOMAIN raw : Piece(n) \in Seq(P)
    <3>1. 1 \in 1 .. MaxDepth + 1
      BY <1>1
    <3> HIDE DEF raw, P, D
    <3> QED
      BY <1>8, <1>9, <2>1, <3>1, ResolvingIs DEF P, D
  <2>3. Body(paper) = FlattenSeq([n \in DOMAIN raw |-> Piece(n)])
    BY <1>7 DEF ReadsAs
  <2> HIDE DEF Piece, P, raw
  <2>4. [n \in 1 .. Len(raw) |-> Piece(n)] \in Seq(Seq(P))
    BY <2>1, <2>2
  <2> QED
    BY <2>1, <2>3, <2>4, FlattenIs
<1> QED
  BY <1>7, <1>8, <1>10

\* The text a paper is parsed from is a sequence of lines, those of its files among them.
LEMMA NodesAre ==
  ASSUME NEW s, IsSource(s)
  PROVE  /\ IsFiles(s.files) /\ AuthorsLines(s.files) \subseteq Line
         /\ Len(Body(Paper(s))) \in Nat
         /\ DOMAIN Nodes(Paper(s)) = 1 .. Len(Body(Paper(s)))
         /\ \A i \in DOMAIN Nodes(Paper(s)) : Nodes(Paper(s))[i] \in Line
<1> DEFINE body == Body(Paper(s))
           P == Places(s.files)
<1>1. IsFiles(s.files) /\ AuthorsLines(s.files) \subseteq Line
  <2>1. s.files \in [DOMAIN s.files -> Seq(Line)]
    BY DEF IsSource
  <2>2. \A f \in DOMAIN s.files : s.files[f] \in Seq(ToSet(s.files[f])) /\ ToSet(s.files[f]) \subseteq Line
    <3> SUFFICES ASSUME NEW f \in DOMAIN s.files
                 PROVE  s.files[f] \in Seq(ToSet(s.files[f])) /\ ToSet(s.files[f]) \subseteq Line
      OBVIOUS
    <3> DEFINE t == s.files[f]
    <3>1. t \in Seq(Line)
      BY <2>1
    <3> HIDE DEF t
    <3>2. t \in Seq(ToSet(t)) /\ ToSet(t) \subseteq Line
      BY <3>1 DEF ToSet
    <3> QED
      BY <3>2 DEF t
  <2> QED
    BY <2>2 DEF IsSource, IsFiles, AuthorsLines
<1>2. body \in Seq(P)
  <2>1. Paper(s).files = s.files
    BY DEF Paper
  <2> QED
    BY <1>1, <2>1, ReadIs
<1> HIDE DEF body
<1>3. Len(body) \in Nat /\ DOMAIN body = 1 .. Len(body) /\ \A i \in 1 .. Len(body) : body[i] \in P
  <2> HIDE DEF P
  <2> QED
    BY <1>2
<1>4. \A i \in DOMAIN body : Nodes(Paper(s))[i] \in Line
  <2> SUFFICES ASSUME NEW i \in DOMAIN body PROVE Nodes(Paper(s))[i] \in Line
    OBVIOUS
  <2> DEFINE x == s.files[body[i].file][body[i].line]
  <2>1. Nodes(Paper(s))[i] = IF body[i].mark = "line" /\ x.k # "input" THEN x ELSE Text
    BY DEF Nodes, Paper, body
  <2>2. body[i].mark = "line" => x \in Line
    <3> SUFFICES ASSUME body[i].mark = "line" PROVE x \in Line
      OBVIOUS
    <3>1. body[i].file \in DOMAIN s.files /\ body[i].line \in DOMAIN s.files[body[i].file]
      BY <1>3 DEF Places
    <3>2. s.files[body[i].file] \in Seq(Line)
      BY <3>1 DEF IsSource
    <3> QED
      BY <3>1, <3>2
  <2>3. Text \in Line
    BY DEF Text, Line
  <2> QED
    BY <2>1, <2>2, <2>3
<1>5. DOMAIN Nodes(Paper(s)) = DOMAIN body
  BY DEF Nodes, body
<1> QED
  BY <1>1, <1>3, <1>4, <1>5 DEF body

LEMMA TypesetLines ==
  ASSUME NEW s, IsSource(s)
  PROVE  Typeset(s.files) \in Seq(Line)
<1>1. Typeset(s.files) \in Seq(AuthorsLines(s.files))
  BY NodesAre, TypesetIs
<1> DEFINE A == AuthorsLines(s.files)
<1>2. A \subseteq Line
  BY NodesAre
<1> HIDE DEF A
<1>3. Seq(A) \subseteq Seq(Line)
  BY <1>2
<1> QED
  BY <1>1, <1>3 DEF A

LEMMA NodesLines ==
  ASSUME NEW s, IsSource(s)
  PROVE  Nodes(Paper(s)) \in Seq(Line)
<1> DEFINE n == Len(Body(Paper(s)))
           nodes == Nodes(Paper(s))
<1>1. n \in Nat /\ DOMAIN nodes = 1 .. n /\ \A i \in 1 .. n : nodes[i] \in Line
  BY NodesAre
<1>2. nodes = [i \in DOMAIN nodes |-> nodes[i]]
  BY DEF Nodes
<1> HIDE DEF n, nodes
<1>3. nodes \in [1 .. n -> Line]
  BY <1>1, <1>2
<1> QED
  BY <1>1, <1>3 DEF nodes

LEMMA EnvLines ==
  ASSUME NEW x \in Line, x.k = "env"
  PROVE  /\ x.env \in Kinds /\ x.label \in Seq(STRING) /\ x.text \in STRING /\ x.wrapped \in BOOLEAN
         /\ x.figs \in Seq([dir : STRING, name : STRING, figure : BOOLEAN])
BY DEF Line

LEMMA EdgeLines ==
  ASSUME NEW x \in Line, x.k = "edge"
  PROVE  x.kind \in EdgeKinds /\ x.source \in Seq(STRING) /\ x.target \in Seq(STRING)
         /\ x = Edge(x.kind, x.source, x.target)
BY DEF Line, Edge

\* What is picked out of a sequence, in order.
LEMMA Picks ==
  ASSUME NEW T, NEW s \in Seq(T), NEW S, S \subseteq DOMAIN s
  PROVE  /\ S \in SUBSET Nat /\ IsFiniteSet(S) /\ Cardinality(S) \in Nat
         /\ Picked(s, S) \in Seq(T) /\ Len(Picked(s, S)) = Cardinality(S)
         /\ \A n \in 1 .. Cardinality(S) : Picked(s, S)[n] = s[InOrder(S)[n]]
         /\ ToSet(Picked(s, S)) = {s[i] : i \in S}
<1>1. S \in SUBSET Nat /\ IsFiniteSet(S)
  <2>1. Len(s) \in Nat /\ DOMAIN s = 1 .. Len(s)
    OBVIOUS
  <2>2. IsFiniteSet(1 .. Len(s))
    BY <2>1, FS_Interval
  <2> QED
    BY <2>1, <2>2, FS_Subset
<1> DEFINE N == Cardinality(S)
           o == InOrder(S)
<1>2. N \in Nat /\ (\A n \in 1 .. N : o[n] \in S) /\ \A i \in S : \E n \in 1 .. N : o[n] = i
  BY <1>1, Ordered
<1>3. Picked(s, S) = [n \in 1 .. N |-> s[o[n]]]
  BY DEF Picked
<1> HIDE DEF N, o
<1>4. \A n \in 1 .. N : s[o[n]] \in T
  BY <1>2
<1>5. Picked(s, S) \in [1 .. N -> T]
  BY <1>3, <1>4
<1>6. Picked(s, S) \in Seq(T) /\ Len(Picked(s, S)) = N /\ DOMAIN Picked(s, S) = 1 .. N
  BY <1>2, <1>5
<1>7. ToSet(Picked(s, S)) = {s[i] : i \in S}
  BY <1>2, <1>3, <1>6, SMTT(30) DEF ToSet
<1> QED
  BY <1>1, <1>2, <1>3, <1>6, <1>7 DEF N, o

\* Sequences can be told apart behind a common beginning.
LEMMA ConcatCancels ==
  ASSUME NEW T, NEW s \in Seq(T), NEW t \in Seq(T), NEW u \in Seq(T)
  PROVE  /\ s \o t = s \o u => t = u
         /\ s \o t \in Seq(T) /\ Len(s \o t) = Len(s) + Len(t)
         /\ \A i \in 1 .. Len(s) : (s \o t)[i] = s[i]
         /\ \A i \in 1 .. Len(t) : (s \o t)[i + Len(s)] = t[i]
<1>1. s \o t \in Seq(T) /\ Len(s \o t) = Len(s) + Len(t)
      /\ (\A i \in 1 .. Len(s) : (s \o t)[i] = s[i]) /\ \A i \in 1 .. Len(t) : (s \o t)[i + Len(s)] = t[i]
  BY ConcatProperties
<1>2. s \o u \in Seq(T) /\ Len(s \o u) = Len(s) + Len(u)
      /\ \A i \in 1 .. Len(u) : (s \o u)[i + Len(s)] = u[i]
  BY ConcatProperties
<1>3. ASSUME s \o t = s \o u PROVE t = u
  <2>1. Len(t) = Len(u)
    BY <1>1, <1>2, <1>3
  <2>2. \A i \in 1 .. Len(t) : t[i] = u[i]
    BY <1>1, <1>2, <1>3, <2>1
  <2> QED
    BY <2>1, <2>2, SeqEqual
<1> QED
  BY <1>1, <1>3

-----------------------------------------------------------------------------
(***************************************************************************)
(* The sidecar of a source, and the records built from it.                 *)
(***************************************************************************)

\* Segments of an id: the author's, and numbers.
Segments == STRING \cup {Numeral(n) : n \in Nat}

\* Decimal notation (ToString has no definition to prove this from).
NumeralsApart == \A m, n \in Nat : Numeral(m) = Numeral(n) => m = n

\* What the nth claim is numbered by is n, or nothing.
Indexed(nodes, aux) ==
  \A n \in Nat \ {0} : /\ ClaimIndex(nodes, aux, n) \in {Numeral(n), NoIndex}
                       /\ AllNumbered(aux) => ClaimIndex(nodes, aux, n) = Numeral(n)

LEMMA MarkersCount ==
  ASSUME NEW t, IsSource(t), NEW nodes
  PROVE  Indexed(nodes, Sidecar(t))
<1> SUFFICES ASSUME NEW n \in Nat \ {0}
             PROVE  /\ ClaimIndex(nodes, Sidecar(t), n) \in {Numeral(n), NoIndex}
                    /\ AllNumbered(Sidecar(t)) => ClaimIndex(nodes, Sidecar(t), n) = Numeral(n)
  BY DEF Indexed
<1> DEFINE set == Typeset(t.files)
           S == {i \in DOMAIN set : set[i].k = "env"}
           envs == Picked(set, S)
           N == Len(envs)
           Nth(i) == Cardinality({j \in 1 .. i : envs[j].env = envs[i].env})
           Index(i) == IF envs[i].numbered THEN Numeral(Nth(i)) ELSE NoIndex
           markers == [i \in DOMAIN envs |-> [kind |-> envs[i].env, index |-> Index(i)]]
           C == {i \in DOMAIN markers : markers[i].kind = "claim"}
<1>1. set \in Seq(Line) /\ S \subseteq DOMAIN set
  BY TypesetLines
<1> HIDE DEF set, S
<1>2. envs \in Seq(Line) /\ N \in Nat /\ DOMAIN envs = 1 .. N
  BY <1>1, Picks
<1>3. Sidecar(t).markers = markers
  BY DEF Sidecar, CompileSidecar, set, S
<1> HIDE DEF envs
<1>4. markers \in Seq({markers[i] : i \in 1 .. N}) /\ DOMAIN markers = 1 .. N
  <2>1. DOMAIN markers = 1 .. N /\ \A i \in 1 .. N : markers[i] \in {markers[j] : j \in 1 .. N}
    BY <1>2
  <2>2. markers = [i \in 1 .. N |-> [kind |-> envs[i].env, index |-> Index(i)]]
    BY <1>2
  <2> HIDE DEF markers
  <2>3. markers = [i \in 1 .. N |-> markers[i]]
    BY <2>2
  <2> HIDE DEF N
  <2>4. markers \in [1 .. N -> {markers[j] : j \in 1 .. N}]
    BY <2>1, <2>3
  <2> QED
    BY <1>2, <2>1, <2>4 DEF N
<1>5. \A i \in 1 .. N : markers[i] = [kind |-> envs[i].env, index |-> Index(i)]
  BY <1>2
<1>6. Len(Picked(markers, C)) = Cardinality(C) /\ Cardinality(C) \in Nat /\ C \in SUBSET Nat /\ IsFiniteSet(C)
      /\ \A k \in 1 .. Cardinality(C) : Picked(markers, C)[k] = markers[InOrder(C)[k]]
  <2>1. C \subseteq DOMAIN markers
    OBVIOUS
  <2> HIDE DEF markers, C
  <2> QED
    BY <1>4, <2>1, Picks
<1>7. CASE n <= Cardinality(C)
  <2> DEFINE i == InOrder(C)[n]
  <2>1. n \in 1 .. Cardinality(C)
    <3>1. n \in Nat \ {0} /\ Cardinality(C) \in Nat /\ n <= Cardinality(C)
      BY <1>6, <1>7
    <3> HIDE DEF C
    <3> QED
      BY <3>1
  <2>2. i \in C /\ Cardinality({j \in C : j <= i}) = n
    BY <1>6, <2>1, Ordered
  <2> HIDE DEF i
  <2>3. i \in 1 .. N /\ envs[i].env = "claim"
    BY <1>4, <1>5, <2>2
  <2>4. {j \in 1 .. i : envs[j].env = envs[i].env} = {j \in C : j <= i}
    <3>1. \A j \in 1 .. i : j \in 1 .. N
      BY <1>2, <2>3
    <3>2. C = {j \in 1 .. N : envs[j].env = "claim"}
      BY <1>4, <1>5
    <3> HIDE DEF C, markers
    <3> QED
      BY <1>2, <2>3, <3>1, <3>2
  <2>5. Nth(i) = n
    BY <2>2, <2>4
  <2>6. /\ markers[i].index \in {Numeral(n), NoIndex}
        /\ AllNumbered(Sidecar(t)) => markers[i].index = Numeral(n)
    <3>0. Index(i) \in {Numeral(n), NoIndex}
      BY <2>5
    <3> HIDE DEF markers, Nth, Index
    <3>1. markers[i] = [kind |-> envs[i].env, index |-> Index(i)]
      BY <1>5, <2>3
    <3>2. markers[i].index = Index(i) /\ markers[i].kind = "claim"
      BY <2>3, <3>1
    <3>3. markers[i] \in ToSet(Sidecar(t).markers)
      BY <1>3, <1>4, <2>3 DEF ToSet
    <3>4. AllNumbered(Sidecar(t)) => markers[i].index # NoIndex
      BY <3>2, <3>3 DEF AllNumbered
    <3> QED
      BY <3>0, <3>2, <3>4
  <2>7. Picked(markers, C)[n] = markers[i]
    BY <1>6, <2>1 DEF i
  <2> HIDE DEF markers, C
  <2>8. ClaimIndex(nodes, Sidecar(t), n) =
          IF n <= Len(Picked(markers, C)) THEN Picked(markers, C)[n].index ELSE Numeral(n)
    BY <1>3 DEF ClaimIndex, C
  <2> QED
    BY <1>6, <1>7, <2>6, <2>7, <2>8
<1>8. CASE ~(n <= Cardinality(C))
  <2> HIDE DEF markers, C
  <2>1. ClaimIndex(nodes, Sidecar(t), n) =
          IF n <= Len(Picked(markers, C)) THEN Picked(markers, C)[n].index ELSE Numeral(n)
    BY <1>3 DEF ClaimIndex, C
  <2> QED
    BY <1>6, <1>8, <2>1
<1> QED
  BY <1>7, <1>8

\* The environment of the nth record, and what it is called.
Claimed(nodes) == OfKind(nodes, {"claim"})
RecordCount(nodes) == Len(Claimed(nodes)) + Len(Foundational(nodes))
PlaceOf(nodes, n) ==
  IF n <= Len(Claimed(nodes)) THEN Claimed(nodes)[n] ELSE Foundational(nodes)[n - Len(Claimed(nodes))]
NameOf(nodes, aux, n) ==
  IF nodes[PlaceOf(nodes, n)].label # <<>> THEN nodes[PlaceOf(nodes, n)].label
  ELSE <<"claim", ClaimIndex(nodes, aux, n)>>

LEMMA EnvironmentsAre ==
  ASSUME NEW nodes \in Seq(Line)
  PROVE  /\ Environments(nodes) \in SUBSET Nat /\ IsFiniteSet(Environments(nodes))
         /\ \A i \in Environments(nodes) : i \in DOMAIN nodes /\ nodes[i] \in Line /\ nodes[i].k = "env" /\ ~nodes[i].wrapped
<1>1. Environments(nodes) \subseteq DOMAIN nodes
      /\ \A i \in Environments(nodes) : nodes[i] \in Line /\ nodes[i].k = "env" /\ ~nodes[i].wrapped
  BY DEF Environments
<1> QED
  BY <1>1, Picks

LEMMA PlacesOf ==
  ASSUME NEW nodes \in Seq(Line)
  PROVE  /\ Len(Claimed(nodes)) \in Nat /\ RecordCount(nodes) \in Nat
         /\ Len(Claimed(nodes)) <= RecordCount(nodes) /\ Len(Claimed(nodes)) <= Len(nodes)
         /\ DOMAIN Claimed(nodes) = 1 .. Len(Claimed(nodes))
         /\ DOMAIN Foundational(nodes) = 1 .. Len(Foundational(nodes)) /\ Len(Foundational(nodes)) \in Nat
         /\ \A n \in 1 .. RecordCount(nodes) :
              /\ PlaceOf(nodes, n) \in Environments(nodes) /\ Bears(nodes[PlaceOf(nodes, n)])
              /\ n <= Len(Claimed(nodes)) <=> nodes[PlaceOf(nodes, n)].env = "claim"
         /\ \A m, n \in 1 .. RecordCount(nodes) : PlaceOf(nodes, m) = PlaceOf(nodes, n) => m = n
         /\ \A i \in Environments(nodes) : Bears(nodes[i]) => \E n \in 1 .. RecordCount(nodes) : PlaceOf(nodes, n) = i
<1> DEFINE E == Environments(nodes)
           A == {i \in E : nodes[i].env \in {"claim"}}
           B == {i \in E : nodes[i].env \in {"scope", "remark"} /\ nodes[i].label # <<>> /\ nodes[i].text # ""}
           a == Cardinality(A)
           b == Cardinality(B)
<1>1. E \in SUBSET Nat /\ IsFiniteSet(E) /\ \A i \in E : i \in DOMAIN nodes /\ nodes[i].k = "env" /\ ~nodes[i].wrapped
  BY EnvironmentsAre
<1>2. A \in SUBSET Nat /\ IsFiniteSet(A) /\ B \in SUBSET Nat /\ IsFiniteSet(B)
  BY <1>1, FS_Subset
<1>3. Claimed(nodes) = InOrder(A) /\ Foundational(nodes) = InOrder(B)
  BY DEF Claimed, OfKind, Foundational
<1>4. A \cap B = {} /\ A \subseteq E /\ B \subseteq E /\ A \subseteq DOMAIN nodes
  BY <1>1
<1>5. /\ \A i \in A : nodes[i].env = "claim" /\ Bears(nodes[i])
      /\ \A i \in B : nodes[i].env # "claim" /\ Bears(nodes[i])
      /\ \A i \in E : Bears(nodes[i]) => i \in A \cup B
  BY <1>1 DEF Bears
<1> HIDE DEF A, B, E
<1>6. /\ a \in Nat /\ Len(InOrder(A)) = a /\ DOMAIN InOrder(A) = 1 .. a /\ \A n \in 1 .. a : InOrder(A)[n] \in A
      /\ \A i \in A : \E n \in 1 .. a : InOrder(A)[n] = i
      /\ \A m, n \in 1 .. a : m < n <=> InOrder(A)[m] < InOrder(A)[n]
  BY <1>2, Ordered
<1>7. /\ b \in Nat /\ Len(InOrder(B)) = b /\ DOMAIN InOrder(B) = 1 .. b /\ \A n \in 1 .. b : InOrder(B)[n] \in B
      /\ \A i \in B : \E n \in 1 .. b : InOrder(B)[n] = i
      /\ \A m, n \in 1 .. b : m < n <=> InOrder(B)[m] < InOrder(B)[n]
  BY <1>2, Ordered
<1>8. a <= Len(nodes)
  <2>1. Len(nodes) \in Nat /\ DOMAIN nodes = 1 .. Len(nodes)
    OBVIOUS
  <2>2. IsFiniteSet(1 .. Len(nodes)) /\ Cardinality(1 .. Len(nodes)) = Len(nodes)
    BY <2>1, FS_Interval
  <2> HIDE DEF a
  <2> QED
    BY <1>4, <2>1, <2>2, FS_Subset DEF a
<1> HIDE DEF a, b
<1>9. Len(Claimed(nodes)) = a /\ Len(Foundational(nodes)) = b /\ RecordCount(nodes) = a + b
      /\ \A n : PlaceOf(nodes, n) = IF n <= a THEN InOrder(A)[n] ELSE InOrder(B)[n - a]
  BY <1>3, <1>6, <1>7 DEF RecordCount, PlaceOf
<1>10. \A n \in 1 .. a + b : /\ n <= a => PlaceOf(nodes, n) \in A /\ n \in 1 .. a
                             /\ n > a => PlaceOf(nodes, n) \in B /\ n - a \in 1 .. b
  BY <1>6, <1>7, <1>9, SMTT(30)
<1>11. \A m, n \in 1 .. a + b : PlaceOf(nodes, m) = PlaceOf(nodes, n) => m = n
  <2> SUFFICES ASSUME NEW m \in 1 .. a + b, NEW n \in 1 .. a + b, PlaceOf(nodes, m) = PlaceOf(nodes, n)
               PROVE  m = n
    OBVIOUS
  <2>1. (m <= a <=> n <= a)
    BY <1>4, <1>6, <1>7, <1>10
  <2>2. CASE m <= a
    <3>1. m \in 1 .. a /\ n \in 1 .. a /\ InOrder(A)[m] = InOrder(A)[n] /\ InOrder(A)[n] \in Nat
      BY <1>2, <1>6, <1>9, <1>10, <2>1, <2>2
    <3>2. ~(InOrder(A)[m] < InOrder(A)[n]) /\ ~(InOrder(A)[n] < InOrder(A)[m])
      BY <3>1
    <3>3. ~(m < n) /\ ~(n < m)
      BY <1>6, <3>1, <3>2
    <3> QED
      BY <3>3
  <2>3. CASE m > a
    <3> DEFINE x == m - a
               y == n - a
    <3>0. ~(m <= a) /\ ~(n <= a) /\ n > a
      BY <1>6, <2>1, <2>3
    <3>1. x \in 1 .. b /\ y \in 1 .. b /\ InOrder(B)[x] = InOrder(B)[y] /\ InOrder(B)[y] \in Nat
      <4>1. x \in 1 .. b /\ y \in 1 .. b
        BY <1>10, <2>3, <3>0
      <4>2. PlaceOf(nodes, m) = InOrder(B)[x] /\ PlaceOf(nodes, n) = InOrder(B)[y]
        BY <1>9, <3>0
      <4> QED
        BY <1>2, <1>7, <4>1, <4>2
    <3>2. ~(InOrder(B)[x] < InOrder(B)[y]) /\ ~(InOrder(B)[y] < InOrder(B)[x])
      BY <3>1
    <3>3. ~(x < y) /\ ~(y < x)
      BY <1>7, <3>1, <3>2
    <3>4. x = y
      BY <3>1, <3>3
    <3> QED
      BY <1>6, <3>4
  <2> QED
    BY <1>6, <2>2, <2>3
<1>12. \A i \in A \cup B : \E n \in 1 .. a + b : PlaceOf(nodes, n) = i
  <2> SUFFICES ASSUME NEW i \in A \cup B PROVE \E n \in 1 .. a + b : PlaceOf(nodes, n) = i
    OBVIOUS
  <2>1. CASE i \in A
    <3>1. PICK n \in 1 .. a : InOrder(A)[n] = i
      BY <1>6, <2>1
    <3>2. n \in 1 .. a + b /\ PlaceOf(nodes, n) = i
      BY <1>6, <1>7, <1>9, <3>1
    <3> QED
      BY <3>2
  <2>2. CASE i \in B
    <3>1. PICK n \in 1 .. b : InOrder(B)[n] = i
      BY <1>7, <2>2
    <3>2. n + a \in 1 .. a + b /\ ~(n + a <= a) /\ (n + a) - a = n
      BY <1>6, <1>7, <3>1
    <3>3. PlaceOf(nodes, n + a) = InOrder(B)[(n + a) - a]
      BY <1>9, <3>2
    <3>4. PlaceOf(nodes, n + a) = i
      BY <3>1, <3>2, <3>3
    <3> QED
      BY <3>2, <3>4
  <2> QED
    BY <2>1, <2>2
<1>13. \A n \in 1 .. a + b : /\ PlaceOf(nodes, n) \in E /\ Bears(nodes[PlaceOf(nodes, n)])
                             /\ n <= a <=> nodes[PlaceOf(nodes, n)].env = "claim"
  <2> SUFFICES ASSUME NEW n \in 1 .. a + b
               PROVE  /\ PlaceOf(nodes, n) \in E /\ Bears(nodes[PlaceOf(nodes, n)])
                      /\ n <= a <=> nodes[PlaceOf(nodes, n)].env = "claim"
    OBVIOUS
  <2>1. n <= a \/ n > a
    BY <1>6
  <2>2. CASE n <= a
    BY <1>4, <1>5, <1>10, <2>2
  <2>3. CASE n > a
    BY <1>4, <1>5, <1>6, <1>10, <2>3
  <2> QED
    BY <2>1, <2>2, <2>3
<1>14. a + b \in Nat /\ a <= a + b
  BY <1>6, <1>7
<1>15. \A i \in E : Bears(nodes[i]) => \E n \in 1 .. a + b : PlaceOf(nodes, n) = i
  BY <1>5, <1>12
<1> QED
  BY <1>3, <1>6, <1>7, <1>8, <1>9, <1>11, <1>13, <1>14, <1>15 DEF E

\* What a CIR made from a source and the sidecar of another has for claims: one for each
\* environment that bears a record, by its label or its number.
AreRecords(claims, pid, nodes, aux, map) ==
  /\ nodes \in Seq(Line) /\ RecordCount(nodes) \in Nat
  /\ claims \in Seq({claims[n] : n \in 1 .. RecordCount(nodes)})
  /\ Len(claims) = RecordCount(nodes) /\ DOMAIN claims = 1 .. RecordCount(nodes)
  /\ \A n \in 1 .. RecordCount(nodes) :
       \E class, declared, e :
         /\ claims[n] = Record(nodes, aux, pid, map, PlaceOf(nodes, n), pid \o NameOf(nodes, aux, n), class, declared, e)
         /\ n <= Len(Claimed(nodes)) => e = PairClaimsWithEvidence(nodes)[n]

LEMMA ClaimsAre ==
  ASSUME NEW s, NEW t, IsSource(s), IsSource(t), NEW c, c = BuildCir(s, Sidecar(t))
  PROVE  AreRecords(c.claims, c.id, Nodes(Paper(s)), Sidecar(t), SourceMap(Paper(s)))
<1> DEFINE nodes == Nodes(Paper(s))
           aux == Sidecar(t)
           pid == c.id
           map == SourceMap(Paper(s))
           a == Len(Claimed(nodes))
           b == Len(Foundational(nodes))
           f == BuildClaims(nodes, aux, pid, map)
           g == BuildFoundationalClaims(nodes, aux, pid, map)
           Is(n, r) == \E class, declared, e :
                         /\ r = Record(nodes, aux, pid, map, PlaceOf(nodes, n), pid \o NameOf(nodes, aux, n), class, declared, e)
                         /\ n <= a => e = PairClaimsWithEvidence(nodes)[n]
<1>1. nodes \in Seq(Line)
  BY NodesLines
<1>2. /\ a \in Nat /\ b \in Nat /\ RecordCount(nodes) = a + b
      /\ DOMAIN Claimed(nodes) = 1 .. a /\ DOMAIN Foundational(nodes) = 1 .. b
      /\ \A n \in 1 .. a + b : Bears(nodes[PlaceOf(nodes, n)]) /\ (n <= a <=> nodes[PlaceOf(nodes, n)].env = "claim")
  BY <1>1, PlacesOf DEF RecordCount
<1>3. c.claims = f \o g
  BY DEF BuildCir
<1> HIDE DEF nodes, aux, pid, map
<1>5. f = [n \in 1 .. a |-> f[n]] /\ \A n \in 1 .. a : Is(n, f[n])
  <2> DEFINE Build(n) == Record(nodes, aux, pid, map, Claimed(nodes)[n],
                                ClaimId(pid, nodes[Claimed(nodes)[n]].label, ClaimIndex(nodes, aux, n)),
                                <<KeyOr(nodes[Claimed(nodes)[n]].keys, "type", "theoretical"),
                                  KeyOr(nodes[Claimed(nodes)[n]].keys, "evidence", "argument")>>,
                                Declared(nodes[Claimed(nodes)[n]].keys), PairClaimsWithEvidence(nodes)[n])
  <2>1. f = [n \in 1 .. a |-> Build(n)]
    BY <1>2 DEF BuildClaims, Claimed
  <2>2. \A n \in 1 .. a : PlaceOf(nodes, n) = Claimed(nodes)[n]
    BY DEF PlaceOf
  <2>3. \A n \in 1 .. a : ClaimId(pid, nodes[Claimed(nodes)[n]].label, ClaimIndex(nodes, aux, n)) = pid \o NameOf(nodes, aux, n)
    BY <2>2 DEF ClaimId, NameOf
  <2>4. \A n \in 1 .. a : Is(n, Build(n))
    BY <2>2, <2>3
  <2> HIDE DEF Build, f
  <2> QED
    BY <2>1, <2>4
<1>6. g = [n \in 1 .. b |-> g[n]] /\ \A n \in 1 .. b : Is(n + a, g[n])
  <2> DEFINE Build(i) == Record(nodes, aux, pid, map, i, pid \o nodes[i].label,
                                ClassifyFoundational(nodes[i].env, nodes[i].title), <<>>, 0)
  <2>1. g = [n \in 1 .. b |-> Build(Foundational(nodes)[n])]
    BY <1>2 DEF BuildFoundationalClaims
  <2>2. \A n \in 1 .. b : Is(n + a, Build(Foundational(nodes)[n]))
    <3> SUFFICES ASSUME NEW n \in 1 .. b PROVE Is(n + a, Build(Foundational(nodes)[n]))
      OBVIOUS
    <3>1. n + a \in 1 .. a + b /\ ~(n + a <= a) /\ (n + a) - a = n
      BY <1>2
    <3>2. PlaceOf(nodes, n + a) = Foundational(nodes)[n]
      BY <3>1 DEF PlaceOf
    <3> DEFINE i == Foundational(nodes)[n]
    <3>3. nodes[i].label # <<>>
      BY <1>2, <3>1, <3>2 DEF Bears
    <3>4. NameOf(nodes, aux, n + a) = nodes[i].label
      BY <3>2, <3>3 DEF NameOf
    <3>5. Build(i) = Record(nodes, aux, pid, map, PlaceOf(nodes, n + a), pid \o NameOf(nodes, aux, n + a),
                            ClassifyFoundational(nodes[i].env, nodes[i].title), <<>>, 0)
      BY <3>2, <3>4
    <3> HIDE DEF Build
    <3> QED
      BY <3>1, <3>5
  <2> HIDE DEF Build, g, Is
  <2> QED
    BY <2>1, <2>2
<1> HIDE DEF f, g, Is, a, b
<1>7. /\ f \o g \in Seq({f[n] : n \in 1 .. a} \cup {g[n] : n \in 1 .. b})
      /\ Len(f \o g) = a + b /\ DOMAIN (f \o g) = 1 .. a + b
      /\ \A n \in 1 .. a + b : (f \o g)[n] = IF n <= a THEN f[n] ELSE g[n - a]
  <2> DEFINE T == {f[n] : n \in 1 .. a} \cup {g[n] : n \in 1 .. b}
  <2>1. f \in [1 .. a -> T] /\ g \in [1 .. b -> T]
    <3>1. (\A n \in 1 .. a : f[n] \in T) /\ \A n \in 1 .. b : g[n] \in T
      OBVIOUS
    <3> HIDE DEF T
    <3> QED
      BY <1>5, <1>6, <3>1
  <2> HIDE DEF T
  <2>2. f \in Seq(T) /\ Len(f) = a /\ g \in Seq(T) /\ Len(g) = b
    BY <1>2, <2>1
  <2>3. a \in Nat /\ b \in Nat
    BY <1>2
  <2>4. f \o g \in Seq(T) /\ Len(f \o g) = a + b
    BY <2>2, ConcatProperties
  <2>6. DOMAIN (f \o g) = 1 .. a + b
    BY <2>3, <2>4
  <2>5. \A n \in 1 .. a + b : (f \o g)[n] = IF n <= a THEN f[n] ELSE g[n - a]
    BY <2>2, <2>3, ConcatProperties
  <2> QED
    BY <2>4, <2>5, <2>6 DEF T
<1>8. \A n \in 1 .. a + b : Is(n, c.claims[n])
  <2> SUFFICES ASSUME NEW n \in 1 .. a + b PROVE Is(n, c.claims[n])
    OBVIOUS
  <2>1. CASE n <= a
    <3>1. n \in 1 .. a /\ c.claims[n] = f[n]
      BY <1>2, <1>3, <1>7, <2>1
    <3> QED
      BY <1>5, <3>1
  <2>2. CASE ~(n <= a)
    <3>1. n - a \in 1 .. b /\ (n - a) + a = n /\ c.claims[n] = g[n - a]
      BY <1>2, <1>3, <1>7, <2>2
    <3> QED
      BY <1>6, <3>1
  <2> QED
    BY <2>1, <2>2
<1>9. c.claims \in Seq({c.claims[n] : n \in 1 .. a + b}) /\ Len(c.claims) = a + b /\ DOMAIN c.claims = 1 .. a + b
  <2> DEFINE u == c.claims
             T == {f[n] : n \in 1 .. a} \cup {g[n] : n \in 1 .. b}
  <2>1. u \in Seq(T) /\ Len(u) = a + b /\ DOMAIN u = 1 .. a + b
    BY <1>3, <1>7
  <2> HIDE DEF u, T
  <2>2. u \in Seq({u[n] : n \in 1 .. a + b})
    BY <1>2, <2>1
  <2> QED
    BY <2>1, <2>2 DEF u
<1>10. a + b \in Nat
  BY <1>2
<1> QED
  BY <1>1, <1>2, <1>8, <1>9, <1>10 DEF AreRecords, Is, nodes, aux, pid, map, a

\* The ids of the records of a source whose labels are set once.
LEMMA NamesDistinct ==
  ASSUME NumeralsApart, NEW s, IsSource(s), LabelsUnique(s), NEW nodes, nodes = Nodes(Paper(s)),
         NEW aux, Indexed(nodes, aux), AllNumbered(aux),
         NEW m \in 1 .. RecordCount(nodes), NEW n \in 1 .. RecordCount(nodes), NameOf(nodes, aux, m) = NameOf(nodes, aux, n)
  PROVE  m = n
<1> DEFINE L(k) == nodes[PlaceOf(nodes, k)].label
           labelled == {k \in Environments(nodes) : nodes[k].label # <<>>}
<1>1. nodes \in Seq(Line)
  BY NodesLines
<1>2. \A k \in 1 .. RecordCount(nodes) :
        /\ PlaceOf(nodes, k) \in Environments(nodes)
        /\ L(k) = << >> => k <= Len(Claimed(nodes))
  <2> SUFFICES ASSUME NEW k \in 1 .. RecordCount(nodes)
               PROVE  PlaceOf(nodes, k) \in Environments(nodes) /\ (L(k) = << >> => k <= Len(Claimed(nodes)))
    OBVIOUS
  <2>1. /\ PlaceOf(nodes, k) \in Environments(nodes) /\ Bears(nodes[PlaceOf(nodes, k)])
        /\ k <= Len(Claimed(nodes)) <=> nodes[PlaceOf(nodes, k)].env = "claim"
    BY <1>1, PlacesOf
  <2>2. L(k) = << >> => nodes[PlaceOf(nodes, k)].env = "claim"
    BY <2>1 DEF Bears
  <2> QED
    BY <2>1, <2>2
<1>3. \A k \in 1 .. RecordCount(nodes) :
        L(k) = << >> => k \in DOMAIN nodes /\ k \in Nat /\ NameOf(nodes, aux, k) = <<"claim", Numeral(k)>>
  <2>1. \A k \in 1 .. RecordCount(nodes) : L(k) = << >> => k \in DOMAIN nodes /\ k \in Nat
    BY <1>1, <1>2, PlacesOf
  <2>2. \A k \in 1 .. RecordCount(nodes) : ClaimIndex(nodes, aux, k) = Numeral(k)
    <3>1. \A k \in 1 .. RecordCount(nodes) : k \in Nat \ {0}
      BY <1>1, PlacesOf
    <3> QED
      BY <3>1 DEF Indexed
  <2> QED
    BY <2>1, <2>2 DEF NameOf
<1>4. (\A i, j \in labelled : nodes[i].label = nodes[j].label => i = j)
      /\ \A i \in labelled, k \in DOMAIN nodes : nodes[i].label # <<"claim", Numeral(k)>>
  BY DEF LabelsUnique
<1>5. \A k \in 1 .. RecordCount(nodes) : L(k) # << >> => PlaceOf(nodes, k) \in labelled
  BY <1>2
<1>6. CASE L(m) # << >> /\ L(n) # << >>
  <2>1. L(m) = L(n)
    BY <1>6 DEF NameOf
  <2>2. PlaceOf(nodes, m) = PlaceOf(nodes, n)
    BY <1>4, <1>5, <1>6, <2>1
  <2> QED
    BY <1>1, <2>2, PlacesOf
<1>7. CASE L(m) # << >> /\ L(n) = << >>
  <2>1. NameOf(nodes, aux, m) = L(m) /\ PlaceOf(nodes, m) \in labelled
    BY <1>5, <1>7 DEF NameOf
  <2>2. n \in DOMAIN nodes /\ L(m) = <<"claim", Numeral(n)>>
    BY <1>3, <1>7, <2>1
  <2> QED
    BY <1>4, <2>1, <2>2
<1>8. CASE L(m) = << >> /\ L(n) # << >>
  <2>1. NameOf(nodes, aux, n) = L(n) /\ PlaceOf(nodes, n) \in labelled
    BY <1>5, <1>8 DEF NameOf
  <2>2. m \in DOMAIN nodes /\ L(n) = <<"claim", Numeral(m)>>
    BY <1>3, <1>8, <2>1
  <2> QED
    BY <1>4, <2>1, <2>2
<1>9. CASE L(m) = << >> /\ L(n) = << >>
  <2>1. <<"claim", Numeral(m)>> = <<"claim", Numeral(n)>>
    BY <1>3, <1>9
  <2>2. Numeral(m) = Numeral(n)
    BY <2>1
  <2> QED
    BY <1>3, <1>9, <2>2 DEF NumeralsApart
<1> QED
  BY <1>6, <1>7, <1>8, <1>9

-----------------------------------------------------------------------------
(***************************************************************************)
(* What editing, compiling, parsing and submitting keep.  The author never *)
(* edits the front matter, so every version of a paper has the same id and *)
(* the same slug; all else of a source may have changed since its sidecar  *)
(* was made.                                                               *)
(***************************************************************************)

IsSidecarOf(front, aux) == \E t : IsSource(t) /\ t.front = front /\ aux = Sidecar(t)
IsCirOf(front, c) ==
  \E s, aux : IsSource(s) /\ s.front = front /\ IsSidecarOf(front, aux) /\ c = BuildCir(s, aux)
Cited(front) == IF IdSlug(front) # <<>> THEN IdSlug(front) ELSE MintedSlug

IInv ==
  /\ IsSource(src)
  /\ sidecar = NoSidecar \/ IsSidecarOf(src.front, sidecar)
  /\ cir = NoCir \/ IsCirOf(src.front, cir)
  /\ stored \in Seq({stored[v] : v \in DOMAIN stored})
  /\ \A v \in DOMAIN stored :
       /\ IsCirOf(src.front, stored[v].parsed) /\ stored[v].slug = Cited(src.front)
       /\ stored[v].claims = CanonicaliseClaimIds(stored[v].parsed.claims, stored[v].slug)

LEMMA RewritesLines ==
  ASSUME IsSource(src), NEW n \in DOMAIN Main, NEW text \in Rewrites(n)
  PROVE  text \in Seq(Line)
<1>1. Main \in Seq(Line)
  BY DEF IsSource, Main
<1>2. \A e \in Line, i \in DOMAIN Main, m \in Seq(Line) : Len(m) = Len(Main) => ReplaceAt(m, i, e) \in Seq(Line) /\ Len(ReplaceAt(m, i, e)) = Len(Main)
  <2> SUFFICES ASSUME NEW e \in Line, NEW i \in DOMAIN Main, NEW m \in Seq(Line), Len(m) = Len(Main)
               PROVE  ReplaceAt(m, i, e) \in Seq(Line) /\ Len(ReplaceAt(m, i, e)) = Len(Main)
    OBVIOUS
  <2>1. i \in 1 .. Len(m)
    BY <1>1
  <2> HIDE DEF Line
  <2> QED
    BY <2>1, ExceptSeq DEF ReplaceAt
<1>3. RemoveAt(Main, n) \in Seq(Line)
  <2> DEFINE m == Main
  <2> HIDE DEF m
  <2>1. m \in Seq(Line) /\ n \in 1 .. Len(m)
    BY <1>1 DEF m
  <2>2. SubSeq(m, 1, n - 1) \in Seq(Line) /\ SubSeq(m, n + 1, Len(m)) \in Seq(Line)
    BY <2>1, SubSeqProperties
  <2> QED
    BY <2>2, ConcatProperties DEF RemoveAt, m
<1>4. Main[n] \in Line
  BY <1>1
<1>5. CASE text = RemoveAt(Main, n)
  BY <1>3, <1>5
<1>6. CASE n < Len(Main) /\ text = ReplaceAt(ReplaceAt(Main, n, Main[n + 1]), n + 1, Main[n])
  <2>1. n + 1 \in DOMAIN Main /\ Main[n + 1] \in Line
    BY <1>1, <1>6
  <2> DEFINE m == ReplaceAt(Main, n, Main[n + 1])
  <2>2. m \in Seq(Line) /\ Len(m) = Len(Main)
    BY <1>1, <1>2, <2>1
  <2> HIDE DEF m
  <2>3. ReplaceAt(m, n + 1, Main[n]) \in Seq(Line)
    BY <1>2, <1>4, <2>1, <2>2
  <2> QED
    BY <1>6, <2>3 DEF m
<1>7. CASE /\ Main[n].k = "env"
           /\ \/ text = ReplaceAt(Main, n, [Main[n] EXCEPT !.text = "reworded"])
              \/ text = ReplaceAt(Main, n, [Main[n] EXCEPT !.label = <<"prop", "new">>])
  <2>1. [Main[n] EXCEPT !.text = "reworded"] \in Line
    <3> DEFINE x == Main[n]
    <3>1. x \in Line /\ x.k = "env"
      BY <1>4, <1>7
    <3> HIDE DEF x
    <3>2. "reworded" \in STRING
      BY WordsAssumption
    <3>3. [x EXCEPT !.text = "reworded"] \in Line
      BY <3>1, <3>2 DEF Line
    <3> QED
      BY <3>3 DEF x
  <2>2. [Main[n] EXCEPT !.label = <<"prop", "new">>] \in Line
    <3> DEFINE x == Main[n]
    <3>1. x \in Line /\ x.k = "env"
      BY <1>4, <1>7
    <3> HIDE DEF x
    <3>2. <<"prop", "new">> \in Seq(STRING)
      BY WordsAssumption
    <3>3. [x EXCEPT !.label = <<"prop", "new">>] \in Line
      BY <3>1, <3>2 DEF Line
    <3> QED
      BY <3>3 DEF x
  <2> QED
    BY <1>1, <1>2, <1>7, <2>1, <2>2
<1> QED
  BY <1>5, <1>6, <1>7 DEF Rewrites

LEMMA SourceKept ==
  ASSUME IInv, [Next]_vars
  PROVE  IsSource(src') /\ src'.front = src.front
<1>1. ASSUME Edit PROVE IsSource(src') /\ src'.front = src.front
  <2>1. PICK n \in DOMAIN Main : \E text \in Rewrites(n) : src' = [src EXCEPT !.files["main"] = text]
    BY <1>1 DEF Edit
  <2> PICK text \in Rewrites(n) : src' = [src EXCEPT !.files["main"] = text]
    BY <2>1
  <2>2. IsSource(src) /\ text \in Seq(Line)
    BY RewritesLines DEF IInv
  <2> DEFINE files == [src.files EXCEPT !["main"] = text]
  <2>3. src = [files |-> src.files, flat |-> src.flat, front |-> src.front, piped |-> src.piped]
    BY <2>2 DEF IsSource
  <2>4. src' = [src EXCEPT !.files = files]
    BY <2>3
  <2>5. src' = [files |-> files, flat |-> src.flat, front |-> src.front, piped |-> src.piped]
    <3> DEFINE a == src.files
               b == src.flat
               d == src.front
               p == src.piped
    <3>1. src = [files |-> a, flat |-> b, front |-> d, piped |-> p]
      BY <2>3
    <3> HIDE DEF a, b, d, p, files
    <3> QED
      BY <2>4, <3>1 DEF b, d, p
  <2>6. DOMAIN files = DOMAIN src.files /\ files \in [DOMAIN src.files -> Seq(Line)]
    BY <2>2 DEF IsSource
  <2> HIDE DEF files
  <2>7. src'.files = files /\ src'.flat = src.flat /\ src'.front = src.front /\ src'.piped = src.piped
    BY <2>5
  <2> QED
    BY <2>2, <2>5, <2>6, <2>7 DEF IsSource
<1>2. ASSUME src' = src PROVE IsSource(src') /\ src'.front = src.front
  BY <1>2 DEF IInv
<1> QED
  BY <1>1, <1>2 DEF Next, Compile, Parse, Submit, vars

LEMMA InvariantStep ==
  ASSUME IInv, [Next]_vars
  PROVE  IInv'
<1> DEFINE front == src.front
<1>1. IsSource(src') /\ src'.front = front /\ IsSource(src)
  BY SourceKept DEF IInv
<1>2. sidecar' = NoSidecar \/ IsSidecarOf(front, sidecar')
  <2>1. CASE sidecar' = Sidecar(src)
    BY <1>1, <2>1 DEF IsSidecarOf
  <2>2. CASE sidecar' = sidecar
    BY <2>2 DEF IInv
  <2> QED
    BY <2>1, <2>2 DEF Next, Edit, Compile, Parse, Submit, vars
<1>3. cir' = NoCir \/ IsCirOf(front, cir')
  <2>1. CASE Parse
    <3>1. IsSidecarOf(front, sidecar) /\ cir' = BuildCir(src, sidecar)
      BY <2>1 DEF IInv, Parse
    <3> QED
      BY <1>1, <3>1 DEF IsCirOf
  <2>2. CASE cir' = cir
    BY <2>2 DEF IInv
  <2> QED
    BY <2>1, <2>2 DEF Next, Edit, Compile, Submit, vars
<1>4. /\ stored' \in Seq({stored'[v] : v \in DOMAIN stored'})
      /\ \A v \in DOMAIN stored' :
           /\ IsCirOf(front, stored'[v].parsed) /\ stored'[v].slug = Cited(front)
           /\ stored'[v].claims = CanonicaliseClaimIds(stored'[v].parsed.claims, stored'[v].slug)
  <2>1. CASE Submit
    <3> DEFINE new == [slug |-> SlugFor(cir), parsed |-> cir, claims |-> CanonicaliseClaimIds(cir.claims, SlugFor(cir))]
    <3>1. IsCirOf(front, cir) /\ stored' = Append(stored, new)
      BY <2>1 DEF IInv, Submit
    <3>2. stored \in Seq({stored[v] : v \in DOMAIN stored})
      BY DEF IInv
    <3>3. SlugFor(cir) = Cited(front)
      <4>1. PICK s, aux : s.front = front /\ cir = BuildCir(s, aux)
        BY <3>1 DEF IsCirOf
      <4>2. cir.id_slug = IdSlug(front)
        BY <4>1 DEF BuildCir
      <4>3. stored # << >> => Last1.slug = Cited(front)
        <5>1. stored # << >> => Len(stored) \in DOMAIN stored
          BY <3>2
        <5> QED
          BY <5>1 DEF IInv, Last1
      <4> QED
        BY <4>2, <4>3 DEF SlugFor, Cited
    <3>4. new.parsed = cir /\ new.slug = Cited(front) /\ new.claims = CanonicaliseClaimIds(cir.claims, new.slug)
      BY <3>3
    <3> HIDE DEF new, front
    <3>5. /\ DOMAIN stored' = 1 .. Len(stored) + 1 /\ Len(stored) \in Nat /\ DOMAIN stored = 1 .. Len(stored)
          /\ \A v \in 1 .. Len(stored) + 1 : stored'[v] = IF v = Len(stored) + 1 THEN new ELSE stored[v]
      BY <3>1, <3>2
    <3>6. stored' \in Seq({stored'[v] : v \in DOMAIN stored'})
      <4> DEFINE t == stored'
                 T == {stored[v] : v \in DOMAIN stored} \cup {new}
      <4>1. t \in Seq(T)
        BY <3>1, <3>2
      <4> HIDE DEF t, T
      <4>2. t \in Seq({t[v] : v \in DOMAIN t})
        BY <4>1
      <4> QED
        BY <4>2 DEF t
    <3>7. ASSUME NEW v \in DOMAIN stored'
          PROVE  /\ IsCirOf(front, stored'[v].parsed) /\ stored'[v].slug = Cited(front)
                 /\ stored'[v].claims = CanonicaliseClaimIds(stored'[v].parsed.claims, stored'[v].slug)
      <4>1. CASE v = Len(stored) + 1
        BY <3>1, <3>4, <3>5, <4>1
      <4>2. CASE v # Len(stored) + 1
        <5>1. v \in DOMAIN stored /\ stored'[v] = stored[v]
          BY <3>5, <4>2
        <5> QED
          BY <5>1 DEF IInv, front
      <4> QED
        BY <4>1, <4>2
    <3> QED
      BY <3>6, <3>7
  <2>2. CASE stored' = stored
    BY <2>2 DEF IInv
  <2> QED
    BY <2>1, <2>2 DEF Next, Edit, Compile, Parse, vars
<1> QED
  BY <1>1, <1>2, <1>3, <1>4 DEF IInv

LEMMA InvariantInit == Init => IInv
<1> SUFFICES ASSUME Init PROVE IInv
  OBVIOUS
<1>1. IsSource(src)
  BY SourcesAssumption DEF Init
<1>2. stored = << >> /\ DOMAIN << >> = {}
  BY DEF Init
<1>3. stored \in Seq({stored[v] : v \in DOMAIN stored})
  BY <1>2
<1> QED
  BY <1>1, <1>2, <1>3 DEF Init, IInv

LEMMA Invariant == Spec => []IInv
<1>1. IInv /\ [Next]_vars => IInv'
  BY InvariantStep
<1> QED
  BY InvariantInit, <1>1, PTL DEF Spec

\* The id of a paper, which every one of its ids starts with.
LEMMA PaperIdIs ==
  ASSUME NEW s, IsSource(s), NEW t, IsSource(t), t.front = s.front
  PROVE  LET c == BuildCir(s, Sidecar(t))
         IN /\ c.id = IF s.front.id # <<>> THEN s.front.id ELSE <<"main">>
            /\ c.id \in Seq(STRING) /\ c.id # << >>
            /\ c.of = s /\ c.aux = Sidecar(t)
<1>1. Sidecar(t).id = s.front.id
  BY DEF Sidecar, CompileSidecar
<1>2a. <<"main">> \in Seq(STRING) /\ <<"main">> # << >>
  BY WordsAssumption
<1>2b. s.front.id \in Seq(STRING)
  BY DEF IsSource
<1>2. <<"main">> \in Seq(STRING) /\ <<"main">> # << >> /\ s.front.id \in Seq(STRING)
  BY <1>2a, <1>2b
<1> DEFINE c == BuildCir(s, Sidecar(t))
<1>3. c.id = PaperId(s.front, Sidecar(t)) /\ c.of = s /\ c.aux = Sidecar(t)
  BY DEF BuildCir
<1> QED
  BY <1>1, <1>2, <1>3 DEF PaperId

LEMMA NamesAre ==
  ASSUME NEW nodes \in Seq(Line), NEW aux, Indexed(nodes, aux), NEW n \in 1 .. RecordCount(nodes)
  PROVE  NameOf(nodes, aux, n) \in Seq(Segments) /\ NameOf(nodes, aux, n) # << >>
<1>1. PlaceOf(nodes, n) \in Environments(nodes)
  BY PlacesOf
<1>2. nodes[PlaceOf(nodes, n)].label \in Seq(STRING)
  BY <1>1, EnvironmentsAre, EnvLines
<1> DEFINE index == ClaimIndex(nodes, aux, n)
<1>3. STRING \subseteq Segments /\ "claim" \in Segments /\ index \in Segments
  <2>1. n \in Nat \ {0}
    BY PlacesOf
  <2>2. index \in {Numeral(n), NoIndex}
    BY <2>1 DEF Indexed
  <2> QED
    BY <2>1, <2>2, WordsAssumption DEF Segments, NoIndex
<1> HIDE DEF index
<1> HIDE DEF Segments
<1>4. nodes[PlaceOf(nodes, n)].label \in Seq(Segments)
  <2> DEFINE l == nodes[PlaceOf(nodes, n)].label
  <2> HIDE DEF l
  <2>1. l \in Seq(STRING) => l \in Seq(Segments)
    BY <1>3, SeqMonotonic
  <2> QED
    BY <1>2, <2>1 DEF l
<1>5. <<"claim", index>> \in Seq(Segments) /\ <<"claim", index>> # << >>
  BY <1>3
<1> QED
  BY <1>2, <1>4, <1>5 DEF NameOf, index

CirNodes(c) == Nodes(Paper(c.of))

LEMMA CirIs ==
  ASSUME NEW front, NEW c, IsCirOf(front, c)
  PROVE  /\ IsSource(c.of) /\ c.of.front = front /\ IsSidecarOf(front, c.aux)
         /\ c.id = IF front.id # <<>> THEN front.id ELSE <<"main">>
         /\ c.id \in Seq(STRING) /\ c.id # << >>
         /\ AreRecords(c.claims, c.id, CirNodes(c), c.aux, SourceMap(Paper(c.of)))
<1>1. PICK s, aux : IsSource(s) /\ s.front = front /\ IsSidecarOf(front, aux) /\ c = BuildCir(s, aux)
  BY DEF IsCirOf
<1>2. PICK t : IsSource(t) /\ t.front = front /\ aux = Sidecar(t)
  BY <1>1 DEF IsSidecarOf
<1>3. c.of = s /\ c.aux = aux /\ c.id \in Seq(STRING) /\ c.id # << >>
      /\ c.id = IF front.id # <<>> THEN front.id ELSE <<"main">>
  BY <1>1, <1>2, PaperIdIs
<1>4. AreRecords(c.claims, c.id, Nodes(Paper(s)), Sidecar(t), SourceMap(Paper(s)))
  BY <1>1, <1>2, ClaimsAre
<1>5. AreRecords(c.claims, c.id, CirNodes(c), c.aux, SourceMap(Paper(c.of)))
  BY <1>2, <1>3, <1>4 DEF CirNodes
<1> QED
  BY <1>1, <1>3, <1>5

LEMMA CirIndexed ==
  ASSUME NEW front, NEW c, IsCirOf(front, c)
  PROVE  Indexed(CirNodes(c), c.aux)
<1>1. IsSidecarOf(front, c.aux)
  BY CirIs
<1>2. PICK t : IsSource(t) /\ c.aux = Sidecar(t)
  BY <1>1 DEF IsSidecarOf
<1> QED
  BY <1>2, MarkersCount

LEMMA CirClaims ==
  ASSUME NEW front, NEW c, IsCirOf(front, c), NEW n \in DOMAIN c.claims
  PROVE  /\ n \in 1 .. RecordCount(CirNodes(c)) /\ CirNodes(c) \in Seq(Line)
         /\ c.claims[n].id = c.id \o NameOf(CirNodes(c), c.aux, n)
         /\ c.claims[n].statement = CirNodes(c)[PlaceOf(CirNodes(c), n)].text
         /\ {"id", "paper_id", "statement", "edges"} \subseteq DOMAIN c.claims[n]
         /\ DOMAIN c.claims[n].edges = EdgeKinds
         /\ \A k \in EdgeKinds : c.claims[n].edges[k] = Targets(c.claims[n].id, k, ParseEdges(c.aux), c.id,
                                                               LabelResolver(CirNodes(c), c.id))
<1> DEFINE nodes == CirNodes(c)
           map == SourceMap(Paper(c.of))
           i == PlaceOf(nodes, n)
<1>1. AreRecords(c.claims, c.id, nodes, c.aux, map)
  BY CirIs
<1> HIDE DEF nodes, map
<1>2. n \in 1 .. RecordCount(nodes) /\ nodes \in Seq(Line)
  BY <1>1 DEF AreRecords
<1>3. PICK class, declared, e :
        /\ c.claims[n] = Record(nodes, c.aux, c.id, map, i, c.id \o NameOf(nodes, c.aux, n), class, declared, e)
        /\ n <= Len(Claimed(nodes)) => e = PairClaimsWithEvidence(nodes)[n]
  BY <1>1, <1>2 DEF AreRecords
<1> HIDE DEF i
<1> DEFINE id == c.id \o NameOf(nodes, c.aux, n)
           r == Record(nodes, c.aux, c.id, map, i, id, class, declared, e)
<1>4. /\ r.id = id /\ r.statement = nodes[i].text
      /\ {"id", "paper_id", "statement", "edges"} \subseteq DOMAIN r
      /\ r.edges = [k \in EdgeKinds |-> Targets(id, k, ParseEdges(c.aux), c.id, LabelResolver(nodes, c.id))]
  <2> HIDE DEF id
  <2> QED
    BY DEF Record
<1>5. c.claims[n] = r
  BY <1>3
<1>6. DOMAIN r.edges = EdgeKinds
      /\ \A k \in EdgeKinds : r.edges[k] = Targets(id, k, ParseEdges(c.aux), c.id, LabelResolver(nodes, c.id))
  <2> HIDE DEF r
  <2> QED
    BY <1>4
<1> HIDE DEF r
<1> QED
  BY <1>2, <1>3, <1>4, <1>5, <1>6 DEF nodes, map, i, id

LEMMA CirKeys ==
  ASSUME NEW front, NEW c, IsCirOf(front, c)
  PROVE  \A n \in DOMAIN c.claims : {"id", "paper_id", "statement", "edges"} \subseteq DOMAIN c.claims[n]
<1> DEFINE nodes == CirNodes(c)
           map == SourceMap(Paper(c.of))
<1> SUFFICES ASSUME NEW n \in DOMAIN c.claims
             PROVE  {"id", "paper_id", "statement", "edges"} \subseteq DOMAIN c.claims[n]
  OBVIOUS
<1>1. AreRecords(c.claims, c.id, nodes, c.aux, map)
  BY CirIs
<1> HIDE DEF nodes, map
<1>2. PICK class, declared, e :
        c.claims[n] = Record(nodes, c.aux, c.id, map, PlaceOf(nodes, n), c.id \o NameOf(nodes, c.aux, n), class, declared, e)
  BY <1>1 DEF AreRecords
<1> DEFINE id == c.id \o NameOf(nodes, c.aux, n)
           i == PlaceOf(nodes, n)
           r == Record(nodes, c.aux, c.id, map, i, id, class, declared, e)
<1>3. {"id", "paper_id", "statement", "edges"} \subseteq DOMAIN r
  <2> HIDE DEF id, i
  <2> QED
    BY DEF Record
<1> HIDE DEF r
<1>4. c.claims[n] = r
  BY <1>2 DEF r
<1> QED
  BY <1>3, <1>4

\* The record of the nth claim, where e is the evidence paired with it.
ProvedBy(c, n, e) ==
  /\ c.claims[n].proof = (IF e = 0 THEN "" ELSE CirNodes(c)[e].text)
  /\ c.claims[n].location = SourceLocation(SourceMap(Paper(c.of)), PlaceOf(CirNodes(c), n),
                                           IF e = 0 THEN PlaceOf(CirNodes(c), n) ELSE e)
LEMMA CirProofs ==
  ASSUME NEW front, NEW c, IsCirOf(front, c), NEW n \in DOMAIN c.claims, n <= Len(Claimed(CirNodes(c)))
  PROVE  ProvedBy(c, n, PairClaimsWithEvidence(CirNodes(c))[n])
<1> DEFINE e == PairClaimsWithEvidence(CirNodes(c))[n]
<1> DEFINE nodes == CirNodes(c)
           map == SourceMap(Paper(c.of))
           i == PlaceOf(nodes, n)
           id == c.id \o NameOf(nodes, c.aux, n)
<1>1. AreRecords(c.claims, c.id, nodes, c.aux, map)
  BY CirIs
<1> HIDE DEF nodes, map, i, id, e
<1>2. n \in 1 .. RecordCount(nodes) /\ n <= Len(Claimed(nodes)) /\ e = PairClaimsWithEvidence(nodes)[n]
  BY <1>1 DEF AreRecords, nodes, e
<1>3. PICK class, declared : c.claims[n] = Record(nodes, c.aux, c.id, map, i, id, class, declared, e)
  BY <1>1, <1>2 DEF AreRecords, i, id
<1> DEFINE r == Record(nodes, c.aux, c.id, map, i, id, class, declared, e)
<1>4. /\ r.proof = IF e = 0 THEN "" ELSE nodes[e].text
      /\ r.location = SourceLocation(map, i, IF e = 0 THEN i ELSE e)
  BY DEF Record
<1>5. c.claims[n] = r
  BY <1>3
<1> HIDE DEF r
<1> QED
  BY <1>4, <1>5 DEF nodes, map, i, e, ProvedBy

\* Where no label is set twice, no two claims have one id, of whichever source the sidecar is.
LEMMA CirIdsDistinct ==
  ASSUME NumeralsApart, NEW front, NEW c, IsCirOf(front, c), LabelsUnique(c.of), AllNumbered(c.aux)
  PROVE  IdsDistinct(c.claims)
<1> SUFFICES ASSUME NEW m \in DOMAIN c.claims, NEW n \in DOMAIN c.claims, c.claims[m].id = c.claims[n].id
             PROVE  m = n
  BY DEF IdsDistinct
<1> DEFINE nodes == CirNodes(c)
           x == NameOf(nodes, c.aux, m)
           y == NameOf(nodes, c.aux, n)
<1>0. Indexed(nodes, c.aux)
  BY CirIndexed
<1>1. m \in 1 .. RecordCount(nodes) /\ n \in 1 .. RecordCount(nodes) /\ nodes \in Seq(Line)
      /\ c.claims[m].id = c.id \o x /\ c.claims[n].id = c.id \o y
  <2>1. \A k \in DOMAIN c.claims : /\ k \in 1 .. RecordCount(CirNodes(c)) /\ CirNodes(c) \in Seq(Line)
                                    /\ c.claims[k].id = c.id \o NameOf(CirNodes(c), c.aux, k)
    BY CirClaims
  <2> QED
    BY <2>1
<1>2. x \in Seq(Segments) /\ y \in Seq(Segments)
  BY <1>0, <1>1, NamesAre
<1>3. c.id \in Seq(Segments)
  <2>1. c.id \in Seq(STRING)
    BY CirIs
  <2> QED
    BY <2>1 DEF Segments
<1>4. x = y
  <2> HIDE DEF x, y, Segments
  <2>1. c.id \o x = c.id \o y
    BY <1>1
  <2> QED
    BY <1>2, <1>3, <2>1, ConcatSimplifications
<1>5. IsSource(c.of) /\ nodes = Nodes(Paper(c.of))
  BY CirIs DEF CirNodes
<1> HIDE DEF nodes
<1> QED
  BY <1>0, <1>1, <1>4, <1>5, NamesDistinct

\* IdsUnique: the ids of a paper's claims are distinct whatever its sidecar was made from,
\* if the sidecar's claim markers all carry a number.
THEOREM ClaimIdsDistinct ==
  ASSUME NumeralsApart
  PROVE  Spec => []IdsUnique
<1>1. IInv => IdsUnique
  BY CirIdsDistinct DEF IInv, IdsUnique
<1> QED
  BY <1>1, Invariant, PTL

-----------------------------------------------------------------------------
(***************************************************************************)
(* Claims and their evidence.                                              *)
(***************************************************************************)

\* Step by step from a beginning: there is such a function, and it keeps its type.
IsChain(S, N, init, step) == N \in Nat /\ init \in S /\ step \in [(1 .. N) \X S -> S]

LEMMA Chain ==
  ASSUME NEW S, NEW N, NEW init, NEW step, IsChain(S, N, init, step)
  PROVE  \E f \in [0 .. N -> S] : f[0] = init /\ \A n \in 1 .. N : f[n] = step[<<n, f[n - 1]>>]
<1> USE DEF IsChain
<1> DEFINE Built(k) == \E f \in [0 .. k -> S] : f[0] = init /\ \A n \in 1 .. k : f[n] = step[<<n, f[n - 1]>>]
           Bad == {k \in 0 .. N : ~Built(k)}
<1>1. Built(0)
  <2> DEFINE f == [n \in 0 .. 0 |-> init]
  <2>1. f \in [0 .. 0 -> S] /\ f[0] = init /\ \A n \in 1 .. 0 : FALSE
    OBVIOUS
  <2> HIDE DEF f
  <2> QED
    BY <2>1
<1>2. ASSUME NEW k \in 1 .. N, Built(k - 1) PROVE Built(k)
  <2>1. PICK f \in [0 .. k - 1 -> S] : f[0] = init /\ \A n \in 1 .. k - 1 : f[n] = step[<<n, f[n - 1]>>]
    BY <1>2
  <2> DEFINE g == [n \in 0 .. k |-> IF n < k THEN f[n] ELSE step[<<k, f[k - 1]>>]]
  <2>2. f[k - 1] \in S /\ step[<<k, f[k - 1]>>] \in S
    <3>1. k - 1 \in 0 .. k - 1
      OBVIOUS
    <3> QED
      BY <3>1
  <2>3. g \in [0 .. k -> S]
    BY <2>2
  <2>4. g[0] = init
    BY <2>1
  <2>5. \A n \in 1 .. k : g[n] = step[<<n, g[n - 1]>>]
    <3> SUFFICES ASSUME NEW n \in 1 .. k PROVE g[n] = step[<<n, g[n - 1]>>]
      OBVIOUS
    <3>1. n - 1 \in 0 .. k /\ n - 1 < k /\ n \in 0 .. k
      OBVIOUS
    <3>2. g[n - 1] = f[n - 1]
      BY <3>1
    <3>3. CASE n = k
      <4>1. g[n] = step[<<k, f[k - 1]>>]
        BY <3>3
      <4> HIDE DEF g
      <4> QED
        BY <3>2, <3>3, <4>1
    <3>4. CASE n < k
      <4>1. n \in 1 .. k - 1 /\ g[n] = f[n]
        BY <3>1, <3>4
      <4>2. f[n] = step[<<n, f[n - 1]>>]
        BY <2>1, <4>1
      <4> HIDE DEF g
      <4> QED
        BY <3>2, <4>1, <4>2
    <3> QED
      BY <3>3, <3>4
  <2> HIDE DEF g
  <2> QED
    BY <2>3, <2>4, <2>5
<1> HIDE DEF Built
<1>3. \A k \in Bad : \E j \in Bad : j < k
  <2> SUFFICES ASSUME NEW k \in 0 .. N, ~Built(k) PROVE k - 1 \in Bad /\ k - 1 < k
    OBVIOUS
  <2>1. k # 0
    BY <1>1
  <2>2. k \in 1 .. N
    BY <2>1
  <2>3. ~Built(k - 1)
    BY <1>2, <2>2
  <2> QED
    BY <2>2, <2>3
<1>4. Bad = {}
  <2>1. Bad \in SUBSET Nat
    OBVIOUS
  <2> QED
    BY <1>3, <2>1, NoLeast
<1>5. N \in 0 .. N
  OBVIOUS
<1> QED
  BY <1>4, <1>5 DEF Built

LEMMA ChainTyped ==
  ASSUME NEW S, NEW N \in Nat, NEW f, f[0] \in S, \A n \in 1 .. N : f[n - 1] \in S => f[n] \in S
  PROVE  \A n \in 0 .. N : f[n] \in S
<1> DEFINE Bad == {n \in 0 .. N : f[n] \notin S}
<1>1. \A n \in Bad : \E j \in Bad : j < n
  <2> SUFFICES ASSUME NEW n \in 0 .. N, f[n] \notin S PROVE n - 1 \in Bad /\ n - 1 < n
    OBVIOUS
  <2>1. n # 0
    OBVIOUS
  <2> QED
    BY <2>1
<1>2. Bad \in SUBSET Nat
  OBVIOUS
<1> HIDE DEF Bad
<1>3. Bad = {}
  BY <1>1, <1>2, NoLeast
<1> QED
  BY <1>3 DEF Bad

EvidenceFor(nodes, n, before) ==
  LET claims == OfKind(nodes, {"claim"})
      evidence == ToSet(OfKind(nodes, {"evidence"}))
      c == claims[n]
      after == {e \in evidence : e > c /\ e \notin ToSet(before)}
      named == {e \in after : NamesSame(nodes[c].label, nodes[e].label)}
      near == {e \in after : n < Len(claims) => e < claims[n + 1]}
  IN IF named # {} THEN Min(named) ELSE IF near # {} THEN Min(near) ELSE 0

\* The environments of one kind, by place.
LEMMA OfKindIs ==
  ASSUME NEW nodes \in Seq(Line), NEW k
  PROVE  LET o == OfKind(nodes, {k})
         IN /\ Len(o) \in Nat /\ DOMAIN o = 1 .. Len(o)
            /\ ToSet(o) = {i \in Environments(nodes) : nodes[i].env = k} /\ ToSet(o) \in SUBSET Nat
            /\ \A n \in 1 .. Len(o) : o[n] \in ToSet(o) /\ o[n] \in Nat
            /\ \A m, n \in 1 .. Len(o) : m < n <=> o[m] < o[n]
            /\ \A m, n \in 1 .. Len(o) : o[m] = o[n] => m = n
<1> DEFINE E == Environments(nodes)
           A == {i \in E : nodes[i].env \in {k}}
           o == InOrder(A)
<1>1. A \in SUBSET Nat /\ IsFiniteSet(A) /\ A = {i \in E : nodes[i].env = k}
  BY EnvironmentsAre, FS_Subset
<1>2. OfKind(nodes, {k}) = o
  BY DEF OfKind
<1> HIDE DEF A
<1>3. /\ Len(o) \in Nat /\ DOMAIN o = 1 .. Len(o) /\ \A n \in 1 .. Len(o) : o[n] \in A
      /\ \A i \in A : \E n \in 1 .. Len(o) : o[n] = i
      /\ \A m, n \in 1 .. Len(o) : m < n <=> o[m] < o[n]
  <2> DEFINE N == Cardinality(A)
  <2>1. N \in Nat /\ Len(o) = N /\ DOMAIN o = 1 .. N
    BY <1>1, Ordered
  <2>2. /\ \A n \in 1 .. N : o[n] \in A
        /\ \A i \in A : \E n \in 1 .. N : o[n] = i
        /\ \A m, n \in 1 .. N : m < n <=> o[m] < o[n]
    BY <1>1, Ordered
  <2> HIDE DEF N, o
  <2> QED
    BY <2>1, <2>2
<1> HIDE DEF o
<1>4. ToSet(o) = A
  BY <1>3 DEF ToSet
<1>5. \A m, n \in 1 .. Len(o) : o[m] = o[n] => m = n
  <2> SUFFICES ASSUME NEW m \in 1 .. Len(o), NEW n \in 1 .. Len(o), o[m] = o[n] PROVE m = n
    OBVIOUS
  <2>1. o[m] \in Nat /\ ~(o[m] < o[n]) /\ ~(o[n] < o[m])
    BY <1>1, <1>3
  <2>2. ~(m < n) /\ ~(n < m)
    BY <1>3, <2>1
  <2> QED
    BY <1>3, <2>2
<1>6. \A n \in 1 .. Len(o) : o[n] \in Nat
  BY <1>1, <1>3
<1> QED
  BY <1>1, <1>2, <1>3, <1>4, <1>5, <1>6

\* What a claim takes: its named evidence, or what is near, or none.
LEMMA EvidenceForIs ==
  ASSUME NEW nodes \in Seq(Line), NEW n \in 1 .. Len(OfKind(nodes, {"claim"})), NEW before
  PROVE  LET claims == OfKind(nodes, {"claim"})
             e == EvidenceFor(nodes, n, before)
             after == {x \in ToSet(OfKind(nodes, {"evidence"})) : x > claims[n] /\ x \notin ToSet(before)}
             named == {x \in after : NamesSame(nodes[claims[n]].label, nodes[x].label)}
         IN /\ e \in Nat /\ (e # 0 => e \in after)
            /\ e # 0 /\ e \notin named => (n < Len(claims) => e < claims[n + 1])
            /\ named # {} => e \in named
<1> DEFINE claims == OfKind(nodes, {"claim"})
           evidence == ToSet(OfKind(nodes, {"evidence"}))
           after == {x \in evidence : x > claims[n] /\ x \notin ToSet(before)}
           named == {x \in after : NamesSame(nodes[claims[n]].label, nodes[x].label)}
           near == {x \in after : n < Len(claims) => x < claims[n + 1]}
           e == EvidenceFor(nodes, n, before)
<1>1. evidence \in SUBSET Nat
  BY OfKindIs
<1>2. named \in SUBSET Nat /\ near \in SUBSET Nat /\ named \subseteq after /\ near \subseteq after
  BY <1>1
<1>3. e = IF named # {} THEN Min(named) ELSE IF near # {} THEN Min(near) ELSE 0
  BY DEF EvidenceFor
<1> HIDE DEF e
<1>4. \A x \in near : n < Len(claims) => x < claims[n + 1]
  OBVIOUS
<1> HIDE DEF named, near, after
<1>5. (named # {} => Min(named) \in named) /\ (near # {} => Min(near) \in near)
  BY <1>2, SmallestOf
<1>6. e \in Nat /\ (e # 0 => e \in after) /\ (e # 0 /\ e \notin named => (n < Len(claims) => e < claims[n + 1]))
      /\ (named # {} => e \in named)
  BY <1>2, <1>3, <1>4, <1>5
<1> QED
  BY <1>6 DEF e, named, after

LEMMA PairingIs ==
  ASSUME NEW nodes \in Seq(Line)
  PROVE  LET L == Len(OfKind(nodes, {"claim"}))
         IN \E pair \in [0 .. L -> Seq(Nat)] :
              /\ pair[0] = << >>
              /\ \A n \in 1 .. L : pair[n] = Append(pair[n - 1], EvidenceFor(nodes, n, pair[n - 1]))
              /\ PairClaimsWithEvidence(nodes) = pair[L]
<1> DEFINE L == Len(OfKind(nodes, {"claim"}))
           Step(f, n) == Append(f[n - 1], EvidenceFor(nodes, n, f[n - 1]))
           pair == CHOOSE f : f = [n \in 0 .. L |-> IF n = 0 THEN << >> ELSE Step(f, n)]
           step == [p \in (1 .. L) \X Seq(Nat) |-> Append(p[2], EvidenceFor(nodes, p[1], p[2]))]
<1>1. L \in Nat
  BY OfKindIs
<1>2. \A n \in 1 .. L, b \in Seq(Nat) : EvidenceFor(nodes, n, b) \in Nat
  BY EvidenceForIs
<1>3. PairClaimsWithEvidence(nodes) = pair[L]
  BY DEF PairClaimsWithEvidence, EvidenceFor
<1> HIDE DEF L
<1>4. step \in [(1 .. L) \X Seq(Nat) -> Seq(Nat)]
  BY <1>2
<1>5. PICK f \in [0 .. L -> Seq(Nat)] : f[0] = << >> /\ \A n \in 1 .. L : f[n] = step[<<n, f[n - 1]>>]
  <2>1. << >> \in Seq(Nat)
    OBVIOUS
  <2> HIDE DEF step
  <2>2. IsChain(Seq(Nat), L, << >>, step)
    BY <1>1, <1>4, <2>1 DEF IsChain
  <2> QED
    BY <2>2, Chain
<1>6. pair = [n \in 0 .. L |-> IF n = 0 THEN << >> ELSE Step(pair, n)]
  <2>1. \A n \in 1 .. L : f[n] = Step(f, n)
    <3> SUFFICES ASSUME NEW n \in 1 .. L PROVE f[n] = Step(f, n)
      OBVIOUS
    <3>1. n - 1 \in 0 .. L /\ f[n - 1] \in Seq(Nat)
      BY <1>1
    <3> QED
      BY <1>5, <3>1
  <2>2. f = [n \in 0 .. L |-> IF n = 0 THEN << >> ELSE Step(f, n)]
    <3> HIDE DEF Step
    <3>1. \A n \in 0 .. L : f[n] = IF n = 0 THEN << >> ELSE Step(f, n)
      BY <1>1, <1>5, <2>1
    <3> QED
      BY <3>1
  <2> HIDE DEF Step
  <2> QED
    BY <2>2
<1> HIDE DEF pair
<1>7. pair[0] = << >> /\ \A n \in 1 .. L : pair[n] = Step(pair, n)
  <2>1. 0 \in 0 .. L /\ \A n \in 1 .. L : n \in 0 .. L /\ n # 0
    BY <1>1
  <2> HIDE DEF Step
  <2> QED
    BY <1>6, <2>1
<1>8. \A n \in 0 .. L : pair[n] \in Seq(Nat)
  <2>1. \A n \in 1 .. L : pair[n - 1] \in Seq(Nat) => pair[n] \in Seq(Nat)
    <3> SUFFICES ASSUME NEW n \in 1 .. L, pair[n - 1] \in Seq(Nat) PROVE pair[n] \in Seq(Nat)
      OBVIOUS
    <3> DEFINE b == pair[n - 1]
    <3>1. EvidenceFor(nodes, n, b) \in Nat /\ pair[n] = Append(b, EvidenceFor(nodes, n, b))
      BY <1>2, <1>7
    <3> HIDE DEF b
    <3> QED
      BY <3>1, AppendProperties DEF b
  <2>2. pair[0] \in Seq(Nat)
    BY <1>7
  <2> QED
    BY <1>1, <2>1, <2>2, ChainTyped
<1>9. pair \in [0 .. L -> Seq(Nat)]
  <2>1. pair = [n \in 0 .. L |-> pair[n]]
    <3> HIDE DEF Step
    <3> QED
      BY <1>6, <1>7
  <2> QED
    BY <1>8, <2>1
<1> QED
  BY <1>3, <1>7, <1>9 DEF L

\* Each claim takes its evidence from what those before it have left.
LEMMA PairedIs ==
  ASSUME NEW nodes \in Seq(Line)
  PROVE  LET L == Len(OfKind(nodes, {"claim"}))
             paired == PairClaimsWithEvidence(nodes)
         IN /\ DOMAIN paired = 1 .. L
            /\ \A n \in 1 .. L : \E before : /\ paired[n] = EvidenceFor(nodes, n, before)
                                             /\ ToSet(before) = {paired[m] : m \in 1 .. n - 1}
<1> DEFINE L == Len(OfKind(nodes, {"claim"}))
           paired == PairClaimsWithEvidence(nodes)
<1>1. L \in Nat
  BY OfKindIs
<1>2. PICK pair \in [0 .. L -> Seq(Nat)] :
        /\ pair[0] = << >>
        /\ \A n \in 1 .. L : pair[n] = Append(pair[n - 1], EvidenceFor(nodes, n, pair[n - 1]))
        /\ paired = pair[L]
  BY PairingIs
<1> HIDE DEF L, paired
<1> DEFINE Has(k) == Len(pair[k]) = k /\ \A m \in 1 .. k : pair[k][m] = EvidenceFor(nodes, m, pair[m - 1])
           Bad == {k \in 0 .. L : ~Has(k)}
<1>3. \A k \in Bad : \E j \in Bad : j < k
  <2> SUFFICES ASSUME NEW k \in 0 .. L, ~Has(k), k = 0 \/ Has(k - 1) PROVE FALSE
    <3>1. ASSUME NEW k \in Bad, \A j \in Bad : ~(j < k) PROVE FALSE
      <4>1. k = 0 \/ (k - 1 \in 0 .. L /\ k - 1 < k)
        BY <1>1
      <4>2. k = 0 \/ Has(k - 1)
        BY <3>1, <4>1
      <4> HIDE DEF Has
      <4> QED
        BY <3>1, <4>2
    <3> HIDE DEF Bad
    <3> QED
      BY <3>1
  <2>1. CASE k = 0
    <3>1. Len(pair[0]) = 0
      BY <1>2
    <3> QED
      BY <2>1, <3>1
  <2>2. CASE k # 0
    <3> DEFINE b == pair[k - 1]
               e == EvidenceFor(nodes, k, b)
    <3>1. k \in 1 .. L /\ k - 1 \in 0 .. L /\ k \in Nat
      BY <1>1, <2>2
    <3>2. b \in Seq(Nat) /\ pair[k] = Append(b, e) /\ pair[k] \in Seq(Nat)
      BY <1>2, <3>1
    <3>3. Len(b) = k - 1 /\ \A m \in 1 .. k - 1 : b[m] = EvidenceFor(nodes, m, pair[m - 1])
      BY <2>2
    <3> HIDE DEF e
    <3>4. Len(pair[k]) = k /\ pair[k][k] = e /\ \A m \in 1 .. k - 1 : pair[k][m] = b[m]
      <4> HIDE DEF b
      <4> QED
        BY <3>1, <3>2, <3>3
    <3>5. \A m \in 1 .. k : m = k \/ m \in 1 .. k - 1
      BY <3>1
    <3>6. Has(k)
      <4> SUFFICES ASSUME NEW m \in 1 .. k PROVE pair[k][m] = EvidenceFor(nodes, m, pair[m - 1])
        BY <3>4
      <4>1. CASE m = k
        BY <3>4, <4>1 DEF e
      <4>2. CASE m \in 1 .. k - 1
        BY <3>3, <3>4, <4>2
      <4> QED
        BY <3>5, <4>1, <4>2
    <3> QED
      BY <3>6
  <2> QED
    BY <2>1, <2>2
<1> HIDE DEF Has
<1>4. \A k \in 0 .. L : Has(k)
  <2>1. Bad \in SUBSET Nat
    BY <1>1
  <2>2. Bad = {}
    BY <1>3, <2>1, NoLeast
  <2> QED
    BY <2>2
<1>5. Has(L) /\ pair[L] \in Seq(Nat)
  BY <1>1, <1>2, <1>4
<1>6. DOMAIN paired = 1 .. L
  BY <1>2, <1>5 DEF Has
<1>7. ASSUME NEW n \in 1 .. L
      PROVE  /\ paired[n] = EvidenceFor(nodes, n, pair[n - 1])
             /\ ToSet(pair[n - 1]) = {paired[m] : m \in 1 .. n - 1}
  <2>1. n - 1 \in 0 .. L /\ n \in Nat
    BY <1>1
  <2>2. paired[n] = EvidenceFor(nodes, n, pair[n - 1])
    BY <1>2, <1>5 DEF Has
  <2>3. \A m \in 1 .. n - 1 : pair[n - 1][m] = paired[m]
    <3>1. Has(n - 1)
      BY <1>4, <2>1
    <3>2. \A m \in 1 .. n - 1 : m \in 1 .. L
      BY <1>1, <2>1
    <3> QED
      BY <1>2, <1>5, <3>1, <3>2 DEF Has
  <2>4. pair[n - 1] \in Seq(Nat) /\ Len(pair[n - 1]) = n - 1
    BY <1>2, <1>4, <2>1 DEF Has
  <2>5. DOMAIN pair[n - 1] = 1 .. n - 1
    BY <2>4
  <2> QED
    BY <2>2, <2>3, <2>5 DEF ToSet
<1>8. \A n \in 1 .. L : \E before : /\ paired[n] = EvidenceFor(nodes, n, before)
                                     /\ ToSet(before) = {paired[m] : m \in 1 .. n - 1}
  BY <1>7
<1> QED
  BY <1>6, <1>8 DEF L, paired

\* No evidence twice, and a claim's namesake goes to it.
LEMMA PairedRight ==
  ASSUME NEW nodes \in Seq(Line)
  PROVE  LET claims == OfKind(nodes, {"claim"})
             paired == PairClaimsWithEvidence(nodes)
             Same(i, kind) == {j \in ToSet(OfKind(nodes, {kind})) :
                                 /\ nodes[j].label # <<>>
                                 /\ LabelSuffix(nodes[j].label) = LabelSuffix(nodes[i].label)}
         IN /\ \A n \in DOMAIN claims : \A e \in Same(claims[n], "evidence") :
                 /\ nodes[claims[n]].label # <<>> /\ e > claims[n]
                 /\ Same(claims[n], "claim") = {claims[n]} /\ Same(claims[n], "evidence") = {e}
                 => paired[n] = e /\ e # 0
            /\ \A m, n \in DOMAIN paired : paired[m] = paired[n] /\ paired[m] # 0 => m = n
<1> DEFINE claims == OfKind(nodes, {"claim"})
           L == Len(claims)
           evidence == ToSet(OfKind(nodes, {"evidence"}))
           paired == PairClaimsWithEvidence(nodes)
           Suffix(i) == LabelSuffix(nodes[i].label)
           Same(i, kind) == {j \in ToSet(OfKind(nodes, {kind})) : nodes[j].label # <<>> /\ Suffix(j) = Suffix(i)}
           After(n) == {x \in evidence : x > claims[n] /\ \A m \in 1 .. n - 1 : x # paired[m]}
           NamedFor(n) == {x \in After(n) : NamesSame(nodes[claims[n]].label, nodes[x].label)}
<1>1. /\ L \in Nat /\ DOMAIN claims = 1 .. L /\ DOMAIN paired = 1 .. L
      /\ ToSet(claims) = {i \in Environments(nodes) : nodes[i].env = "claim"}
      /\ \A n \in 1 .. L : claims[n] \in ToSet(claims) /\ claims[n] \in Nat
      /\ \A m, n \in 1 .. L : m < n <=> claims[m] < claims[n]
      /\ \A m, n \in 1 .. L : claims[m] = claims[n] => m = n
      /\ evidence \in SUBSET Nat
  BY OfKindIs, PairedIs
<1>2. ASSUME NEW n \in 1 .. L
      PROVE  /\ paired[n] \in Nat /\ (paired[n] # 0 => paired[n] \in After(n))
             /\ paired[n] # 0 /\ paired[n] \notin NamedFor(n) => (n < L => paired[n] < claims[n + 1])
             /\ NamedFor(n) # {} => paired[n] \in NamedFor(n)
  <2>1. PICK before : paired[n] = EvidenceFor(nodes, n, before) /\ ToSet(before) = {paired[m] : m \in 1 .. n - 1}
    BY PairedIs
  <2> DEFINE after == {x \in evidence : x > claims[n] /\ x \notin ToSet(before)}
             named == {x \in after : NamesSame(nodes[claims[n]].label, nodes[x].label)}
  <2>2. after = After(n)
    BY <2>1
  <2>3. named = NamedFor(n)
    BY <2>2
  <2>4. /\ paired[n] \in Nat /\ (paired[n] # 0 => paired[n] \in after)
        /\ paired[n] # 0 /\ paired[n] \notin named => (n < L => paired[n] < claims[n + 1])
        /\ named # {} => paired[n] \in named
    BY <2>1, EvidenceForIs
  <2> HIDE DEF after, named, After, NamedFor
  <2> QED
    BY <2>2, <2>3, <2>4
<1> HIDE DEF claims, L, paired, evidence
<1>3. ASSUME NEW m \in 1 .. L, NEW n \in 1 .. L, paired[m] = paired[n], paired[m] # 0 PROVE m = n
  <2>1. paired[m] \in After(m) /\ paired[n] \in After(n)
    BY <1>2, <1>3
  <2>2. ~(m < n)
    <3> SUFFICES ASSUME m < n PROVE FALSE
      OBVIOUS
    <3>1. m \in 1 .. n - 1
      BY <1>1
    <3> QED
      BY <1>3, <2>1, <3>1
  <2>3. ~(n < m)
    <3> SUFFICES ASSUME n < m PROVE FALSE
      OBVIOUS
    <3>1. n \in 1 .. m - 1
      BY <1>1
    <3> QED
      BY <1>3, <2>1, <3>1
  <2> QED
    BY <1>1, <2>2, <2>3
<1>4. ASSUME NEW n \in 1 .. L, NEW e \in Same(claims[n], "evidence"), nodes[claims[n]].label # <<>>, e > claims[n],
             Same(claims[n], "claim") = {claims[n]}, Same(claims[n], "evidence") = {e}
      PROVE  paired[n] = e /\ e # 0
  <2>1. e \in evidence /\ nodes[e].label # <<>> /\ Suffix(e) = Suffix(claims[n]) /\ e \in Nat
    BY <1>1 DEF evidence
  <2>2. \A x \in evidence : NamesSame(nodes[claims[n]].label, nodes[x].label) => x = e
    <3> SUFFICES ASSUME NEW x \in evidence, NamesSame(nodes[claims[n]].label, nodes[x].label) PROVE x = e
      OBVIOUS
    <3>1. x \in Same(claims[n], "evidence")
      BY DEF NamesSame, evidence
    <3> QED
      BY <1>4, <3>1
  <2>3. NamesSame(nodes[claims[n]].label, nodes[e].label)
    BY <1>4, <2>1 DEF NamesSame
  <2>4. \A m \in 1 .. n - 1 : paired[m] # e
    <3> SUFFICES ASSUME NEW m \in 1 .. n - 1, paired[m] = e PROVE FALSE
      OBVIOUS
    <3>1. m \in 1 .. L /\ m < n /\ m < L /\ m + 1 \in 1 .. L
      BY <1>1
    <3>2. e # 0
      BY <1>1, <1>4, <2>1
    <3>3. paired[m] \in NamedFor(m) \/ paired[m] < claims[m + 1]
      BY <1>2, <3>1, <3>2
    <3>4. ~(paired[m] < claims[m + 1])
      <4>1. m + 1 = n \/ m + 1 < n
        BY <3>1
      <4>2. claims[m + 1] <= claims[n]
        BY <1>1, <3>1, <4>1
      <4> QED
        BY <1>1, <1>4, <2>1, <3>1, <4>2
    <3>5. NamesSame(nodes[claims[m]].label, nodes[e].label)
      BY <3>3, <3>4
    <3>6. nodes[claims[m]].label # <<>> /\ Suffix(claims[m]) = Suffix(claims[n])
      BY <2>1, <3>5 DEF NamesSame
    <3>7. claims[m] \in Same(claims[n], "claim")
      BY <1>1, <3>1, <3>6 DEF claims
    <3>8. claims[m] = claims[n]
      BY <1>4, <3>7
    <3> QED
      BY <1>1, <3>1, <3>8
  <2>5. e \in NamedFor(n)
    BY <1>4, <2>1, <2>3, <2>4
  <2>6. paired[n] \in NamedFor(n)
    BY <1>2, <2>5
  <2>7. paired[n] \in evidence /\ NamesSame(nodes[claims[n]].label, nodes[paired[n]].label)
    BY <2>6
  <2>8. e # 0
    BY <1>1, <1>4, <2>1
  <2> QED
    BY <2>2, <2>7, <2>8
<1> QED
  BY <1>1, <1>3, <1>4 DEF claims, L, paired

\* EvidencePaired: evidence named like one claim is that claim's proof, and none proves two.
THEOREM EvidenceGoesToItsClaim == Spec => []EvidencePaired
<1>1. IInv => EvidencePaired
  <2> SUFFICES ASSUME IInv, cir # NoCir PROVE EvidencePaired
    BY DEF EvidencePaired
  <2> DEFINE nodes == Nodes(Paper(cir.of))
             claims == OfKind(nodes, {"claim"})
             paired == PairClaimsWithEvidence(nodes)
  <2>1. IsCirOf(src.front, cir)
    BY DEF IInv
  <2>2. nodes \in Seq(Line) /\ nodes = CirNodes(cir)
    <3>1. IsSource(cir.of)
      BY <2>1, CirIs
    <3> QED
      BY <3>1, NodesLines DEF CirNodes
  <2>3. \A n \in DOMAIN claims : cir.claims[n].proof = IF paired[n] = 0 THEN "" ELSE nodes[paired[n]].text
    <3> SUFFICES ASSUME NEW n \in DOMAIN claims
                 PROVE  cir.claims[n].proof = IF paired[n] = 0 THEN "" ELSE nodes[paired[n]].text
      OBVIOUS
    <3>1. AreRecords(cir.claims, cir.id, CirNodes(cir), cir.aux, SourceMap(Paper(cir.of)))
      BY <2>1, CirIs
    <3>2. DOMAIN cir.claims = 1 .. RecordCount(nodes)
      BY <2>2, <3>1 DEF AreRecords
    <3>3. DOMAIN claims = 1 .. Len(claims) /\ claims = Claimed(nodes) /\ Len(claims) <= RecordCount(nodes)
          /\ Len(claims) \in Nat /\ RecordCount(nodes) \in Nat
      BY <2>2, PlacesOf DEF Claimed
    <3>4. n \in DOMAIN cir.claims /\ n <= Len(Claimed(nodes))
      BY <3>2, <3>3
    <3>5. ProvedBy(cir, n, PairClaimsWithEvidence(CirNodes(cir))[n])
      <4> HIDE DEF nodes, claims
      <4>1. n \in DOMAIN cir.claims /\ n <= Len(Claimed(CirNodes(cir)))
        BY <2>2, <3>4
      <4> QED
        BY <2>1, <4>1, CirProofs
    <3>6. paired[n] = PairClaimsWithEvidence(CirNodes(cir))[n]
      BY <2>2
    <3> HIDE DEF paired, nodes, claims
    <3> QED
      BY <2>2, <3>5, <3>6 DEF ProvedBy
  <2> DEFINE Same(i, kind) == {j \in ToSet(OfKind(nodes, {kind})) :
                                 /\ nodes[j].label # <<>>
                                 /\ LabelSuffix(nodes[j].label) = LabelSuffix(nodes[i].label)}
  <2> HIDE DEF nodes
  <2>4. /\ \A n \in DOMAIN claims : \A e \in Same(claims[n], "evidence") :
             /\ nodes[claims[n]].label # <<>> /\ e > claims[n]
             /\ Same(claims[n], "claim") = {claims[n]} /\ Same(claims[n], "evidence") = {e}
             => paired[n] = e /\ e # 0
        /\ \A m, n \in DOMAIN paired : paired[m] = paired[n] /\ paired[m] # 0 => m = n
    BY <2>2, PairedRight
  <2>5. ASSUME NEW n \in DOMAIN claims, NEW e \in Same(claims[n], "evidence"), nodes[claims[n]].label # <<>>, e > claims[n],
               Same(claims[n], "claim") = {claims[n]}, Same(claims[n], "evidence") = {e}
        PROVE  cir.claims[n].proof = nodes[e].text
    <3> HIDE DEF Same, claims, paired
    <3>1. paired[n] = e /\ e # 0
      BY <2>4, <2>5
    <3> QED
      BY <2>3, <3>1
  <2>6. \A m, n \in DOMAIN paired : paired[m] = paired[n] /\ paired[m] # 0 => m = n
    BY <2>4
  <2> QED
    BY <2>5, <2>6 DEF EvidencePaired, nodes
<1> QED
  BY <1>1, Invariant, PTL

-----------------------------------------------------------------------------
(***************************************************************************)
(* Edges: from the author's line, through the sidecar and the labels, to   *)
(* the record.                                                             *)
(***************************************************************************)

LEMMA ElementsFinite ==
  ASSUME NEW T, NEW s \in Seq(T)
  PROVE  IsFiniteSet(ToSet(s)) /\ ToSet(s) \subseteq T
<1>1. IsFiniteSet(1 .. Len(s))
  <2>1. Len(s) \in Nat
    OBVIOUS
  <2> QED
    BY <2>1, FS_Interval
<1>2. s \in Surjection(1 .. Len(s), ToSet(s))
  BY DEF Surjection, ToSet
<1>3. ToSet(s) \subseteq T
  BY DEF ToSet
<1> QED
  BY <1>1, <1>2, <1>3, FS_Surjection

\* The labelled environments of a text, and their labels.
LabelledPlaces(nodes) == {i \in Environments(nodes) : nodes[i].label # <<>>}
FullLabels(nodes) == {nodes[i].label : i \in LabelledPlaces(nodes)}
SuffixClaims(nodes, s) == {i \in LabelledPlaces(nodes) : nodes[i].env = "claim" /\ LabelSuffix(nodes[i].label) = s}
SuffixPlaces(nodes, s) == {i \in LabelledPlaces(nodes) : LabelSuffix(nodes[i].label) = s}

\* What the resolver has for s.
ResolvesTo(nodes, pid, s, r) ==
  /\ s \in DOMAIN r <=> s \in FullLabels(nodes) \/ SuffixPlaces(nodes, s) # {}
  /\ s \in FullLabels(nodes) => r[s] = pid \o s
  /\ s \notin FullLabels(nodes) /\ SuffixClaims(nodes, s) # {} =>
       r[s] = pid \o nodes[Max(SuffixClaims(nodes, s))].label
  /\ s \notin FullLabels(nodes) /\ SuffixClaims(nodes, s) = {} /\ SuffixPlaces(nodes, s) # {} =>
       r[s] = pid \o nodes[Min(SuffixPlaces(nodes, s))].label

LEMMA ResolverIs ==
  ASSUME NEW nodes, NEW pid, NEW s
  PROVE  ResolvesTo(nodes, pid, s, LabelResolver(nodes, pid))
<1> DEFINE labelled == LabelledPlaces(nodes)
           full == FullLabels(nodes)
           claims == {i \in labelled : nodes[i].env = "claim"}
           Called(t, set) == {i \in set : LabelSuffix(nodes[i].label) = t}
           Named1(t) == IF t \in full THEN t
                       ELSE IF Called(t, claims) # {} THEN nodes[Max(Called(t, claims))].label
                       ELSE nodes[Min(Called(t, labelled))].label
           r == LabelResolver(nodes, pid)
           D == full \cup {LabelSuffix(l) : l \in full}
<1>1. r = [t \in D |-> pid \o Named1(t)]
  BY DEF LabelResolver, LabelledPlaces, FullLabels
<1>2. Called(s, claims) = SuffixClaims(nodes, s) /\ Called(s, labelled) = SuffixPlaces(nodes, s)
  BY DEF SuffixClaims, SuffixPlaces
<1>3. s \in D <=> s \in full \/ SuffixPlaces(nodes, s) # {}
  BY DEF SuffixPlaces, FullLabels
<1>4. Named1(s) = IF s \in full THEN s
                  ELSE IF SuffixClaims(nodes, s) # {} THEN nodes[Max(SuffixClaims(nodes, s))].label
                  ELSE nodes[Min(SuffixPlaces(nodes, s))].label
  BY <1>2
<1>5. SuffixClaims(nodes, s) \subseteq SuffixPlaces(nodes, s)
  BY DEF SuffixClaims, SuffixPlaces
<1> HIDE DEF r, D, Named1, full
<1>6. DOMAIN r = D /\ (s \in D => r[s] = pid \o Named1(s))
  BY <1>1
<1> QED
  BY <1>3, <1>4, <1>5, <1>6 DEF r, full, ResolvesTo

\* The hypotheses of what follows.
LabelsAgree(c, nodes) ==
  /\ nodes \in Seq(Line) /\ c.id \in Seq(STRING) /\ c.id # <<>>
  /\ Labelled(c.of) = {nodes[i] : i \in LabelledPlaces(nodes)}

\* Labels and their suffixes.
LEMMA LabelledAre ==
  ASSUME NEW nodes \in Seq(Line)
  PROVE  /\ LabelledPlaces(nodes) \in SUBSET Nat /\ IsFiniteSet(LabelledPlaces(nodes))
         /\ \A i \in LabelledPlaces(nodes) : nodes[i].label \in Seq(STRING) /\ nodes[i].label # << >>
<1>1. LabelledPlaces(nodes) \subseteq Environments(nodes)
  BY DEF LabelledPlaces
<1>2. Environments(nodes) \in SUBSET Nat /\ IsFiniteSet(Environments(nodes))
      /\ \A i \in Environments(nodes) : nodes[i] \in Line /\ nodes[i].k = "env"
  BY EnvironmentsAre
<1>3. IsFiniteSet(LabelledPlaces(nodes))
  BY <1>1, <1>2, FS_Subset
<1>4. \A i \in LabelledPlaces(nodes) : nodes[i].label \in Seq(STRING)
  BY <1>1, <1>2, EnvLines
<1> QED
  BY <1>1, <1>2, <1>3, <1>4 DEF LabelledPlaces

LEMMA ResolvesOwn ==
  ASSUME NEW pid \in Seq(STRING), NEW raw \in Seq(STRING), IsStrictPrefix(pid, raw)
  PROVE  raw = pid \o SubSeq(raw, Len(pid) + 1, Len(raw)) /\ raw # << >>
<1>1. Len(pid) \in Nat /\ Len(raw) \in Nat /\ Len(pid) <= Len(raw) /\ SubSeq(pid, 1, Len(pid)) = SubSeq(raw, 1, Len(pid)) /\ pid # raw
  BY DEF IsStrictPrefix, IsPrefix
<1>2. SubSeq(pid, 1, Len(pid)) = pid /\ SubSeq(raw, 1, Len(raw)) = raw
  BY SubSeqFull
<1>3. raw # << >>
  <2> SUFFICES ASSUME raw = << >> PROVE FALSE
    OBVIOUS
  <2>1. Len(pid) = 0
    BY <1>1
  <2>2. pid = << >>
    BY <2>1, EmptySeq
  <2> QED
    BY <1>1, <2>2
<1>4. SubSeq(raw, 1, Len(pid)) \o SubSeq(raw, Len(pid) + 1, Len(raw)) = SubSeq(raw, 1, Len(raw))
  <2>1. 1 \in 1 .. Len(raw) + 1 /\ Len(pid) \in 1 - 1 .. Len(raw) /\ Len(raw) \in Len(pid) .. Len(raw)
    BY <1>1
  <2> QED
    BY <2>1, ConcatAdjacentSubSeq
<1> QED
  BY <1>1, <1>2, <1>3, <1>4

\* An end of an edge that means one thing is resolved to that thing's id.
LEMMA ResolvesAsMeant ==
  ASSUME NEW c, NEW nodes, LabelsAgree(c, nodes), NEW raw \in Seq(STRING), NEW x, Meant(c, raw) = {x}
  PROVE  /\ ResolveEndpoint(raw, c.id, LabelResolver(nodes, c.id)) = c.id \o x.label
         /\ raw # << >>
<1> DEFINE own == IsStrictPrefix(c.id, raw)
           r == LabelResolver(nodes, c.id)
           P == LabelledPlaces(nodes)
           label == IF own THEN SubSeq(raw, Len(c.id) + 1, Len(raw)) ELSE raw
           exact == {y \in Labelled(c.of) : y.label = label}
           short == {y \in Labelled(c.of) : ~own /\ Len(y.label) > 1 /\ Tail(y.label) = raw}
           claims == {y \in short : y.env = "claim"}
<1>1. Meant(c, raw) = IF exact # {} THEN exact ELSE IF claims # {} THEN claims ELSE short
  BY DEF Meant
<1>2. Labelled(c.of) = {nodes[i] : i \in P} /\ nodes \in Seq(Line) /\ c.id \in Seq(STRING)
  BY DEF LabelsAgree
<1>3. P \in SUBSET Nat /\ IsFiniteSet(P) /\ \A i \in P : nodes[i].label \in Seq(STRING) /\ nodes[i].label # << >>
  BY <1>2, LabelledAre
<1>7. ResolvesTo(nodes, c.id, raw, r)
  BY ResolverIs
<1> SUFFICES ResolveEndpoint(raw, c.id, r) = c.id \o x.label /\ raw # << >>
  OBVIOUS
<1> HIDE DEF P, r
<1>4. CASE own
  <2>1. raw = c.id \o label /\ raw # << >>
    BY <1>2, <1>4, ResolvesOwn
  <2>2. short = {}
    BY <1>4
  <2>3. x \in exact
    BY <1>1, <2>2
  <2>4. x.label = label
    BY <2>3
  <2>5. ResolveEndpoint(raw, c.id, r) = raw
    BY <1>4 DEF ResolveEndpoint
  <2> QED
    BY <2>1, <2>4, <2>5
<1>5. CASE ~own /\ exact # {}
  <2>1. x \in Labelled(c.of) /\ x.label = raw
    BY <1>1, <1>5
  <2>2. PICK i \in P : x = nodes[i]
    BY <1>2, <2>1
  <2>3. raw \in FullLabels(nodes) /\ raw # << >>
    BY <1>3, <2>1, <2>2 DEF FullLabels, P
  <2>4. raw \in DOMAIN r /\ r[raw] = c.id \o raw
    BY <1>7, <2>3 DEF ResolvesTo
  <2> QED
    BY <1>5, <2>1, <2>3, <2>4 DEF ResolveEndpoint
<1>6. CASE ~own /\ exact = {}
  <2>1. raw \notin FullLabels(nodes)
    BY <1>2, <1>6 DEF FullLabels, P
  <2>2. \A i \in P : LabelSuffix(nodes[i].label) = raw => nodes[i] \in short
    <3> SUFFICES ASSUME NEW i \in P, LabelSuffix(nodes[i].label) = raw PROVE nodes[i] \in short
      OBVIOUS
    <3>1. nodes[i].label # raw
      BY <2>1 DEF FullLabels, P
    <3>2. Len(nodes[i].label) > 1 /\ Tail(nodes[i].label) = raw
      BY <3>1 DEF LabelSuffix
    <3> QED
      BY <1>2, <1>6, <3>2
  <2>3. \A y \in short : \E i \in P : y = nodes[i] /\ LabelSuffix(nodes[i].label) = raw
    BY <1>2 DEF LabelSuffix
  <2>4. raw # << >>
    <3>1. x \in short
      BY <1>1, <1>6
    <3>2. PICK i \in P : x = nodes[i] /\ Len(nodes[i].label) > 1 /\ Tail(nodes[i].label) = raw
      BY <1>2, <3>1
    <3>3. nodes[i].label \in Seq(STRING) /\ nodes[i].label # << >>
      BY <1>3
    <3> DEFINE l == nodes[i].label
    <3> HIDE DEF l
    <3>4. Len(Tail(l)) = Len(l) - 1 /\ Len(l) > 1 /\ Len(l) \in Nat
      BY <3>2, <3>3, HeadTailProperties DEF l
    <3>5. Len(raw) > 0
      BY <3>2, <3>4 DEF l
    <3> QED
      BY <3>5
  <2>5. SuffixClaims(nodes, raw) \subseteq SuffixPlaces(nodes, raw) /\ SuffixPlaces(nodes, raw) \subseteq P
    BY DEF SuffixClaims, SuffixPlaces, P
  <2>6. CASE claims # {}
    <3>1. x \in claims
      BY <1>1, <1>6, <2>6
    <3>2. SuffixClaims(nodes, raw) # {} /\ \A i \in SuffixClaims(nodes, raw) : nodes[i] = x
      BY <1>1, <1>6, <2>2, <2>3, <2>6, <3>1 DEF SuffixClaims, P
    <3>3. Max(SuffixClaims(nodes, raw)) \in SuffixClaims(nodes, raw)
      <4>1. SuffixClaims(nodes, raw) \in SUBSET Nat /\ IsFiniteSet(SuffixClaims(nodes, raw))
        BY <1>3, <2>5, FS_Subset
      <4> QED
        BY <3>2, <4>1, GreatestOf
    <3>4. raw \in DOMAIN r /\ r[raw] = c.id \o nodes[Max(SuffixClaims(nodes, raw))].label
      BY <1>7, <2>1, <2>5, <3>2 DEF ResolvesTo
    <3>5. ResolveEndpoint(raw, c.id, r) = r[raw]
      BY <1>6, <3>4 DEF ResolveEndpoint
    <3>6. nodes[Max(SuffixClaims(nodes, raw))] = x
      BY <3>2, <3>3
    <3> QED
      BY <2>4, <3>4, <3>5, <3>6
  <2>7. CASE claims = {}
    <3>1. x \in short /\ short = {x}
      BY <1>1, <1>6, <2>7
    <3>2. SuffixPlaces(nodes, raw) # {} /\ \A i \in SuffixPlaces(nodes, raw) : nodes[i] = x
      BY <2>2, <2>3, <3>1 DEF SuffixPlaces, P
    <3>3. SuffixClaims(nodes, raw) = {}
      BY <2>2, <2>7 DEF SuffixClaims, P
    <3>4. Min(SuffixPlaces(nodes, raw)) \in SuffixPlaces(nodes, raw)
      BY <1>3, <2>5, <3>2, SmallestOf
    <3>5. raw \in DOMAIN r /\ r[raw] = c.id \o nodes[Min(SuffixPlaces(nodes, raw))].label
      BY <1>7, <2>1, <3>2, <3>3 DEF ResolvesTo
    <3>6. ResolveEndpoint(raw, c.id, r) = r[raw]
      BY <1>6, <3>5 DEF ResolveEndpoint
    <3>7. nodes[Min(SuffixPlaces(nodes, raw))] = x
      BY <3>2, <3>4
    <3> QED
      BY <2>4, <3>5, <3>6, <3>7
  <2> QED
    BY <2>6, <2>7
<1> QED
  BY <1>4, <1>5, <1>6

\* Tokens joined and cut in the middle, where both ends have as many.
LEMMA CutInTheMiddle ==
  ASSUME NEW s \in Seq(STRING), NEW t \in Seq(STRING), Len(s) = Len(t), s # << >>, NEW kind
  PROVE  SplitV01(kind, s \o t) = Edge(kind, s, t)
<1> DEFINE u == s \o t
           n == Len(s)
           cut == IF Len(u) % 2 = 0 THEN Len(u) \div 2 ELSE Len(u) - 1
<1>1. n \in Nat \ {0}
  BY EmptySeq
<1>2. u \in Seq(STRING) /\ Len(u) = n + n
  BY ConcatProperties
<1>3. SubSeq(u, 1, n) = SubSeq(s, 1, n) /\ SubSeq(s, 1, n) = s
  <2>1. 1 \in 1 .. Len(s) /\ n \in 1 .. Len(s)
    BY <1>1
  <2> QED
    BY <2>1, SubSeqOfConcat1, SubSeqFull
<1>4. SubSeq(u, n + 1, n + n) = SubSeq(t, 1, n) /\ SubSeq(t, 1, n) = t
  <2>1. n + 1 \in Len(s) + 1 .. Len(s) + Len(t) /\ n + n \in Len(s) + 1 .. Len(s) + Len(t)
    BY <1>1
  <2>2. (n + 1) - Len(s) = 1 /\ (n + n) - Len(s) = n
    BY <1>1
  <2> QED
    BY <2>1, <2>2, SubSeqOfConcat2, SubSeqFull
<1>5. cut = n
  <2> HIDE DEF u, n
  <2>1. (n + n) % 2 = 0 /\ (n + n) \div 2 = n
    BY <1>1
  <2> QED
    BY <1>2, <2>1
<1>6. SplitV01(kind, u) = Edge(kind, SubSeq(u, 1, cut), SubSeq(u, cut + 1, Len(u)))
  BY DEF SplitV01
<1> HIDE DEF u, n, cut
<1>7. SplitV01(kind, u) = Edge(kind, s, t)
  BY <1>2, <1>3, <1>4, <1>5, <1>6
<1> QED
  BY <1>7 DEF u

\* An edge goes through the sidecar as it is.
LEMMA EdgesParsed ==
  ASSUME NEW s, IsSource(s), NEW e \in Edges(s), e.source # << >>, e.target # << >>,
         s.piped \/ Len(e.source) = Len(e.target)
  PROVE  e \in ToSet(ParseEdges(Sidecar(s))) /\ \E T : ParseEdges(Sidecar(s)) \in Seq(T)
<1> DEFINE set == Typeset(s.files)
           S == {i \in DOMAIN set : set[i].k = "edge"}
           drawn == Picked(set, S)
           aux == Sidecar(s)
           Read(x) == IF s.piped THEN x ELSE SplitV01(x.kind, x.source \o x.target)
           read == [i \in DOMAIN drawn |-> Read(drawn[i])]
           R == {i \in DOMAIN read : read[i].source # << >> /\ read[i].target # << >>}
<1>1. set \in Seq(Line)
  BY TypesetLines
<1>2. e \in Line /\ e.k = "edge" /\ \E i \in DOMAIN set : set[i] = e
  BY <1>1 DEF Edges, ToSet
<1>3. drawn \in Seq(Line) /\ ToSet(drawn) = {set[i] : i \in S}
  BY <1>1, Picks
<1>4. PICK n \in DOMAIN drawn : drawn[n] = e
  <2>1. e \in ToSet(drawn)
    BY <1>2, <1>3
  <2> QED
    BY <2>1 DEF ToSet
<1>5. aux.edges = drawn /\ aux.piped = s.piped
  BY DEF Sidecar, CompileSidecar
<1>6. ParseEdges(aux) = Picked(read, R)
  <2> HIDE DEF aux, drawn
  <2> QED
    BY <1>5 DEF ParseEdges
<1>7. e = Edge(e.kind, e.source, e.target) /\ e.source \in Seq(STRING) /\ e.target \in Seq(STRING)
  BY <1>2, EdgeLines
<1>8. Read(e) = e
  <2>1. ~s.piped => SplitV01(e.kind, e.source \o e.target) = Edge(e.kind, e.source, e.target)
    BY <1>7, CutInTheMiddle
  <2> QED
    BY <1>7, <2>1
<1> DEFINE T == {Read(x) : x \in ToSet(drawn)}
<1> HIDE DEF drawn, aux, set, Read
<1>9. read \in Seq(T) /\ DOMAIN read = DOMAIN drawn /\ read[n] = e
  <2>1. Len(drawn) \in Nat /\ DOMAIN drawn = 1 .. Len(drawn)
    BY <1>3
  <2>2. \A i \in 1 .. Len(drawn) : Read(drawn[i]) \in T
    BY <2>1 DEF ToSet
  <2>3. read \in [1 .. Len(drawn) -> T]
    BY <2>1, <2>2
  <2> QED
    BY <1>4, <1>8, <2>1, <2>3
<1> HIDE DEF read, T
<1>10. n \in R
  BY <1>9
<1>11. e \in {read[i] : i \in R}
  BY <1>9, <1>10
<1>12. ToSet(Picked(read, R)) = {read[i] : i \in R} /\ Picked(read, R) \in Seq(T)
  <2>1. R \subseteq DOMAIN read
    OBVIOUS
  <2> HIDE DEF R
  <2> QED
    BY <1>9, <2>1, Picks
<1> QED
  BY <1>6, <1>11, <1>12 DEF aux

\* Everything that leaves a claim by its id is among its targets.
LEMMA TargetsOf ==
  ASSUME NEW T, NEW edges \in Seq(T), NEW e \in ToSet(edges), NEW pid, NEW resolver,
         NEW cid, cid = ResolveEndpoint(e.source, pid, resolver)
  PROVE  ResolveEndpoint(e.target, pid, resolver) \in ToSet(Targets(cid, e.kind, edges, pid, resolver))
<1> DEFINE S == {i \in DOMAIN edges : edges[i].kind = e.kind /\ ResolveEndpoint(edges[i].source, pid, resolver) = cid}
           mine == Picked(edges, S)
<1>1. S \subseteq DOMAIN edges
  OBVIOUS
<1>2. e \in {edges[i] : i \in S}
  BY DEF ToSet
<1>3. Targets(cid, e.kind, edges, pid, resolver) = [i \in DOMAIN mine |-> ResolveEndpoint(mine[i].target, pid, resolver)]
  BY DEF Targets
<1> HIDE DEF S
<1>4. ToSet(mine) = {edges[i] : i \in S} /\ mine \in Seq(T)
  BY <1>1, Picks
<1> HIDE DEF mine
<1>5. PICK i \in DOMAIN mine : mine[i] = e
  BY <1>2, <1>4 DEF ToSet
<1> DEFINE f == [j \in DOMAIN mine |-> ResolveEndpoint(mine[j].target, pid, resolver)]
<1>6. i \in DOMAIN f /\ f[i] = ResolveEndpoint(e.target, pid, resolver)
  BY <1>5
<1> HIDE DEF f
<1>7. ResolveEndpoint(e.target, pid, resolver) \in ToSet(f)
  BY <1>6 DEF ToSet
<1> QED
  BY <1>3, <1>7 DEF f

\* Moved to the slug or not, all ids are treated alike.
LEMMA MovedAlike ==
  ASSUME NEW claims, NEW slug, NEW m \in DOMAIN claims, NEW n \in DOMAIN claims, NEW k \in EdgeKinds,
         {"id", "paper_id", "edges"} \subseteq DOMAIN claims[m], {"id", "paper_id", "edges"} \subseteq DOMAIN claims[n],
         claims[m].id \in ToSet(claims[n].edges[k])
  PROVE  CanonicaliseClaimIds(claims, slug)[m].id \in ToSet(CanonicaliseClaimIds(claims, slug)[n].edges[k])
<1>1. CASE IsStrictPrefix(slug, claims[1].id) \/ claims = <<>>
  BY <1>1 DEF CanonicaliseClaimIds
<1>2. CASE ~IsStrictPrefix(slug, claims[1].id) /\ claims # <<>>
  <2> DEFINE old == Head(claims[1].id)
             Ends(c, j) == [i \in DOMAIN c.edges[j] |-> Rewrite(c.edges[j][i], old, slug)]
             Moved(c) == [c EXCEPT !.id = Rewrite(@, old, slug), !.paper_id = slug,
                            !.edges = [j \in EdgeKinds |-> Ends(c, j)]]
             stored1 == CanonicaliseClaimIds(claims, slug)
  <2>1. stored1 = [j \in DOMAIN claims |-> Moved(claims[j])]
    BY <1>2 DEF CanonicaliseClaimIds
  <2> HIDE DEF old, stored1, Ends
  <2>2. stored1[m].id = Rewrite(claims[m].id, old, slug)
    BY <2>1
  <2>3. stored1[n].edges[k] = Ends(claims[n], k)
    BY <2>1
  <2>4. PICK i \in DOMAIN claims[n].edges[k] : claims[n].edges[k][i] = claims[m].id
    BY DEF ToSet
  <2> DEFINE t == claims[n].edges[k]
             f == [j \in DOMAIN t |-> Rewrite(t[j], old, slug)]
  <2>5. Ends(claims[n], k) = f
    BY DEF Ends
  <2>6. i \in DOMAIN f /\ f[i] = Rewrite(claims[m].id, old, slug)
    BY <2>4
  <2> HIDE DEF f
  <2>7. f[i] \in ToSet(f)
    BY <2>6 DEF ToSet
  <2> QED
    BY <2>2, <2>3, <2>5, <2>6, <2>7 DEF stored1
<1> QED
  BY <1>1, <1>2

LEMMA CirLabelsAgree ==
  ASSUME NEW front, NEW c, IsCirOf(front, c), SetAsWalked(c.of)
  PROVE  LabelsAgree(c, CirNodes(c))
<1>1. IsSource(c.of) /\ c.id \in Seq(STRING) /\ c.id # << >>
  BY CirIs
<1>2. CirNodes(c) \in Seq(Line)
  BY <1>1, NodesLines DEF CirNodes
<1>3. {CirNodes(c)[i] : i \in Environments(CirNodes(c))} = {x \in ToSet(Typeset(c.of.files)) : x.k = "env" /\ ~x.wrapped}
  BY DEF SetAsWalked, CirNodes
<1>4. Labelled(c.of) = {x \in {CirNodes(c)[i] : i \in Environments(CirNodes(c))} : x.label # <<>>}
  BY <1>3 DEF Labelled
<1> QED
  BY <1>1, <1>2, <1>4 DEF LabelsAgree, LabelledPlaces

LEMMA RecordFor ==
  ASSUME NEW front, NEW c, IsCirOf(front, c), SetAsWalked(c.of), NEW x \in Labelled(c.of), Bears(x)
  PROVE  \E n \in DOMAIN c.claims : c.claims[n].id = c.id \o x.label
<1> DEFINE nodes == CirNodes(c)
<1>1. LabelsAgree(c, nodes)
  BY CirLabelsAgree
<1>2. AreRecords(c.claims, c.id, nodes, c.aux, SourceMap(Paper(c.of)))
  BY CirIs
<1> HIDE DEF nodes
<1>3. nodes \in Seq(Line) /\ DOMAIN c.claims = 1 .. RecordCount(nodes)
  BY <1>2 DEF AreRecords
<1>4. PICK i \in LabelledPlaces(nodes) : x = nodes[i]
  BY <1>1 DEF LabelsAgree
<1>5. i \in Environments(nodes) /\ nodes[i].label # <<>>
  BY DEF LabelledPlaces
<1>6. PICK n \in 1 .. RecordCount(nodes) : PlaceOf(nodes, n) = i
  BY <1>3, <1>4, <1>5, PlacesOf
<1>7. NameOf(nodes, c.aux, n) = x.label
  BY <1>4, <1>5, <1>6 DEF NameOf
<1>8. \A k \in DOMAIN c.claims : c.claims[k].id = c.id \o NameOf(CirNodes(c), c.aux, k)
  BY CirClaims
<1> QED
  BY <1>3, <1>6, <1>7, <1>8 DEF nodes

LEMMA SubsetsOfLabelled ==
  ASSUME NEW s, IsSource(s)
  PROVE  IsFiniteSet(Labelled(s))
<1>1. Typeset(s.files) \in Seq(Line)
  BY TypesetLines
<1>2. IsFiniteSet(ToSet(Typeset(s.files)))
  BY <1>1, ElementsFinite
<1>3. Labelled(s) \subseteq ToSet(Typeset(s.files))
  BY DEF Labelled
<1> QED
  BY <1>2, <1>3, FS_Subset

LEMMA MeantIs ==
  ASSUME NEW c, IsSource(c.of), NEW raw, NEW x \in Meant(c, raw), Cardinality(Meant(c, raw)) = 1
  PROVE  Meant(c, raw) = {x} /\ x \in Labelled(c.of)
<1>1. Meant(c, raw) \subseteq Labelled(c.of)
  BY DEF Meant
<1>2. IsFiniteSet(Meant(c, raw))
  BY <1>1, SubsetsOfLabelled, FS_Subset
<1>3. \E y : Meant(c, raw) = {y}
  BY <1>2, FS_Singleton
<1> QED
  BY <1>1, <1>3

\* In the CIR of a fresh sidecar, an edge between things with records runs between them.
LEMMA EdgesBuilt ==
  ASSUME NEW front, NEW c, IsCirOf(front, c), Fresh(c), SetAsWalked(c.of),
         NEW e \in Edges(c.of), c.of.piped \/ Len(e.source) = Len(e.target),
         NEW x, Meant(c, e.source) = {x}, NEW y, Meant(c, e.target) = {y},
         NEW n \in DOMAIN c.claims, c.claims[n].id = c.id \o x.label,
         NEW m \in DOMAIN c.claims, c.claims[m].id = c.id \o y.label
  PROVE  c.claims[m].id \in ToSet(c.claims[n].edges[e.kind])
<1> DEFINE nodes == CirNodes(c)
           resolver == LabelResolver(nodes, c.id)
           edges == ParseEdges(c.aux)
<1>1. IsSource(c.of)
  BY CirIs
<1>2. e.kind \in EdgeKinds /\ e.source \in Seq(STRING) /\ e.target \in Seq(STRING)
  <2>1. Typeset(c.of.files) \in Seq(Line)
    BY <1>1, TypesetLines
  <2>2. e \in Line /\ e.k = "edge"
    BY <2>1 DEF Edges, ToSet
  <2> QED
    BY <2>2, EdgeLines
<1>3. LabelsAgree(c, nodes)
  BY CirLabelsAgree
<1>4. ResolveEndpoint(e.source, c.id, resolver) = c.id \o x.label /\ e.source # << >>
  BY <1>2, <1>3, ResolvesAsMeant
<1>5. ResolveEndpoint(e.target, c.id, resolver) = c.id \o y.label /\ e.target # << >>
  BY <1>2, <1>3, ResolvesAsMeant
<1>6. e \in ToSet(edges) /\ \E T : edges \in Seq(T)
  BY <1>1, <1>4, <1>5, EdgesParsed DEF Fresh
<1>7. PICK T : edges \in Seq(T)
  BY <1>6
<1>8. c.claims[n].edges[e.kind] = Targets(c.claims[n].id, e.kind, edges, c.id, resolver)
  BY <1>2, CirClaims
<1> HIDE DEF resolver, edges
<1>9. c.claims[n].id = ResolveEndpoint(e.source, c.id, resolver)
  BY <1>4
<1>10. ResolveEndpoint(e.target, c.id, resolver) \in ToSet(Targets(c.claims[n].id, e.kind, edges, c.id, resolver))
  BY <1>6, <1>7, <1>9, TargetsOf
<1> QED
  BY <1>5, <1>8, <1>10

\* EdgesLand: what the author drew is in the version on the server.
THEOREM EdgesReachTheServer == Spec => []EdgesLand
<1>1. IInv => EdgesLand
  <2> SUFFICES ASSUME IInv, NEW v \in DOMAIN stored, NEW c, c = stored[v].parsed, Fresh(c), SetAsWalked(c.of),
                      NEW e \in Edges(c.of), c.of.piped \/ Len(e.source) = Len(e.target),
                      NEW x \in Meant(c, e.source), NEW y \in Meant(c, e.target),
                      Cardinality(Meant(c, e.source)) = 1, Cardinality(Meant(c, e.target)) = 1, Bears(x), Bears(y)
               PROVE  \E n \in RecordsOf(c, x.label), m \in RecordsOf(c, y.label) :
                        stored[v].claims[m].id \in ToSet(stored[v].claims[n].edges[e.kind])
    BY DEF EdgesLand
  <2>1. IsCirOf(src.front, c) /\ stored[v].claims = CanonicaliseClaimIds(c.claims, stored[v].slug)
    BY DEF IInv
  <2>2. IsSource(c.of)
    BY <2>1, CirIs
  <2>3. Meant(c, e.source) = {x} /\ x \in Labelled(c.of) /\ Meant(c, e.target) = {y} /\ y \in Labelled(c.of)
    BY <2>2, MeantIs
  <2>4. PICK n \in DOMAIN c.claims : c.claims[n].id = c.id \o x.label
    BY <2>1, <2>3, RecordFor
  <2>5. PICK m \in DOMAIN c.claims : c.claims[m].id = c.id \o y.label
    BY <2>1, <2>3, RecordFor
  <2>6. c.claims[m].id \in ToSet(c.claims[n].edges[e.kind])
    BY <2>1, <2>3, <2>4, <2>5, EdgesBuilt
  <2>7. e.kind \in EdgeKinds
    <3>1. Typeset(c.of.files) \in Seq(Line)
      BY <2>2, TypesetLines
    <3>2. e \in Line /\ e.k = "edge"
      BY <3>1 DEF Edges, ToSet
    <3> QED
      BY <3>2, EdgeLines
  <2>8. \A k \in DOMAIN c.claims : {"id", "paper_id", "statement", "edges"} \subseteq DOMAIN c.claims[k]
    BY <2>1, CirKeys
  <2>9. stored[v].claims[m].id \in ToSet(stored[v].claims[n].edges[e.kind])
    BY <2>1, <2>6, <2>7, <2>8, MovedAlike
  <2>10. n \in RecordsOf(c, x.label) /\ m \in RecordsOf(c, y.label)
    BY <2>4, <2>5 DEF RecordsOf
  <2> QED
    BY <2>9, <2>10
<1> QED
  BY <1>1, Invariant, PTL

-----------------------------------------------------------------------------
(***************************************************************************)
(* The diff of two versions: claims matched by their local ids, then by    *)
(* what they say.                                                          *)
(***************************************************************************)

\* No two claims of one local id.
Apart(claims) ==
  /\ Len(claims) \in Nat /\ DOMAIN claims = 1 .. Len(claims)
  /\ \A m, n \in DOMAIN claims : ClaimLocalId(claims[m].id) = ClaimLocalId(claims[n].id) => m = n

\* A claim is matched with at most one, in either version, and one that kept its local id
\* with the one it was.
Matched(prev, curr, pairs) ==
  /\ pairs \subseteq (DOMAIN prev) \X (DOMAIN curr)
  /\ \A p, q \in pairs : p[1] = q[1] <=> p[2] = q[2]
  /\ \A m \in DOMAIN prev, n \in DOMAIN curr :
       ClaimLocalId(prev[m].id) = ClaimLocalId(curr[n].id) => <<m, n>> \in pairs

LEMMA UnmatchedAre ==
  ASSUME NEW claims, Apart(claims), NEW taken \in SUBSET (DOMAIN claims)
  PROVE  Unmatched(claims, taken) = (DOMAIN claims) \ taken
<1>1. \A m, n \in DOMAIN claims : claims[m].id = claims[n].id => m = n
  BY DEF Apart
<1> QED
  BY <1>1 DEF Unmatched

LEMMA MatchedOnce ==
  ASSUME NEW prev, NEW curr, Apart(prev), Apart(curr)
  PROVE  Matched(prev, curr, MatchClaims(prev, curr))
<1> DEFINE D == DOMAIN prev
           E == DOMAIN curr
           A(m) == ClaimLocalId(prev[m].id)
           B(n) == ClaimLocalId(curr[n].id)
           byLocal == LocalPairs(prev, curr)
           left == Unmatched(prev, {p[1] : p \in byLocal})
           Says(n) == {m \in left : prev[m].statement = curr[n].statement}
           rest == Unmatched(curr, {p[2] : p \in byLocal})
           First(n) == \A m \in rest : m < n => curr[m].statement # curr[n].statement
           byStatement == {p \in left \X rest : Says(p[2]) = {p[1]} /\ First(p[2])}
<1>1. MatchClaims(prev, curr) = byLocal \cup byStatement
  BY DEF MatchClaims
<1>2. /\ \A m, n \in D : A(m) = A(n) => m = n
      /\ \A m, n \in E : B(m) = B(n) => m = n
      /\ E \subseteq Nat
  BY DEF Apart
<1>3. \A p \in D \X E : p \in byLocal <=> A(p[1]) = B(p[2])
  <2> SUFFICES ASSUME NEW p \in D \X E PROVE p \in byLocal <=> A(p[1]) = B(p[2])
    OBVIOUS
  <2>1. p \in byLocal <=> Bucket(prev, A(p[1])) = {p[1]} /\ Bucket(curr, A(p[1])) = {p[2]}
    BY DEF LocalPairs
  <2>2. Bucket(prev, A(p[1])) = {p[1]}
    BY <1>2 DEF Bucket
  <2>3. A(p[1]) = B(p[2]) => Bucket(curr, A(p[1])) = {p[2]}
    BY <1>2 DEF Bucket
  <2>4. Bucket(curr, A(p[1])) = {p[2]} => A(p[1]) = B(p[2])
    BY DEF Bucket
  <2> QED
    BY <2>1, <2>2, <2>3, <2>4
<1>4. byLocal \subseteq D \X E
  BY DEF LocalPairs
<1> HIDE DEF byLocal
<1>5. left = D \ {p[1] : p \in byLocal} /\ rest = E \ {p[2] : p \in byLocal}
  <2>1. {p[1] : p \in byLocal} \in SUBSET D /\ {p[2] : p \in byLocal} \in SUBSET E
    BY <1>4
  <2> QED
    BY <2>1, UnmatchedAre
<1> HIDE DEF left, rest, A, B
<1>6. byStatement \subseteq left \X rest
  OBVIOUS
<1>7. \A p, q \in byStatement : p[1] = q[1] <=> p[2] = q[2]
  <2> SUFFICES ASSUME NEW p \in byStatement, NEW q \in byStatement PROVE p[1] = q[1] <=> p[2] = q[2]
    OBVIOUS
  <2>1. /\ p[2] \in rest /\ q[2] \in rest /\ Says(p[2]) = {p[1]} /\ Says(q[2]) = {q[1]} /\ First(p[2]) /\ First(q[2])
        /\ p[2] \in Nat /\ q[2] \in Nat
    BY <1>2, <1>5
  <2>2. p[2] = q[2] => p[1] = q[1]
    BY <2>1
  <2>3. ASSUME p[1] = q[1] PROVE p[2] = q[2]
    <3>1. prev[p[1]].statement = curr[p[2]].statement /\ prev[p[1]].statement = curr[q[2]].statement
      BY <2>1, <2>3
    <3>2. ~(p[2] < q[2]) /\ ~(q[2] < p[2])
      BY <2>1, <3>1
    <3> QED
      BY <2>1, <3>2
  <2> QED
    BY <2>2, <2>3
<1>8. \A p, q \in byLocal : p[1] = q[1] <=> p[2] = q[2]
  <2> SUFFICES ASSUME NEW p \in byLocal, NEW q \in byLocal PROVE p[1] = q[1] <=> p[2] = q[2]
    OBVIOUS
  <2>1. p[1] \in D /\ q[1] \in D /\ p[2] \in E /\ q[2] \in E /\ A(p[1]) = B(p[2]) /\ A(q[1]) = B(q[2])
    BY <1>3, <1>4
  <2> QED
    BY <1>2, <2>1
<1>9. \A p \in byLocal, q \in byStatement : p[1] # q[1] /\ p[2] # q[2]
  <2> HIDE DEF byStatement
  <2> SUFFICES ASSUME NEW p \in byLocal, NEW q \in byStatement PROVE p[1] # q[1] /\ p[2] # q[2]
    OBVIOUS
  <2>1. q[1] \in left /\ q[2] \in rest
    BY <1>6
  <2> QED
    BY <1>5, <2>1
<1> HIDE DEF byStatement
<1>10. \A p, q \in byLocal \cup byStatement : p[1] = q[1] <=> p[2] = q[2]
  BY <1>7, <1>8, <1>9
<1>11. byLocal \cup byStatement \subseteq D \X E
  BY <1>4, <1>5, <1>6
<1>12. \A m \in D, n \in E : A(m) = B(n) => <<m, n>> \in byLocal
  <2> SUFFICES ASSUME NEW m \in D, NEW n \in E, A(m) = B(n) PROVE <<m, n>> \in byLocal
    OBVIOUS
  <2>1. <<m, n>> \in D \X E /\ <<m, n>>[1] = m /\ <<m, n>>[2] = n
    OBVIOUS
  <2> QED
    BY <1>3, <2>1
<1> QED
  BY <1>1, <1>10, <1>11, <1>12 DEF Matched, A, B

LEMMA IntervalCount == \A n \in Nat : IsFiniteSet(1 .. n) /\ Cardinality(1 .. n) = n
<1> SUFFICES ASSUME NEW n \in Nat PROVE IsFiniteSet(1 .. n) /\ Cardinality(1 .. n) = n
  OBVIOUS
<1>1. IsFiniteSet(1 .. n) /\ Cardinality(1 .. n) = IF 1 > n THEN 0 ELSE n - 1 + 1
  BY FS_Interval
<1> QED
  BY <1>1

\* Two sets whose elements go in pairs are equally many.
LEMMA EquallyMany ==
  ASSUME NEW S, NEW T, IsFiniteSet(T), NEW f \in [S -> T],
         \A x, y \in S : f[x] = f[y] => x = y, \A t \in T : \E x \in S : f[x] = t
  PROVE  IsFiniteSet(S) /\ Cardinality(S) = Cardinality(T)
<1>1. f \in Injection(S, T) /\ f \in Surjection(S, T)
  BY DEF Injection, Surjection, IsInjective
<1> QED
  BY <1>1, FS_Injection

LEMMA PairsCount ==
  ASSUME NEW D, IsFiniteSet(D), NEW E, IsFiniteSet(E), NEW pairs, pairs \subseteq D \X E,
         \A p, q \in pairs : p[1] = q[1] <=> p[2] = q[2]
  PROVE  /\ IsFiniteSet(pairs) /\ IsFiniteSet({p[1] : p \in pairs}) /\ IsFiniteSet({p[2] : p \in pairs})
         /\ Cardinality({p[1] : p \in pairs}) = Cardinality(pairs)
         /\ Cardinality({p[2] : p \in pairs}) = Cardinality(pairs)
<1>1. IsFiniteSet({p[1] : p \in pairs}) /\ IsFiniteSet({p[2] : p \in pairs})
  <2>1. {p[1] : p \in pairs} \in SUBSET D /\ {p[2] : p \in pairs} \in SUBSET E
    OBVIOUS
  <2> QED
    BY <2>1, FS_Subset
<1>2. \A p, q \in pairs : p[1] = q[1] /\ p[2] = q[2] => p = q
  OBVIOUS
<1>3. IsFiniteSet(pairs) /\ Cardinality(pairs) = Cardinality({p[1] : p \in pairs})
  <2> DEFINE T == {p[1] : p \in pairs}
             f == [p \in pairs |-> p[1]]
  <2>1. f \in [pairs -> T] /\ (\A x, y \in pairs : f[x] = f[y] => x = y) /\ \A t \in T : \E x \in pairs : f[x] = t
    BY <1>2
  <2>2. IsFiniteSet(T)
    BY <1>1
  <2> HIDE DEF f, T
  <2>3. IsFiniteSet(pairs) /\ Cardinality(pairs) = Cardinality(T)
    BY <2>1, <2>2, EquallyMany
  <2> QED
    BY <2>3 DEF T
<1>4. IsFiniteSet(pairs) /\ Cardinality(pairs) = Cardinality({p[2] : p \in pairs})
  <2> DEFINE T == {p[2] : p \in pairs}
             f == [p \in pairs |-> p[2]]
  <2>1. f \in [pairs -> T] /\ (\A x, y \in pairs : f[x] = f[y] => x = y) /\ \A t \in T : \E x \in pairs : f[x] = t
    BY <1>2
  <2>2. IsFiniteSet(T)
    BY <1>1
  <2> HIDE DEF f, T
  <2>3. IsFiniteSet(pairs) /\ Cardinality(pairs) = Cardinality(T)
    BY <2>1, <2>2, EquallyMany
  <2> QED
    BY <2>3 DEF T
<1> QED
  BY <1>1, <1>3, <1>4

\* No claim is left out, and none counted twice.
LEMMA DiffCounts ==
  ASSUME NEW prev, NEW curr, Apart(prev), Apart(curr)
  PROVE  LET d == ComputeRevisionDiff(prev, curr)
         IN /\ Cardinality(d.removed) + Cardinality(d.modified) + d.unchanged = Len(prev)
            /\ Cardinality(d.added) + Cardinality(d.modified) + d.unchanged = Len(curr)
<1> DEFINE pairs == MatchClaims(prev, curr)
           Changed(p) == FieldsChanged(prev[p[1]], curr[p[2]])
           X == {q \in pairs : Changed(q) # {}}
           Y == {q \in pairs : Changed(q) = {}}
           Shown(p) == [from |-> p[1], to |-> p[2], fields |-> Changed(p)]
           M == {Shown(p) : p \in X}
           d == ComputeRevisionDiff(prev, curr)
           D == DOMAIN prev
           E == DOMAIN curr
           A == {p[1] : p \in pairs}
           B == {p[2] : p \in pairs}
<1>1. d.removed = Unmatched(prev, A) /\ d.added = Unmatched(curr, B) /\ d.modified = M /\ d.unchanged = Cardinality(Y)
  BY DEF ComputeRevisionDiff
<1>2. Matched(prev, curr, pairs)
  BY MatchedOnce
<1> HIDE DEF pairs, Changed, d
<1>3. /\ pairs \subseteq D \X E
      /\ \A p, q \in pairs : p[1] = q[1] <=> p[2] = q[2]
  BY <1>2 DEF Matched
<1>4. A \in SUBSET D /\ B \in SUBSET E
  BY <1>3
<1>5. IsFiniteSet(D) /\ IsFiniteSet(E) /\ Cardinality(D) = Len(prev) /\ Cardinality(E) = Len(curr)
      /\ Len(prev) \in Nat /\ Len(curr) \in Nat
  <2>1. Len(prev) \in Nat /\ D = 1 .. Len(prev) /\ Len(curr) \in Nat /\ E = 1 .. Len(curr)
    BY DEF Apart
  <2>2. /\ IsFiniteSet(1 .. Len(prev)) /\ Cardinality(1 .. Len(prev)) = Len(prev)
        /\ IsFiniteSet(1 .. Len(curr)) /\ Cardinality(1 .. Len(curr)) = Len(curr)
    BY <2>1, IntervalCount
  <2> QED
    BY <2>1, <2>2
<1>6. d.removed = D \ A /\ d.added = E \ B
  BY <1>1, <1>4, UnmatchedAre
<1> HIDE DEF D, E
<1>7. IsFiniteSet(pairs) /\ Cardinality(A) = Cardinality(pairs) /\ Cardinality(B) = Cardinality(pairs)
  BY <1>3, <1>5, PairsCount, ZenonT(30)
<1>8. Cardinality(X) + Cardinality(Y) = Cardinality(pairs)
      /\ IsFiniteSet(X) /\ Cardinality(X) \in Nat /\ Cardinality(Y) \in Nat
  <2>1. X \in SUBSET pairs /\ Y = pairs \ X /\ pairs \cap X = X
    OBVIOUS
  <2> HIDE DEF X, Y
  <2>2. IsFiniteSet(X) /\ IsFiniteSet(Y)
    BY <1>7, <2>1, FS_Subset
  <2>3. Cardinality(pairs \ X) = Cardinality(pairs) - Cardinality(pairs \cap X)
    BY <1>7, FS_Difference
  <2>4. Cardinality(X) \in Nat /\ Cardinality(Y) \in Nat /\ Cardinality(pairs) \in Nat
    BY <1>7, <2>2, FS_CardinalityType
  <2> QED
    BY <2>1, <2>2, <2>3, <2>4
<1>9. Cardinality(M) = Cardinality(X)
  <2> DEFINE f == [m \in M |-> <<m.from, m.to>>]
  <2>1. \A m \in M : \E p \in X : m = Shown(p) /\ p = <<m.from, m.to>>
    BY <1>3
  <2>2. f \in [M -> X]
    BY <2>1
  <2>3. \A x, y \in M : f[x] = f[y] => x = y
    <3> SUFFICES ASSUME NEW x \in M, NEW y \in M, f[x] = f[y] PROVE x = y
      OBVIOUS
    <3>1. PICK p \in X : x = Shown(p) /\ p = <<x.from, x.to>>
      BY <2>1
    <3>2. PICK q \in X : y = Shown(q) /\ q = <<y.from, y.to>>
      BY <2>1
    <3>3. p = f[x] /\ q = f[y]
      BY <3>1, <3>2
    <3> QED
      BY <3>1, <3>2, <3>3
  <2>4. \A p \in X : \E m \in M : f[m] = p
    <3> SUFFICES ASSUME NEW p \in X PROVE Shown(p) \in M /\ f[Shown(p)] = p
      OBVIOUS
    <3>1. p = <<p[1], p[2]>>
      BY <1>3
    <3>2. Shown(p) \in M /\ Shown(p).from = p[1] /\ Shown(p).to = p[2]
      OBVIOUS
    <3> QED
      BY <3>1, <3>2
  <2> HIDE DEF f, M, X
  <2> QED
    BY <1>8, <2>2, <2>3, <2>4, EquallyMany
<1> HIDE DEF X, Y, M
<1>10. Cardinality(D \ A) = Cardinality(D) - Cardinality(A) /\ Cardinality(E \ B) = Cardinality(E) - Cardinality(B)
  <2>1. D \cap A = A /\ E \cap B = B
    BY <1>4
  <2> HIDE DEF A, B
  <2>2. Cardinality(D \ A) = Cardinality(D) - Cardinality(D \cap A)
    BY <1>5, FS_Difference
  <2>3. Cardinality(E \ B) = Cardinality(E) - Cardinality(E \cap B)
    BY <1>5, FS_Difference
  <2> QED
    BY <2>1, <2>2, <2>3
<1>11. Cardinality(d.removed) = Len(prev) - Cardinality(pairs) /\ Cardinality(d.added) = Len(curr) - Cardinality(pairs)
  BY <1>5, <1>6, <1>7, <1>10
<1>12. Cardinality(pairs) \in Nat
  BY <1>7, FS_CardinalityType
<1>13. Cardinality(d.modified) = Cardinality(X) /\ d.unchanged = Cardinality(Y)
  BY <1>1, <1>9
<1> HIDE DEF A, B
<1>14. /\ Cardinality(d.removed) + Cardinality(d.modified) + d.unchanged = Len(prev)
       /\ Cardinality(d.added) + Cardinality(d.modified) + d.unchanged = Len(curr)
  <2> DEFINE x == Cardinality(X)
             y == Cardinality(Y)
             p == Cardinality(pairs)
             k == Len(prev)
             l == Len(curr)
  <2>1. x \in Nat /\ y \in Nat /\ p \in Nat /\ k \in Nat /\ l \in Nat /\ x + y = p
    BY <1>5, <1>8, <1>12
  <2>2. Cardinality(d.removed) = k - p /\ Cardinality(d.added) = l - p
    BY <1>11
  <2>3. Cardinality(d.modified) = x /\ d.unchanged = y
    BY <1>13
  <2> HIDE DEF x, y, p, k, l
  <2>4. (k - p) + x + y = k /\ (l - p) + x + y = l
    BY <2>1
  <2>5. Cardinality(d.removed) + Cardinality(d.modified) + d.unchanged = k
        /\ Cardinality(d.added) + Cardinality(d.modified) + d.unchanged = l
    BY <2>2, <2>3, <2>4
  <2> QED
    BY <2>5 DEF k, l
<1> QED
  BY <1>14 DEF d

\* What the diff says of a claim that kept its local id, and of one that is only in one version;
\* `rrxiv diff' says so too.
Says(prev, curr, d, local) ==
  /\ \A m \in DOMAIN prev, n \in DOMAIN curr :
       ClaimLocalId(prev[m].id) = ClaimLocalId(curr[n].id) =>
         /\ m \notin d.removed /\ n \notin d.added
         /\ (\E p \in d.modified : p.from = m /\ p.to = n /\ "statement" \in p.fields)
              <=> prev[m].statement # curr[n].statement
  /\ {prev[n].id : n \in d.removed} \subseteq local.claim_removed
  /\ {curr[n].id : n \in d.added} \subseteq local.claim_added
  /\ \A p \in d.modified :
       "statement" \in p.fields /\ prev[p.from].id = curr[p.to].id => prev[p.from].id \in local.claim_changed

LEMMA IdOnce ==
  ASSUME NEW claims, Apart(claims), NEW n \in DOMAIN claims
  PROVE  ById(claims, claims[n].id) = claims[n] /\ claims[n].id \in ClaimIds(claims)
<1> DEFINE S == {m \in DOMAIN claims : claims[m].id = claims[n].id}
<1>1. S = {n} /\ n \in Nat
  BY DEF Apart
<1>2. Max(S) = n
  <2>1. S \in SUBSET Nat /\ IsFiniteSet(S) /\ S # {}
    BY <1>1, FS_Singleton
  <2> HIDE DEF S
  <2>2. Max(S) \in S
    BY <2>1, GreatestOf
  <2> QED
    BY <1>1, <2>2
<1>3. ById(claims, claims[n].id) = claims[Max(S)]
  BY DEF ById
<1> QED
  BY <1>2, <1>3 DEF ClaimIds, ToSet

LEMMA DiffSays ==
  ASSUME NEW prev, NEW curr, Apart(prev), Apart(curr),
         \A m \in DOMAIN prev, n \in DOMAIN curr :
           prev[m].id = curr[n].id <=> ClaimLocalId(prev[m].id) = ClaimLocalId(curr[n].id)
  PROVE  Says(prev, curr, ComputeRevisionDiff(prev, curr), DiffCir(prev, curr))
<1> DEFINE pairs == MatchClaims(prev, curr)
           Changed(p) == FieldsChanged(prev[p[1]], curr[p[2]])
           X == {q \in pairs : Changed(q) # {}}
           Shown(p) == [from |-> p[1], to |-> p[2], fields |-> Changed(p)]
           d == ComputeRevisionDiff(prev, curr)
           local == DiffCir(prev, curr)
           D == DOMAIN prev
           E == DOMAIN curr
           A == {p[1] : p \in pairs}
           B == {p[2] : p \in pairs}
<1>1. d.removed = Unmatched(prev, A) /\ d.added = Unmatched(curr, B) /\ d.modified = {Shown(p) : p \in X}
  BY DEF ComputeRevisionDiff
<1>2. Matched(prev, curr, pairs)
  BY MatchedOnce
<1>3. /\ local.claim_added = ClaimIds(curr) \ ClaimIds(prev)
      /\ local.claim_removed = ClaimIds(prev) \ ClaimIds(curr)
      /\ local.claim_changed = {id \in ClaimIds(prev) \cap ClaimIds(curr) :
                                  \E f \in {"statement", "claim_type", "evidence_type"} :
                                    ById(prev, id)[f] # ById(curr, id)[f]}
  BY DEF DiffCir
<1>4. \A p : "statement" \in Changed(p) <=> prev[p[1]].statement # curr[p[2]].statement
  BY DEF FieldsChanged, TrackedFields, SameField, EdgeKinds
<1> HIDE DEF pairs, Changed, d, local
<1>5. /\ pairs \subseteq D \X E
      /\ \A p, q \in pairs : p[1] = q[1] <=> p[2] = q[2]
      /\ \A m \in D, n \in E : ClaimLocalId(prev[m].id) = ClaimLocalId(curr[n].id) => <<m, n>> \in pairs
  BY <1>2 DEF Matched
<1>6. d.removed = D \ A /\ d.added = E \ B
  <2>1. A \in SUBSET D /\ B \in SUBSET E
    BY <1>5
  <2> QED
    BY <1>1, <2>1, UnmatchedAre
<1>7. \A p \in d.modified : \E q \in pairs : p = Shown(q) /\ q = <<p.from, p.to>>
  BY <1>1, <1>5
<1>8. /\ ClaimIds(prev) = {prev[m].id : m \in D} /\ ClaimIds(curr) = {curr[n].id : n \in E}
  BY DEF ClaimIds, ToSet
<1> HIDE DEF D, E
<1>9. ASSUME NEW m \in D, NEW n \in E, ClaimLocalId(prev[m].id) = ClaimLocalId(curr[n].id)
      PROVE  /\ m \notin d.removed /\ n \notin d.added
             /\ (\E p \in d.modified : p.from = m /\ p.to = n /\ "statement" \in p.fields)
                  <=> prev[m].statement # curr[n].statement
  <2>1. <<m, n>> \in pairs
    BY <1>5, <1>9
  <2>2. m \in A /\ n \in B
    <3>1. <<m, n>>[1] = m /\ <<m, n>>[2] = n
      OBVIOUS
    <3> QED
      BY <2>1, <3>1
  <2>3. ASSUME NEW p \in d.modified, p.from = m, p.to = n, "statement" \in p.fields
        PROVE  prev[m].statement # curr[n].statement
    <3>1. PICK q \in pairs : p = Shown(q) /\ q = <<p.from, p.to>>
      BY <1>7
    <3>2. p.fields = Changed(q) /\ q[1] = m /\ q[2] = n
      BY <2>3, <3>1
    <3> QED
      BY <1>4, <2>3, <3>2
  <2>4. ASSUME prev[m].statement # curr[n].statement
        PROVE  \E p \in d.modified : p.from = m /\ p.to = n /\ "statement" \in p.fields
    <3> DEFINE q == <<m, n>>
    <3>1. q[1] = m /\ q[2] = n
      OBVIOUS
    <3> HIDE DEF q
    <3>2. "statement" \in Changed(q)
      BY <1>4, <2>4, <3>1
    <3>3. q \in X
      BY <2>1, <3>2 DEF q
    <3>4. Shown(q) \in d.modified /\ Shown(q).from = m /\ Shown(q).to = n /\ Shown(q).fields = Changed(q)
      BY <1>1, <3>1, <3>3
    <3> QED
      BY <3>2, <3>4
  <2> QED
    BY <1>6, <2>2, <2>3, <2>4
<1>10. {prev[n].id : n \in d.removed} \subseteq local.claim_removed
  <2> SUFFICES ASSUME NEW m \in d.removed PROVE prev[m].id \in local.claim_removed
    OBVIOUS
  <2>1. m \in D
    BY <1>6
  <2>2. \A n \in E : prev[m].id # curr[n].id
    BY <1>9, <2>1 DEF D, E
  <2> QED
    BY <1>3, <1>8, <2>1, <2>2
<1>11. {curr[n].id : n \in d.added} \subseteq local.claim_added
  <2> SUFFICES ASSUME NEW n \in d.added PROVE curr[n].id \in local.claim_added
    OBVIOUS
  <2>1. n \in E
    BY <1>6
  <2>2. \A m \in D : prev[m].id # curr[n].id
    BY <1>9, <2>1 DEF D, E
  <2> QED
    BY <1>3, <1>8, <2>1, <2>2
<1>12. ASSUME NEW p \in d.modified, "statement" \in p.fields, prev[p.from].id = curr[p.to].id
       PROVE  prev[p.from].id \in local.claim_changed
  <2>1. PICK q \in pairs : p = Shown(q) /\ q = <<p.from, p.to>>
    BY <1>7
  <2>2. q[1] \in D /\ q[2] \in E /\ p.from = q[1] /\ p.to = q[2] /\ p.fields = Changed(q)
    BY <1>5, <2>1
  <2>3. prev[q[1]].statement # curr[q[2]].statement
    BY <1>4, <1>12, <2>2
  <2>4. ById(prev, prev[q[1]].id) = prev[q[1]] /\ prev[q[1]].id \in ClaimIds(prev)
    BY <2>2, IdOnce DEF D
  <2>5. ById(curr, curr[q[2]].id) = curr[q[2]] /\ curr[q[2]].id \in ClaimIds(curr)
    BY <2>2, IdOnce DEF E
  <2>6. prev[q[1]].id = curr[q[2]].id
    BY <1>12, <2>2
  <2>7. ById(prev, prev[q[1]].id)["statement"] # ById(curr, prev[q[1]].id)["statement"]
    BY <2>3, <2>4, <2>5, <2>6
  <2>8. prev[q[1]].id \in local.claim_changed
    BY <1>3, <2>4, <2>5, <2>6, <2>7
  <2> QED
    BY <2>2, <2>8
<1>13. Says(prev, curr, d, local)
  BY <1>9, <1>10, <1>11, <1>12 DEF Says, D, E
<1> QED
  BY <1>13 DEF d, local

LEMMA TailConcat ==
  ASSUME NEW T, NEW s \in Seq(T), NEW t \in Seq(T), s # << >>
  PROVE  Tail(s \o t) = Tail(s) \o t /\ Head(s \o t) = Head(s) /\ Tail(s) \in Seq(T) /\ s \o t # << >>
<1>1. s \o t \in Seq(T) /\ Len(s \o t) = Len(s) + Len(t)
      /\ \A i \in 1 .. Len(s) + Len(t) : (s \o t)[i] = IF i <= Len(s) THEN s[i] ELSE t[i - Len(s)]
  BY ConcatProperties
<1>2. Len(s) \in Nat \ {0} /\ Len(t) \in Nat
  BY EmptySeq
<1>3. s \o t # << >>
  BY ConcatEqualIffEmpty
<1>4. Tail(s) \in Seq(T) /\ Len(Tail(s)) = Len(s) - 1 /\ \A i \in 1 .. Len(Tail(s)) : Tail(s)[i] = s[i + 1]
  BY HeadTailProperties
<1> DEFINE u == Tail(s \o t)
           w == Tail(s) \o t
<1>5. u \in Seq(T) /\ Len(u) = Len(s) + Len(t) - 1 /\ \A i \in 1 .. Len(u) : u[i] = (s \o t)[i + 1]
  BY <1>1, <1>3, HeadTailProperties
<1>6. w \in Seq(T) /\ Len(w) = Len(s) - 1 + Len(t)
      /\ \A i \in 1 .. Len(s) - 1 + Len(t) : w[i] = IF i <= Len(s) - 1 THEN Tail(s)[i] ELSE t[i - (Len(s) - 1)]
  BY <1>4, ConcatProperties
<1> HIDE DEF u, w
<1>7. Len(u) = Len(w) /\ Len(u) \in Nat
  BY <1>2, <1>5, <1>6
<1>8. \A i \in 1 .. Len(u) : u[i] = w[i]
  <2> SUFFICES ASSUME NEW i \in 1 .. Len(u) PROVE u[i] = w[i]
    OBVIOUS
  <2>1. i \in Nat /\ i + 1 \in 1 .. Len(s) + Len(t) /\ i \in 1 .. Len(s) - 1 + Len(t)
    BY <1>2, <1>5, <1>7
  <2>2. u[i] = IF i + 1 <= Len(s) THEN s[i + 1] ELSE t[(i + 1) - Len(s)]
    BY <1>1, <1>5, <2>1
  <2>3. w[i] = IF i <= Len(s) - 1 THEN Tail(s)[i] ELSE t[i - (Len(s) - 1)]
    BY <1>6, <2>1
  <2>4. CASE i <= Len(s) - 1
    <3>1. i + 1 <= Len(s) /\ i \in 1 .. Len(Tail(s))
      BY <1>2, <1>4, <2>1, <2>4
    <3> QED
      BY <1>4, <2>2, <2>3, <2>4, <3>1
  <2>5. CASE ~(i <= Len(s) - 1)
    <3>1. ~(i + 1 <= Len(s)) /\ (i + 1) - Len(s) = i - (Len(s) - 1)
      BY <1>2, <2>1, <2>5
    <3> QED
      BY <2>2, <2>3, <2>5, <3>1
  <2> QED
    BY <2>4, <2>5
<1>9. u = w
  BY <1>5, <1>6, <1>7, <1>8, SeqEqual
<1>10. Head(s \o t) = Head(s)
  <2>1. 1 \in 1 .. Len(s) + Len(t) /\ 1 <= Len(s)
    BY <1>2
  <2>2. (s \o t)[1] = s[1]
    BY <1>1, <2>1
  <2> QED
    BY <2>2
<1> QED
  BY <1>3, <1>4, <1>9, <1>10 DEF u, w

LEMMA PrefixOfTwo ==
  ASSUME NEW T, NEW s \in Seq(T), Len(s) = 2, NEW u \in Seq(T)
  PROVE  IsPrefix(s, u) <=> Len(u) >= 2 /\ u[1] = s[1] /\ u[2] = s[2]
<1>1. IsPrefix(s, u) <=> Len(u) >= 2 /\ SubSeq(s, 1, 2) = SubSeq(u, 1, 2)
  BY DEF IsPrefix
<1>2. SubSeq(s, 1, 2) = s
  BY SubSeqFull
<1>3. ASSUME Len(u) >= 2 PROVE s = SubSeq(u, 1, 2) <=> u[1] = s[1] /\ u[2] = s[2]
  <2> DEFINE w == SubSeq(u, 1, 2)
  <2>1. \A i \in 1 .. 2 : u[i] \in T
    BY <1>3
  <2>2. w \in Seq(T) /\ Len(w) = 2 /\ \A i \in 1 .. 2 : w[i] = u[i]
    <3>1. w \in Seq(T) /\ Len(w) = 2 /\ \A i \in 1 .. 2 - 1 + 1 : w[i] = u[1 + i - 1]
      BY <2>1, SubSeqProperties
    <3> HIDE DEF w
    <3>2. \A i \in 1 .. 2 : i \in 1 .. 2 - 1 + 1 /\ 1 + i - 1 = i
      OBVIOUS
    <3> QED
      BY <3>1, <3>2
  <2> HIDE DEF w
  <2>3. w[1] = u[1] /\ w[2] = u[2]
    BY <2>2
  <2>4. u[1] = s[1] /\ u[2] = s[2] => \A i \in 1 .. Len(s) : s[i] = w[i]
    <3>1. \A i \in 1 .. Len(s) : i = 1 \/ i = 2
      OBVIOUS
    <3> QED
      BY <2>3, <3>1
  <2>5. (\A i \in 1 .. Len(s) : s[i] = w[i]) => s = w
    BY <2>2, SeqEqual
  <2>6. s = w <=> u[1] = s[1] /\ u[2] = s[2]
    BY <2>3, <2>4, <2>5
  <2> QED
    BY <2>6 DEF w
<1> QED
  BY <1>1, <1>2, <1>3

\* Whether an id starts with the slug depends on the paper's id alone, unless that is the slug's
\* first segment.
LEMMA SlugBefore ==
  ASSUME NEW T, NEW slug \in Seq(T), Len(slug) = 2, NEW pid \in Seq(T), pid # << >>, pid # <<Head(slug)>>,
         NEW name \in Seq(T), name # << >>
  PROVE  IsStrictPrefix(slug, pid \o name) <=> IsPrefix(slug, pid)
<1> DEFINE u == pid \o name
<1>1. Len(pid) \in Nat \ {0} /\ Len(name) \in Nat \ {0}
  BY EmptySeq
<1>2. u \in Seq(T) /\ Len(u) = Len(pid) + Len(name) /\ \A i \in 1 .. Len(pid) : u[i] = pid[i]
  BY <1>1, ConcatCancels
<1> HIDE DEF u
<1>3. CASE Len(pid) >= 2
  <2>1. u[1] = pid[1] /\ u[2] = pid[2] /\ Len(u) > 2
    BY <1>1, <1>2, <1>3
  <2>2. IsPrefix(slug, u) <=> IsPrefix(slug, pid)
    <3>1. IsPrefix(slug, u) <=> Len(u) >= 2 /\ u[1] = slug[1] /\ u[2] = slug[2]
      BY <1>2, PrefixOfTwo
    <3>2. IsPrefix(slug, pid) <=> Len(pid) >= 2 /\ pid[1] = slug[1] /\ pid[2] = slug[2]
      BY PrefixOfTwo
    <3> QED
      BY <1>1, <1>2, <1>3, <2>1, <3>1, <3>2
  <2>3. slug # u
    <3>1. Len(u) # 2
      <4>1. \A k \in Nat : k > 2 => k # 2
        OBVIOUS
      <4>2. Len(u) \in Nat
        BY <1>2
      <4> QED
        BY <2>1, <4>1, <4>2
    <3> QED
      BY <3>1
  <2> QED
    BY <2>2, <2>3 DEF IsStrictPrefix, u
<1>4. CASE Len(pid) = 1
  <2>1. u[1] = pid[1]
    BY <1>2, <1>4
  <2>2. pid[1] # Head(slug)
    <3>1. ASSUME pid[1] = Head(slug) PROVE FALSE
      <4>1. pid[1] = slug[1] /\ slug[1] \in T
        BY <3>1
      <4>2. \A i \in 1 .. Len(pid) : pid[i] = <<slug[1]>>[i]
        BY <1>4, <4>1
      <4>3. pid = <<slug[1]>>
        <5>1. <<slug[1]>> \in Seq(T) /\ Len(<<slug[1]>>) = Len(pid)
          BY <1>4, <4>1
        <5> QED
          BY <4>2, <5>1, SeqEqual
      <4> QED
        BY <4>3
    <3> QED
      BY <3>1
  <2>3. ~IsPrefix(slug, pid)
    BY <1>4 DEF IsPrefix
  <2>4. ~IsPrefix(slug, u)
    <3>1. IsPrefix(slug, u) <=> Len(u) >= 2 /\ u[1] = slug[1] /\ u[2] = slug[2]
      BY <1>2, PrefixOfTwo, SMTT(30)
    <3> QED
      BY <2>1, <2>2, <3>1
  <2> QED
    BY <2>3, <2>4 DEF IsStrictPrefix, u
<1>5. Len(pid) = 1 \/ Len(pid) >= 2
  <2>1. \A k \in Nat \ {0} : k = 1 \/ k >= 2
    OBVIOUS
  <2> QED
    BY <1>1, <2>1
<1> QED
  BY <1>3, <1>4, <1>5

\* The ids of a version on the server: all the paper's, or all moved to the slug.
Base(pid, slug) == IF IsPrefix(slug, pid) THEN pid ELSE slug \o Tail(pid)
StoredAs(c, slug, claims) ==
  /\ DOMAIN claims = DOMAIN c.claims /\ DOMAIN claims = 1 .. RecordCount(CirNodes(c))
  /\ RecordCount(CirNodes(c)) \in Nat /\ Len(claims) = RecordCount(CirNodes(c))
  /\ \A n \in DOMAIN claims : /\ claims[n].id = Base(c.id, slug) \o NameOf(CirNodes(c), c.aux, n)
                              /\ claims[n].statement = c.claims[n].statement

LEMMA BaseIs ==
  ASSUME NEW pid \in Seq(STRING), pid # << >>, NEW slug \in Seq(STRING), Len(slug) = 2
  PROVE  Base(pid, slug) \in Seq(Segments) /\ Base(pid, slug) # << >>
<1>1. STRING \subseteq Segments
  BY DEF Segments
<1>2. Tail(pid) \in Seq(STRING) /\ slug # << >>
  BY HeadTailProperties, EmptySeq, SMTT(30)
<1>3. slug \o Tail(pid) \in Seq(STRING) /\ slug \o Tail(pid) # << >>
  BY <1>2, ConcatProperties, ConcatEqualIffEmpty
<1>4. Base(pid, slug) \in Seq(STRING) /\ Base(pid, slug) # << >>
  BY <1>3 DEF Base
<1> QED
  BY <1>1, <1>4, SeqMonotonic

LEMMA StoredClaims ==
  ASSUME NEW front, NEW c, IsCirOf(front, c), NEW slug \in Seq(STRING), Len(slug) = 2, c.id # <<Head(slug)>>
  PROVE  StoredAs(c, slug, CanonicaliseClaimIds(c.claims, slug))
<1> DEFINE nodes == CirNodes(c)
           claims == c.claims
           N == RecordCount(nodes)
           Name(n) == NameOf(nodes, c.aux, n)
           st == CanonicaliseClaimIds(claims, slug)
           old == Head(claims[1].id)
           Ends(x, k) == [i \in DOMAIN x.edges[k] |-> Rewrite(x.edges[k][i], old, slug)]
           Moved(x) == [x EXCEPT !.id = Rewrite(@, old, slug), !.paper_id = slug,
                          !.edges = [k \in EdgeKinds |-> Ends(x, k)]]
<1>1. c.id \in Seq(Segments) /\ slug \in Seq(Segments) /\ c.id # << >> /\ c.id \in Seq(STRING)
  <2>1. c.id \in Seq(STRING) /\ c.id # << >> /\ STRING \subseteq Segments
    BY CirIs DEF Segments
  <2> QED
    BY <2>1, SeqMonotonic
<1>2. N \in Nat /\ Len(claims) = N /\ DOMAIN claims = 1 .. N /\ \E T : claims \in Seq(T)
  <2>1. AreRecords(c.claims, c.id, CirNodes(c), c.aux, SourceMap(Paper(c.of)))
    BY CirIs
  <2> QED
    BY <2>1 DEF AreRecords
<1>3. \A n \in 1 .. N : /\ claims[n].id = c.id \o Name(n) /\ Name(n) \in Seq(Segments) /\ Name(n) # << >>
                        /\ {"id", "paper_id", "statement", "edges"} \subseteq DOMAIN claims[n]
  <2> SUFFICES ASSUME NEW n \in 1 .. N
               PROVE  /\ claims[n].id = c.id \o Name(n) /\ Name(n) \in Seq(Segments) /\ Name(n) # << >>
                      /\ {"id", "paper_id", "statement", "edges"} \subseteq DOMAIN claims[n]
    OBVIOUS
  <2>1. n \in DOMAIN c.claims
    BY <1>2
  <2> HIDE DEF nodes, claims, N, Name, st, Moved
  <2>2. /\ n \in 1 .. RecordCount(CirNodes(c)) /\ CirNodes(c) \in Seq(Line)
        /\ c.claims[n].id = c.id \o NameOf(CirNodes(c), c.aux, n)
        /\ {"id", "paper_id", "statement", "edges"} \subseteq DOMAIN c.claims[n]
    <3>1. /\ n \in 1 .. RecordCount(CirNodes(c)) /\ CirNodes(c) \in Seq(Line)
          /\ c.claims[n].id = c.id \o NameOf(CirNodes(c), c.aux, n)
      BY <2>1, CirClaims
    <3>2. {"id", "paper_id", "statement", "edges"} \subseteq DOMAIN c.claims[n]
      BY <2>1, CirKeys
    <3> QED
      BY <3>1, <3>2
  <2>3. NameOf(CirNodes(c), c.aux, n) \in Seq(Segments) /\ NameOf(CirNodes(c), c.aux, n) # << >>
    BY <2>2, CirIndexed, NamesAre
  <2> QED
    BY <2>2, <2>3 DEF nodes, claims, N, Name
<1> HIDE DEF nodes, Name, Segments
<1>4. \A n \in 1 .. N : IsStrictPrefix(slug, claims[n].id) <=> IsPrefix(slug, c.id)
  <2> SUFFICES ASSUME NEW n \in 1 .. N PROVE IsStrictPrefix(slug, claims[n].id) <=> IsPrefix(slug, c.id)
    OBVIOUS
  <2>1. IsStrictPrefix(slug, c.id \o Name(n)) <=> IsPrefix(slug, c.id)
    BY <1>1, <1>3, SlugBefore
  <2> QED
    BY <1>3, <2>1
<1>5. \A n \in 1 .. N : /\ Head(claims[n].id) = Head(c.id) /\ Len(claims[n].id) > 1
                        /\ Tail(claims[n].id) = Tail(c.id) \o Name(n) /\ Tail(c.id) \in Seq(Segments)
  <2> SUFFICES ASSUME NEW n \in 1 .. N
               PROVE  /\ Head(claims[n].id) = Head(c.id) /\ Len(claims[n].id) > 1
                      /\ Tail(claims[n].id) = Tail(c.id) \o Name(n) /\ Tail(c.id) \in Seq(Segments)
    OBVIOUS
  <2>1. Tail(c.id \o Name(n)) = Tail(c.id) \o Name(n) /\ Head(c.id \o Name(n)) = Head(c.id) /\ Tail(c.id) \in Seq(Segments)
    BY <1>1, <1>3, TailConcat, ZenonT(30)
  <2>2. Len(c.id \o Name(n)) > 1
    <3>1. Len(c.id \o Name(n)) = Len(c.id) + Len(Name(n))
      BY <1>1, <1>3, ConcatProperties
    <3>2. Len(c.id) \in Nat \ {0} /\ Len(Name(n)) \in Nat \ {0}
      BY <1>1, <1>3, EmptySeq
    <3>3. \A i, j \in Nat \ {0} : i + j > 1
      OBVIOUS
    <3> QED
      BY <3>1, <3>2, <3>3
  <2> QED
    BY <1>3, <2>1, <2>2
<1>6. CASE claims = <<>>
  <2>1. st = claims /\ N = 0
    BY <1>2, <1>6 DEF CanonicaliseClaimIds
  <2>2. DOMAIN claims = {}
    BY <1>2, <2>1
  <2> HIDE DEF st
  <2> QED
    BY <1>2, <2>1, <2>2 DEF StoredAs, st, nodes
<1>7. CASE claims # <<>> /\ IsPrefix(slug, c.id)
  <2>1. 1 \in 1 .. N
    <3>1. N # 0
      BY <1>2, <1>7, EmptySeq
    <3> QED
      BY <1>2, <3>1
  <2>2. st = claims
    BY <1>4, <1>7, <2>1 DEF CanonicaliseClaimIds
  <2>3. Base(c.id, slug) = c.id
    BY <1>7 DEF Base
  <2> HIDE DEF st
  <2> QED
    BY <1>2, <1>3, <2>2, <2>3 DEF StoredAs, st, nodes, Name
<1>8. CASE claims # <<>> /\ ~IsPrefix(slug, c.id)
  <2>1. 1 \in 1 .. N
    <3>1. N # 0
      BY <1>2, <1>8, EmptySeq
    <3> QED
      BY <1>2, <3>1
  <2>2. st = [n \in DOMAIN claims |-> Moved(claims[n])]
    BY <1>4, <1>8, <2>1 DEF CanonicaliseClaimIds
  <2>3. Base(c.id, slug) = slug \o Tail(c.id)
    BY <1>8 DEF Base
  <2> HIDE DEF st, Ends
  <2>4. DOMAIN st = 1 .. N /\ Len(st) = N
    <3> DEFINE T == {Moved(x) : x \in {claims[n] : n \in 1 .. N}}
    <3>1. \A n \in 1 .. N : Moved(claims[n]) \in T
      OBVIOUS
    <3> HIDE DEF Moved, T
    <3>2. st \in [1 .. N -> T]
      BY <1>2, <2>2, <3>1
    <3> QED
      BY <1>2, <3>2
  <2>5. old = Head(c.id)
    BY <1>5, <2>1
  <2>6. ASSUME NEW n \in 1 .. N
        PROVE  st[n].id = Base(c.id, slug) \o Name(n) /\ st[n].statement = claims[n].statement
    <3>1. st[n] = Moved(claims[n])
      BY <1>2, <2>2
    <3>2. Moved(claims[n]).id = Rewrite(claims[n].id, old, slug) /\ Moved(claims[n]).statement = claims[n].statement
      BY <1>3
    <3>3. Rewrite(claims[n].id, old, slug) = slug \o Tail(claims[n].id)
      BY <1>5, <2>5 DEF Rewrite
    <3>4. slug \o (Tail(c.id) \o Name(n)) = (slug \o Tail(c.id)) \o Name(n)
      <4>1. slug \in Seq(Segments) /\ Tail(c.id) \in Seq(Segments) /\ Name(n) \in Seq(Segments)
        BY <1>1, <1>3, <1>5
      <4>2. \A s, t, u \in Seq(Segments) : s \o (t \o u) = (s \o t) \o u
        BY ConcatAssociative, SMTT(30)
      <4> QED
        BY <4>1, <4>2
    <3> HIDE DEF Moved
    <3> QED
      BY <1>5, <2>3, <3>1, <3>2, <3>3, <3>4
  <2> QED
    BY <1>2, <2>4, <2>6 DEF StoredAs, st, nodes, Name
<1> QED
  BY <1>6, <1>7, <1>8

\* Two ids of versions of one paper are the same, and so are their local ids, exactly if what the
\* claims are called is.
LEMMA SameName ==
  ASSUME NEW base \in Seq(Segments), base # << >>, NEW x \in Seq(Segments), NEW y \in Seq(Segments)
  PROVE  /\ base \o x = base \o y <=> x = y
         /\ ClaimLocalId(base \o x) = ClaimLocalId(base \o y) <=> x = y
<1>1. Tail(base \o x) = Tail(base) \o x /\ Tail(base \o y) = Tail(base) \o y /\ Tail(base) \in Seq(Segments)
  <2> HIDE DEF Segments
  <2>1. Tail(base \o x) = Tail(base) \o x /\ Tail(base) \in Seq(Segments)
    BY TailConcat
  <2>2. Tail(base \o y) = Tail(base) \o y
    BY TailConcat
  <2> QED
    BY <2>1, <2>2
<1> HIDE DEF Segments
<1>2. \A s, t, u \in Seq(Segments) : s \o t = s \o u => t = u
  BY ConcatCancels
<1>3. (base \o x = base \o y => x = y) /\ (Tail(base) \o x = Tail(base) \o y => x = y)
  BY <1>1, <1>2
<1> QED
  BY <1>1, <1>3 DEF ClaimLocalId

LEMMA VersionApart ==
  ASSUME NumeralsApart, NEW front, NEW c, IsCirOf(front, c), LabelsUnique(c.of), AllNumbered(c.aux),
         NEW slug \in Seq(STRING), Len(slug) = 2, NEW claims, StoredAs(c, slug, claims)
  PROVE  Apart(claims)
<1> DEFINE nodes == CirNodes(c)
           base == Base(c.id, slug)
<1>1. c.id \in Seq(STRING) /\ c.id # << >> /\ IsSource(c.of) /\ nodes = Nodes(Paper(c.of))
  BY CirIs DEF CirNodes
<1>2. base \in Seq(Segments) /\ base # << >>
  BY <1>1, BaseIs
<1>3. /\ DOMAIN claims = 1 .. RecordCount(nodes) /\ RecordCount(nodes) \in Nat /\ Len(claims) = RecordCount(nodes)
      /\ \A n \in DOMAIN claims : claims[n].id = base \o NameOf(nodes, c.aux, n)
  BY DEF StoredAs
<1>4. nodes \in Seq(Line) /\ Indexed(nodes, c.aux)
  BY <1>1, NodesLines, CirIndexed
<1> HIDE DEF nodes, base, Segments
<1>5. ASSUME NEW m \in DOMAIN claims, NEW n \in DOMAIN claims, ClaimLocalId(claims[m].id) = ClaimLocalId(claims[n].id)
      PROVE  m = n
  <2>1. m \in 1 .. RecordCount(nodes) /\ n \in 1 .. RecordCount(nodes)
    BY <1>3
  <2>2. NameOf(nodes, c.aux, m) \in Seq(Segments) /\ NameOf(nodes, c.aux, n) \in Seq(Segments)
    BY <1>4, <2>1, NamesAre
  <2>3. ClaimLocalId(base \o NameOf(nodes, c.aux, m)) = ClaimLocalId(base \o NameOf(nodes, c.aux, n))
    BY <1>3, <1>5
  <2>4. NameOf(nodes, c.aux, m) = NameOf(nodes, c.aux, n)
    BY <1>2, <2>2, <2>3, SameName
  <2> QED
    BY <1>1, <1>4, <2>1, <2>4, NamesDistinct
<1> QED
  BY <1>3, <1>5 DEF Apart

LEMMA VersionsSame ==
  ASSUME NEW front, NEW a, IsCirOf(front, a), NEW b, IsCirOf(front, b),
         NEW slug \in Seq(STRING), Len(slug) = 2,
         NEW prev, StoredAs(a, slug, prev), NEW curr, StoredAs(b, slug, curr)
  PROVE  \A m \in DOMAIN prev, n \in DOMAIN curr :
           /\ prev[m].id = curr[n].id <=> NameOf(CirNodes(a), a.aux, m) = NameOf(CirNodes(b), b.aux, n)
           /\ ClaimLocalId(prev[m].id) = ClaimLocalId(curr[n].id) <=> NameOf(CirNodes(a), a.aux, m) = NameOf(CirNodes(b), b.aux, n)
<1> DEFINE base == Base(a.id, slug)
           Name(c, n) == NameOf(CirNodes(c), c.aux, n)
<1>0. Indexed(CirNodes(a), a.aux) /\ Indexed(CirNodes(b), b.aux)
  BY CirIndexed
<1>1. a.id = b.id /\ a.id \in Seq(STRING) /\ a.id # << >>
  BY CirIs
<1>2. base \in Seq(Segments) /\ base # << >> /\ base = Base(b.id, slug)
  BY <1>1, BaseIs
<1>3. CirNodes(a) \in Seq(Line) /\ CirNodes(b) \in Seq(Line)
  <2>1. IsSource(a.of) /\ IsSource(b.of)
    BY CirIs
  <2> QED
    BY <2>1, NodesLines DEF CirNodes
<1>4. /\ DOMAIN prev = 1 .. RecordCount(CirNodes(a)) /\ DOMAIN curr = 1 .. RecordCount(CirNodes(b))
      /\ \A n \in DOMAIN prev : prev[n].id = base \o Name(a, n)
      /\ \A n \in DOMAIN curr : curr[n].id = base \o Name(b, n)
  BY <1>2 DEF StoredAs
<1> HIDE DEF base, Segments
<1>5. \A n \in DOMAIN prev : Name(a, n) \in Seq(Segments)
  BY <1>0, <1>3, <1>4, NamesAre
<1>6. \A n \in DOMAIN curr : Name(b, n) \in Seq(Segments)
  BY <1>0, <1>3, <1>4, NamesAre
<1> HIDE DEF Name
<1>7. ASSUME NEW m \in DOMAIN prev, NEW n \in DOMAIN curr
      PROVE  /\ prev[m].id = curr[n].id <=> Name(a, m) = Name(b, n)
             /\ ClaimLocalId(prev[m].id) = ClaimLocalId(curr[n].id) <=> Name(a, m) = Name(b, n)
  <2>1. /\ base \o Name(a, m) = base \o Name(b, n) <=> Name(a, m) = Name(b, n)
        /\ ClaimLocalId(base \o Name(a, m)) = ClaimLocalId(base \o Name(b, n)) <=> Name(a, m) = Name(b, n)
    <3>1. Name(a, m) \in Seq(Segments) /\ Name(b, n) \in Seq(Segments)
      BY <1>5, <1>6
    <3>2. \A x, y \in Seq(Segments) :
            /\ base \o x = base \o y <=> x = y
            /\ ClaimLocalId(base \o x) = ClaimLocalId(base \o y) <=> x = y
      BY <1>2, SameName
    <3> QED
      BY <3>1, <3>2
  <2>2. prev[m].id = base \o Name(a, m) /\ curr[n].id = base \o Name(b, n)
    BY <1>4
  <2> QED
    BY <2>1, <2>2
<1> QED
  BY <1>7 DEF Name

\* The record of a label, and the one thing that has it.
LEMMA RecordOfLabel ==
  ASSUME NEW front, NEW c, IsCirOf(front, c), LabelsUnique(c.of), SetAsWalked(c.of), AllNumbered(c.aux),
         NEW x \in Labelled(c.of), NEW m \in RecordsOf(c, x.label)
  PROVE  /\ m \in DOMAIN c.claims /\ NameOf(CirNodes(c), c.aux, m) = x.label
         /\ c.claims[m].statement = x.text
         /\ (CHOOSE y \in Labelled(c.of) : y.label = x.label) = x
<1> DEFINE nodes == CirNodes(c)
           P == LabelledPlaces(nodes)
<1>0. Indexed(nodes, c.aux)
  BY CirIndexed
<1>1. LabelsAgree(c, nodes)
  BY CirLabelsAgree
<1>2. nodes \in Seq(Line) /\ c.id \in Seq(STRING) /\ Labelled(c.of) = {nodes[i] : i \in P}
  BY <1>1 DEF LabelsAgree
<1>3. m \in DOMAIN c.claims /\ c.claims[m].id = c.id \o x.label
  BY DEF RecordsOf
<1>4. /\ m \in 1 .. RecordCount(nodes)
      /\ c.claims[m].id = c.id \o NameOf(nodes, c.aux, m)
      /\ c.claims[m].statement = nodes[PlaceOf(nodes, m)].text
  <2> HIDE DEF nodes
  <2>1. \A k \in DOMAIN c.claims : /\ k \in 1 .. RecordCount(CirNodes(c)) /\ CirNodes(c) \in Seq(Line)
                                    /\ c.claims[k].id = c.id \o NameOf(CirNodes(c), c.aux, k)
                                    /\ c.claims[k].statement = CirNodes(c)[PlaceOf(CirNodes(c), k)].text
    BY CirClaims
  <2> QED
    BY <1>3, <2>1 DEF nodes
<1>5. /\ \A i, j \in P : nodes[i].label = nodes[j].label => i = j
      /\ \A i \in P, n \in DOMAIN nodes : nodes[i].label # <<"claim", Numeral(n)>>
  BY DEF LabelsUnique, LabelledPlaces, nodes, CirNodes
<1>6. PICK i \in P : x = nodes[i]
  BY <1>2
<1>7. nodes[i].label \in Seq(STRING) /\ nodes[i].label # << >>
  BY <1>2, LabelledAre
<1> HIDE DEF nodes
<1>8. NameOf(nodes, c.aux, m) = x.label
  <2>1. NameOf(nodes, c.aux, m) \in Seq(Segments)
    BY <1>0, <1>2, <1>4, NamesAre
  <2>2. c.id \in Seq(Segments) /\ x.label \in Seq(Segments)
    <3>1. STRING \subseteq Segments
      BY DEF Segments
    <3> DEFINE l == x.label
               k == c.id
    <3>2. l \in Seq(STRING) /\ k \in Seq(STRING)
      BY <1>2, <1>6, <1>7
    <3> HIDE DEF l, k, Segments
    <3>3. l \in Seq(Segments) /\ k \in Seq(Segments)
      BY <3>1, <3>2, SeqMonotonic
    <3> QED
      BY <3>3 DEF l, k
  <2> HIDE DEF Segments
  <2>3. c.id \o NameOf(nodes, c.aux, m) = c.id \o x.label
    BY <1>3, <1>4
  <2>4. \A s, t, u \in Seq(Segments) : s \o t = s \o u => t = u
    BY ConcatCancels
  <2> QED
    BY <2>1, <2>2, <2>3, <2>4
<1>9. PlaceOf(nodes, m) = i
  <2>1. /\ PlaceOf(nodes, m) \in Environments(nodes) /\ Bears(nodes[PlaceOf(nodes, m)])
        /\ m <= Len(Claimed(nodes)) <=> nodes[PlaceOf(nodes, m)].env = "claim"
        /\ Len(Claimed(nodes)) <= Len(nodes) /\ Len(Claimed(nodes)) \in Nat /\ RecordCount(nodes) \in Nat
    BY <1>2, <1>4, PlacesOf
  <2>2. nodes[PlaceOf(nodes, m)].label # <<>>
    <3> SUFFICES ASSUME nodes[PlaceOf(nodes, m)].label = <<>> PROVE FALSE
      OBVIOUS
    <3>2. m <= Len(Claimed(nodes))
      BY <2>1 DEF Bears
    <3>3. m \in DOMAIN nodes /\ m \in Nat \ {0}
      BY <1>2, <1>4, <2>1, <3>2
    <3>1. NameOf(nodes, c.aux, m) = <<"claim", Numeral(m)>>
      BY <1>0, <3>3 DEF NameOf, Indexed
    <3> QED
      BY <1>5, <1>6, <1>8, <3>1, <3>3
  <2>3. PlaceOf(nodes, m) \in P /\ nodes[PlaceOf(nodes, m)].label = nodes[i].label
    BY <1>6, <1>8, <2>1, <2>2 DEF NameOf, LabelledPlaces
  <2> QED
    BY <1>5, <2>3
<1>10. (CHOOSE y \in Labelled(c.of) : y.label = x.label) = x
  <2>1. \A y \in Labelled(c.of) : y.label = x.label => y = x
    BY <1>2, <1>5, <1>6
  <2> QED
    BY <2>1
<1> QED
  BY <1>3, <1>4, <1>6, <1>8, <1>9, <1>10 DEF nodes

LEMMA CitedIs ==
  ASSUME NEW s, IsSource(s)
  PROVE  Cited(s.front) \in Seq(STRING) /\ Len(Cited(s.front)) = 2
<1>1. /\ s.front.meta.id_slug \in Seq(STRING) /\ Len(s.front.meta.id_slug) \in {0, 2}
      /\ MintedSlug \in Seq(STRING) /\ Len(MintedSlug) = 2
  BY SourcesAssumption DEF IsSource
<1> DEFINE l == s.front.meta.id_slug
<1>2. l # << >> => Len(l) = 2
  <2> HIDE DEF l
  <2>1. l \in Seq(STRING) /\ Len(l) \in {0, 2}
    BY <1>1 DEF l
  <2>2. l # << >> => Len(l) \in Nat \ {0}
    BY <2>1, EmptySeq
  <2> QED
    BY <2>1, <2>2
<1>3. Cited(s.front) = IF l # <<>> THEN l ELSE MintedSlug
  BY DEF Cited, IdSlug
<1> QED
  BY <1>1, <1>2, <1>3

\* DiffTruthful: the diff that is served says what the author did.
THEOREM DiffTellsTheTruth ==
  ASSUME NumeralsApart
  PROVE  Spec => []DiffTruthful
<1>1. IInv => DiffTruthful
  <2> SUFFICES ASSUME IInv, NEW v \in DOMAIN stored, NEW w \in DOMAIN stored, v < w,
                      LabelsUnique(stored[v].parsed.of), SetAsWalked(stored[v].parsed.of),
                      LabelsUnique(stored[w].parsed.of), SetAsWalked(stored[w].parsed.of),
                      AllNumbered(stored[v].parsed.aux), AllNumbered(stored[w].parsed.aux),
                      stored[v].parsed.id # <<Head(stored[v].slug)>>
               PROVE  LET old == stored[v]
                          new == stored[w]
                          d == GetRevisionDiff(v, w)
                          Env1(c, label) == CHOOSE x \in Labelled(c.of) : x.label = label
                          shared == {x.label : x \in {y \in Labelled(old.parsed.of) : Bears(y)}}
                                      \cap {x.label : x \in {y \in Labelled(new.parsed.of) : Bears(y)}}
                      IN /\ Cardinality(d.removed) + Cardinality(d.modified) + d.unchanged = Len(old.claims)
                         /\ Cardinality(d.added) + Cardinality(d.modified) + d.unchanged = Len(new.claims)
                         /\ \A label \in shared :
                              \A m \in RecordsOf(old.parsed, label), n \in RecordsOf(new.parsed, label) :
                                /\ m \notin d.removed /\ n \notin d.added
                                /\ (\E p \in d.modified : p.from = m /\ p.to = n /\ "statement" \in p.fields)
                                     <=> Env1(old.parsed, label).text # Env1(new.parsed, label).text
                         /\ LET local == DiffCir(old.claims, new.claims)
                            IN /\ {old.claims[n].id : n \in d.removed} \subseteq local.claim_removed
                               /\ {new.claims[n].id : n \in d.added} \subseteq local.claim_added
                               /\ \A p \in d.modified :
                                    "statement" \in p.fields /\ old.claims[p.from].id = new.claims[p.to].id =>
                                      old.claims[p.from].id \in local.claim_changed
    BY ZenonT(30) DEF DiffTruthful
  <2> DEFINE a == stored[v].parsed
             b == stored[w].parsed
             slug == Cited(src.front)
             prev == stored[v].claims
             curr == stored[w].claims
             d == ComputeRevisionDiff(prev, curr)
             local == DiffCir(prev, curr)
             Env1(c, label) == CHOOSE x \in Labelled(c.of) : x.label = label
             Bearing(c) == {y \in Labelled(c.of) : Bears(y)}
  <2>1. /\ IsCirOf(src.front, a) /\ stored[v].slug = slug /\ prev = CanonicaliseClaimIds(a.claims, slug)
        /\ IsCirOf(src.front, b) /\ stored[w].slug = slug /\ curr = CanonicaliseClaimIds(b.claims, slug)
    BY DEF IInv
  <2>2. slug \in Seq(STRING) /\ Len(slug) = 2
    <3>1. IsSource(src)
      BY DEF IInv
    <3> QED
      BY <3>1, CitedIs
  <2>3. LabelsUnique(a.of) /\ SetAsWalked(a.of) /\ LabelsUnique(b.of) /\ SetAsWalked(b.of)
        /\ AllNumbered(a.aux) /\ AllNumbered(b.aux)
        /\ a.id # <<Head(slug)>> /\ GetRevisionDiff(v, w) = d
    BY <2>1 DEF GetRevisionDiff
  <2> HIDE DEF a, b, slug, prev, curr
  <2>4. a.id = b.id
    BY <2>1, CirIs
  <2>5. StoredAs(a, slug, prev) /\ StoredAs(b, slug, curr)
    BY <2>1, <2>2, <2>3, <2>4, StoredClaims
  <2>6. Apart(prev) /\ Apart(curr)
    BY <2>1, <2>2, <2>3, <2>5, VersionApart
  <2>7. \A m \in DOMAIN prev, n \in DOMAIN curr :
          /\ prev[m].id = curr[n].id <=> NameOf(CirNodes(a), a.aux, m) = NameOf(CirNodes(b), b.aux, n)
          /\ ClaimLocalId(prev[m].id) = ClaimLocalId(curr[n].id) <=> NameOf(CirNodes(a), a.aux, m) = NameOf(CirNodes(b), b.aux, n)
    BY <2>1, <2>2, <2>5, VersionsSame
  <2>8. Says(prev, curr, d, local)
    <3>1. \A m \in DOMAIN prev, n \in DOMAIN curr :
            prev[m].id = curr[n].id <=> ClaimLocalId(prev[m].id) = ClaimLocalId(curr[n].id)
      BY <2>7
    <3> QED
      BY <2>6, <3>1, DiffSays
  <2>9. Cardinality(d.removed) + Cardinality(d.modified) + d.unchanged = Len(prev)
        /\ Cardinality(d.added) + Cardinality(d.modified) + d.unchanged = Len(curr)
    BY <2>6, DiffCounts
  <2>10. ASSUME NEW x \in Bearing(a), NEW y \in Bearing(b), x.label = y.label,
                NEW m \in RecordsOf(a, x.label), NEW n \in RecordsOf(b, x.label)
         PROVE  /\ m \notin d.removed /\ n \notin d.added
                /\ (\E p \in d.modified : p.from = m /\ p.to = n /\ "statement" \in p.fields)
                     <=> Env1(a, x.label).text # Env1(b, x.label).text
    <3> HIDE DEF d, local
    <3>1. x \in Labelled(a.of) /\ y \in Labelled(b.of) /\ n \in RecordsOf(b, y.label)
      BY <2>10
    <3>2. /\ m \in DOMAIN a.claims /\ NameOf(CirNodes(a), a.aux, m) = x.label /\ a.claims[m].statement = x.text
          /\ Env1(a, x.label) = x
      BY <2>1, <2>3, <3>1, RecordOfLabel
    <3>3. /\ n \in DOMAIN b.claims /\ NameOf(CirNodes(b), b.aux, n) = y.label /\ b.claims[n].statement = y.text
          /\ Env1(b, y.label) = y
      BY <2>1, <2>3, <3>1, RecordOfLabel
    <3>4. /\ m \in DOMAIN prev /\ prev[m].statement = x.text
          /\ n \in DOMAIN curr /\ curr[n].statement = y.text
      BY <2>5, <3>2, <3>3 DEF StoredAs
    <3>5. ClaimLocalId(prev[m].id) = ClaimLocalId(curr[n].id)
      BY <2>7, <2>10, <3>2, <3>3, <3>4
    <3>6. /\ m \notin d.removed /\ n \notin d.added
          /\ (\E p \in d.modified : p.from = m /\ p.to = n /\ "statement" \in p.fields)
               <=> prev[m].statement # curr[n].statement
      BY <2>8, <3>4, <3>5 DEF Says
    <3>7. Env1(b, x.label) = y
      BY <2>10, <3>3
    <3> HIDE DEF Env1
    <3> QED
      BY <3>2, <3>4, <3>6, <3>7
  <2> HIDE DEF Env1, local, d
  <2>11. \A label \in {x.label : x \in Bearing(a)} \cap {x.label : x \in Bearing(b)} :
           \A m \in RecordsOf(a, label), n \in RecordsOf(b, label) :
             /\ m \notin d.removed /\ n \notin d.added
             /\ (\E p \in d.modified : p.from = m /\ p.to = n /\ "statement" \in p.fields)
                  <=> Env1(a, label).text # Env1(b, label).text
    <3> SUFFICES ASSUME NEW x \in Bearing(a), NEW y \in Bearing(b), x.label = y.label,
                        NEW m \in RecordsOf(a, x.label), NEW n \in RecordsOf(b, x.label)
                 PROVE  /\ m \notin d.removed /\ n \notin d.added
                        /\ (\E p \in d.modified : p.from = m /\ p.to = n /\ "statement" \in p.fields)
                             <=> Env1(a, x.label).text # Env1(b, x.label).text
      OBVIOUS
    <3> QED
      BY <2>10
  <2>12. /\ {prev[n].id : n \in d.removed} \subseteq local.claim_removed
         /\ {curr[n].id : n \in d.added} \subseteq local.claim_added
         /\ \A p \in d.modified :
              "statement" \in p.fields /\ prev[p.from].id = curr[p.to].id => prev[p.from].id \in local.claim_changed
    BY <2>8 DEF Says
  <2> HIDE DEF Bearing
  <2>13. /\ Cardinality(GetRevisionDiff(v, w).removed) + Cardinality(GetRevisionDiff(v, w).modified)
              + GetRevisionDiff(v, w).unchanged = Len(stored[v].claims)
         /\ Cardinality(GetRevisionDiff(v, w).added) + Cardinality(GetRevisionDiff(v, w).modified)
              + GetRevisionDiff(v, w).unchanged = Len(stored[w].claims)
    BY <2>3, <2>9 DEF prev, curr
  <2>14. \A label \in {x.label : x \in {y \in Labelled(stored[v].parsed.of) : Bears(y)}}
                       \cap {x.label : x \in {y \in Labelled(stored[w].parsed.of) : Bears(y)}} :
           \A m \in RecordsOf(stored[v].parsed, label), n \in RecordsOf(stored[w].parsed, label) :
             /\ m \notin GetRevisionDiff(v, w).removed /\ n \notin GetRevisionDiff(v, w).added
             /\ (\E p \in GetRevisionDiff(v, w).modified : p.from = m /\ p.to = n /\ "statement" \in p.fields)
                  <=> Env1(stored[v].parsed, label).text # Env1(stored[w].parsed, label).text
    BY <2>3, <2>11 DEF a, b, Bearing
  <2>15. /\ {stored[v].claims[n].id : n \in GetRevisionDiff(v, w).removed} \subseteq DiffCir(stored[v].claims, stored[w].claims).claim_removed
         /\ {stored[w].claims[n].id : n \in GetRevisionDiff(v, w).added} \subseteq DiffCir(stored[v].claims, stored[w].claims).claim_added
         /\ \A p \in GetRevisionDiff(v, w).modified :
              "statement" \in p.fields /\ stored[v].claims[p.from].id = stored[w].claims[p.to].id =>
                stored[v].claims[p.from].id \in DiffCir(stored[v].claims, stored[w].claims).claim_changed
    BY <2>3, <2>12 DEF prev, curr, local
  <2> QED
    BY <2>13, <2>14, <2>15, Zenon DEF Env1
<1> QED
  BY <1>1, Invariant, PTL

-----------------------------------------------------------------------------
(***************************************************************************)
(* The depth-first search: what one call returns, and that the recursive   *)
(* function the search is exists.                                          *)
(***************************************************************************)

IsGraph(out) ==
  IsFiniteSet(GraphEnds(out)) /\ \A u \in DOMAIN out : out[u] \in Seq(GraphEnds(out))

Onward(out, u) == IF u \in DOMAIN out THEN out[u] ELSE <<>>
Calls(out) == [node : GraphEnds(out), state : Search(out)]

\* The nodes a call has left to visit.
Unvisited(out, q) == GraphEnds(out) \ (ToSet(q.state.stack) \cup q.state.done \cup {q.node})
Left(out, q) == Cardinality(Unvisited(out, q))

\* What a call returns for the state it was given, and what it goes through before.
Returns(out, q, t) ==
  /\ t \in Search(out) /\ t.stack = q.state.stack
  /\ q.state.done \cup {q.node} \subseteq t.done
  /\ t.cycles = <<>> => q.state.cycles = <<>>
Within(out, q, s) ==
  /\ s \in Search(out) /\ s.stack = Append(q.state.stack, q.node)
  /\ q.state.done \subseteq s.done
  /\ s.cycles = <<>> => q.state.cycles = <<>>

\* All smaller calls return.
SmallerReturn(out, dfs, q) ==
  \A y \in Calls(out) : Left(out, y) < Left(out, q) => Returns(out, y, dfs[y])

LEMMA AppendSet ==
  ASSUME NEW T, NEW s \in Seq(T), NEW x \in T
  PROVE  ToSet(Append(s, x)) = ToSet(s) \cup {x} /\ Append(s, x) \in Seq(T)
<1> DEFINE a == Append(s, x)
<1>1. a \in Seq(T) /\ DOMAIN a = 1 .. Len(s) + 1 /\ DOMAIN s = 1 .. Len(s) /\ Len(s) \in Nat
      /\ a[Len(s) + 1] = x /\ \A i \in 1 .. Len(s) : a[i] = s[i]
  OBVIOUS
<1> HIDE DEF a
<1>2. Len(s) + 1 \in 1 .. Len(s) + 1 /\ \A i \in 1 .. Len(s) + 1 : i = Len(s) + 1 \/ i \in 1 .. Len(s)
  BY <1>1
<1>3. \A i \in 1 .. Len(s) : i \in 1 .. Len(s) + 1
  BY <1>1
<1>4. \A y : (\E i \in DOMAIN a : a[i] = y) <=> y = x \/ \E i \in DOMAIN s : s[i] = y
  BY <1>1, <1>2, <1>3
<1> QED
  BY <1>1, <1>4 DEF ToSet, a

LEMMA CallSmaller ==
  ASSUME NEW out, IsGraph(out), NEW q \in Calls(out), NEW s, Within(out, q, s),
         NEW v \in GraphEnds(out), v \notin ToSet(s.stack), v \notin s.done
  PROVE  /\ [node |-> v, state |-> s] \in Calls(out)
         /\ Left(out, [node |-> v, state |-> s]) < Left(out, q)
<1> DEFINE N == GraphEnds(out)
           y == [node |-> v, state |-> s]
<1>1. y \in Calls(out) /\ y.node = v /\ y.state = s
  BY DEF Calls, Within
<1>2. q.node \in N /\ q.state.stack \in Seq(N) /\ q.state.done \subseteq N
  BY DEF Calls, Search
<1>3. ToSet(s.stack) = ToSet(q.state.stack) \cup {q.node}
  BY <1>2, AppendSet DEF Within
<1>4. v \in Unvisited(out, q) /\ Unvisited(out, y) \subseteq Unvisited(out, q) /\ v \notin Unvisited(out, y)
  BY <1>1, <1>3 DEF Unvisited, Within
<1> HIDE DEF y, N
<1>5. IsFiniteSet(Unvisited(out, q)) /\ IsFiniteSet(Unvisited(out, y))
  <2>1. Unvisited(out, q) \subseteq GraphEnds(out) /\ Unvisited(out, y) \subseteq GraphEnds(out)
    BY DEF Unvisited
  <2> QED
    BY <2>1, FS_Subset DEF IsGraph
<1>6. Left(out, y) < Left(out, q)
  <2>1. Unvisited(out, y) \subseteq Unvisited(out, q) /\ Unvisited(out, y) # Unvisited(out, q)
    BY <1>4
  <2>2. Cardinality(Unvisited(out, q)) \in Nat /\ Cardinality(Unvisited(out, y)) \in Nat
    BY <1>5, FS_CardinalityType
  <2>3. Cardinality(Unvisited(out, y)) <= Cardinality(Unvisited(out, q))
        /\ Cardinality(Unvisited(out, y)) # Cardinality(Unvisited(out, q))
    BY <1>5, <2>1, FS_Subset
  <2> QED
    BY <2>2, <2>3 DEF Left
<1> QED
  BY <1>1, <1>6 DEF y

\* One edge followed: a node on the stack closes a cycle, any other is done afterwards.
LEMMA FollowWithin ==
  ASSUME NEW out, IsGraph(out), NEW q \in Calls(out), NEW dfs, SmallerReturn(out, dfs, q),
         NEW s, Within(out, q, s), NEW v \in GraphEnds(out)
  PROVE  /\ Within(out, q, Follow(dfs, v, s))
         /\ s.done \subseteq Follow(dfs, v, s).done
         /\ Follow(dfs, v, s).cycles = <<>> => s.cycles = <<>> /\ v \in Follow(dfs, v, s).done
<1> DEFINE N == GraphEnds(out)
           t == Follow(dfs, v, s)
<1>t. s \in Search(out) /\ s.stack \in Seq(N) /\ s.cycles \in Seq(Seq(N))
      /\ s = [done |-> s.done, stack |-> s.stack, cycles |-> s.cycles]
  BY DEF Within, Search
<1>1. CASE v \in ToSet(s.stack)
  <2> DEFINE S == {i \in DOMAIN s.stack : s.stack[i] = v}
             c == SubSeq(s.stack, Min(S), Len(s.stack))
  <2>1. S \in SUBSET Nat /\ S # {}
    BY <1>t, <1>1 DEF ToSet
  <2>2. Min(S) \in S
    <3> HIDE DEF S
    <3> QED
      BY <2>1, SmallestOf
  <2>3. Min(S) \in 1 .. Len(s.stack) /\ Len(s.stack) \in Nat
    BY <2>2, <1>t
  <2>4. c \in Seq(N)
    <3> HIDE DEF S
    <3> QED
      BY <1>t, <2>3
  <2>5. t = [s EXCEPT !.cycles = Append(@, c)]
    BY <1>1 DEF Follow
  <2> HIDE DEF c
  <2>6. Append(s.cycles, c) \in Seq(Seq(N)) /\ Append(s.cycles, c) # <<>>
    BY <1>t, <2>4
  <2>7. t.done = s.done /\ t.stack = s.stack /\ t.cycles = Append(s.cycles, c) /\ t \in Search(out)
    BY <1>t, <2>5, <2>6 DEF Search
  <2> HIDE DEF t
  <2> QED
    BY <2>6, <2>7 DEF Within, t
<1>2. CASE v \notin ToSet(s.stack) /\ v \in s.done
  BY <1>2 DEF Follow
<1>3. CASE v \notin ToSet(s.stack) /\ v \notin s.done
  <2> DEFINE y == [node |-> v, state |-> s]
  <2>1. y \in Calls(out) /\ Left(out, y) < Left(out, q)
    BY <1>3, CallSmaller
  <2>2. Returns(out, y, dfs[y])
    BY <2>1 DEF SmallerReturn
  <2>3. t = dfs[y] /\ y.state = s /\ y.node = v
    BY <1>3 DEF Follow
  <2> HIDE DEF t, y
  <2> QED
    BY <2>2, <2>3 DEF Within, Returns, t
<1> QED
  BY <1>1, <1>2, <1>3

IsWalk(out, dfs, q, w) ==
  LET targets == Onward(out, q.node)
  IN /\ w[0] = [q.state EXCEPT !.stack = Append(@, q.node)]
     /\ \A n \in 1 .. Len(targets) : w[n] = Follow(dfs, targets[n], w[n - 1])
     /\ Visit(out, dfs, q) = [w[Len(targets)] EXCEPT !.stack = Front(@), !.done = @ \cup {q.node}]

LEMMA OnwardIs ==
  ASSUME NEW out, IsGraph(out), NEW u
  PROVE  Onward(out, u) \in Seq(GraphEnds(out))
<1>1. u \in DOMAIN out => out[u] \in Seq(GraphEnds(out))
  BY DEF IsGraph
<1>2. << >> \in Seq(GraphEnds(out))
  OBVIOUS
<1> QED
  BY <1>1, <1>2 DEF Onward

LEMMA WalkStarts ==
  ASSUME NEW out, NEW q \in Calls(out)
  PROVE  Within(out, q, [q.state EXCEPT !.stack = Append(@, q.node)])
<1>1. q.state.stack \in Seq(GraphEnds(out)) /\ q.node \in GraphEnds(out) /\ q.state \in Search(out)
  BY DEF Calls, Search
<1>2. Append(q.state.stack, q.node) \in Seq(GraphEnds(out))
  BY <1>1, AppendProperties
<1> QED
  BY <1>1, <1>2 DEF Search, Within

LEMMA WalkIs ==
  ASSUME NEW out, IsGraph(out), NEW q \in Calls(out), NEW dfs, SmallerReturn(out, dfs, q)
  PROVE  \E w : /\ IsWalk(out, dfs, q, w)
                /\ \A n \in 0 .. Len(Onward(out, q.node)) : Within(out, q, w[n])
<1> DEFINE T == Onward(out, q.node)
           L == Len(T)
           W == {s \in Search(out) : Within(out, q, s)}
           init == [q.state EXCEPT !.stack = Append(@, q.node)]
           Step(f, n) == Follow(dfs, T[n], f[n - 1])
           walk == CHOOSE f : f = [n \in 0 .. L |-> IF n = 0 THEN init ELSE Step(f, n)]
           step == [p \in (1 .. L) \X W |-> Follow(dfs, T[p[1]], p[2])]
<1>1. T \in Seq(GraphEnds(out)) /\ L \in Nat /\ \A n \in 1 .. L : T[n] \in GraphEnds(out)
  BY OnwardIs
<1>2. \A s : Within(out, q, s) <=> s \in W
  BY DEF Within
<1>3. Visit(out, dfs, q) = [walk[L] EXCEPT !.stack = Front(@), !.done = @ \cup {q.node}]
  BY DEF Visit, Onward
<1> HIDE DEF T, L, W
<1>4. \A n \in 1 .. L, s \in W : Follow(dfs, T[n], s) \in W
  BY <1>1, <1>2, FollowWithin
<1>5. init \in W
  BY <1>2, WalkStarts
<1> HIDE DEF init
<1>6. PICK f \in [0 .. L -> W] : f[0] = init /\ \A n \in 1 .. L : f[n] = step[<<n, f[n - 1]>>]
  <2>1. step \in [(1 .. L) \X W -> W]
    BY <1>4
  <2> HIDE DEF step
  <2>2. IsChain(W, L, init, step)
    BY <1>1, <1>5, <2>1 DEF IsChain
  <2> QED
    BY <2>2, Chain
<1>7. walk = [n \in 0 .. L |-> IF n = 0 THEN init ELSE Step(walk, n)]
  <2>1. \A n \in 1 .. L : f[n] = Step(f, n)
    <3> SUFFICES ASSUME NEW n \in 1 .. L PROVE f[n] = Step(f, n)
      OBVIOUS
    <3>1. n - 1 \in 0 .. L /\ f[n - 1] \in W
      BY <1>1
    <3> QED
      BY <1>6, <3>1
  <2>2. f = [n \in 0 .. L |-> IF n = 0 THEN init ELSE Step(f, n)]
    <3> HIDE DEF Step
    <3>1. \A n \in 0 .. L : f[n] = IF n = 0 THEN init ELSE Step(f, n)
      BY <1>1, <1>6, <2>1
    <3> QED
      BY <3>1
  <2> HIDE DEF Step
  <2> QED
    BY <2>2
<1> HIDE DEF walk
<1>8. walk[0] = init /\ \A n \in 1 .. L : walk[n] = Step(walk, n)
  <2>1. 0 \in 0 .. L /\ \A n \in 1 .. L : n \in 0 .. L /\ n # 0
    BY <1>1
  <2> HIDE DEF Step
  <2> QED
    BY <1>7, <2>1
<1>9. \A n \in 0 .. L : walk[n] \in W
  <2>1. \A n \in 1 .. L : walk[n - 1] \in W => walk[n] \in W
    BY <1>4, <1>8
  <2>2. walk[0] \in W
    BY <1>5, <1>8
  <2> QED
    BY <1>1, <2>1, <2>2, ChainTyped
<1>10. IsWalk(out, dfs, q, walk)
  BY <1>3, <1>8 DEF IsWalk, T, L, init
<1> QED
  BY <1>2, <1>9, <1>10 DEF T, L

\* A call returns when the smaller ones do, and they decide what it returns.
LEMMA VisitReturns ==
  ASSUME NEW out, IsGraph(out), NEW q \in Calls(out), NEW dfs, SmallerReturn(out, dfs, q)
  PROVE  Returns(out, q, Visit(out, dfs, q))
<1> DEFINE N == GraphEnds(out)
           L == Len(Onward(out, q.node))
<1>1. PICK w : IsWalk(out, dfs, q, w) /\ \A n \in 0 .. L : Within(out, q, w[n])
  BY WalkIs
<1>2. L \in Nat /\ L \in 0 .. L
  BY OnwardIs
<1> DEFINE s == w[L]
           t == [s EXCEPT !.stack = Front(@), !.done = @ \cup {q.node}]
<1>3. Within(out, q, s)
  BY <1>1, <1>2
<1>4. Visit(out, dfs, q) = t
  BY <1>1 DEF IsWalk
<1> HIDE DEF s, L
<1>5. q.node \in N /\ q.state.stack \in Seq(N)
  BY DEF Calls, Search
<1>6. Front(Append(q.state.stack, q.node)) = q.state.stack
  <2> DEFINE a == q.state.stack
  <2>1. a \in Seq(N)
    BY <1>5
  <2> HIDE DEF a
  <2>2. Front(Append(a, q.node)) = a
    BY <1>5, <2>1, AppendProperties DEF Front
  <2> QED
    BY <2>2 DEF a
<1>7. t \in Search(out) /\ t.stack = q.state.stack /\ t.done = s.done \cup {q.node} /\ t.cycles = s.cycles
  BY <1>3, <1>5, <1>6 DEF Within, Search
<1> HIDE DEF t
<1> QED
  BY <1>3, <1>4, <1>7 DEF Returns, Within

LEMMA VisitAgrees ==
  ASSUME NEW out, IsGraph(out), NEW q \in Calls(out), NEW f, NEW g,
         \A y \in Calls(out) : Left(out, y) < Left(out, q) => Returns(out, y, f[y]) /\ f[y] = g[y]
  PROVE  Visit(out, f, q) = Visit(out, g, q)
<1> DEFINE T == Onward(out, q.node)
           L == Len(T)
<1>1. SmallerReturn(out, f, q) /\ SmallerReturn(out, g, q)
  BY DEF SmallerReturn
<1>2. PICK w : IsWalk(out, f, q, w) /\ \A n \in 0 .. L : Within(out, q, w[n])
  BY <1>1, WalkIs
<1>3. PICK x : IsWalk(out, g, q, x)
  BY <1>1, WalkIs
<1>4. T \in Seq(GraphEnds(out)) /\ L \in Nat /\ \A n \in 1 .. L : T[n] \in GraphEnds(out) /\ n - 1 \in 0 .. L
  BY OnwardIs
<1>5. \A n \in 1 .. L : w[n] = Follow(f, T[n], w[n - 1]) /\ x[n] = Follow(g, T[n], x[n - 1])
  BY <1>2, <1>3 DEF IsWalk
<1> HIDE DEF L, T
<1>6. ASSUME NEW s, Within(out, q, s), NEW v \in GraphEnds(out)
      PROVE  Follow(f, v, s) = Follow(g, v, s)
  <2> DEFINE y == [node |-> v, state |-> s]
  <2>1. CASE v \notin ToSet(s.stack) /\ v \notin s.done
    <3>1. y \in Calls(out) /\ Left(out, y) < Left(out, q)
      BY <1>6, <2>1, CallSmaller
    <3>2. f[y] = g[y]
      BY <3>1
    <3> QED
      BY <2>1, <3>2 DEF Follow
  <2> QED
    BY <2>1 DEF Follow
<1> DEFINE Same == {n \in 0 .. L : w[n] = x[n]}
           Bad == {n \in 0 .. L : w[n] # x[n]}
<1>7. \A n \in Bad : \E k \in Bad : k < n
  <2> SUFFICES ASSUME NEW n \in 0 .. L, w[n] # x[n] PROVE n - 1 \in Bad /\ n - 1 < n
    OBVIOUS
  <2>1. w[0] = x[0]
    BY <1>2, <1>3 DEF IsWalk
  <2>2. n \in 1 .. L
    BY <1>4, <2>1
  <2>3. n - 1 \in 0 .. L /\ Within(out, q, w[n - 1]) /\ T[n] \in GraphEnds(out)
    BY <1>2, <1>4, <2>2
  <2>4. w[n - 1] # x[n - 1]
    BY <1>5, <1>6, <2>2, <2>3
  <2> QED
    BY <2>2, <2>3, <2>4
<1>8. Bad = {}
  <2>1. Bad \in SUBSET Nat
    OBVIOUS
  <2> HIDE DEF Bad
  <2> QED
    BY <1>7, <2>1, NoLeast
<1>9. w[L] = x[L]
  BY <1>4, <1>8
<1>10. Visit(out, f, q) = [w[L] EXCEPT !.stack = Front(@), !.done = @ \cup {q.node}]
       /\ Visit(out, g, q) = [x[L] EXCEPT !.stack = Front(@), !.done = @ \cup {q.node}]
  BY <1>2, <1>3 DEF IsWalk, L, T
<1> QED
  BY <1>9, <1>10

\* Recursion among the functions of one kind, which the step keeps.
IsRecursionAmong(D, F, mu, M, next) ==
  /\ F # {} /\ M \in Nat /\ mu \in [D -> Nat] /\ \A x \in D : mu[x] <= M
  /\ next \in [F -> F] /\ \A f \in F : f = [x \in D |-> f[x]]
  /\ \A f, g \in F : \A x \in D :
       (\A y \in D : mu[y] < mu[x] => f[y] = g[y]) => next[f][x] = next[g][x]

LEMMA RecursionAmong ==
  ASSUME NEW D, NEW F, NEW mu, NEW M, NEW next, IsRecursionAmong(D, F, mu, M, next)
  PROVE  \E f \in F : next[f] = f
<1> USE DEF IsRecursionAmong
<1> DEFINE Good(k) == \E f \in F : \A x \in D : mu[x] < k => f[x] = next[f][x]
           Bad == {k \in 0 .. M + 1 : ~Good(k)}
<1>1. Good(0)
  <2>1. PICK f \in F : TRUE
    OBVIOUS
  <2>2. \A x \in D : ~(mu[x] < 0)
    OBVIOUS
  <2> QED
    BY <2>2
<1>2. ASSUME NEW k \in Nat, Good(k) PROVE Good(k + 1)
  <2>1. PICK f \in F : \A x \in D : mu[x] < k => f[x] = next[f][x]
    BY <1>2
  <2>2. next[f] \in F
    OBVIOUS
  <2>3. ASSUME NEW x \in D, mu[x] < k + 1 PROVE next[f][x] = next[next[f]][x]
    <3>1. \A y \in D : mu[y] < mu[x] => f[y] = next[f][y]
      <4> SUFFICES ASSUME NEW y \in D, mu[y] < mu[x] PROVE f[y] = next[f][y]
        OBVIOUS
      <4>1. mu[y] \in Nat /\ mu[x] \in Nat /\ mu[y] < k
        BY <2>3
      <4> QED
        BY <2>1, <4>1
    <3> QED
      BY <2>2, <3>1
  <2> QED
    BY <2>2, <2>3
<1> HIDE DEF Good
<1>3. Bad = {}
  <2>1. Bad \in SUBSET Nat
    OBVIOUS
  <2>2. \A k \in Bad : \E j \in Bad : j < k
    <3> SUFFICES ASSUME NEW k \in 0 .. M + 1, ~Good(k) PROVE k - 1 \in Bad /\ k - 1 < k
      OBVIOUS
    <3>1. k # 0
      BY <1>1
    <3>2. k - 1 \in Nat /\ (k - 1) + 1 = k
      BY <3>1
    <3>3. ~Good(k - 1)
      BY <1>2, <3>2
    <3> QED
      BY <3>2, <3>3
  <2> QED
    BY <2>1, <2>2, NoLeast
<1>4. Good(M + 1)
  BY <1>3
<1>5. PICK f \in F : \A x \in D : mu[x] < M + 1 => f[x] = next[f][x]
  BY <1>4 DEF Good
<1>6. \A x \in D : f[x] = next[f][x]
  BY <1>5
<1>7. f = [x \in D |-> f[x]] /\ next[f] = [x \in D |-> next[f][x]]
  OBVIOUS
<1>8. next[f] = f
  BY <1>6, <1>7
<1> QED
  BY <1>8

LEMMA LeftIs ==
  ASSUME NEW out, IsGraph(out), NEW q
  PROVE  Left(out, q) \in Nat /\ Left(out, q) <= Cardinality(GraphEnds(out)) /\ Cardinality(GraphEnds(out)) \in Nat
<1>1. Unvisited(out, q) \subseteq GraphEnds(out) /\ IsFiniteSet(GraphEnds(out))
  BY DEF Unvisited, IsGraph
<1> QED
  BY <1>1, FS_Subset, FS_CardinalityType DEF Left

LEMMA DfsIs ==
  ASSUME NEW out, IsGraph(out)
  PROVE  \A q \in Calls(out) : /\ Dfs(out)[q] = Visit(out, Dfs(out), q)
                               /\ Returns(out, q, Dfs(out)[q])
<1> DEFINE D == Calls(out)
           M == Cardinality(GraphEnds(out))
           mu == [q \in D |-> Left(out, q)]
           F == {f \in [D -> Search(out)] : \A q \in D : Returns(out, q, f[q])}
           next == [f \in F |-> [q \in D |-> Visit(out, f, q)]]
           dfs == CHOOSE f : f = [q \in D |-> Visit(out, f, q)]
<1>1. Dfs(out) = dfs
  BY DEF Dfs, Calls
<1>2. mu \in [D -> Nat] /\ M \in Nat /\ \A q \in D : mu[q] = Left(out, q) /\ mu[q] <= M
  BY LeftIs
<1> HIDE DEF mu, M, D
<1>3. \A q, t : Returns(out, q, t) => t \in Search(out)
  BY DEF Returns
<1>4. F # {}
  <2> DEFINE f == [q \in D |-> [done |-> q.state.done \cup {q.node}, stack |-> q.state.stack, cycles |-> q.state.cycles]]
  <2>1. ASSUME NEW q \in D PROVE Returns(out, q, f[q])
    <3> DEFINE t == [done |-> q.state.done \cup {q.node}, stack |-> q.state.stack, cycles |-> q.state.cycles]
    <3>1. q.node \in GraphEnds(out) /\ q.state \in Search(out)
      BY DEF D, Calls
    <3>2. t \in Search(out)
      BY <3>1 DEF Search
    <3>3. Returns(out, q, t)
      BY <3>2 DEF Returns
    <3> QED
      BY <3>3
  <2>2. f \in [D -> Search(out)]
    <3>1. f = [q \in D |-> f[q]]
      OBVIOUS
    <3> HIDE DEF f
    <3> QED
      BY <1>3, <2>1, <3>1
  <2> HIDE DEF f
  <2> QED
    BY <2>1, <2>2
<1>5. ASSUME NEW f \in F PROVE [q \in D |-> Visit(out, f, q)] \in F
  <2>1. ASSUME NEW q \in D PROVE Returns(out, q, Visit(out, f, q))
    <3>1. SmallerReturn(out, f, q)
      BY DEF SmallerReturn, D
    <3> QED
      BY <3>1, VisitReturns DEF D
  <2> QED
    BY <1>3, <2>1
<1>6. ASSUME NEW f, NEW g, NEW q \in D, \A y \in D : Left(out, y) < Left(out, q) => Returns(out, y, f[y]) /\ f[y] = g[y]
      PROVE  Visit(out, f, q) = Visit(out, g, q)
  BY <1>6, VisitAgrees DEF D
<1>7. IsRecursionAmong(D, F, mu, M, next)
  <2>1. next \in [F -> F]
    BY <1>5
  <2>2. \A f \in F : f = [q \in D |-> f[q]]
    OBVIOUS
  <2>3. ASSUME NEW f \in F, NEW g \in F, NEW q \in D, \A y \in D : mu[y] < mu[q] => f[y] = g[y]
        PROVE  next[f][q] = next[g][q]
    <3>1. \A y \in D : Left(out, y) < Left(out, q) => Returns(out, y, f[y]) /\ f[y] = g[y]
      BY <1>2, <2>3
    <3>2. Visit(out, f, q) = Visit(out, g, q)
      BY <1>6, <3>1
    <3>3. next[f] = [x \in D |-> Visit(out, f, x)] /\ next[g] = [x \in D |-> Visit(out, g, x)]
      OBVIOUS
    <3> HIDE DEF next
    <3> QED
      BY <3>2, <3>3
  <2> HIDE DEF next, F
  <2> QED
    BY <1>2, <1>4, <2>1, <2>2, <2>3 DEF IsRecursionAmong
<1>8. PICK f \in F : next[f] = f
  <2> HIDE DEF next, F
  <2> QED
    BY <1>7, RecursionAmong
<1>9. dfs = [q \in D |-> Visit(out, dfs, q)]
  <2>1. f = [q \in D |-> Visit(out, f, q)]
    BY <1>8
  <2> QED
    BY <2>1
<1> HIDE DEF dfs
<1>10. \A q \in D : dfs[q] = Visit(out, dfs, q)
  BY <1>9
<1> DEFINE Bad == {Left(out, q) : q \in {x \in D : ~Returns(out, x, dfs[x])}}
<1>11. \A n \in Bad : \E k \in Bad : k < n
  <2> SUFFICES ASSUME NEW q \in D, ~Returns(out, q, dfs[q])
               PROVE  \E y \in D : ~Returns(out, y, dfs[y]) /\ Left(out, y) < Left(out, q)
    OBVIOUS
  <2> SUFFICES ASSUME \A y \in D : Left(out, y) < Left(out, q) => Returns(out, y, dfs[y])
               PROVE  FALSE
    OBVIOUS
  <2>1. SmallerReturn(out, dfs, q)
    BY DEF SmallerReturn, D
  <2>2. Returns(out, q, Visit(out, dfs, q))
    BY <2>1, VisitReturns DEF D
  <2> QED
    BY <1>10, <2>2
<1>12. Bad = {}
  <2>1. Bad \in SUBSET Nat
    BY LeftIs
  <2> HIDE DEF Bad
  <2> QED
    BY <1>11, <2>1, NoLeast
<1>13. \A q \in D : Returns(out, q, dfs[q])
  BY <1>12
<1> QED
  BY <1>1, <1>10, <1>13 DEF D

-----------------------------------------------------------------------------
(***************************************************************************)
(* The depth-first search: what it reports are cycles, and while it has    *)
(* reported none nothing it is done with can lie on one.                   *)
(***************************************************************************)

Goes(out, u, v) == v \in ToSet(Onward(out, u))

\* No node twice, and each the end of an edge from the one before.
IsPath(out, p) ==
  /\ \A i, j \in DOMAIN p : p[i] = p[j] => i = j
  /\ \A i \in DOMAIN p : i + 1 \in DOMAIN p => Goes(out, p[i], p[i + 1])
IsRing(out, p) == p # <<>> /\ IsPath(out, p) /\ Goes(out, p[Len(p)], p[1])

Settled(out, done) ==
  /\ \A u \in done : ToSet(Onward(out, u)) \subseteq done
  /\ \A S \in SUBSET done : (\A u \in S : \E v \in S : Goes(out, u, v)) => S = {}

Sound(out, s) ==
  /\ IsPath(out, s.stack) /\ ToSet(s.stack) \cap s.done = {}
  /\ \A c \in ToSet(s.cycles) : IsRing(out, c)
  /\ s.cycles = <<>> => Settled(out, s.done)

\* How a call is made.
Called(out, q) ==
  /\ Sound(out, q.state) /\ q.node \notin ToSet(q.state.stack) /\ q.node \notin q.state.done
  /\ q.state.stack # <<>> => Goes(out, Last(q.state.stack), q.node)

LEMMA PathGrows ==
  ASSUME NEW out, NEW N, NEW a \in Seq(N), NEW v \in N, IsPath(out, a), v \notin ToSet(a),
         a # <<>> => Goes(out, Last(a), v)
  PROVE  IsPath(out, Append(a, v))
<1> DEFINE b == Append(a, v)
           L == Len(a)
<1>1. L \in Nat /\ DOMAIN a = 1 .. L /\ DOMAIN b = 1 .. L + 1 /\ b[L + 1] = v /\ \A i \in 1 .. L : b[i] = a[i]
  OBVIOUS
<1>2. \A i \in 1 .. L : a[i] # v
  BY <1>1 DEF ToSet
<1>3. L # 0 => Goes(out, a[L], v)
  BY DEF Last
<1> HIDE DEF b, L
<1>4. ASSUME NEW i \in 1 .. L + 1, NEW j \in 1 .. L + 1, b[i] = b[j] PROVE i = j
  <2>1. (i \in 1 .. L \/ i = L + 1) /\ (j \in 1 .. L \/ j = L + 1)
    BY <1>1
  <2>2. CASE i \in 1 .. L /\ j \in 1 .. L
    BY <1>1, <1>4, <2>2 DEF IsPath
  <2>3. CASE i = L + 1 /\ j \in 1 .. L
    BY <1>1, <1>2, <1>4, <2>3
  <2>4. CASE j = L + 1 /\ i \in 1 .. L
    BY <1>1, <1>2, <1>4, <2>4
  <2> QED
    BY <2>1, <2>2, <2>3, <2>4
<1>5. ASSUME NEW i \in 1 .. L + 1, i + 1 \in 1 .. L + 1 PROVE Goes(out, b[i], b[i + 1])
  <2>1. i \in 1 .. L
    BY <1>1, <1>5
  <2>2. CASE i = L
    BY <1>1, <1>3, <2>1, <2>2
  <2>3. CASE i # L
    <3>1. i + 1 \in 1 .. L
      BY <1>1, <2>1, <2>3
    <3>2. Goes(out, a[i], a[i + 1])
      BY <1>1, <2>1, <3>1 DEF IsPath
    <3> QED
      BY <1>1, <2>1, <3>1, <3>2
  <2> QED
    BY <2>2, <2>3
<1>6. IsPath(out, b)
  BY <1>1, <1>4, <1>5 DEF IsPath
<1> QED
  BY <1>6 DEF b

LEMMA RingCloses ==
  ASSUME NEW out, NEW N, NEW a \in Seq(N), IsPath(out, a), NEW f \in DOMAIN a, Goes(out, Last(a), a[f])
  PROVE  IsRing(out, SubSeq(a, f, Len(a)))
<1> DEFINE c == SubSeq(a, f, Len(a))
           L == Len(a)
           K == L - f + 1
<1>1. L \in Nat /\ f \in 1 .. L /\ DOMAIN a = 1 .. L
  OBVIOUS
<1>2. DOMAIN c = 1 .. K /\ Len(c) = K /\ \A i \in 1 .. K : c[i] = a[f + i - 1]
  BY <1>1
<1>3. Goes(out, a[L], a[f])
  BY DEF Last
<1> HIDE DEF c, L
<1>4. K \in Nat /\ K >= 1 /\ \A i \in 1 .. K : f + i - 1 \in 1 .. L
  BY <1>1
<1>5. ASSUME NEW i \in 1 .. K, NEW j \in 1 .. K, c[i] = c[j] PROVE i = j
  <2>1. a[f + i - 1] = a[f + j - 1]
    BY <1>2, <1>5
  <2>2. f + i - 1 = f + j - 1
    BY <1>1, <1>4, <2>1 DEF IsPath
  <2> QED
    BY <1>1, <2>2
<1>6. ASSUME NEW i \in 1 .. K, i + 1 \in 1 .. K PROVE Goes(out, c[i], c[i + 1])
  <2>1. f + (i + 1) - 1 = (f + i - 1) + 1 /\ f + i - 1 \in 1 .. L /\ (f + i - 1) + 1 \in 1 .. L
    BY <1>1, <1>4, <1>6
  <2>2. Goes(out, a[f + i - 1], a[(f + i - 1) + 1])
    BY <1>1, <2>1 DEF IsPath
  <2>3. c[i] = a[f + i - 1] /\ c[i + 1] = a[(f + i - 1) + 1]
    BY <1>2, <1>6, <2>1
  <2> QED
    BY <2>2, <2>3
<1>7. IsPath(out, c)
  BY <1>2, <1>5, <1>6 DEF IsPath
<1>8. c[Len(c)] = a[L] /\ c[1] = a[f]
  <2>1. 1 \in 1 .. K /\ K \in 1 .. K /\ f + K - 1 = L /\ f + 1 - 1 = f
    BY <1>1, <1>4
  <2> QED
    BY <1>2, <2>1
<1>9. c # <<>>
  <2>1. 1 \in DOMAIN c
    BY <1>2, <1>4
  <2> QED
    BY <2>1
<1> QED
  BY <1>3, <1>7, <1>8, <1>9 DEF IsRing, c, L

LEMMA SettledMore ==
  ASSUME NEW out, NEW done, Settled(out, done), NEW u, u \notin done, ToSet(Onward(out, u)) \subseteq done
  PROVE  Settled(out, done \cup {u})
<1>1. ASSUME NEW S \in SUBSET (done \cup {u}), \A w \in S : \E v \in S : Goes(out, w, v) PROVE S = {}
  <2> DEFINE R == S \ {u}
  <2>1. R \in SUBSET done
    OBVIOUS
  <2>2. \A w \in R : \E v \in R : Goes(out, w, v)
    BY <1>1, <2>1 DEF Goes, Settled
  <2>3. R = {}
    BY <2>1, <2>2 DEF Settled
  <2>4. u \notin S
    BY <1>1, <2>3 DEF Goes
  <2> QED
    BY <2>3, <2>4
<1> QED
  BY <1>1 DEF Settled

SmallerSound(out, dfs, q) ==
  \A y \in Calls(out) : Left(out, y) < Left(out, q) => (Called(out, y) => Sound(out, dfs[y]))

LEMMA FollowSound ==
  ASSUME NEW out, IsGraph(out), NEW q \in Calls(out), NEW dfs, SmallerSound(out, dfs, q),
         NEW s, Within(out, q, s), Sound(out, s), NEW v, Goes(out, q.node, v)
  PROVE  Sound(out, Follow(dfs, v, s))
<1> DEFINE N == GraphEnds(out)
           t == Follow(dfs, v, s)
<1>1. s.stack \in Seq(N) /\ s.cycles \in Seq(Seq(N)) /\ v \in N
      /\ s = [done |-> s.done, stack |-> s.stack, cycles |-> s.cycles]
  <2>1. ToSet(Onward(out, q.node)) \subseteq N
    BY OnwardIs, ElementsFinite
  <2> QED
    BY <2>1 DEF Within, Search, Goes
<1>2. s.stack # <<>> /\ Last(s.stack) = q.node
  <2> DEFINE a == q.state.stack
             b == Append(a, q.node)
  <2>1. a \in Seq(N) /\ q.node \in N /\ s.stack = b
    BY DEF Within, Calls, Search
  <2> HIDE DEF a
  <2>2. b # <<>> /\ b[Len(b)] = q.node
    BY <2>1
  <2> QED
    BY <2>1, <2>2 DEF Last
<1>3. CASE v \in ToSet(s.stack)
  <2> DEFINE S == {i \in DOMAIN s.stack : s.stack[i] = v}
             c == SubSeq(s.stack, Min(S), Len(s.stack))
  <2>1. S \in SUBSET Nat /\ S # {}
    BY <1>1, <1>3 DEF ToSet
  <2>2. Min(S) \in S
    <3> HIDE DEF S
    <3> QED
      BY <2>1, SmallestOf
  <2>3. Min(S) \in DOMAIN s.stack /\ s.stack[Min(S)] = v
    BY <2>2
  <2>4. t = [s EXCEPT !.cycles = Append(@, c)]
    BY <1>3 DEF Follow
  <2> HIDE DEF S
  <2>5. IsRing(out, c)
    <3> HIDE DEF c
    <3>1. Goes(out, Last(s.stack), s.stack[Min(S)]) /\ IsPath(out, s.stack)
      BY <1>2, <2>3 DEF Sound
    <3>2. IsRing(out, SubSeq(s.stack, Min(S), Len(s.stack)))
      BY <1>1, <2>3, <3>1, RingCloses
    <3> QED
      BY <3>2 DEF c
  <2>6. c \in Seq(N)
    <3>1. Min(S) \in 1 .. Len(s.stack) /\ Len(s.stack) \in Nat
      BY <1>1, <2>3
    <3> QED
      BY <1>1, <3>1
  <2> HIDE DEF c
  <2>7. ToSet(Append(s.cycles, c)) = ToSet(s.cycles) \cup {c} /\ Append(s.cycles, c) # <<>>
    <3> DEFINE d == s.cycles
    <3>1. d \in Seq(Seq(N)) /\ c \in Seq(N)
      BY <1>1, <2>6
    <3> HIDE DEF d
    <3>2. ToSet(Append(d, c)) = ToSet(d) \cup {c}
      BY <3>1, AppendSet
    <3>3. Append(d, c) # <<>>
      BY <3>1
    <3> QED
      BY <3>2, <3>3 DEF d
  <2>8. t.done = s.done /\ t.stack = s.stack /\ t.cycles = Append(s.cycles, c)
    BY <1>1, <2>4
  <2> HIDE DEF t
  <2> QED
    BY <2>5, <2>7, <2>8 DEF Sound, t
<1>4. CASE v \notin ToSet(s.stack) /\ v \in s.done
  BY <1>4 DEF Follow
<1>5. CASE v \notin ToSet(s.stack) /\ v \notin s.done
  <2> DEFINE y == [node |-> v, state |-> s]
  <2>1. y \in Calls(out) /\ Left(out, y) < Left(out, q)
    BY <1>1, <1>5, CallSmaller
  <2>2. y.node = v /\ y.state = s
    OBVIOUS
  <2>3. t = dfs[y]
    BY <1>5 DEF Follow
  <2> HIDE DEF t, y
  <2>4. Called(out, y)
    BY <1>2, <1>5, <2>2 DEF Called
  <2> QED
    BY <2>1, <2>3, <2>4 DEF SmallerSound, t
<1> QED
  BY <1>3, <1>4, <1>5

LEMMA VisitSound ==
  ASSUME NEW out, IsGraph(out), NEW q \in Calls(out), NEW dfs,
         SmallerReturn(out, dfs, q), SmallerSound(out, dfs, q), Called(out, q)
  PROVE  Sound(out, Visit(out, dfs, q))
<1> DEFINE N == GraphEnds(out)
           T == Onward(out, q.node)
           L == Len(T)
           a == q.state.stack
           Passed(w, n) == /\ Within(out, q, w[n]) /\ Sound(out, w[n])
                           /\ w[n].cycles = <<>> => \A k \in 1 .. n : T[k] \in w[n].done
<1>1. PICK w : IsWalk(out, dfs, q, w) /\ \A n \in 0 .. L : Within(out, q, w[n])
  BY WalkIs
<1>2. L \in Nat /\ T \in Seq(N) /\ \A n \in 1 .. L : T[n] \in N /\ Goes(out, q.node, T[n])
  BY OnwardIs DEF Goes, ToSet
<1>3. /\ a \in Seq(N) /\ q.node \in N /\ q.state.done \subseteq N
      /\ q.state = [done |-> q.state.done, stack |-> a, cycles |-> q.state.cycles]
  BY DEF Calls, Search
<1>4. w[0].stack = Append(a, q.node) /\ w[0].done = q.state.done /\ w[0].cycles = q.state.cycles
  <2>1. w[0] = [q.state EXCEPT !.stack = Append(@, q.node)]
    BY <1>1 DEF IsWalk
  <2> HIDE DEF a
  <2> QED
    BY <1>3, <2>1 DEF a
<1>5. Visit(out, dfs, q) = [w[L] EXCEPT !.stack = Front(@), !.done = @ \cup {q.node}]
      /\ \A n \in 1 .. L : w[n] = Follow(dfs, T[n], w[n - 1])
  BY <1>1 DEF IsWalk
<1> HIDE DEF L, T
<1>6. Passed(w, 0)
  <2> DEFINE b == Append(a, q.node)
  <2>1. IsPath(out, a) /\ q.node \notin ToSet(a) /\ (a # <<>> => Goes(out, Last(a), q.node))
    BY DEF Called, Sound
  <2> HIDE DEF a
  <2>2. IsPath(out, b) /\ ToSet(b) = ToSet(a) \cup {q.node}
    BY <1>3, <2>1, PathGrows, AppendSet
  <2> HIDE DEF b
  <2>3. Sound(out, w[0])
    BY <1>4, <2>2 DEF Called, Sound, a, b
  <2>4. Within(out, q, w[0])
    BY <1>1, <1>2
  <2>5. \A k \in 1 .. 0 : FALSE
    OBVIOUS
  <2> QED
    BY <2>3, <2>4, <2>5
<1>7. ASSUME NEW n \in 1 .. L, Passed(w, n - 1) PROVE Passed(w, n)
  <2> DEFINE s == w[n - 1]
             t == Follow(dfs, T[n], s)
  <2>1. w[n] = t /\ T[n] \in N /\ Goes(out, q.node, T[n])
    BY <1>2, <1>5
  <2>2. Within(out, q, s) /\ Sound(out, s) /\ (s.cycles = <<>> => \A k \in 1 .. n - 1 : T[k] \in s.done)
    BY <1>7
  <2> HIDE DEF s
  <2>3. /\ Within(out, q, t) /\ s.done \subseteq t.done
        /\ t.cycles = <<>> => s.cycles = <<>> /\ T[n] \in t.done
    BY <2>1, <2>2, FollowWithin
  <2>4. Sound(out, t)
    BY <2>1, <2>2, FollowSound
  <2> HIDE DEF t
  <2>5. \A k \in 1 .. n : k = n \/ k \in 1 .. n - 1
    OBVIOUS
  <2> QED
    BY <2>1, <2>2, <2>3, <2>4, <2>5
<1> HIDE DEF Passed
<1>8. Passed(w, L)
  <2> DEFINE Bad == {n \in 0 .. L : ~Passed(w, n)}
  <2>1. \A n \in Bad : \E k \in Bad : k < n
    <3> SUFFICES ASSUME NEW n \in 0 .. L, ~Passed(w, n) PROVE n - 1 \in Bad /\ n - 1 < n
      OBVIOUS
    <3>1. n # 0
      BY <1>6
    <3>2. n \in 1 .. L /\ n - 1 \in 0 .. L
      BY <1>2, <3>1
    <3> QED
      BY <1>7, <3>2
  <2>2. Bad \in SUBSET Nat
    OBVIOUS
  <2>3. Bad = {}
    <3> HIDE DEF Bad
    <3> QED
      BY <2>1, <2>2, NoLeast
  <2> QED
    BY <1>2, <2>3
<1> DEFINE s == w[L]
           t == [s EXCEPT !.stack = Front(@), !.done = @ \cup {q.node}]
<1>9. /\ Within(out, q, s) /\ Sound(out, s) /\ (s.cycles = <<>> => \A k \in 1 .. L : T[k] \in s.done)
  BY <1>8 DEF Passed
<1>10. s = [done |-> s.done, stack |-> s.stack, cycles |-> s.cycles] /\ s.stack = Append(a, q.node)
  BY <1>9 DEF Within, Search
<1>11. Visit(out, dfs, q) = t
  BY <1>5
<1> HIDE DEF s
<1>12. Front(Append(a, q.node)) = a /\ ToSet(Append(a, q.node)) = ToSet(a) \cup {q.node}
  <2> HIDE DEF a
  <2>1. ToSet(Append(a, q.node)) = ToSet(a) \cup {q.node}
    BY <1>3, AppendSet
  <2>2. Front(Append(a, q.node)) = a
    BY <1>3, AppendProperties DEF Front
  <2> QED
    BY <2>1, <2>2
<1>13. t.stack = a /\ t.done = s.done \cup {q.node} /\ t.cycles = s.cycles
  BY <1>10, <1>12
<1> HIDE DEF t
<1>14. IsPath(out, a) /\ q.node \notin ToSet(a)
  BY DEF Called, Sound
<1>15. ToSet(a) \cap s.done = {} /\ q.node \notin s.done
  BY <1>9, <1>10, <1>12 DEF Sound
<1>16. ASSUME s.cycles = <<>> PROVE Settled(out, s.done \cup {q.node})
  <2>1. Settled(out, s.done)
    BY <1>9, <1>16 DEF Sound
  <2>2. ToSet(T) \subseteq s.done
    <3>1. DOMAIN T = 1 .. L
      BY <1>2 DEF L
    <3> QED
      BY <1>9, <1>16, <3>1 DEF ToSet
  <2> QED
    BY <1>15, <2>1, <2>2, SettledMore DEF T
<1>17. \A c \in ToSet(s.cycles) : IsRing(out, c)
  BY <1>9 DEF Sound
<1>18. Sound(out, t)
  <2> HIDE DEF a
  <2> QED
    BY <1>13, <1>14, <1>15, <1>16, <1>17 DEF Sound
<1> QED
  BY <1>11, <1>18

\* Every call as the code makes it keeps the search sound.
LEMMA DfsSound ==
  ASSUME NEW out, IsGraph(out), NEW q \in Calls(out), Called(out, q)
  PROVE  Returns(out, q, Dfs(out)[q]) /\ Sound(out, Dfs(out)[q])
<1> DEFINE dfs == Dfs(out)
           Bad == {Left(out, x) : x \in {y \in Calls(out) : Called(out, y) /\ ~Sound(out, dfs[y])}}
<1>1. \A y \in Calls(out) : dfs[y] = Visit(out, dfs, y) /\ Returns(out, y, dfs[y])
  BY DfsIs
<1> HIDE DEF dfs
<1>2. \A n \in Bad : \E k \in Bad : k < n
  <2> SUFFICES ASSUME NEW x \in Calls(out), Called(out, x), ~Sound(out, dfs[x])
               PROVE  \E y \in Calls(out) : Called(out, y) /\ ~Sound(out, dfs[y]) /\ Left(out, y) < Left(out, x)
    OBVIOUS
  <2> SUFFICES ASSUME \A y \in Calls(out) : Left(out, y) < Left(out, x) => (Called(out, y) => Sound(out, dfs[y]))
               PROVE  FALSE
    OBVIOUS
  <2>1. SmallerReturn(out, dfs, x) /\ SmallerSound(out, dfs, x)
    BY <1>1 DEF SmallerReturn, SmallerSound
  <2>2. Sound(out, Visit(out, dfs, x))
    BY <2>1, VisitSound
  <2> QED
    BY <1>1, <2>2
<1>3. Bad = {}
  <2>1. Bad \in SUBSET Nat
    BY LeftIs
  <2> HIDE DEF Bad
  <2> QED
    BY <1>2, <2>1, NoLeast
<1>4. Sound(out, dfs[q])
  BY <1>3
<1> QED
  BY <1>1, <1>4 DEF dfs

-----------------------------------------------------------------------------
(***************************************************************************)
(* The claim graph, and what the traversals say of it.                     *)
(***************************************************************************)

\* Claims whose edges are lists.
HasEdges(claims, kind) ==
  claims \in Seq(ToSet(claims)) /\ \A c \in ToSet(claims) : \E T : c.edges[kind] \in Seq(T)

LEMMA GraphIs ==
  ASSUME NEW claims, NEW kind, HasEdges(claims, kind)
  PROVE  /\ IsGraph(Outgoing(claims, kind)) /\ IsFiniteSet(GraphNodes(claims))
         /\ DOMAIN Outgoing(claims, kind) = GraphNodes(claims)
         /\ \A u, v : <<u, v>> \in GraphEdges(claims, kind) <=> Goes(Outgoing(claims, kind), u, v)
<1> DEFINE out == Outgoing(claims, kind)
           X == UNION {ToSet(c.edges[kind]) : c \in ToSet(claims)}
           Part(u) == [n \in DOMAIN claims |-> IF claims[n].id = u THEN claims[n].edges[kind] ELSE <<>>]
<1>1. DOMAIN claims = 1 .. Len(claims) /\ Len(claims) \in Nat /\ \A n \in DOMAIN claims : claims[n] \in ToSet(claims)
  BY DEF HasEdges
<1>2. \A n \in DOMAIN claims : claims[n].edges[kind] \in Seq(X)
  <2> SUFFICES ASSUME NEW n \in DOMAIN claims PROVE claims[n].edges[kind] \in Seq(X)
    OBVIOUS
  <2> DEFINE s == claims[n].edges[kind]
  <2>1. PICK T : s \in Seq(T)
    BY <1>1 DEF HasEdges
  <2>2. ToSet(s) \subseteq X
    BY <1>1
  <2> HIDE DEF s, X
  <2>3. \A i \in 1 .. Len(s) : s[i] \in X
    BY <2>1, <2>2 DEF ToSet
  <2>4. s \in Seq(X)
    BY <2>1, <2>3
  <2> QED
    BY <2>4 DEF s
<1> HIDE DEF X
<1>3. DOMAIN out = GraphNodes(claims) /\ \A u \in GraphNodes(claims) : out[u] = FlattenSeq(Part(u))
  BY DEF Outgoing
<1> HIDE DEF out
<1>4. \A u : Part(u) \in Seq(Seq(X))
  <2> SUFFICES ASSUME NEW u PROVE Part(u) \in Seq(Seq(X))
    OBVIOUS
  <2>1. << >> \in Seq(X)
    OBVIOUS
  <2>2. \A n \in 1 .. Len(claims) : (IF claims[n].id = u THEN claims[n].edges[kind] ELSE <<>>) \in Seq(X)
    BY <1>1, <1>2, <2>1
  <2>3. Part(u) \in [1 .. Len(claims) -> Seq(X)]
    BY <1>1, <2>2
  <2> HIDE DEF Part
  <2> QED
    BY <1>1, <2>3
<1>5. \A u \in GraphNodes(claims) : out[u] \in Seq(X)
  <2> HIDE DEF Part
  <2> QED
    BY <1>3, <1>4, FlattenIs
<1>6. \A u \in GraphNodes(claims) : IsFiniteSet(ToSet(out[u])) /\ ToSet(out[u]) \subseteq X
  BY <1>5, ElementsFinite
<1>7. IsFiniteSet(GraphNodes(claims))
  <2>1. IsFiniteSet(ToSet(claims))
    BY ElementsFinite DEF HasEdges
  <2> DEFINE f == [c \in ToSet(claims) |-> c.id]
  <2>2. f \in Surjection(ToSet(claims), GraphNodes(claims))
    BY DEF Surjection, GraphNodes
  <2> HIDE DEF f
  <2> QED
    BY <2>1, <2>2, FS_Surjection
<1>8. IsFiniteSet(GraphEnds(out))
  <2> DEFINE Sets == {ToSet(out[u]) : u \in GraphNodes(claims)}
             f == [u \in GraphNodes(claims) |-> ToSet(out[u])]
  <2>1. IsFiniteSet(Sets)
    <3>1. f \in Surjection(GraphNodes(claims), Sets)
      BY DEF Surjection
    <3> HIDE DEF f, Sets
    <3> QED
      BY <1>7, <3>1, FS_Surjection
  <2>2. \A S \in Sets : IsFiniteSet(S)
    BY <1>6
  <2>3. GraphEnds(out) = GraphNodes(claims) \cup UNION Sets
    BY <1>3 DEF GraphEnds
  <2> HIDE DEF Sets
  <2>4. IsFiniteSet(UNION Sets)
    BY <2>1, <2>2, FS_UNION
  <2> QED
    BY <1>7, <2>3, <2>4, FS_Union
<1>9. IsGraph(out)
  <2> SUFFICES ASSUME NEW u \in GraphNodes(claims) PROVE out[u] \in Seq(GraphEnds(out))
    BY <1>3, <1>8 DEF IsGraph
  <2> DEFINE s == out[u]
  <2>1. s \in Seq(X)
    BY <1>5
  <2>2. ToSet(s) \subseteq GraphEnds(out)
    BY <1>3 DEF GraphEnds
  <2> HIDE DEF s
  <2>3. \A i \in 1 .. Len(s) : s[i] \in GraphEnds(out)
    BY <2>1, <2>2 DEF ToSet
  <2>4. s \in Seq(GraphEnds(out))
    BY <2>1, <2>3
  <2> QED
    BY <2>4 DEF s
<1>10. ASSUME NEW u, NEW v PROVE <<u, v>> \in GraphEdges(claims, kind) <=> Goes(out, u, v)
  <2>1. <<u, v>> \in GraphEdges(claims, kind) <=> u \in GraphNodes(claims) /\ v \in X /\ v \in ToSet(out[u])
    BY DEF GraphEdges, X, out
  <2>2. u \in GraphNodes(claims) => Onward(out, u) = out[u]
    BY <1>3 DEF Onward
  <2>3. u \notin GraphNodes(claims) => ToSet(Onward(out, u)) = {}
    BY <1>3 DEF Onward, ToSet
  <2> QED
    BY <1>6, <2>1, <2>2, <2>3 DEF Goes
<1> QED
  BY <1>3, <1>7, <1>9, <1>10 DEF out

LEMMA FoundIs ==
  ASSUME NEW claims, NEW kind, NEW N, N = GraphEnds(Outgoing(claims, kind)), IsGraph(Outgoing(claims, kind)),
         NEW order \in Seq(N)
  PROVE  LET out == Outgoing(claims, kind)
             found == FindCycles(claims, kind, order)
         IN /\ found \in Seq(Seq(N)) /\ \A c \in ToSet(found) : IsRing(out, c)
            /\ found = <<>> => \E done : Settled(out, done) /\ ToSet(order) \subseteq done
<1> DEFINE out == Outgoing(claims, kind)
           L == Len(order)
           dfs == Dfs(out)
           V == {s \in Search(out) : s.stack = <<>> /\ Sound(out, s)}
           init == [done |-> {}, stack |-> <<>>, cycles |-> <<>>]
           Call(n, s) == IF order[n] \in s.done THEN s ELSE dfs[[node |-> order[n], state |-> s]]
           Step(f, n) == IF order[n] \in f[n - 1].done THEN f[n - 1] ELSE dfs[[node |-> order[n], state |-> f[n - 1]]]
           visit == CHOOSE f : f = [n \in 0 .. L |-> IF n = 0 THEN init ELSE Step(f, n)]
           step == [p \in (1 .. L) \X V |-> Call(p[1], p[2])]
<1>1. FindCycles(claims, kind, order) = visit[L].cycles
  BY DEF FindCycles
<1>2. L \in Nat /\ DOMAIN order = 1 .. L /\ \A n \in 1 .. L : order[n] \in N
  OBVIOUS
<1> HIDE DEF L, out
<1>3. IsGraph(out) /\ N = GraphEnds(out)
  BY DEF out
<1>4. ASSUME NEW n \in 1 .. L, NEW s \in V
      PROVE  /\ Call(n, s) \in V /\ order[n] \in Call(n, s).done /\ s.done \subseteq Call(n, s).done
  <2>1. CASE order[n] \in s.done
    BY <2>1
  <2>2. CASE order[n] \notin s.done
    <3> DEFINE y == [node |-> order[n], state |-> s]
    <3>1. y \in Calls(out) /\ y.node = order[n] /\ y.state = s
      BY <1>2, <1>3 DEF Calls
    <3>2. Call(n, s) = dfs[y]
      BY <2>2
    <3> HIDE DEF y, dfs, Call
    <3>3. ToSet(<< >>) = {}
      BY DEF ToSet
    <3>4. Called(out, y)
      BY <2>2, <3>1, <3>3 DEF Called
    <3>5. Returns(out, y, dfs[y]) /\ Sound(out, dfs[y])
      BY <1>3, <3>1, <3>4, DfsSound DEF dfs
    <3> QED
      BY <3>1, <3>2, <3>5 DEF Returns
  <2> QED
    BY <2>1, <2>2
<1>5. init \in V
  <2>1. << >> \in Seq(N) /\ << >> \in Seq(Seq(N)) /\ ToSet(<< >>) = {} /\ DOMAIN << >> = {}
    BY DEF ToSet
  <2>2. init \in Search(out)
    BY <1>3, <2>1 DEF Search
  <2>3. Settled(out, {})
    BY DEF Settled
  <2>4. IsPath(out, << >>)
    BY <2>1 DEF IsPath
  <2>5. init.done = {} /\ init.stack = << >> /\ init.cycles = << >>
    OBVIOUS
  <2> HIDE DEF init
  <2> QED
    BY <2>1, <2>2, <2>3, <2>4, <2>5 DEF Sound
<1> HIDE DEF init, dfs, V
<1>6. PICK f \in [0 .. L -> V] : f[0] = init /\ \A n \in 1 .. L : f[n] = step[<<n, f[n - 1]>>]
  <2>1. step \in [(1 .. L) \X V -> V]
    BY <1>4
  <2> HIDE DEF step
  <2>2. IsChain(V, L, init, step)
    BY <1>2, <1>5, <2>1 DEF IsChain
  <2> QED
    BY <2>2, Chain
<1>7. visit = [n \in 0 .. L |-> IF n = 0 THEN init ELSE Step(visit, n)]
  <2>1. \A n \in 1 .. L : f[n] = Step(f, n)
    <3> SUFFICES ASSUME NEW n \in 1 .. L PROVE f[n] = Step(f, n)
      OBVIOUS
    <3>1. n - 1 \in 0 .. L /\ f[n - 1] \in V
      BY <1>2
    <3> QED
      BY <1>6, <3>1
  <2>2. f = [n \in 0 .. L |-> IF n = 0 THEN init ELSE Step(f, n)]
    <3> HIDE DEF Step
    <3>1. \A n \in 0 .. L : f[n] = IF n = 0 THEN init ELSE Step(f, n)
      BY <1>2, <1>6, <2>1
    <3> QED
      BY <3>1
  <2> HIDE DEF Step
  <2> QED
    BY <2>2
<1> HIDE DEF visit
<1>8. visit[0] = init /\ \A n \in 1 .. L : visit[n] = Call(n, visit[n - 1])
  <2>1. 0 \in 0 .. L /\ \A n \in 1 .. L : n \in 0 .. L /\ n # 0
    BY <1>2
  <2>2. \A n \in 1 .. L : Step(visit, n) = Call(n, visit[n - 1])
    OBVIOUS
  <2> HIDE DEF Step, Call
  <2> QED
    BY <1>7, <2>1, <2>2
<1> DEFINE Bad == {n \in 0 .. L : ~(visit[n] \in V /\ \A k \in 1 .. n : order[k] \in visit[n].done)}
<1> HIDE DEF Call
<1>9. \A n \in Bad : \E k \in Bad : k < n
  <2> SUFFICES ASSUME NEW n \in 0 .. L, ~(visit[n] \in V /\ \A k \in 1 .. n : order[k] \in visit[n].done)
               PROVE  n - 1 \in Bad /\ n - 1 < n
    OBVIOUS
  <2>1. n # 0
    BY <1>5, <1>8
  <2>2. n \in 1 .. L /\ n - 1 \in 0 .. L /\ \A k \in 1 .. n : k = n \/ k \in 1 .. n - 1
    BY <1>2, <2>1
  <2>3. ~(visit[n - 1] \in V /\ \A k \in 1 .. n - 1 : order[k] \in visit[n - 1].done)
    BY <1>4, <1>8, <2>2
  <2> QED
    BY <2>2, <2>3
<1>10. Bad = {}
  <2>1. Bad \in SUBSET Nat
    OBVIOUS
  <2> HIDE DEF Bad
  <2> QED
    BY <1>9, <2>1, NoLeast
<1>11. visit[L] \in V /\ ToSet(order) \subseteq visit[L].done
  BY <1>2, <1>10 DEF ToSet
<1> DEFINE s == visit[L]
<1>12. s.cycles \in Seq(Seq(N)) /\ (\A c \in ToSet(s.cycles) : IsRing(out, c))
       /\ (s.cycles = <<>> => Settled(out, s.done)) /\ ToSet(order) \subseteq s.done
  <2> HIDE DEF s
  <2>1. s \in V
    BY <1>11 DEF s
  <2>2. s \in Search(out) /\ Sound(out, s)
    BY <2>1 DEF V
  <2> QED
    BY <1>3, <1>11, <2>2 DEF Search, Sound, s
<1> QED
  BY <1>1, <1>12 DEF out

\* What lies ahead by at most as many edges as the search goes deep is reached.
LEMMA ReachIs ==
  ASSUME NEW start, NEW edges, NEW depth, depth \in Nat, NEW K \in 0 .. depth, NEW g, g[0] = start,
         \A k \in 1 .. K : <<g[k - 1], g[k]>> \in edges
  PROVE  g[K] \in Reach(start, edges, depth) \cup {start}
<1> DEFINE X == {e[2] : e \in edges} \cup {start}
           W == [seen : SUBSET X, frontier : SUBSET X]
           Ahead1(w) == {e[2] : e \in {x \in edges : x[1] \in w.frontier}} \ (w.seen \cup {start})
           On(w) == [seen |-> w.seen \cup Ahead1(w), frontier |-> Ahead1(w)]
           init == [seen |-> {}, frontier |-> {start}]
           Step(f, n) == On(f[n - 1])
           wave == CHOOSE f : f = [n \in 0 .. depth |-> IF n = 0 THEN init ELSE Step(f, n)]
           step == [p \in (1 .. depth) \X W |-> On(p[2])]
<1>1. Reach(start, edges, depth) = wave[depth].seen
  BY DEF Reach
<1>2. \A w \in W : On(w) \in W
  <2> SUFFICES ASSUME NEW w \in W PROVE On(w) \in W
    OBVIOUS
  <2>1. Ahead1(w) \subseteq X
    OBVIOUS
  <2>2. w.seen \subseteq X
    OBVIOUS
  <2> HIDE DEF X, Ahead1
  <2> QED
    BY <2>1, <2>2
<1>3. init \in W
  OBVIOUS
<1>4. \A w : On(w).seen = w.seen \cup Ahead1(w) /\ On(w).frontier = Ahead1(w)
  OBVIOUS
<1> HIDE DEF On, W, init
<1>5. PICK f \in [0 .. depth -> W] : f[0] = init /\ \A n \in 1 .. depth : f[n] = step[<<n, f[n - 1]>>]
  <2>1. step \in [(1 .. depth) \X W -> W]
    BY <1>2
  <2> HIDE DEF step
  <2>2. IsChain(W, depth, init, step)
    BY <1>3, <2>1 DEF IsChain
  <2> HIDE DEF Ahead1, Step, wave
  <2>3. \E f \in [0 .. depth -> W] : f[0] = init /\ \A n \in 1 .. depth : f[n] = step[<<n, f[n - 1]>>]
    BY ONLY <2>2, Chain
  <2> QED
    BY <2>3
<1>6. wave = [n \in 0 .. depth |-> IF n = 0 THEN init ELSE Step(wave, n)]
  <2>1. \A n \in 1 .. depth : f[n] = Step(f, n)
    <3> SUFFICES ASSUME NEW n \in 1 .. depth PROVE f[n] = Step(f, n)
      OBVIOUS
    <3>1. n - 1 \in 0 .. depth /\ f[n - 1] \in W
      OBVIOUS
    <3> QED
      BY <1>5, <3>1
  <2>2. f = [n \in 0 .. depth |-> IF n = 0 THEN init ELSE Step(f, n)]
    <3> HIDE DEF Step
    <3>1. \A n \in 0 .. depth : f[n] = IF n = 0 THEN init ELSE Step(f, n)
      BY <1>5, <2>1
    <3> QED
      BY <3>1
  <2> HIDE DEF Step
  <2> QED
    BY <2>2
<1> HIDE DEF wave
<1>7. wave[0] = init /\ \A n \in 1 .. depth : wave[n] = On(wave[n - 1])
  <2>1. 0 \in 0 .. depth /\ \A n \in 1 .. depth : n \in 0 .. depth /\ n # 0
    OBVIOUS
  <2> QED
    BY <1>6, <2>1
\* All that the walk has met by its nth node, and where else the edges can lead.
<1> DEFINE Met(w) == w.seen \cup {start}
           Kept(w, n) == /\ w.frontier \subseteq Met(w)
                         /\ \A e \in edges : e[1] \in Met(w) \ w.frontier => e[2] \in Met(w)
                         /\ \A k \in 0 .. K : k <= n => g[k] \in Met(w)
<1>8. Kept(wave[0], 0)
  BY <1>7 DEF init
<1>9. ASSUME NEW n \in 1 .. depth, Kept(wave[n - 1], n - 1) PROVE Kept(wave[n], n)
  <2> DEFINE w == wave[n - 1]
             v == wave[n]
  <2>1. v.seen = w.seen \cup Ahead1(w) /\ v.frontier = Ahead1(w)
    <3>1. v = On(w)
      BY <1>7
    <3> HIDE DEF w, v, Ahead1
    <3> QED
      BY <1>4, <3>1
  <2>2. Met(v) = Met(w) \cup Ahead1(w) /\ Ahead1(w) \cap Met(w) = {}
    BY <2>1
  <2>3. Kept(w, n - 1)
    BY <1>9
  <2> HIDE DEF w, v
  <2>4. \A e \in edges : e[1] \in Met(w) => e[2] \in Met(v)
    BY <2>2, <2>3
  <2>5. \A k \in 0 .. K : k <= n => g[k] \in Met(v)
    <3> SUFFICES ASSUME NEW k \in 0 .. K, k <= n PROVE g[k] \in Met(v)
      OBVIOUS
    <3>1. CASE k = n
      <4>1. k \in 1 .. K /\ k - 1 \in 0 .. K /\ k - 1 <= n - 1
        BY <3>1
      <4>2. g[k - 1] \in Met(w) /\ <<g[k - 1], g[k]>> \in edges
        BY <2>3, <4>1
      <4> DEFINE e == <<g[k - 1], g[k]>>
      <4>3. e \in edges /\ e[1] \in Met(w) /\ e[2] = g[k]
        BY <4>2
      <4> HIDE DEF e, Met
      <4> QED
        BY <2>4, <4>3
    <3>2. CASE k # n
      <4>1. k <= n - 1
        BY <3>2
      <4> QED
        BY <2>2, <2>3, <4>1
    <3> QED
      BY <3>1, <3>2
  <2>6. v.frontier \subseteq Met(v)
    BY <2>1
  <2>7. \A e \in edges : e[1] \in Met(v) \ v.frontier => e[2] \in Met(v)
    BY <2>1, <2>2, <2>4
  <2> HIDE DEF Met
  <2>8. Kept(v, n)
    BY <2>5, <2>6, <2>7
  <2> QED
    BY <2>8 DEF v
<1> HIDE DEF Kept
<1>10. Kept(wave[depth], depth)
  <2> DEFINE Bad == {n \in 0 .. depth : ~Kept(wave[n], n)}
  <2>1. \A n \in Bad : \E k \in Bad : k < n
    <3> SUFFICES ASSUME NEW n \in 0 .. depth, ~Kept(wave[n], n) PROVE n - 1 \in Bad /\ n - 1 < n
      OBVIOUS
    <3>1. n # 0
      BY <1>8
    <3>2. n \in 1 .. depth /\ n - 1 \in 0 .. depth
      BY <3>1
    <3> QED
      BY <1>9, <3>2
  <2>2. Bad \in SUBSET Nat
    OBVIOUS
  <2>3. Bad = {}
    <3> HIDE DEF Bad
    <3> QED
      BY <2>1, <2>2, NoLeast
  <2> QED
    BY <2>3
<1> QED
  BY <1>1, <1>10 DEF Kept, Met

\* What a ring's nodes can be on: each is ahead of each other, and behind it.
LEMMA RingReaches ==
  ASSUME NEW out, NEW p, NEW N, p \in Seq(N), IsRing(out, p), NEW edges,
         \A u, v : <<u, v>> \in edges <=> Goes(out, u, v),
         NEW depth \in Nat, Len(p) <= depth, NEW i \in DOMAIN p, NEW j \in DOMAIN p
  PROVE  /\ p[j] \in Reach(p[i], edges, depth) \cup {p[i]}
         /\ p[j] \in Reach(p[i], {<<e[2], e[1]>> : e \in edges}, depth) \cup {p[i]}
<1> DEFINE L == Len(p)
           Fore(k) == IF i + k <= L THEN i + k ELSE i + k - L
           Back(k) == IF i - k >= 1 THEN i - k ELSE i - k + L
<1>1. L \in Nat /\ DOMAIN p = 1 .. L
  OBVIOUS
<1> HIDE DEF L
<1>2. /\ \A k \in 1 .. L : k + 1 \in 1 .. L => Goes(out, p[k], p[k + 1])
      /\ Goes(out, p[L], p[1])
  BY <1>1 DEF IsRing, IsPath, L
<1>3. \E K \in 0 .. L - 1 : Fore(K) = j
  <2>1. CASE j >= i
    <3>1. j - i \in 0 .. L - 1 /\ Fore(j - i) = j
      BY <1>1, <2>1
    <3> QED
      BY <3>1
  <2>2. CASE j < i
    <3>1. j - i + L \in 0 .. L - 1 /\ Fore(j - i + L) = j
      BY <1>1, <2>2
    <3> QED
      BY <3>1
  <2> QED
    BY <1>1, <2>1, <2>2
<1>4. \E K \in 0 .. L - 1 : Back(K) = j
  <2>1. CASE j <= i
    <3>1. i - j \in 0 .. L - 1 /\ Back(i - j) = j
      BY <1>1, <2>1
    <3> QED
      BY <3>1
  <2>2. CASE j > i
    <3>1. i - j + L \in 0 .. L - 1 /\ Back(i - j + L) = j
      BY <1>1, <2>2
    <3> QED
      BY <3>1
  <2> QED
    BY <1>1, <2>1, <2>2
<1>5. \A k \in 1 .. L - 1 :
        \/ Fore(k - 1) \in 1 .. L /\ Fore(k) = Fore(k - 1) + 1 /\ Fore(k) \in 1 .. L
        \/ Fore(k - 1) = L /\ Fore(k) = 1
  BY <1>1, SMTT(30)
<1>6. \A k \in 1 .. L - 1 :
        \/ Back(k) \in 1 .. L /\ Back(k - 1) = Back(k) + 1 /\ Back(k - 1) \in 1 .. L
        \/ Back(k) = L /\ Back(k - 1) = 1
  BY <1>1
<1>7. Fore(0) = i /\ Back(0) = i
  BY <1>1
<1> HIDE DEF Fore, Back
<1>8. \A k \in 1 .. L - 1 : Goes(out, p[Fore(k - 1)], p[Fore(k)]) /\ Goes(out, p[Back(k)], p[Back(k - 1)])
  BY <1>2, <1>5, <1>6
<1>9. p[j] \in Reach(p[i], edges, depth) \cup {p[i]}
  <2>1. PICK K \in 0 .. L - 1 : Fore(K) = j
    BY <1>3
  <2> DEFINE g == [k \in 0 .. L - 1 |-> p[Fore(k)]]
  <2>2. K \in 0 .. depth /\ 0 \in 0 .. L - 1 /\ \A k \in 1 .. K : k \in 1 .. L - 1 /\ k \in 0 .. L - 1 /\ k - 1 \in 0 .. L - 1
    BY <1>1 DEF L
  <2>3. g[0] = p[i] /\ g[K] = p[j] /\ \A k \in 1 .. K : <<g[k - 1], g[k]>> \in edges
    BY <1>7, <1>8, <2>1, <2>2
  <2> HIDE DEF g
  <2>4. g[K] \in Reach(p[i], edges, depth) \cup {p[i]}
    BY <2>2, <2>3, ReachIs
  <2> QED
    BY <2>3, <2>4
<1>10. p[j] \in Reach(p[i], {<<e[2], e[1]>> : e \in edges}, depth) \cup {p[i]}
  <2> DEFINE back == {<<e[2], e[1]>> : e \in edges}
  <2>1. PICK K \in 0 .. L - 1 : Back(K) = j
    BY <1>4
  <2> DEFINE g == [k \in 0 .. L - 1 |-> p[Back(k)]]
  <2>2. K \in 0 .. depth /\ 0 \in 0 .. L - 1 /\ \A k \in 1 .. K : k \in 1 .. L - 1 /\ k \in 0 .. L - 1 /\ k - 1 \in 0 .. L - 1
    BY <1>1 DEF L
  <2>3. \A u, v : <<u, v>> \in edges => <<v, u>> \in back
    OBVIOUS
  <2> HIDE DEF back
  <2>4. g[0] = p[i] /\ g[K] = p[j] /\ \A k \in 1 .. K : <<g[k - 1], g[k]>> \in back
    BY <1>7, <1>8, <2>1, <2>2, <2>3
  <2> HIDE DEF g
  <2>5. g[K] \in Reach(p[i], back, depth) \cup {p[i]}
    BY <2>2, <2>4, ReachIs
  <2> QED
    BY <2>4, <2>5 DEF back
<1> QED
  BY <1>9, <1>10

LEMMA RoundTheRing == \A L \in Nat : \A i \in 1 .. L : (i % L) + 1 = IF i = L THEN 1 ELSE i + 1
<1> SUFFICES ASSUME NEW L \in Nat, NEW i \in 1 .. L PROVE (i % L) + 1 = IF i = L THEN 1 ELSE i + 1
  OBVIOUS
<1>1. CASE i = L
  <2>1. L % L = 0
    OBVIOUS
  <2> QED
    BY <1>1, <2>1
<1>2. CASE i # L
  <2>1. i \in Nat /\ i < L
    BY <1>2
  <2>2. i % L = i
    BY <2>1
  <2> QED
    BY <1>2, <2>2
<1> QED
  BY <1>1, <1>2

LEMMA TargetsListed ==
  ASSUME NEW s, IsSource(s), NEW cid, NEW kind, NEW pid, NEW resolver
  PROVE  \E T : Targets(cid, kind, ParseEdges(Sidecar(s)), pid, resolver) \in Seq(T)
<1> DEFINE set == Typeset(s.files)
           S == {i \in DOMAIN set : set[i].k = "edge"}
           drawn == Picked(set, S)
           aux == Sidecar(s)
           Read(x) == IF s.piped THEN x ELSE SplitV01(x.kind, x.source \o x.target)
           read == [i \in DOMAIN drawn |-> Read(drawn[i])]
           R == {i \in DOMAIN read : read[i].source # << >> /\ read[i].target # << >>}
           T == {Read(x) : x \in ToSet(drawn)}
<1>1. drawn \in Seq(Line)
  <2>1. set \in Seq(Line) /\ S \subseteq DOMAIN set
    BY TypesetLines
  <2> HIDE DEF set, S
  <2> QED
    BY <2>1, Picks
<1>2. aux.edges = drawn /\ aux.piped = s.piped
  BY DEF Sidecar, CompileSidecar
<1>3. ParseEdges(aux) = Picked(read, R)
  <2> HIDE DEF aux, drawn
  <2> QED
    BY <1>2 DEF ParseEdges
<1> HIDE DEF drawn, aux, Read
<1>4. read \in Seq(T)
  <2>1. Len(drawn) \in Nat /\ DOMAIN drawn = 1 .. Len(drawn)
    BY <1>1
  <2>2. \A i \in 1 .. Len(drawn) : Read(drawn[i]) \in T
    BY <2>1 DEF ToSet
  <2>3. read \in [1 .. Len(drawn) -> T]
    BY <2>1, <2>2
  <2> QED
    BY <2>1, <2>3
<1> HIDE DEF read, T
<1>5. ParseEdges(aux) \in Seq(T)
  <2>1. R \subseteq DOMAIN read
    OBVIOUS
  <2> HIDE DEF R
  <2> QED
    BY <1>3, <1>4, <2>1, Picks
<1> DEFINE edges == ParseEdges(aux)
           Q == {i \in DOMAIN edges : edges[i].kind = kind /\ ResolveEndpoint(edges[i].source, pid, resolver) = cid}
           mine == Picked(edges, Q)
           U == {ResolveEndpoint(x.target, pid, resolver) : x \in T}
<1>6. Targets(cid, kind, edges, pid, resolver) = [i \in DOMAIN mine |-> ResolveEndpoint(mine[i].target, pid, resolver)]
  BY DEF Targets
<1>7. edges \in Seq(T) /\ Q \subseteq DOMAIN edges
  BY <1>5
<1> HIDE DEF edges, Q
<1>8. mine \in Seq(T)
  BY <1>7, Picks
<1> HIDE DEF mine
<1>9. Len(mine) \in Nat /\ DOMAIN mine = 1 .. Len(mine) /\ \A i \in 1 .. Len(mine) : mine[i] \in T
  BY <1>8
<1>10. [i \in DOMAIN mine |-> ResolveEndpoint(mine[i].target, pid, resolver)] \in Seq(U)
  <2>1. \A i \in 1 .. Len(mine) : ResolveEndpoint(mine[i].target, pid, resolver) \in U
    BY <1>9
  <2> HIDE DEF U
  <2>2. [i \in DOMAIN mine |-> ResolveEndpoint(mine[i].target, pid, resolver)] \in [1 .. Len(mine) -> U]
    BY <1>9, <2>1
  <2> QED
    BY <1>9, <2>2
<1>11. Targets(cid, kind, edges, pid, resolver) \in Seq(U)
  BY <1>6, <1>10
<1> QED
  BY <1>11 DEF edges, aux

LEMMA CirHasEdges ==
  ASSUME NEW front, NEW c, IsCirOf(front, c), NEW kind \in EdgeKinds
  PROVE  HasEdges(c.claims, kind)
<1>1. /\ IsSidecarOf(front, c.aux)
      /\ AreRecords(c.claims, c.id, CirNodes(c), c.aux, SourceMap(Paper(c.of)))
  BY CirIs
<1> DEFINE N == RecordCount(CirNodes(c))
<1>2. /\ c.claims \in Seq({c.claims[n] : n \in 1 .. N}) /\ DOMAIN c.claims = 1 .. N
  BY <1>1 DEF AreRecords
<1> HIDE DEF N
<1>3. c.claims \in Seq(ToSet(c.claims))
  <2>1. ToSet(c.claims) = {c.claims[n] : n \in 1 .. N}
    BY <1>2 DEF ToSet
  <2> QED
    BY <1>2, <2>1
<1>4. PICK t : IsSource(t) /\ c.aux = Sidecar(t)
  BY <1>1 DEF IsSidecarOf
<1>5. ASSUME NEW n \in DOMAIN c.claims PROVE \E T : c.claims[n].edges[kind] \in Seq(T)
  <2>1. c.claims[n].edges[kind] = Targets(c.claims[n].id, kind, ParseEdges(Sidecar(t)), c.id,
                                          LabelResolver(CirNodes(c), c.id))
    BY <1>4, CirClaims
  <2> QED
    BY <1>4, <2>1, TargetsListed
<1> QED
  BY <1>3, <1>5 DEF HasEdges, ToSet

\* What CyclesFound says of one order in which the nodes are tried.
CyclesTold(claims, kind, order) ==
  LET edges == GraphEdges(claims, kind)
      nodes == GraphNodes(claims)
      found == FindCycles(claims, kind, order)
  IN /\ found = <<>> <=> ~\E S \in (SUBSET nodes) \ {{}} : \A u \in S : \E v \in S : <<u, v>> \in edges
     /\ \A path \in ToSet(found) :
          /\ path # <<>>
          /\ \A i, j \in DOMAIN path : path[i] = path[j] => i = j
          /\ \A i \in DOMAIN path : <<path[i], path[(i % Len(path)) + 1]>> \in edges
          /\ ToSet(path) \cap DanglingTargets(claims, {kind}) = {}
          /\ \A u \in ToSet(path) \cap nodes :
               ToSet(path) \ {u} \subseteq Reach(u, edges, Cardinality(nodes))
                                        \cap Reach(u, {<<e[2], e[1]>> : e \in edges}, Cardinality(nodes))

\* A ring's nodes are claims, and no more than there are.
LEMMA RingIs ==
  ASSUME NEW claims, NEW kind, HasEdges(claims, kind), NEW N, NEW p \in Seq(N), IsRing(Outgoing(claims, kind), p)
  PROVE  /\ \A i \in DOMAIN p : <<p[i], p[(i % Len(p)) + 1]>> \in GraphEdges(claims, kind) /\ (i % Len(p)) + 1 \in DOMAIN p
         /\ ToSet(p) \subseteq GraphNodes(claims) /\ ToSet(p) # {}
         /\ Len(p) <= Cardinality(GraphNodes(claims)) /\ Cardinality(GraphNodes(claims)) \in Nat
<1> DEFINE out == Outgoing(claims, kind)
           L == Len(p)
<1>1. \A u, v : <<u, v>> \in GraphEdges(claims, kind) <=> Goes(out, u, v)
  BY GraphIs
<1>2. L \in Nat /\ DOMAIN p = 1 .. L /\ L # 0
  BY DEF IsRing
<1>3. /\ \A i \in 1 .. L : i + 1 \in 1 .. L => Goes(out, p[i], p[i + 1])
      /\ Goes(out, p[L], p[1]) /\ \A i, j \in 1 .. L : p[i] = p[j] => i = j
  BY <1>2 DEF IsRing, IsPath
<1> HIDE DEF out, L
<1>4. \A i \in 1 .. L : (i % L) + 1 = IF i = L THEN 1 ELSE i + 1
  BY <1>2, RoundTheRing
<1>5. ASSUME NEW i \in 1 .. L PROVE Goes(out, p[i], p[(i % L) + 1]) /\ (i % L) + 1 \in 1 .. L
  <2> DEFINE m == (i % L) + 1
  <2>1. m = IF i = L THEN 1 ELSE i + 1
    BY <1>4
  <2> HIDE DEF m
  <2>2. CASE i = L
    BY <1>2, <1>3, <2>1, <2>2 DEF m
  <2>3. CASE i # L
    <3>1. i + 1 \in 1 .. L
      BY <1>2, <2>3
    <3> QED
      BY <1>3, <2>1, <2>3, <3>1 DEF m
  <2> QED
    BY <2>2, <2>3
<1>6. \A i \in 1 .. L : <<p[i], p[(i % L) + 1]>> \in GraphEdges(claims, kind)
  BY <1>1, <1>5
<1>7. \A i \in 1 .. L : p[i] \in GraphNodes(claims)
  BY <1>6 DEF GraphEdges
<1>8. ToSet(p) \subseteq GraphNodes(claims) /\ ToSet(p) # {}
  BY <1>2, <1>7 DEF ToSet
<1>9. Cardinality(GraphNodes(claims)) \in Nat /\ L <= Cardinality(GraphNodes(claims))
  <2>1. IsFiniteSet(GraphNodes(claims))
    BY GraphIs
  <2>2. IsFiniteSet(1 .. L) /\ Cardinality(1 .. L) = L
    BY <1>2, IntervalCount
  <2> DEFINE f == [i \in 1 .. L |-> p[i]]
  <2>3. f \in Injection(1 .. L, GraphNodes(claims))
    BY <1>3, <1>7 DEF Injection, IsInjective
  <2> HIDE DEF f
  <2>4. Cardinality(1 .. L) <= Cardinality(GraphNodes(claims))
    BY <2>1, <2>3, FS_Injection
  <2> QED
    BY <2>1, <2>2, <2>4, FS_CardinalityType
<1> QED
  BY <1>2, <1>5, <1>6, <1>8, <1>9 DEF L

LEMMA NoClaimDangles ==
  ASSUME NEW claims, NEW kinds
  PROVE  DanglingTargets(claims, kinds) \cap GraphNodes(claims) = {}
BY DEF DanglingTargets

LEMMA CyclesAreTold ==
  ASSUME NEW claims, NEW kind, HasEdges(claims, kind), NEW order \in SetToSeqs(GraphNodes(claims))
  PROVE  CyclesTold(claims, kind, order)
<1> DEFINE out == Outgoing(claims, kind)
           N == GraphEnds(out)
           nodes == GraphNodes(claims)
           edges == GraphEdges(claims, kind)
           found == FindCycles(claims, kind, order)
           Card == Cardinality(nodes)
<1>1. /\ IsGraph(out) /\ IsFiniteSet(nodes) /\ DOMAIN out = nodes
      /\ \A u, v : <<u, v>> \in edges <=> Goes(out, u, v)
  BY GraphIs
<1>2. nodes \subseteq N
  BY <1>1 DEF GraphEnds
<1> HIDE DEF out, N, nodes, edges, found
<1>3. Card \in Nat
  BY <1>1, FS_CardinalityType
<1>4. order \in [1 .. Card -> nodes] /\ \A i, j \in 1 .. Card : i # j => order[i] # order[j]
  BY DEF SetToSeqs, nodes
<1> HIDE DEF Card
<1>5. order \in Seq(N)
  <2>1. order \in Seq(nodes)
    BY <1>3, <1>4
  <2> QED
    BY <1>2, <1>3, <1>4, <2>1
<1>6. ToSet(order) = nodes
  <2>1. order \in Injection(1 .. Card, nodes)
    BY <1>4 DEF Injection, IsInjective
  <2>2. Cardinality(1 .. Card) = Cardinality(nodes)
    BY <1>3, IntervalCount DEF Card
  <2>3. order \in Surjection(1 .. Card, nodes)
    BY <1>1, <2>1, <2>2, FS_Injection
  <2> QED
    BY <1>4, <2>3 DEF Surjection, ToSet
<1>7. /\ found \in Seq(Seq(N)) /\ \A c \in ToSet(found) : IsRing(out, c)
      /\ found = <<>> => \E done : Settled(out, done) /\ ToSet(order) \subseteq done
  BY <1>1, <1>5, FoundIs DEF out, N, found
<1>8. ASSUME NEW p \in ToSet(found)
      PROVE  /\ p \in Seq(N) /\ IsRing(out, p)
             /\ \A i \in DOMAIN p : <<p[i], p[(i % Len(p)) + 1]>> \in edges /\ (i % Len(p)) + 1 \in DOMAIN p
             /\ ToSet(p) \subseteq nodes /\ ToSet(p) # {} /\ Len(p) <= Card
  <2>1. p \in Seq(N) /\ IsRing(out, p)
    BY <1>7, ElementsFinite
  <2> QED
    BY <2>1, RingIs DEF out, nodes, edges, Card
<1>9. found = <<>> => ~\E S \in (SUBSET nodes) \ {{}} : \A u \in S : \E v \in S : <<u, v>> \in edges
  <2> SUFFICES ASSUME found = <<>>, NEW S \in SUBSET nodes, \A u \in S : \E v \in S : <<u, v>> \in edges PROVE S = {}
    OBVIOUS
  <2>1. PICK done : Settled(out, done) /\ ToSet(order) \subseteq done
    BY <1>7
  <2>2. S \in SUBSET done /\ \A u \in S : \E v \in S : Goes(out, u, v)
    BY <1>1, <1>6, <2>1
  <2> QED
    BY <2>1, <2>2 DEF Settled
<1>10. found # <<>> => \E S \in (SUBSET nodes) \ {{}} : \A u \in S : \E v \in S : <<u, v>> \in edges
  <2> SUFFICES ASSUME found # <<>> PROVE \E S \in (SUBSET nodes) \ {{}} : \A u \in S : \E v \in S : <<u, v>> \in edges
    OBVIOUS
  <2>1. PICK p : p \in ToSet(found)
    <3>1. 1 \in DOMAIN found
      BY <1>7
    <3> QED
      BY <3>1 DEF ToSet
  <2>2. \A u \in ToSet(p) : \E v \in ToSet(p) : <<u, v>> \in edges
    BY <1>8, <2>1 DEF ToSet
  <2> QED
    BY <1>8, <2>1, <2>2
<1>11. ASSUME NEW p \in ToSet(found)
       PROVE  /\ p # <<>> /\ \A i, j \in DOMAIN p : p[i] = p[j] => i = j
              /\ \A i \in DOMAIN p : <<p[i], p[(i % Len(p)) + 1]>> \in edges
              /\ ToSet(p) \cap DanglingTargets(claims, {kind}) = {}
  <2>1. p # <<>> /\ \A i, j \in DOMAIN p : p[i] = p[j] => i = j
    BY <1>8 DEF IsRing, IsPath
  <2>2. DanglingTargets(claims, {kind}) \cap nodes = {}
    BY NoClaimDangles DEF nodes
  <2> QED
    BY <1>8, <2>1, <2>2
<1>12. ASSUME NEW p \in ToSet(found), NEW u \in ToSet(p)
       PROVE  ToSet(p) \ {u} \subseteq Reach(u, edges, Card) \cap Reach(u, {<<e[2], e[1]>> : e \in edges}, Card)
  <2>1. PICK i \in DOMAIN p : p[i] = u
    BY DEF ToSet
  <2>2. p \in Seq(N) /\ IsRing(out, p) /\ Len(p) <= Card
    BY <1>8
  <2>3. ASSUME NEW j \in DOMAIN p
        PROVE  p[j] \in Reach(u, edges, Card) \cup {u} /\ p[j] \in Reach(u, {<<e[2], e[1]>> : e \in edges}, Card) \cup {u}
    BY <1>1, <1>3, <2>1, <2>2, RingReaches
  <2> QED
    BY <2>3 DEF ToSet
<1> QED
  BY <1>9, <1>10, <1>11, <1>12 DEF Card, CyclesTold, found, nodes, edges

\* CyclesFound: whatever the claims' edges and in whatever order the nodes are tried, cycles are
\* reported exactly when there are some, and what is reported are cycles.
THEOREM CyclesAreFound == Spec => []CyclesFound
<1>1. IInv => CyclesFound
  <2> SUFFICES ASSUME IInv, GraphEdges(cir.claims, "depends_on") # {},
                      NEW order \in SetToSeqs(GraphNodes(cir.claims))
               PROVE  CyclesTold(cir.claims, "depends_on", order)
    BY DEF CyclesFound, CyclesTold, AssertNoCycles, Dependencies, Dependents
  <2>1. cir # NoCir
    <3>1. NoCir.claims = << >> /\ ToSet(<< >>) = {}
      BY DEF NoCir, ToSet
    <3>2. GraphNodes(NoCir.claims) = {}
      BY <3>1 DEF GraphNodes
    <3>3. GraphEdges(NoCir.claims, "depends_on") = {}
      BY <3>2 DEF GraphEdges
    <3> QED
      BY <3>3
  <2>2. HasEdges(cir.claims, "depends_on")
    BY <2>1, CirHasEdges DEF IInv, EdgeKinds
  <2> QED
    BY <2>2, CyclesAreTold
<1> QED
  BY <1>1, Invariant, PTL

-----------------------------------------------------------------------------
(***************************************************************************)
(* Authors. Each layer keeps one author to a name; a record of the sidecar *)
(* and one of rrxiv-meta.json each go to the author of their name.         *)
(***************************************************************************)

NamesOf(authors) == {authors[i]["name"] : i \in DOMAIN authors}
OncePerName(authors) == \A i, j \in DOMAIN authors : authors[i]["name"] = authors[j]["name"] => i = j

\* The fields AuthorsMerged is about.
Told == {"orcid", "role", "affiliation"}

LEMMA AppendIs ==
  ASSUME NEW T, NEW s \in Seq(T), NEW a \in T
  PROVE  /\ Append(s, a) \in Seq(T) /\ DOMAIN Append(s, a) = DOMAIN s \cup {Len(s) + 1}
         /\ Len(s) + 1 \notin DOMAIN s /\ Append(s, a)[Len(s) + 1] = a
         /\ \A i \in DOMAIN s : Append(s, a)[i] = s[i]
<1>1. Len(s) \in Nat /\ DOMAIN s = 1 .. Len(s)
  OBVIOUS
<1>2. Append(s, a) \in Seq(T) /\ Len(Append(s, a)) = Len(s) + 1 /\ Append(s, a)[Len(s) + 1] = a
      /\ \A i \in 1 .. Len(s) : Append(s, a)[i] = s[i]
  BY AppendProperties
<1>3. DOMAIN Append(s, a) = 1 .. Len(s) + 1
  BY <1>2
<1> QED
  BY <1>1, <1>2, <1>3

\* A new name is added once.
LEMMA NewName ==
  ASSUME NEW T, NEW done \in Seq(T), NEW a \in T, OncePerName(done), Named(done, a["name"]) = {}
  PROVE  OncePerName(Append(done, a)) /\ NamesOf(Append(done, a)) = NamesOf(done) \cup {a["name"]}
<1> DEFINE more == Append(done, a)
           L == Len(done) + 1
<1>1. /\ DOMAIN more = DOMAIN done \cup {L} /\ L \notin DOMAIN done /\ more[L] = a
      /\ \A i \in DOMAIN done : more[i] = done[i]
  BY AppendIs
<1> HIDE DEF more, L
<1>2. \A i \in DOMAIN done : done[i]["name"] # a["name"]
  BY DEF Named
<1>3. OncePerName(more)
  BY <1>1, <1>2 DEF OncePerName
<1>4. NamesOf(more) = NamesOf(done) \cup {a["name"]}
  BY <1>1 DEF NamesOf
<1> QED
  BY <1>3, <1>4 DEF more

Bare == {Field("name", x) : x \in STRING}

LEMMA AddNameIs ==
  ASSUME NEW done \in Seq(Bare), OncePerName(done), NEW x \in STRING
  PROVE  AddName(done, x) \in Seq(Bare) /\ OncePerName(AddName(done, x))
         /\ NamesOf(AddName(done, x)) = NamesOf(done) \cup ({x} \ {""})
<1>1. CASE x = ""
  BY <1>1 DEF AddName
<1>2. CASE x # "" /\ Named(done, x) # {}
  <2>1. AddName(done, x) = done
    BY <1>2 DEF AddName
  <2>2. x \in NamesOf(done)
    BY <1>2 DEF Named, NamesOf
  <2> QED
    BY <2>1, <2>2
<1>3. CASE x # "" /\ Named(done, x) = {}
  <2> DEFINE a == Field("name", x)
  <2>1. a \in Bare /\ a["name"] = x
    BY DEF Bare, Field
  <2>2. AddName(done, x) = Append(done, a)
    BY <1>3 DEF AddName
  <2> HIDE DEF a
  <2>3. Append(done, a) \in Seq(Bare)
    BY <2>1, AppendIs
  <2>4. OncePerName(Append(done, a)) /\ NamesOf(Append(done, a)) = NamesOf(done) \cup {x}
    BY <1>3, <2>1, NewName
  <2> QED
    BY <1>3, <2>2, <2>3, <2>4
<1> QED
  BY <1>1, <1>2, <1>3

\* Layer 1: each name once, and no other.
LEMMA TexAuthorsAre ==
  ASSUME NEW names \in Seq(STRING)
  PROVE  /\ TexAuthors(names) \in Seq(Bare) /\ OncePerName(TexAuthors(names))
         /\ NamesOf(TexAuthors(names)) = ToSet(names) \ {""}
<1> DEFINE L == Len(names)
           S == Seq(Bare)
           Step(f, n) == AddName(f[n - 1], names[n])
           add == CHOOSE f : f = [n \in 0 .. L |-> IF n = 0 THEN << >> ELSE Step(f, n)]
           step == [p \in (1 .. L) \X S |-> AddName(p[2], names[p[1]])]
<1>1. L \in Nat /\ DOMAIN names = 1 .. L /\ \A n \in 1 .. L : names[n] \in STRING
  OBVIOUS
<1>2. \A n \in 1 .. L, b \in S : AddName(b, names[n]) \in S
  <2> SUFFICES ASSUME NEW n \in 1 .. L, NEW b \in S PROVE AddName(b, names[n]) \in S
    OBVIOUS
  <2> DEFINE a == Field("name", names[n])
  <2>1. a \in Bare
    BY <1>1 DEF Bare
  <2> HIDE DEF a
  <2>2. Append(b, a) \in S
    BY <2>1, AppendIs
  <2> QED
    BY <2>2 DEF AddName, a
<1>3. TexAuthors(names) = add[L]
  BY DEF TexAuthors
<1> HIDE DEF L, S
<1>4. step \in [(1 .. L) \X S -> S]
  BY <1>2
<1>5. PICK f \in [0 .. L -> S] : f[0] = << >> /\ \A n \in 1 .. L : f[n] = step[<<n, f[n - 1]>>]
  <2>1. << >> \in S
    BY DEF S
  <2> HIDE DEF step
  <2>2. IsChain(S, L, << >>, step)
    BY <1>1, <1>4, <2>1 DEF IsChain
  <2> QED
    BY <2>2, Chain
<1>6. add = [n \in 0 .. L |-> IF n = 0 THEN << >> ELSE Step(add, n)]
  <2>1. \A n \in 1 .. L : f[n] = Step(f, n)
    <3> SUFFICES ASSUME NEW n \in 1 .. L PROVE f[n] = Step(f, n)
      OBVIOUS
    <3>1. n - 1 \in 0 .. L /\ f[n - 1] \in S
      BY <1>1
    <3> QED
      BY <1>5, <3>1
  <2>2. f = [n \in 0 .. L |-> IF n = 0 THEN << >> ELSE Step(f, n)]
    <3> HIDE DEF Step
    <3>1. \A n \in 0 .. L : f[n] = IF n = 0 THEN << >> ELSE Step(f, n)
      BY <1>1, <1>5, <2>1
    <3> QED
      BY <3>1
  <2> HIDE DEF Step
  <2> QED
    BY <2>2
<1> HIDE DEF add
<1>7. add[0] = << >> /\ \A n \in 1 .. L : add[n] = Step(add, n)
  <2>1. 0 \in 0 .. L /\ \A n \in 1 .. L : n \in 0 .. L /\ n # 0
    BY <1>1
  <2> HIDE DEF Step
  <2> QED
    BY <1>6, <2>1
<1> DEFINE Good(n) == add[n] \in Seq(Bare) /\ OncePerName(add[n]) /\ NamesOf(add[n]) = {names[i] : i \in 1 .. n} \ {""}
<1>8. Good(0)
  <2>1. << >> \in Seq(Bare) /\ OncePerName(<< >>) /\ NamesOf(<< >>) = {}
    BY DEF OncePerName, NamesOf
  <2> QED
    BY <1>7, <2>1
<1>9. ASSUME NEW n \in 1 .. L, Good(n - 1) PROVE Good(n)
  <2> DEFINE b == add[n - 1]
             x == names[n]
  <2>1. b \in Seq(Bare) /\ OncePerName(b) /\ NamesOf(b) = {names[i] : i \in 1 .. n - 1} \ {""} /\ x \in STRING
    BY <1>1, <1>9
  <2>2. add[n] = AddName(b, x)
    BY <1>7
  <2>3. {names[i] : i \in 1 .. n} = {names[i] : i \in 1 .. n - 1} \cup {x}
    <3>1. 1 .. n = (1 .. n - 1) \cup {n}
      BY <1>1
    <3> QED
      BY <3>1
  <2> HIDE DEF b, x
  <2>4. /\ AddName(b, x) \in Seq(Bare) /\ OncePerName(AddName(b, x))
        /\ NamesOf(AddName(b, x)) = NamesOf(b) \cup ({x} \ {""})
    BY <2>1, AddNameIs
  <2> QED
    BY <2>1, <2>2, <2>3, <2>4
<1> HIDE DEF Good
<1>10. \A n \in 0 .. L : Good(n)
  <2> DEFINE Bad == {n \in 0 .. L : ~Good(n)}
  <2>1. \A n \in Bad : \E k \in Bad : k < n
    <3> SUFFICES ASSUME NEW n \in 0 .. L, ~Good(n) PROVE n - 1 \in Bad /\ n - 1 < n
      OBVIOUS
    <3>1. n \in 1 .. L
      BY <1>1, <1>8
    <3> QED
      BY <1>1, <1>9, <3>1
  <2>2. Bad \in SUBSET Nat
    BY <1>1
  <2> HIDE DEF Bad
  <2>3. Bad = {}
    BY <2>1, <2>2, NoLeast
  <2> QED
    BY <2>3 DEF Bad
<1>11. Good(L)
  BY <1>1, <1>10
<1>12. ToSet(names) = {names[i] : i \in 1 .. L}
  BY <1>1 DEF ToSet
<1> QED
  BY <1>3, <1>11, <1>12 DEF Good

AuthorKeys == {"name", "orcid", "role", "affiliation", "email", "is_agent", "agent_handle", "provenance"}
Authors(V) == UNION {[K -> V] : K \in SUBSET AuthorKeys}

LEMMA OverIs ==
  ASSUME NEW V, NEW f \in Authors(V), NEW g \in Authors(V)
  PROVE  Over(f, g) \in Authors(V)
<1>1. PICK K \in SUBSET AuthorKeys : f \in [K -> V]
  BY DEF Authors
<1>2. PICK H \in SUBSET AuthorKeys : g \in [H -> V]
  BY DEF Authors
<1>3. Over(f, g) \in [K \cup H -> V]
  BY <1>1, <1>2 DEF Over
<1>4. K \cup H \in SUBSET AuthorKeys
  OBVIOUS
<1> QED
  BY <1>3, <1>4 DEF Authors

\* What a sidecar's record says of an author: no name, and the fields it gives.
LEMMA SidecarFieldsAre ==
  ASSUME NEW r
  PROVE  LET f == SidecarFields(r)
         IN /\ f = [k \in DOMAIN f |-> f[k]] /\ DOMAIN f \subseteq AuthorKeys \ {"name"}
            /\ \A k \in Told : (k \in DOMAIN f <=> k \in DOMAIN r) /\ (k \in DOMAIN r => f[k] = r[k])
<1> DEFINE a == Only(r, {"orcid", "role", "affiliation", "email", "is_agent"})
           b == Only1(r, "handle", "agent_handle")
           c == IF Descriptor(r) = <<>> THEN NoFields
                ELSE Field("provenance", Field("models", <<Descriptor(r)>>))
           bc == Over(b, c)
           f == Over(a, bc)
<1>1. /\ DOMAIN a = DOMAIN r \cap {"orcid", "role", "affiliation", "email", "is_agent"}
      /\ \A k \in DOMAIN a : a[k] = r[k]
  BY DEF Only
<1>2. DOMAIN b \subseteq {"agent_handle"}
  BY DEF Only1, Field, NoFields
<1>3. DOMAIN c \subseteq {"provenance"}
  BY DEF Field, NoFields
<1>4. SidecarFields(r) = f
  BY DEF SidecarFields
<1> HIDE DEF a, b, c
<1>5. DOMAIN bc \subseteq {"agent_handle", "provenance"}
  BY <1>2, <1>3 DEF Over
<1> HIDE DEF bc
<1>6. /\ f = [k \in DOMAIN a \cup DOMAIN bc |-> IF k \in DOMAIN a THEN a[k] ELSE bc[k]]
      /\ DOMAIN f = DOMAIN a \cup DOMAIN bc
  BY DEF Over
<1> HIDE DEF f
<1>7. f = [k \in DOMAIN f |-> f[k]] /\ \A k \in DOMAIN a : f[k] = a[k]
  BY <1>6
<1>8. DOMAIN f \subseteq AuthorKeys \ {"name"}
  BY <1>1, <1>5, <1>6 DEF AuthorKeys
<1>9. \A k \in Told : (k \in DOMAIN f <=> k \in DOMAIN r) /\ (k \in DOMAIN r => f[k] = r[k])
  BY <1>1, <1>5, <1>6, <1>7 DEF Told
<1> QED
  BY <1>4, <1>7, <1>8, <1>9

\* The records up to the nth: the names they give, those that give an author a field, and
\* what an author has of them, which is what the last one says.
RecordNames(records, n) == {records[j]["name"] : j \in {i \in 1 .. n : "name" \in DOMAIN records[i]}}
Tellers(records, n, name, k) ==
  {j \in 1 .. n : "name" \in DOMAIN records[j] /\ records[j]["name"] = name /\ k \in DOMAIN records[j]}
SaysLast(records, n, a) ==
  \A k \in Told :
    LET tell == Tellers(records, n, a["name"], k)
    IN IF tell = {} THEN k \notin DOMAIN a
       ELSE \E j \in tell : (\A i \in tell : i <= j) /\ k \in DOMAIN a /\ a[k] = records[j][k]

Overlaid(V, tex, records, n, done) ==
  /\ done \in Seq(Authors(V)) /\ OncePerName(done)
  /\ NamesOf(done) = NamesOf(tex) \cup RecordNames(records, n)
  /\ \A i \in DOMAIN done : "name" \in DOMAIN done[i] /\ SaysLast(records, n, done[i])

\* A record changes what is said of its name only.
LEMMA MoreTellers ==
  ASSUME NEW records, NEW n \in Nat \ {0}, NEW name, NEW k
  PROVE  Tellers(records, n, name, k) =
           Tellers(records, n - 1, name, k)
             \cup (IF "name" \in DOMAIN records[n] /\ records[n]["name"] = name /\ k \in DOMAIN records[n]
                   THEN {n} ELSE {})
<1>1. 1 .. n = (1 .. n - 1) \cup {n}
  OBVIOUS
<1> QED
  BY <1>1 DEF Tellers

LEMMA MoreNames ==
  ASSUME NEW records, NEW n \in Nat \ {0}
  PROVE  RecordNames(records, n) =
           RecordNames(records, n - 1) \cup (IF "name" \in DOMAIN records[n] THEN {records[n]["name"]} ELSE {})
<1>1. 1 .. n = (1 .. n - 1) \cup {n}
  OBVIOUS
<1> QED
  BY <1>1 DEF RecordNames

\* What is said of others stays, and what is said of its name is what it says, or what was said.
LEMMA SaysStill ==
  ASSUME NEW records, NEW n \in Nat \ {0}, NEW a, SaysLast(records, n - 1, a),
         "name" \in DOMAIN records[n] => records[n]["name"] # a["name"]
  PROVE  SaysLast(records, n, a)
<1>1. ASSUME NEW k \in Told
      PROVE  Tellers(records, n, a["name"], k) = Tellers(records, n - 1, a["name"], k)
  <2> DEFINE mine == "name" \in DOMAIN records[n] /\ records[n]["name"] = a["name"] /\ k \in DOMAIN records[n]
  <2>1. Tellers(records, n, a["name"], k) = Tellers(records, n - 1, a["name"], k) \cup (IF mine THEN {n} ELSE {})
    BY MoreTellers
  <2>2. ~mine
    OBVIOUS
  <2> HIDE DEF mine
  <2> QED
    BY <2>1, <2>2
<1> QED
  BY <1>1 DEF SaysLast

LEMMA SaysNow ==
  ASSUME NEW records, NEW n \in Nat \ {0}, NEW a, SaysLast(records, n - 1, a),
         "name" \in DOMAIN records[n], records[n]["name"] = a["name"], "name" \in DOMAIN a
  PROVE  LET b == Over(SidecarFields(records[n]), a)
         IN b["name"] = a["name"] /\ "name" \in DOMAIN b /\ SaysLast(records, n, b)
<1> DEFINE r == records[n]
           f == SidecarFields(r)
           b == Over(f, a)
<1>1. /\ DOMAIN f \subseteq AuthorKeys \ {"name"}
      /\ \A k \in Told : (k \in DOMAIN f <=> k \in DOMAIN r) /\ (k \in DOMAIN r => f[k] = r[k])
  BY SidecarFieldsAre
<1> HIDE DEF f
<1>2. /\ DOMAIN b = DOMAIN f \cup DOMAIN a
      /\ \A k \in DOMAIN b : b[k] = IF k \in DOMAIN f THEN f[k] ELSE a[k]
  BY DEF Over
<1> HIDE DEF b
<1>3. "name" \in DOMAIN b /\ b["name"] = a["name"]
  BY <1>1, <1>2
<1>4. ASSUME NEW k \in Told
      PROVE  LET tell == Tellers(records, n, b["name"], k)
             IN IF tell = {} THEN k \notin DOMAIN b
                ELSE \E j \in tell : (\A i \in tell : i <= j) /\ k \in DOMAIN b /\ b[k] = records[j][k]
  <2> DEFINE before == Tellers(records, n - 1, a["name"], k)
             tell == Tellers(records, n, b["name"], k)
  <2>1. tell = before \cup (IF k \in DOMAIN r THEN {n} ELSE {})
    BY <1>3, MoreTellers
  <2>2. before \subseteq 1 .. n - 1
    BY DEF Tellers
  <2>3. IF before = {} THEN k \notin DOMAIN a
        ELSE \E j \in before : (\A i \in before : i <= j) /\ k \in DOMAIN a /\ a[k] = records[j][k]
    BY DEF SaysLast
  <2> HIDE DEF before, tell
  <2>4. CASE k \in DOMAIN r
    <3>1. k \in DOMAIN b /\ b[k] = records[n][k]
      BY <1>1, <1>2, <2>4
    <3>2. n \in tell /\ \A i \in tell : i <= n
      BY <2>1, <2>2, <2>4
    <3>3. tell # {}
      BY <3>2
    <3> QED
      BY <3>1, <3>2, <3>3 DEF tell
  <2>5. CASE k \notin DOMAIN r
    <3>1. tell = before /\ k \notin DOMAIN f
      BY <1>1, <2>1, <2>5
    <3>2. (k \in DOMAIN b <=> k \in DOMAIN a) /\ (k \in DOMAIN a => b[k] = a[k])
      BY <1>2, <3>1
    <3> QED
      BY <2>3, <3>1, <3>2 DEF tell
  <2> QED
    BY <2>4, <2>5
<1>5. SaysLast(records, n, b)
  BY <1>4 DEF SaysLast
<1> QED
  BY <1>3, <1>5 DEF b, f

TakerFits(V, r) == "name" \in DOMAIN r => SidecarFields(r) \in Authors(V) /\ Field("name", r["name"]) \in Authors(V)

LEMMA TakeRecordIs ==
  ASSUME NEW V, NEW tex, NEW records, NEW n \in Nat \ {0}, NEW done,
         Overlaid(V, tex, records, n - 1, done), TakerFits(V, records[n])
  PROVE  Overlaid(V, tex, records, n, TakeRecord(done, records[n]))
<1> DEFINE r == records[n]
           x == r["name"]
           same == Named(done, x)
           f == SidecarFields(r)
<1>1. /\ done \in Seq(Authors(V)) /\ OncePerName(done)
      /\ NamesOf(done) = NamesOf(tex) \cup RecordNames(records, n - 1)
      /\ \A i \in DOMAIN done : "name" \in DOMAIN done[i] /\ SaysLast(records, n - 1, done[i])
  BY DEF Overlaid
<1>2. CASE "name" \notin DOMAIN r
  <2>1. TakeRecord(done, r) = done
    BY <1>2 DEF TakeRecord
  <2>2. RecordNames(records, n) = RecordNames(records, n - 1)
    <3>1. RecordNames(records, n) = RecordNames(records, n - 1) \cup (IF "name" \in DOMAIN r THEN {x} ELSE {})
      BY MoreNames
    <3> QED
      BY <1>2, <3>1
  <2>3. \A i \in DOMAIN done : SaysLast(records, n, done[i])
    BY <1>1, <1>2, SaysStill
  <2> QED
    BY <1>1, <2>1, <2>2, <2>3 DEF Overlaid
<1>3. CASE "name" \in DOMAIN r
  <2>1. RecordNames(records, n) = RecordNames(records, n - 1) \cup {x}
    <3>1. RecordNames(records, n) = RecordNames(records, n - 1) \cup (IF "name" \in DOMAIN r THEN {x} ELSE {})
      BY MoreNames
    <3> QED
      BY <1>3, <3>1
  <2>2. f \in Authors(V) /\ Field("name", x) \in Authors(V)
    BY <1>3 DEF TakerFits
  <2>3. CASE same = {}
    <3> DEFINE b == Field("name", x)
               a == Over(f, b)
               more == Append(done, a)
               L == Len(done) + 1
    <3>1. "name" \in DOMAIN b /\ b["name"] = x /\ Told \cap DOMAIN b = {}
      BY DEF Field, Told
    <3>2. TakeRecord(done, r) = more
      BY <1>3, <2>3 DEF TakeRecord
    <3> HIDE DEF b
    <3>3. SaysLast(records, n - 1, b)
      <4>1. ASSUME NEW k \in Told PROVE Tellers(records, n - 1, b["name"], k) = {} /\ k \notin DOMAIN b
        <5>1. \A i \in DOMAIN done : done[i]["name"] # x
          BY <2>3 DEF Named
        <5>2. x \notin RecordNames(records, n - 1)
          BY <1>1, <5>1 DEF NamesOf
        <5>3. \A j \in 1 .. n - 1 : "name" \in DOMAIN records[j] => records[j]["name"] # x
          BY <5>2 DEF RecordNames
        <5> QED
          BY <3>1, <5>3 DEF Tellers
      <4> QED
        BY <4>1 DEF SaysLast
    <3>4. a["name"] = x /\ "name" \in DOMAIN a /\ SaysLast(records, n, a)
      BY <1>3, <3>1, <3>3, SaysNow
    <3>5. a \in Authors(V)
      BY <2>2, OverIs DEF b
    <3> HIDE DEF a, more, f, L
    <3>6. /\ more \in Seq(Authors(V)) /\ DOMAIN more = DOMAIN done \cup {L} /\ more[L] = a
          /\ \A i \in DOMAIN done : more[i] = done[i]
      BY <1>1, <3>5, AppendIs DEF more, L
    <3>7. OncePerName(more) /\ NamesOf(more) = NamesOf(done) \cup {x}
      BY <1>1, <2>3, <3>4, <3>5, NewName DEF more
    <3>8. \A i \in DOMAIN more : "name" \in DOMAIN more[i] /\ SaysLast(records, n, more[i])
      <4>1. ASSUME NEW i \in DOMAIN done PROVE "name" \in DOMAIN done[i] /\ SaysLast(records, n, done[i])
        <5>1. x # done[i]["name"]
          BY <2>3 DEF Named
        <5> QED
          BY <1>1, <5>1, SaysStill
      <4> QED
        BY <3>4, <3>6, <4>1
    <3> QED
      BY <1>1, <2>1, <3>2, <3>6, <3>7, <3>8 DEF Overlaid
  <2>4. CASE same # {}
    <3> DEFINE m == Min(same)
               a == Over(f, done[m])
               more == [done EXCEPT ![m] = a]
    <3>1. m \in DOMAIN done /\ done[m]["name"] = x
      <4>1. same \in SUBSET Nat
        BY <1>1 DEF Named
      <4>2. m \in same
        BY <2>4, <4>1, SmallestOf
      <4> QED
        BY <4>2 DEF Named
    <3>2. TakeRecord(done, r) = more
      BY <1>3, <2>4 DEF TakeRecord
    <3> HIDE DEF m
    <3>3. a["name"] = x /\ "name" \in DOMAIN a /\ SaysLast(records, n, a)
      BY <1>1, <1>3, <3>1, SaysNow
    <3>4. a \in Authors(V)
      <4>1. done[m] \in Authors(V)
        BY <1>1, <3>1
      <4> HIDE DEF f
      <4> QED
        BY <2>2, <4>1, OverIs
    <3> HIDE DEF a, f, same
    <3>5. /\ more \in Seq(Authors(V)) /\ DOMAIN more = DOMAIN done /\ more[m] = a
          /\ \A i \in DOMAIN done : i # m => more[i] = done[i]
      BY <1>1, <3>1, <3>4
    <3> HIDE DEF more
    <3>6. \A i \in DOMAIN done : more[i]["name"] = done[i]["name"]
      BY <3>1, <3>3, <3>5
    <3>7. OncePerName(more) /\ NamesOf(more) = NamesOf(done) /\ x \in NamesOf(done)
      BY <1>1, <3>1, <3>5, <3>6 DEF OncePerName, NamesOf
    <3>8. \A i \in DOMAIN more : "name" \in DOMAIN more[i] /\ SaysLast(records, n, more[i])
      <4>1. ASSUME NEW i \in DOMAIN done, i # m PROVE "name" \in DOMAIN done[i] /\ SaysLast(records, n, done[i])
        <5>1. x # done[i]["name"]
          BY <1>1, <3>1, <4>1 DEF OncePerName
        <5> QED
          BY <1>1, <5>1, SaysStill
      <4> QED
        BY <3>3, <3>5, <4>1
    <3> QED
      BY <1>1, <2>1, <3>2, <3>5, <3>7, <3>8 DEF Overlaid
  <2> QED
    BY <2>3, <2>4
<1> QED
  BY <1>2, <1>3

\* Layer 2, from authors who are only names.
LEMMA OverlaySidecarIs ==
  ASSUME NEW tex \in Seq(Bare), OncePerName(tex), NEW records, Len(records) \in Nat
  PROVE  \E V : Overlaid(V, tex, records, Len(records), OverlaySidecar(tex, records))
<1> DEFINE L == Len(records)
           V == STRING \cup {records[j]["name"] : j \in 1 .. L}
                  \cup {SidecarFields(records[p[1]])[p[2]] : p \in (1 .. L) \X AuthorKeys}
           Step(f, n) == TakeRecord(f[n - 1], records[n])
           add == CHOOSE f : f = [n \in 0 .. L |-> IF n = 0 THEN tex ELSE Step(f, n)]
<1>1. L \in Nat
  OBVIOUS
<1>2. \A n \in 1 .. L : TakerFits(V, records[n])
  <2> SUFFICES ASSUME NEW n \in 1 .. L
               PROVE  SidecarFields(records[n]) \in Authors(V) /\ Field("name", records[n]["name"]) \in Authors(V)
    BY DEF TakerFits
  <2> DEFINE f == SidecarFields(records[n])
             x == records[n]["name"]
  <2>1. f = [k \in DOMAIN f |-> f[k]] /\ DOMAIN f \subseteq AuthorKeys \ {"name"}
    BY SidecarFieldsAre
  <2>2. \A k \in DOMAIN f : f[k] \in V
    <3> SUFFICES ASSUME NEW k \in DOMAIN f PROVE f[k] \in V
      OBVIOUS
    <3>1. <<n, k>> \in (1 .. L) \X AuthorKeys
      BY <2>1
    <3> QED
      BY <3>1
  <2>3. x \in V
    OBVIOUS
  <2> HIDE DEF V, f, x
  <2>4. f \in [DOMAIN f -> V] /\ DOMAIN f \in SUBSET AuthorKeys
    BY <2>1, <2>2
  <2>5. Field("name", x) \in [{"name"} -> V] /\ {"name"} \in SUBSET AuthorKeys
    BY <2>3 DEF Field, AuthorKeys
  <2> QED
    BY <2>4, <2>5 DEF Authors, f, x
<1>3. tex \in Seq(Authors(V))
  <2>1. Bare \subseteq Authors(V)
    <3> SUFFICES ASSUME NEW x \in STRING PROVE Field("name", x) \in Authors(V)
      BY DEF Bare
    <3>1. x \in V
      OBVIOUS
    <3> HIDE DEF V
    <3>2. Field("name", x) \in [{"name"} -> V] /\ {"name"} \in SUBSET AuthorKeys
      BY <3>1 DEF Field, AuthorKeys
    <3> QED
      BY <3>2 DEF Authors
  <2> HIDE DEF V
  <2> QED
    BY <2>1
<1>4. OverlaySidecar(tex, records) = add[L]
  BY DEF OverlaySidecar
<1> HIDE DEF L, V
<1>5. Overlaid(V, tex, records, 0, tex)
  <2>1. RecordNames(records, 0) = {}
    BY DEF RecordNames
  <2>2. ASSUME NEW i \in DOMAIN tex PROVE "name" \in DOMAIN tex[i] /\ SaysLast(records, 0, tex[i])
    <3>1. PICK x \in STRING : tex[i] = Field("name", x)
      <4>1. tex[i] \in Bare
        OBVIOUS
      <4> QED
        BY <4>1 DEF Bare
    <3>2. DOMAIN tex[i] = {"name"}
      BY <3>1 DEF Field
    <3>3. \A k \in Told : Tellers(records, 0, tex[i]["name"], k) = {} /\ k \notin DOMAIN tex[i]
      BY <3>2 DEF Tellers, Told
    <3> QED
      BY <3>2, <3>3 DEF SaysLast
  <2> QED
    BY <1>3, <2>1, <2>2 DEF Overlaid
<1>6. \E f : f = [n \in 0 .. L |-> IF n = 0 THEN tex ELSE Step(f, n)]
  <2> DEFINE Built(k) == \E f : f = [n \in 0 .. k |-> IF n = 0 THEN tex ELSE Step(f, n)]
             Bad == {k \in 0 .. L : ~Built(k)}
  <2>1. Built(0)
    <3> DEFINE f == [n \in 0 .. 0 |-> tex]
    <3>1. f = [n \in 0 .. 0 |-> IF n = 0 THEN tex ELSE Step(f, n)]
      OBVIOUS
    <3> HIDE DEF f
    <3> QED
      BY <3>1
  <2>2. ASSUME NEW k \in 1 .. L, Built(k - 1) PROVE Built(k)
    <3>1. PICK f : f = [n \in 0 .. k - 1 |-> IF n = 0 THEN tex ELSE Step(f, n)]
      BY <2>2
    <3> DEFINE g == [n \in 0 .. k |-> IF n < k THEN f[n] ELSE Step(f, k)]
    <3>2. DOMAIN g = 0 .. k /\ g[k] = Step(f, k) /\ \A n \in 0 .. k - 1 : g[n] = f[n]
      OBVIOUS
    <3>3. f[0] = tex /\ \A n \in 1 .. k - 1 : f[n] = Step(f, n)
      <4>1. 0 \in 0 .. k - 1 /\ \A n \in 1 .. k - 1 : n \in 0 .. k - 1 /\ n # 0
        OBVIOUS
      <4> HIDE DEF Step
      <4> QED
        BY <3>1, <4>1
    <3>4. g = [n \in 0 .. k |-> g[n]]
      OBVIOUS
    <3> HIDE DEF g
    <3>5. g[0] = tex /\ \A n \in 1 .. k : g[n] = Step(g, n)
      <4>1. ASSUME NEW n \in 1 .. k PROVE g[n] = Step(g, n)
        <5>1. n - 1 \in 0 .. k - 1 /\ n \in 0 .. k /\ (n # k => n \in 1 .. k - 1 /\ n \in 0 .. k - 1)
          OBVIOUS
        <5>2. Step(g, n) = Step(f, n)
          BY <3>2, <5>1
        <5> HIDE DEF Step
        <5> QED
          BY <3>2, <3>3, <5>1, <5>2
      <4>2. 0 \in 0 .. k - 1
        OBVIOUS
      <4> HIDE DEF Step
      <4> QED
        BY <3>2, <3>3, <4>1, <4>2
    <3>6. \A n \in 0 .. k : n # 0 => n \in 1 .. k
      OBVIOUS
    <3> HIDE DEF Step
    <3>7. g = [n \in 0 .. k |-> IF n = 0 THEN tex ELSE Step(g, n)]
      BY <3>4, <3>5, <3>6
    <3> QED
      BY <3>7
  <2> HIDE DEF Built
  <2>3. \A k \in Bad : \E j \in Bad : j < k
    <3> SUFFICES ASSUME NEW k \in 0 .. L, ~Built(k) PROVE k - 1 \in Bad /\ k - 1 < k
      OBVIOUS
    <3>1. k \in 1 .. L
      BY <1>1, <2>1
    <3> QED
      BY <1>1, <2>2, <3>1
  <2>4. Bad \in SUBSET Nat
    BY <1>1
  <2>5. Bad = {}
    BY <2>3, <2>4, NoLeast
  <2>6. L \in 0 .. L
    BY <1>1
  <2> QED
    BY <2>5, <2>6 DEF Built
<1>7. add = [n \in 0 .. L |-> IF n = 0 THEN tex ELSE Step(add, n)]
  <2> HIDE DEF Step
  <2> QED
    BY <1>6
<1> HIDE DEF add
<1>8. add[0] = tex /\ \A n \in 1 .. L : add[n] = Step(add, n)
  <2>1. 0 \in 0 .. L /\ \A n \in 1 .. L : n \in 0 .. L /\ n # 0
    BY <1>1
  <2> HIDE DEF Step
  <2> QED
    BY <1>7, <2>1
<1>9. \A n \in 0 .. L : Overlaid(V, tex, records, n, add[n])
  <2> DEFINE Bad == {n \in 0 .. L : ~Overlaid(V, tex, records, n, add[n])}
  <2>1. \A n \in Bad : \E k \in Bad : k < n
    <3> SUFFICES ASSUME NEW n \in 0 .. L, ~Overlaid(V, tex, records, n, add[n]),
                        n = 0 \/ Overlaid(V, tex, records, n - 1, add[n - 1])
                 PROVE  FALSE
      BY <1>1
    <3>1. n # 0
      BY <1>5, <1>8
    <3>2. n \in 1 .. L /\ n \in Nat \ {0}
      BY <1>1, <3>1
    <3>3. TakerFits(V, records[n])
      BY <1>2, <3>2
    <3>4. Overlaid(V, tex, records, n, TakeRecord(add[n - 1], records[n]))
      BY <3>1, <3>2, <3>3, TakeRecordIs
    <3> QED
      BY <1>8, <3>2, <3>4
  <2>2. Bad \in SUBSET Nat
    BY <1>1
  <2> HIDE DEF Bad
  <2>3. Bad = {}
    BY <2>1, <2>2, NoLeast
  <2> QED
    BY <2>3 DEF Bad
<1>10. L \in 0 .. L
  BY <1>1
<1> QED
  BY <1>4, <1>9, <1>10 DEF L

\* What each author takes: the record of its name, which no other author takes.
IsPick(parsed, meta, n, pick) ==
  LET mine == Named(meta, parsed[n]["name"])
  IN (mine = {} /\ pick = 0) \/ (mine = {pick} /\ pick # 0)

LEMMA TakeMetaIs ==
  ASSUME NEW parsed, NEW meta, DOMAIN meta \subseteq Nat \ {0}, OncePerName(parsed), OncePerName(meta),
         NEW n \in DOMAIN parsed, n \in Nat \ {0}, 1 .. n \subseteq DOMAIN parsed,
         NEW taken \in Seq(Nat), Len(taken) = n - 1, \A k \in 1 .. n - 1 : IsPick(parsed, meta, k, taken[k])
  PROVE  LET t == TakeMeta(taken, meta, parsed[n]["name"])
         IN t \in Seq(Nat) /\ Len(t) = n /\ \A k \in 1 .. n : IsPick(parsed, meta, k, t[k])
<1> DEFINE mine == Named(meta, parsed[n]["name"])
           free == mine \ ToSet(taken)
           p == IF free = {} THEN 0 ELSE Min(free)
           t == TakeMeta(taken, meta, parsed[n]["name"])
<1>1. t = Append(taken, p)
  BY DEF TakeMeta
<1>2. mine \subseteq DOMAIN meta /\ mine \subseteq Nat \ {0}
  BY DEF Named
<1>3. free = mine
  <2> SUFFICES ASSUME NEW j \in mine, j \in ToSet(taken) PROVE FALSE
    OBVIOUS
  <2>1. PICK k \in 1 .. n - 1 : taken[k] = j
    BY DEF ToSet
  <2>2. j \in Named(meta, parsed[k]["name"])
    BY <1>2, <2>1 DEF IsPick
  <2>3. parsed[k]["name"] = parsed[n]["name"]
    BY <2>2 DEF Named
  <2>4. k \in DOMAIN parsed /\ k # n
    OBVIOUS
  <2> QED
    BY <2>3, <2>4 DEF OncePerName
<1> HIDE DEF free
<1>4. p \in Nat /\ IsPick(parsed, meta, n, p)
  <2>1. CASE mine = {}
    BY <1>3, <2>1 DEF IsPick
  <2>2. CASE mine # {}
    <3>1. Min(mine) \in mine
      <4>1. mine \in SUBSET Nat
        BY <1>2
      <4> HIDE DEF mine
      <4> QED
        BY <2>2, <4>1, SmallestOf
    <3>2. \A i, j \in mine : i = j
      BY <1>2 DEF Named, OncePerName
    <3>3. p = Min(mine)
      BY <1>3, <2>2
    <3> HIDE DEF p
    <3>4. mine = {p}
      BY <3>1, <3>2, <3>3
    <3>5. p \in Nat /\ p # 0
      BY <1>2, <3>1, <3>3
    <3> QED
      BY <3>4, <3>5 DEF IsPick
  <2> QED
    BY <2>1, <2>2
<1> HIDE DEF p, t
<1>5. t \in Seq(Nat) /\ Len(t) = n /\ t[n] = p /\ \A k \in 1 .. n - 1 : t[k] = taken[k]
  BY <1>1, <1>4, AppendProperties
<1>6. \A k \in 1 .. n : k = n \/ k \in 1 .. n - 1
  OBVIOUS
<1>7. \A k \in 1 .. n : IsPick(parsed, meta, k, t[k])
  BY <1>4, <1>5, <1>6
<1> QED
  BY <1>5, <1>7 DEF t

\* What is merged, by what each author takes.
MergedBy(parsed, meta, picks) ==
  LET rest == InOrder(DOMAIN meta \ ToSet(picks))
      Merged(n) == IF picks[n] = 0 THEN parsed[n] ELSE Overlay(parsed[n], CoerceAuthorRecord(meta[picks[n]]))
  IN [n \in DOMAIN parsed |-> Merged(n)] \o [i \in DOMAIN rest |-> CoerceAuthorRecord(meta[rest[i]])]

LEMMA PicksAre ==
  ASSUME NEW T, NEW parsed \in Seq(T), NEW meta, DOMAIN meta \subseteq Nat \ {0}, OncePerName(parsed), OncePerName(meta)
  PROVE  \E picks \in Seq(Nat) :
           /\ Len(picks) = Len(parsed) /\ \A n \in 1 .. Len(parsed) : IsPick(parsed, meta, n, picks[n])
           /\ MergeMetaOntoAuthors(parsed, meta) = IF meta = <<>> THEN parsed ELSE MergedBy(parsed, meta, picks)
<1> DEFINE L == Len(parsed)
           S == Seq(Nat)
           Step(f, n) == TakeMeta(f[n - 1], meta, parsed[n]["name"])
           pick == CHOOSE f : f = [n \in 0 .. L |-> IF n = 0 THEN << >> ELSE Step(f, n)]
           step == [p \in (1 .. L) \X S |-> TakeMeta(p[2], meta, parsed[p[1]]["name"])]
<1>1. L \in Nat /\ DOMAIN parsed = 1 .. L
  OBVIOUS
<1>2. \A n \in 1 .. L, b \in S : TakeMeta(b, meta, parsed[n]["name"]) \in S
  <2> SUFFICES ASSUME NEW n \in 1 .. L, NEW b \in S PROVE TakeMeta(b, meta, parsed[n]["name"]) \in S
    OBVIOUS
  <2> DEFINE free == Named(meta, parsed[n]["name"]) \ ToSet(b)
             p == IF free = {} THEN 0 ELSE Min(free)
  <2>1. free \in SUBSET Nat
    BY DEF Named
  <2>2. TakeMeta(b, meta, parsed[n]["name"]) = Append(b, p)
    BY DEF TakeMeta
  <2> HIDE DEF free
  <2>3. p \in Nat
    BY <2>1, SmallestOf
  <2> HIDE DEF p
  <2> QED
    BY <2>2, <2>3, AppendProperties
<1>3. MergeMetaOntoAuthors(parsed, meta) = IF meta = <<>> THEN parsed ELSE MergedBy(parsed, meta, pick[L])
  BY DEF MergeMetaOntoAuthors, MergedBy
<1> HIDE DEF L
<1>4. step \in [(1 .. L) \X S -> S]
  BY <1>2
<1>5. PICK f \in [0 .. L -> S] : f[0] = << >> /\ \A n \in 1 .. L : f[n] = step[<<n, f[n - 1]>>]
  <2>1. << >> \in S
    OBVIOUS
  <2> HIDE DEF step, S
  <2>2. IsChain(S, L, << >>, step)
    BY <1>1, <1>4, <2>1 DEF IsChain
  <2> QED
    BY <2>2, Chain
<1>6. pick = [n \in 0 .. L |-> IF n = 0 THEN << >> ELSE Step(pick, n)]
  <2>1. \A n \in 1 .. L : f[n] = Step(f, n)
    <3> SUFFICES ASSUME NEW n \in 1 .. L PROVE f[n] = Step(f, n)
      OBVIOUS
    <3>1. n - 1 \in 0 .. L /\ f[n - 1] \in S
      BY <1>1
    <3> QED
      BY <1>5, <3>1
  <2>2. f = [n \in 0 .. L |-> IF n = 0 THEN << >> ELSE Step(f, n)]
    <3> HIDE DEF Step
    <3>1. \A n \in 0 .. L : f[n] = IF n = 0 THEN << >> ELSE Step(f, n)
      BY <1>1, <1>5, <2>1
    <3> QED
      BY <3>1
  <2> HIDE DEF Step
  <2> QED
    BY <2>2
<1> HIDE DEF pick
<1>7. pick[0] = << >> /\ \A n \in 1 .. L : pick[n] = Step(pick, n)
  <2>1. 0 \in 0 .. L /\ \A n \in 1 .. L : n \in 0 .. L /\ n # 0
    BY <1>1
  <2> HIDE DEF Step
  <2> QED
    BY <1>6, <2>1
<1> DEFINE Good(n) == /\ pick[n] \in Seq(Nat) /\ Len(pick[n]) = n
                      /\ \A k \in 1 .. n : IsPick(parsed, meta, k, pick[n][k])
<1>8. Good(0)
  BY <1>7
<1>9. ASSUME NEW n \in 1 .. L, Good(n - 1) PROVE Good(n)
  <2>1. n \in DOMAIN parsed /\ n \in Nat \ {0} /\ 1 .. n \subseteq DOMAIN parsed
    BY <1>1
  <2>2. pick[n] = TakeMeta(pick[n - 1], meta, parsed[n]["name"])
    BY <1>7
  <2>3. LET t == TakeMeta(pick[n - 1], meta, parsed[n]["name"])
        IN t \in Seq(Nat) /\ Len(t) = n /\ \A k \in 1 .. n : IsPick(parsed, meta, k, t[k])
    BY <1>9, <2>1, TakeMetaIs
  <2> QED
    BY <2>2, <2>3
<1> HIDE DEF Good
<1>10. \A n \in 0 .. L : Good(n)
  <2> DEFINE Bad == {n \in 0 .. L : ~Good(n)}
  <2>1. \A n \in Bad : \E k \in Bad : k < n
    <3> SUFFICES ASSUME NEW n \in 0 .. L, ~Good(n) PROVE n - 1 \in Bad /\ n - 1 < n
      OBVIOUS
    <3>1. n \in 1 .. L
      BY <1>1, <1>8
    <3> QED
      BY <1>1, <1>9, <3>1
  <2>2. Bad \in SUBSET Nat
    BY <1>1
  <2> HIDE DEF Bad
  <2>3. Bad = {}
    BY <2>1, <2>2, NoLeast
  <2> QED
    BY <2>3 DEF Bad
<1>11. Good(L)
  BY <1>1, <1>10
<1> QED
  BY <1>3, <1>11 DEF Good, L

\* The fields of a record are kept.
LEMMA CoerceIs ==
  ASSUME NEW m, "name" \in DOMAIN m
  PROVE  LET c == CoerceAuthorRecord(m)
         IN /\ "name" \in DOMAIN c /\ c["name"] = m["name"]
            /\ \A k \in Told : (k \in DOMAIN c <=> k \in DOMAIN m) /\ (k \in DOMAIN m => c[k] = m[k])
<1> DEFINE keys == {"name", "orcid", "affiliation", "email", "is_agent", "agent_handle", "role", "provenance"}
           known == Only(m, keys)
           c == CoerceAuthorRecord(m)
<1>1. DOMAIN known = DOMAIN m \cap keys /\ \A k \in DOMAIN known : known[k] = m[k]
  BY DEF Only
<1>2. c = [k \in DOMAIN known |-> IF k = "provenance" THEN LiftFlatProvenance(known[k]) ELSE known[k]]
  BY DEF CoerceAuthorRecord
<1> HIDE DEF known, c
<1>3. DOMAIN c = DOMAIN m \cap keys /\ \A k \in DOMAIN c : k # "provenance" => c[k] = m[k]
  BY <1>1, <1>2
<1>4. \A k \in Told \cup {"name"} : k \in keys /\ k # "provenance"
  BY DEF Told
<1> HIDE DEF keys
<1> QED
  BY <1>3, <1>4 DEF c

LEMMA OverlayIs ==
  ASSUME NEW a, NEW c, "name" \in DOMAIN a
  PROVE  LET o == Overlay(a, c)
         IN /\ "name" \in DOMAIN o /\ o["name"] = a["name"]
            /\ \A k \in Told : /\ k \in DOMAIN o <=> k \in DOMAIN a \/ k \in DOMAIN c
                               /\ k \in DOMAIN c => o[k] = c[k]
                               /\ k \in DOMAIN a /\ k \notin DOMAIN c => o[k] = a[k]
<1> DEFINE new == Only(c, DOMAIN c \ {"name"})
           o == Overlay(a, c)
<1>1. DOMAIN new = DOMAIN c \ {"name"} /\ \A k \in DOMAIN new : new[k] = c[k]
  BY DEF Only
<1>2. o = Over(new, a)
  BY DEF Overlay
<1> HIDE DEF new, o
<1>3. DOMAIN o = DOMAIN new \cup DOMAIN a /\ \A k \in DOMAIN o : o[k] = IF k \in DOMAIN new THEN new[k] ELSE a[k]
  BY <1>2 DEF Over
<1>4. "name" \notin Told
  BY DEF Told
<1> QED
  BY <1>1, <1>3, <1>4 DEF o

\* Where an author's fields come from: its record in rrxiv-meta.json, or else what it was.
HasField(authors, name, k) == \E i \in Named(authors, name) : k \in DOMAIN authors[i]
TakesFrom(authors, a, k) ==
  \E i \in Named(authors, a["name"]) : k \in DOMAIN authors[i] /\ k \in DOMAIN a /\ a[k] = authors[i][k]
Sourced(parsed, meta, a) ==
  /\ "name" \in DOMAIN a
  /\ \A k \in Told : IF HasField(meta, a["name"], k) THEN TakesFrom(meta, a, k)
                     ELSE IF HasField(parsed, a["name"], k) THEN TakesFrom(parsed, a, k) ELSE k \notin DOMAIN a

LEMMA ParsedSourced ==
  ASSUME NEW parsed, NEW meta, OncePerName(parsed), NEW n \in DOMAIN parsed, "name" \in DOMAIN parsed[n], NEW pick,
         IsPick(parsed, meta, n, pick), \A j \in DOMAIN meta : "name" \in DOMAIN meta[j]
  PROVE  LET a == IF pick = 0 THEN parsed[n] ELSE Overlay(parsed[n], CoerceAuthorRecord(meta[pick]))
         IN a["name"] = parsed[n]["name"] /\ Sourced(parsed, meta, a)
<1> DEFINE p == parsed[n]
           x == p["name"]
<1>1. n \in Named(parsed, x) /\ \A i \in Named(parsed, x) : i = n
  BY DEF Named, OncePerName
<1>2. CASE pick = 0
  <2>1. Named(meta, x) = {}
    BY <1>2 DEF IsPick
  <2>2. ASSUME NEW k \in Told
        PROVE  ~HasField(meta, x, k) /\ (IF HasField(parsed, x, k) THEN TakesFrom(parsed, p, k) ELSE k \notin DOMAIN p)
    BY <1>1, <2>1 DEF HasField, TakesFrom
  <2> QED
    BY <1>2, <2>2 DEF Sourced
<1>3. CASE pick # 0
  <2> DEFINE c == CoerceAuthorRecord(meta[pick])
             a == Overlay(p, c)
  <2>1. Named(meta, x) = {pick} /\ pick \in DOMAIN meta
    BY <1>3 DEF IsPick, Named
  <2>2. \A k \in Told : (k \in DOMAIN c <=> k \in DOMAIN meta[pick]) /\ (k \in DOMAIN meta[pick] => c[k] = meta[pick][k])
    BY <2>1, CoerceIs
  <2> HIDE DEF c
  <2>3. /\ "name" \in DOMAIN a /\ a["name"] = x
        /\ \A k \in Told : /\ k \in DOMAIN a <=> k \in DOMAIN p \/ k \in DOMAIN c
                           /\ k \in DOMAIN c => a[k] = c[k]
                           /\ k \in DOMAIN p /\ k \notin DOMAIN c => a[k] = p[k]
    BY OverlayIs
  <2> HIDE DEF a
  <2>4. ASSUME NEW k \in Told
        PROVE  IF HasField(meta, x, k) THEN TakesFrom(meta, a, k)
               ELSE IF HasField(parsed, x, k) THEN TakesFrom(parsed, a, k) ELSE k \notin DOMAIN a
    <3>1. HasField(meta, x, k) <=> k \in DOMAIN meta[pick]
      BY <2>1 DEF HasField
    <3>2. HasField(parsed, x, k) <=> k \in DOMAIN p
      BY <1>1 DEF HasField
    <3>3. CASE k \in DOMAIN meta[pick]
      <4>1. k \in DOMAIN a /\ a[k] = meta[pick][k]
        BY <2>2, <2>3, <3>3
      <4>2. TakesFrom(meta, a, k)
        BY <2>1, <2>3, <3>3, <4>1 DEF TakesFrom
      <4> QED
        BY <3>1, <3>3, <4>2
    <3>4. CASE k \notin DOMAIN meta[pick]
      <4>1. (k \in DOMAIN a <=> k \in DOMAIN p) /\ (k \in DOMAIN p => a[k] = p[k])
        BY <2>2, <2>3, <3>4
      <4>2. k \in DOMAIN p => TakesFrom(parsed, a, k)
        BY <1>1, <2>3, <4>1 DEF TakesFrom
      <4> QED
        BY <3>1, <3>2, <3>4, <4>1, <4>2
    <3> QED
      BY <3>3, <3>4
  <2>5. Sourced(parsed, meta, a)
    BY <2>3, <2>4 DEF Sourced
  <2> QED
    BY <1>3, <2>3, <2>5 DEF a, c
<1> QED
  BY <1>2, <1>3

LEMMA RestSourced ==
  ASSUME NEW parsed, NEW meta, OncePerName(meta), NEW j \in DOMAIN meta, "name" \in DOMAIN meta[j],
         meta[j]["name"] \notin NamesOf(parsed)
  PROVE  LET a == CoerceAuthorRecord(meta[j])
         IN a["name"] = meta[j]["name"] /\ Sourced(parsed, meta, a)
<1> DEFINE a == CoerceAuthorRecord(meta[j])
           x == meta[j]["name"]
<1>1. /\ "name" \in DOMAIN a /\ a["name"] = x
      /\ \A k \in Told : (k \in DOMAIN a <=> k \in DOMAIN meta[j]) /\ (k \in DOMAIN meta[j] => a[k] = meta[j][k])
  BY CoerceIs
<1> HIDE DEF a
<1>2. j \in Named(meta, x) /\ (\A i \in Named(meta, x) : i = j) /\ Named(parsed, x) = {}
  BY DEF Named, OncePerName, NamesOf
<1>3. ASSUME NEW k \in Told
      PROVE  IF HasField(meta, x, k) THEN TakesFrom(meta, a, k)
             ELSE IF HasField(parsed, x, k) THEN TakesFrom(parsed, a, k) ELSE k \notin DOMAIN a
  <2>1. HasField(meta, x, k) <=> k \in DOMAIN meta[j]
    BY <1>2 DEF HasField
  <2>2. ~HasField(parsed, x, k)
    BY <1>2 DEF HasField
  <2>3. k \in DOMAIN meta[j] => TakesFrom(meta, a, k)
    BY <1>1, <1>2 DEF TakesFrom
  <2> QED
    BY <1>1, <2>1, <2>2, <2>3
<1>4. Sourced(parsed, meta, a)
  BY <1>1, <1>3 DEF Sourced
<1> QED
  BY <1>1, <1>4 DEF a

\* Layer 3: every name once, and each field as rrxiv-meta.json says, or else as it was.
LEMMA MergedIs ==
  ASSUME NEW T, NEW parsed \in Seq(T), NEW U, NEW meta \in Seq(U), OncePerName(parsed), OncePerName(meta),
         \A n \in DOMAIN parsed : "name" \in DOMAIN parsed[n], \A j \in DOMAIN meta : "name" \in DOMAIN meta[j]
  PROVE  LET m == MergeMetaOntoAuthors(parsed, meta)
         IN /\ OncePerName(m) /\ NamesOf(m) = NamesOf(parsed) \cup NamesOf(meta)
            /\ m = << >> => NamesOf(m) = {}
            /\ Len(m) \in Nat /\ DOMAIN m = 1 .. Len(m)
            /\ \A i \in DOMAIN m : Sourced(parsed, meta, m[i])
<1> DEFINE m == MergeMetaOntoAuthors(parsed, meta)
           L == Len(parsed)
<1>1. L \in Nat /\ DOMAIN parsed = 1 .. L /\ Len(meta) \in Nat /\ DOMAIN meta = 1 .. Len(meta)
  OBVIOUS
<1>2. DOMAIN meta \subseteq Nat \ {0} /\ IsFiniteSet(DOMAIN meta)
  <2> DEFINE M == Len(meta)
  <2>1. M \in Nat /\ DOMAIN meta = 1 .. M
    BY <1>1
  <2> HIDE DEF M
  <2>2. IsFiniteSet(1 .. M)
    BY <2>1, FS_Interval
  <2> QED
    BY <2>1, <2>2
<1>3. PICK picks \in Seq(Nat) :
        /\ Len(picks) = L /\ \A n \in 1 .. L : IsPick(parsed, meta, n, picks[n])
        /\ m = IF meta = <<>> THEN parsed ELSE MergedBy(parsed, meta, picks)
  BY <1>2, PicksAre
<1> HIDE DEF m
<1>4. CASE meta = <<>>
  <2>1. NamesOf(meta) = {} /\ \A k, x : ~HasField(meta, x, k)
    BY <1>4 DEF NamesOf, HasField, Named
  <2>2. ASSUME NEW i \in DOMAIN parsed PROVE Sourced(parsed, meta, parsed[i])
    <3>1. IsPick(parsed, meta, i, 0)
      BY <1>4 DEF IsPick, Named
    <3> QED
      BY <3>1, ParsedSourced
  <2>3. parsed = << >> => NamesOf(parsed) = {}
    BY DEF NamesOf
  <2> QED
    BY <1>1, <1>3, <1>4, <2>1, <2>2, <2>3 DEF m
<1>5. CASE meta # <<>>
  <2> DEFINE R == DOMAIN meta \ ToSet(picks)
             rest == InOrder(R)
             N == Cardinality(R)
             A == [n \in DOMAIN parsed |->
                     IF picks[n] = 0 THEN parsed[n] ELSE Overlay(parsed[n], CoerceAuthorRecord(meta[picks[n]]))]
             B == [i \in DOMAIN rest |-> CoerceAuthorRecord(meta[rest[i]])]
             X == {A[n] : n \in 1 .. L} \cup {B[i] : i \in 1 .. N}
  <2>1. m = A \o B
    BY <1>3, <1>5 DEF MergedBy
  <2>2. R \in SUBSET Nat /\ IsFiniteSet(R) /\ R \subseteq DOMAIN meta
    BY <1>2, FS_Subset
  <2>3. \A j \in R : meta[j]["name"] \notin NamesOf(parsed)
    <3> SUFFICES ASSUME NEW j \in DOMAIN meta, j \notin ToSet(picks), NEW n \in 1 .. L,
                        meta[j]["name"] = parsed[n]["name"]
                 PROVE  FALSE
      BY <1>1 DEF NamesOf
    <3>1. j \in Named(meta, parsed[n]["name"])
      BY DEF Named
    <3>2. j = picks[n]
      BY <1>3, <3>1 DEF IsPick
    <3> QED
      BY <1>3, <3>2 DEF ToSet
  <2>4. \A j \in DOMAIN meta : j \in R \/ meta[j]["name"] \in NamesOf(parsed)
    <3> SUFFICES ASSUME NEW j \in DOMAIN meta, j \in ToSet(picks) PROVE meta[j]["name"] \in NamesOf(parsed)
      OBVIOUS
    <3>1. PICK n \in 1 .. L : picks[n] = j
      BY <1>3 DEF ToSet
    <3>2. j # 0 /\ IsPick(parsed, meta, n, j)
      BY <1>2, <1>3, <3>1
    <3>3. meta[j]["name"] = parsed[n]["name"]
      BY <3>2 DEF IsPick, Named
    <3> QED
      BY <1>1, <3>3 DEF NamesOf
  <2> HIDE DEF R
  <2>5. /\ N \in Nat /\ DOMAIN rest = 1 .. N /\ \A i \in 1 .. N : rest[i] \in R
        /\ \A j \in R : \E i \in 1 .. N : rest[i] = j
        /\ \A i, k \in 1 .. N : i < k <=> rest[i] < rest[k]
    BY <2>2, Ordered
  <2>6. DOMAIN A = 1 .. L /\ \A n \in 1 .. L : A[n]["name"] = parsed[n]["name"] /\ Sourced(parsed, meta, A[n])
    <3>1. ASSUME NEW n \in 1 .. L PROVE A[n]["name"] = parsed[n]["name"] /\ Sourced(parsed, meta, A[n])
      <4> DEFINE a == IF picks[n] = 0 THEN parsed[n] ELSE Overlay(parsed[n], CoerceAuthorRecord(meta[picks[n]]))
      <4>1. a["name"] = parsed[n]["name"] /\ Sourced(parsed, meta, a)
        BY <1>1, <1>3, ParsedSourced
      <4>2. A[n] = a
        BY <1>1
      <4> QED
        BY <4>1, <4>2
    <3> QED
      BY <1>1, <3>1
  <2>7. DOMAIN B = 1 .. N /\ \A i \in 1 .. N : B[i]["name"] = meta[rest[i]]["name"] /\ Sourced(parsed, meta, B[i])
    <3>1. ASSUME NEW i \in 1 .. N PROVE B[i]["name"] = meta[rest[i]]["name"] /\ Sourced(parsed, meta, B[i])
      <4>1. rest[i] \in DOMAIN meta /\ meta[rest[i]]["name"] \notin NamesOf(parsed)
        BY <2>2, <2>3, <2>5
      <4>2. B[i] = CoerceAuthorRecord(meta[rest[i]])
        BY <2>5
      <4> HIDE DEF B, rest
      <4> QED
        BY <4>1, <4>2, RestSourced
    <3> QED
      BY <2>5, <3>1
  <2>8. A = [n \in 1 .. L |-> A[n]] /\ B = [i \in 1 .. N |-> B[i]]
    BY <1>1, <2>5
  <2> HIDE DEF A, B, rest, N, L
  <2>9. A \in [1 .. L -> X] /\ B \in [1 .. N -> X]
    BY <2>8
  <2> HIDE DEF X
  <2>10. A \in Seq(X) /\ B \in Seq(X) /\ Len(A) = L /\ Len(B) = N
    <3>1. L \in Nat /\ N \in Nat
      BY <1>1, <2>5
    <3> QED
      BY <2>9, <3>1
  <2>11. /\ m \in Seq(X) /\ Len(m) = L + N
         /\ \A i \in 1 .. L + N : m[i] = IF i <= L THEN A[i] ELSE B[i - L]
    BY <2>1, <2>10, ConcatProperties
  <2>12. DOMAIN m = 1 .. L + N /\ L + N \in Nat
    BY <1>1, <2>5, <2>11
  <2>13. \A i \in 1 .. L + N : \/ i \in 1 .. L /\ m[i] = A[i]
                               \/ i - L \in 1 .. N /\ ~(i \in 1 .. L) /\ m[i] = B[i - L]
    BY <1>1, <2>5, <2>11, SMTT(30)
  <2>14. (\A n \in 1 .. L : n \in 1 .. L + N /\ m[n] = A[n]) /\ (\A i \in 1 .. N : i + L \in 1 .. L + N /\ m[i + L] = B[i])
    BY <1>1, <2>5, <2>11
  <2>15. \A i, k \in 1 .. N : rest[i] = rest[k] => i = k
    <3> SUFFICES ASSUME NEW i \in 1 .. N, NEW k \in 1 .. N, rest[i] = rest[k] PROVE i = k
      OBVIOUS
    <3>1. rest[i] \in Nat /\ ~(rest[i] < rest[k]) /\ ~(rest[k] < rest[i])
      <4>1. rest[i] \in R
        BY <2>5
      <4>2. rest[i] \in Nat
        BY <2>2, <4>1
      <4> QED
        BY <4>2
    <3>2. ~(i < k) /\ ~(k < i)
      BY <2>5, <3>1
    <3> QED
      BY <2>5, <3>2
  <2>16. NamesOf(m) = NamesOf(parsed) \cup NamesOf(meta)
    <3>1. NamesOf(m) \subseteq NamesOf(parsed) \cup NamesOf(meta)
      <4> SUFFICES ASSUME NEW i \in 1 .. L + N PROVE m[i]["name"] \in NamesOf(parsed) \cup NamesOf(meta)
        BY <2>12 DEF NamesOf
      <4>1. CASE i \in 1 .. L /\ m[i] = A[i]
        BY <1>1, <2>6, <4>1 DEF NamesOf
      <4>2. CASE i - L \in 1 .. N /\ m[i] = B[i - L]
        BY <2>2, <2>5, <2>7, <4>2 DEF NamesOf
      <4> QED
        BY <2>13, <4>1, <4>2
    <3>2. ASSUME NEW n \in 1 .. L PROVE parsed[n]["name"] \in NamesOf(m)
      BY <2>6, <2>12, <2>14 DEF NamesOf
    <3>3. ASSUME NEW j \in R PROVE meta[j]["name"] \in NamesOf(m)
      <4>1. PICK i \in 1 .. N : rest[i] = j
        BY <2>5
      <4>2. i + L \in DOMAIN m /\ m[i + L]["name"] = meta[j]["name"]
        BY <2>7, <2>12, <2>14, <4>1
      <4> QED
        BY <4>2 DEF NamesOf
    <3>4. NamesOf(parsed) \subseteq NamesOf(m)
      BY <1>1, <3>2 DEF NamesOf
    <3>5. NamesOf(meta) \subseteq NamesOf(m)
      BY <2>4, <3>3, <3>4 DEF NamesOf
    <3> QED
      BY <3>1, <3>4, <3>5
  <2>17. OncePerName(m)
    <3> SUFFICES ASSUME NEW i \in 1 .. L + N, NEW k \in 1 .. L + N, m[i]["name"] = m[k]["name"] PROVE i = k
      BY <2>12 DEF OncePerName
    <3>1. ASSUME NEW p \in 1 .. L, NEW q \in 1 .. N PROVE A[p]["name"] # B[q]["name"]
      <4>1. A[p]["name"] \in NamesOf(parsed)
        BY <1>1, <2>6 DEF NamesOf
      <4>2. B[q]["name"] \notin NamesOf(parsed)
        BY <2>3, <2>5, <2>7
      <4> QED
        BY <4>1, <4>2
    <3>2. CASE i \in 1 .. L /\ m[i] = A[i] /\ k \in 1 .. L /\ m[k] = A[k]
      BY <1>1, <2>6, <3>2 DEF OncePerName
    <3>3. CASE i - L \in 1 .. N /\ m[i] = B[i - L] /\ k - L \in 1 .. N /\ m[k] = B[k - L]
      <4>1. meta[rest[i - L]]["name"] = meta[rest[k - L]]["name"] /\ rest[i - L] \in DOMAIN meta /\ rest[k - L] \in DOMAIN meta
        BY <2>2, <2>5, <2>7, <3>3
      <4>2. rest[i - L] = rest[k - L]
        BY <4>1 DEF OncePerName
      <4>3. i - L = k - L
        BY <2>15, <3>3, <4>2
      <4> QED
        BY <1>1, <4>3
    <3> QED
      BY <2>13, <3>1, <3>2, <3>3
  <2>18. \A i \in DOMAIN m : Sourced(parsed, meta, m[i])
    BY <2>6, <2>7, <2>12, <2>13
  <2>19. m = << >> => NamesOf(m) = {}
    BY DEF NamesOf
  <2> QED
    BY <2>11, <2>12, <2>16, <2>17, <2>18, <2>19 DEF m
<1> QED
  BY <1>4, <1>5

\* What AuthorsMerged says of one author.
FieldTold(records, meta, a, k) ==
  LET named == {i \in DOMAIN records : "name" \in DOMAIN records[i]}
      said == {m \in ToSet(meta) : m["name"] = a["name"] /\ k \in DOMAIN m}
      told == {i \in named : records[i]["name"] = a["name"] /\ k \in DOMAIN records[i]}
  IN Get(a, k) = IF said # {} THEN (CHOOSE m \in said : TRUE)[k]
                 ELSE IF told # {} THEN records[CHOOSE i \in told : \A j \in told : j <= i][k] ELSE None

LEMMA SourcedIsTold ==
  ASSUME NEW V, NEW tex, NEW records, NEW L \in Nat, DOMAIN records = 1 .. L, NEW parsed,
         Overlaid(V, tex, records, L, parsed), NEW meta, OncePerName(meta), NEW a, Sourced(parsed, meta, a), NEW k \in Told
  PROVE  FieldTold(records, meta, a, k)
<1> DEFINE x == a["name"]
           named == {i \in DOMAIN records : "name" \in DOMAIN records[i]}
           said == {m \in ToSet(meta) : m["name"] = x /\ k \in DOMAIN m}
           told == {i \in named : records[i]["name"] = x /\ k \in DOMAIN records[i]}
           last == CHOOSE i \in told : \A j \in told : j <= i
<1>1. /\ OncePerName(parsed) /\ RecordNames(records, L) \subseteq NamesOf(parsed)
      /\ \A i \in DOMAIN parsed : SaysLast(records, L, parsed[i])
  BY DEF Overlaid
<1>2. told = Tellers(records, L, x, k)
  BY DEF Tellers
<1>3. \A m \in said : \E j \in Named(meta, x) : m = meta[j] /\ k \in DOMAIN meta[j]
  BY DEF Named, ToSet
<1>4. \A j \in Named(meta, x) : k \in DOMAIN meta[j] => meta[j] \in said
  BY DEF Named, ToSet
<1>5. \A i, j \in Named(meta, x) : i = j
  BY DEF Named, OncePerName
<1> HIDE DEF said
<1>6. CASE HasField(meta, x, k)
  <2>1. PICK i \in Named(meta, x) : k \in DOMAIN meta[i] /\ k \in DOMAIN a /\ a[k] = meta[i][k]
    BY <1>6 DEF Sourced, TakesFrom
  <2>2. said = {meta[i]}
    BY <1>3, <1>4, <1>5, <2>1
  <2>3. (CHOOSE m \in said : TRUE) = meta[i]
    BY <2>2
  <2>4. said # {} /\ Get(a, k) = (CHOOSE m \in said : TRUE)[k]
    BY <2>1, <2>2, <2>3 DEF Get
  <2> QED
    BY <2>4 DEF FieldTold, said
<1>7. CASE ~HasField(meta, x, k)
  <2>1. said = {}
    BY <1>3, <1>7 DEF HasField
  <2>2. ASSUME NEW i \in Named(parsed, x)
        PROVE  IF told = {} THEN k \notin DOMAIN parsed[i]
               ELSE \E j \in told : (\A h \in told : h <= j) /\ k \in DOMAIN parsed[i] /\ parsed[i][k] = records[j][k]
    <3>1. i \in DOMAIN parsed /\ parsed[i]["name"] = x
      BY DEF Named
    <3> HIDE DEF told
    <3> QED
      BY <1>1, <1>2, <3>1 DEF SaysLast
  <2>3. \A j \in told : x \in RecordNames(records, L)
    BY DEF RecordNames
  <2>4. CASE HasField(parsed, x, k)
    <3>1. PICK i \in Named(parsed, x) : k \in DOMAIN a /\ a[k] = parsed[i][k] /\ k \in DOMAIN parsed[i]
      BY <1>7, <2>4 DEF Sourced, TakesFrom
    <3>2. PICK j \in told : (\A h \in told : h <= j) /\ parsed[i][k] = records[j][k]
      BY <2>2, <3>1
    <3>3. told \subseteq Nat
      OBVIOUS
    <3> HIDE DEF told
    <3>4. last = j
      <4>1. last \in told /\ \A h \in told : h <= last
        BY <3>2
      <4>2. last <= j /\ j <= last /\ last \in Nat /\ j \in Nat
        BY <3>2, <3>3, <4>1
      <4> HIDE DEF last
      <4> QED
        BY <4>2
    <3>5. told # {} /\ Get(a, k) = records[last][k]
      BY <3>1, <3>2, <3>4 DEF Get
    <3> QED
      BY <2>1, <3>5 DEF FieldTold, said, told
  <2>5. CASE ~HasField(parsed, x, k)
    <3>1. k \notin DOMAIN a
      BY <1>7, <2>5 DEF Sourced
    <3>2. told = {}
      <4> SUFFICES ASSUME NEW j \in told PROVE FALSE
        OBVIOUS
      <4>1. x \in NamesOf(parsed)
        BY <1>1, <2>3
      <4>2. PICK i \in Named(parsed, x) : TRUE
        BY <4>1 DEF NamesOf, Named
      <4>3. told # {}
        OBVIOUS
      <4> HIDE DEF told
      <4>4. k \in DOMAIN parsed[i]
        BY <2>2, <4>3
      <4> QED
        BY <2>5, <4>4 DEF HasField
    <3> HIDE DEF told
    <3>3. Get(a, k) = None
      BY <3>1 DEF Get
    <3> QED
      BY <2>1, <3>2, <3>3 DEF FieldTold, said, told
  <2> QED
    BY <2>4, <2>5
<1> QED
  BY <1>6, <1>7

LEMMA AuthorsAre ==
  ASSUME NEW front, front.authors \in Seq(STRING), front.meta.authors \in Seq(ToSet(front.meta.authors)),
         NEW records, records \in Seq(ToSet(records)), OncePerName(MetaAuthors(front))
  PROVE  LET all == BuildAuthors(front, records)
             meta == MetaAuthors(front)
             names == (ToSet(front.authors) \ {""})
                        \cup {records[i]["name"] : i \in {j \in DOMAIN records : "name" \in DOMAIN records[j]}}
                        \cup {meta[i]["name"] : i \in DOMAIN meta}
         IN /\ names # {} => NamesOf(all) = names
            /\ OncePerName(all) /\ Len(all) \in Nat /\ DOMAIN all = 1 .. Len(all)
            /\ \A i \in DOMAIN all, k \in Told : FieldTold(records, meta, all[i], k)
<1> DEFINE meta == MetaAuthors(front)
           told == {records[i]["name"] : i \in {j \in DOMAIN records : "name" \in DOMAIN records[j]}}
           names == (ToSet(front.authors) \ {""}) \cup told \cup {meta[i]["name"] : i \in DOMAIN meta}
           tex == TexAuthors(front.authors)
           parsed == OverlaySidecar(tex, records)
           m == MergeMetaOntoAuthors(parsed, meta)
           all == BuildAuthors(front, records)
           L == Len(records)
<1>1. L \in Nat /\ DOMAIN records = 1 .. L
  OBVIOUS
<1>2. tex \in Seq(Bare) /\ OncePerName(tex) /\ NamesOf(tex) = ToSet(front.authors) \ {""}
  BY TexAuthorsAre
<1>3. all = IF m = <<>> THEN <<Field("name", "Unknown")>> ELSE m
  BY DEF BuildAuthors
<1>4. meta \in Seq(ToSet(front.meta.authors)) /\ \A j \in DOMAIN meta : "name" \in DOMAIN meta[j]
  <2> DEFINE s == front.meta.authors
             S == {i \in DOMAIN s : "name" \in DOMAIN s[i]}
  <2>1. S \subseteq DOMAIN s /\ meta = Picked(s, S)
    BY DEF MetaAuthors
  <2>2. \A i \in S : "name" \in DOMAIN s[i]
    OBVIOUS
  <2> HIDE DEF s, S, meta
  <2>3. Picked(s, S) \in Seq(ToSet(s)) /\ ToSet(Picked(s, S)) = {s[i] : i \in S}
    BY <2>1, Picks DEF s
  <2>4. \A j \in DOMAIN meta : meta[j] \in {s[i] : i \in S}
    BY <2>1, <2>3 DEF ToSet
  <2> QED
    BY <2>1, <2>2, <2>3, <2>4 DEF s
<1> HIDE DEF tex
<1>5. PICK V : Overlaid(V, tex, records, L, parsed)
  BY <1>1, <1>2, OverlaySidecarIs
<1> HIDE DEF parsed, meta, L
<1>6. /\ parsed \in Seq(Authors(V)) /\ OncePerName(parsed) /\ NamesOf(parsed) = NamesOf(tex) \cup RecordNames(records, L)
      /\ \A n \in DOMAIN parsed : "name" \in DOMAIN parsed[n]
  BY <1>5 DEF Overlaid
<1>7. /\ OncePerName(m) /\ NamesOf(m) = NamesOf(parsed) \cup NamesOf(meta)
      /\ m = << >> => NamesOf(m) = {}
      /\ Len(m) \in Nat /\ DOMAIN m = 1 .. Len(m)
      /\ \A i \in DOMAIN m : Sourced(parsed, meta, m[i])
  BY <1>4, <1>6, MergedIs DEF meta
<1> HIDE DEF m
<1>8. NamesOf(m) = names
  <2>1. told = RecordNames(records, L)
    BY <1>1 DEF RecordNames
  <2> QED
    BY <1>2, <1>6, <1>7, <2>1 DEF NamesOf
<1>9. CASE m # <<>>
  <2>1. all = m
    BY <1>3, <1>9
  <2>2. \A i \in DOMAIN m, k \in Told : FieldTold(records, meta, m[i], k)
    BY <1>1, <1>5, <1>7, SourcedIsTold DEF meta
  <2> HIDE DEF all, names
  <2>3. /\ names # {} => NamesOf(all) = names
        /\ OncePerName(all) /\ Len(all) \in Nat /\ DOMAIN all = 1 .. Len(all)
        /\ \A i \in DOMAIN all, k \in Told : FieldTold(records, meta, all[i], k)
    BY <1>7, <1>8, <2>1, <2>2
  <2> QED
    BY <2>3 DEF all, names, meta
<1>10. CASE m = <<>>
  <2> DEFINE a == Field("name", "Unknown")
  <2>1. all = <<a>> /\ names = {}
    BY <1>3, <1>7, <1>8, <1>10
  <2>2. \A k \in Told : k \notin DOMAIN a
    BY DEF Field, Told
  <2> HIDE DEF a
  <2>3. \A k \in Told : FieldTold(records, meta, a, k)
    <3> SUFFICES ASSUME NEW k \in Told PROVE FieldTold(records, meta, a, k)
      OBVIOUS
    <3> DEFINE named == {i \in DOMAIN records : "name" \in DOMAIN records[i]}
               said == {x \in ToSet(meta) : x["name"] = a["name"] /\ k \in DOMAIN x}
               tell == {i \in named : records[i]["name"] = a["name"] /\ k \in DOMAIN records[i]}
    <3>1. said = {}
      BY <2>1 DEF ToSet
    <3>2. tell = {}
      BY <2>1
    <3>3. Get(a, k) = None
      BY <2>2 DEF Get
    <3> HIDE DEF said, tell
    <3> QED
      BY <3>1, <3>2, <3>3 DEF FieldTold, said, tell
  <2> HIDE DEF all, names
  <2>4. Len(all) = 1 /\ DOMAIN all = 1 .. 1 /\ all[1] = a
    BY <2>1
  <2>5. OncePerName(all)
    BY <2>4 DEF OncePerName
  <2>6. /\ names # {} => NamesOf(all) = names
        /\ OncePerName(all) /\ Len(all) \in Nat /\ DOMAIN all = 1 .. Len(all)
        /\ \A i \in DOMAIN all, k \in Told : FieldTold(records, meta, all[i], k)
    BY <2>1, <2>3, <2>4, <2>5
  <2> QED
    BY <2>6 DEF all, names, meta
<1> QED
  BY <1>9, <1>10

\* AuthorsMerged: in any CIR, from a stale sidecar too, whoever a layer names is an author once, with
\* the fields rrxiv-meta.json gives, or else those of the last \rrxivauthor that gives them.
THEOREM AuthorsAreMerged == Spec => []AuthorsMerged
<1>1. IInv => AuthorsMerged
  <2> SUFFICES ASSUME IInv, cir # NoCir, OncePerName(MetaAuthors(cir.of.front))
               PROVE  LET front == cir.of.front
                          records == {i \in DOMAIN cir.aux.authors : "name" \in DOMAIN cir.aux.authors[i]}
                          meta == MetaAuthors(front)
                          names == (ToSet(front.authors) \ {""}) \cup {cir.aux.authors[i]["name"] : i \in records}
                                     \cup {meta[i]["name"] : i \in DOMAIN meta}
                      IN /\ names # {} => {a["name"] : a \in ToSet(cir.authors)} = names
                         /\ \A i, j \in DOMAIN cir.authors :
                              cir.authors[i]["name"] = cir.authors[j]["name"] => i = j
                         /\ \A a \in ToSet(cir.authors), f \in Told : FieldTold(cir.aux.authors, meta, a, f)
    BY DEF AuthorsMerged, OncePerName, FieldTold, Told
  <2>1. PICK s, aux : IsSource(s) /\ IsSidecarOf(s.front, aux) /\ cir = BuildCir(s, aux)
    BY DEF IInv, IsCirOf
  <2>2. PICK t : IsSource(t) /\ t.front = s.front /\ aux = Sidecar(t)
    BY <2>1 DEF IsSidecarOf
  <2> DEFINE front == cir.of.front
             records == cir.aux.authors
             all == cir.authors
             meta == MetaAuthors(front)
             names == (ToSet(front.authors) \ {""})
                        \cup {records[i]["name"] : i \in {j \in DOMAIN records : "name" \in DOMAIN records[j]}}
                        \cup {meta[i]["name"] : i \in DOMAIN meta}
  <2>3. aux.authors = s.front.records
    BY <2>2 DEF Sidecar, CompileSidecar
  <2>4. front = s.front /\ records = front.records /\ all = BuildAuthors(front, records)
    BY <2>1, <2>3 DEF BuildCir
  <2>5. /\ front.authors \in Seq(STRING) /\ front.meta.authors \in Seq(ToSet(front.meta.authors))
        /\ records \in Seq(ToSet(records))
    BY <2>1, <2>4 DEF IsSource
  <2> HIDE DEF front, records, all
  <2>6. /\ names # {} => NamesOf(all) = names
        /\ OncePerName(all) /\ Len(all) \in Nat /\ DOMAIN all = 1 .. Len(all)
        /\ \A i \in DOMAIN all, k \in Told : FieldTold(records, meta, all[i], k)
    <3>1. OncePerName(MetaAuthors(front))
      BY DEF front
    <3> DEFINE built == BuildAuthors(front, records)
    <3>2. /\ names # {} => NamesOf(built) = names
          /\ OncePerName(built) /\ Len(built) \in Nat /\ DOMAIN built = 1 .. Len(built)
          /\ \A i \in DOMAIN built, k \in Told : FieldTold(records, meta, built[i], k)
      BY <2>5, <3>1, AuthorsAre
    <3> HIDE DEF names, meta
    <3> QED
      BY <2>4, <3>2
  <2> HIDE DEF meta
  <2>7. {a["name"] : a \in ToSet(all)} = NamesOf(all)
    BY <2>6 DEF ToSet, NamesOf
  <2>8. \A a \in ToSet(all), f \in Told : FieldTold(records, meta, a, f)
    BY <2>6 DEF ToSet
  <2>9. \A i, j \in DOMAIN all : all[i]["name"] = all[j]["name"] => i = j
    BY <2>6 DEF OncePerName
  <2> QED
    BY <2>6, <2>7, <2>8, <2>9 DEF meta, front, records, all, names
<1> QED
  BY <1>1, Invariant, PTL

-----------------------------------------------------------------------------
(***************************************************************************)
(* Places. In a text whose included files include none, a line is as many  *)
(* lines of its file below the mark that opens it as are no other marks.   *)
(***************************************************************************)

\* Where reading along a flattened text one is: within an included file, or in main.tex.
Spots(files) == [file : DOMAIN files, line : Nat]
Outside == [file |-> "main", line |-> 0]

Moves(q, x, r) ==
  \/ x.mark = "inlined" /\ q.file = "main" /\ x.file # "main" /\ r = [file |-> x.file, line |-> 0]
  \/ x.mark = "end" /\ q.file # "main" /\ x.file = q.file /\ r = Outside
  \/ x.mark = "line" /\ q.file # "main" /\ x.file = q.file /\ x.line = q.line + 1
       /\ r = [file |-> q.file, line |-> q.line + 1]
  \/ x.mark = "line" /\ q.file = "main" /\ x.file = "main" /\ r = q
  \/ x.mark = "missing" /\ r = q

Leads(files, q, t, r) ==
  \E at \in [0 .. Len(t) -> Spots(files)] :
    at[0] = q /\ at[Len(t)] = r /\ \A i \in 1 .. Len(t) : Moves(at[i - 1], t[i], at[i])

LEMMA LeadsOne ==
  ASSUME NEW files, NEW q \in Spots(files), NEW x, NEW r \in Spots(files), Moves(q, x, r)
  PROVE  Leads(files, q, <<x>>, r)
<1> DEFINE S == Spots(files)
           at == [i \in 0 .. 1 |-> IF i = 0 THEN q ELSE r]
<1>1. Len(<<x>>) = 1 /\ <<x>>[1] = x
  OBVIOUS
<1> HIDE DEF S
<1>2. at \in [0 .. 1 -> S] /\ at[0] = q /\ at[1] = r
  BY DEF S
<1> HIDE DEF at
<1>3. \A i \in 1 .. 1 : Moves(at[i - 1], <<x>>[i], at[i])
  <2> SUFFICES ASSUME NEW i \in 1 .. 1 PROVE Moves(at[i - 1], <<x>>[i], at[i])
    OBVIOUS
  <2>1. i = 1 /\ i - 1 = 0
    OBVIOUS
  <2>2. at[i - 1] = q /\ <<x>>[i] = x /\ at[i] = r
    BY <1>1, <1>2, <2>1
  <2> QED
    BY <2>2
<1> QED
  BY <1>1, <1>2, <1>3 DEF Leads, S

LEMMA LeadsOn ==
  ASSUME NEW files, NEW P, NEW s \in Seq(P), NEW t \in Seq(P), NEW q, NEW r, NEW u,
         Leads(files, q, s, r), Leads(files, r, t, u)
  PROVE  Leads(files, q, s \o t, u)
<1> DEFINE S == Spots(files)
           m == Len(s)
           n == Len(t)
           st == s \o t
<1>1. m \in Nat /\ n \in Nat /\ Len(st) = m + n
      /\ (\A i \in 1 .. m : st[i] = s[i]) /\ \A i \in 1 .. n : st[i + m] = t[i]
  BY ConcatProperties
<1>2. PICK f \in [0 .. m -> S] : f[0] = q /\ f[m] = r /\ \A i \in 1 .. m : Moves(f[i - 1], s[i], f[i])
  BY DEF Leads
<1>3. PICK g \in [0 .. n -> S] : g[0] = r /\ g[n] = u /\ \A i \in 1 .. n : Moves(g[i - 1], t[i], g[i])
  BY DEF Leads
<1> DEFINE h == [i \in 0 .. m + n |-> IF i <= m THEN f[i] ELSE g[i - m]]
<1> HIDE DEF S, m, n, st
<1>4. h \in [0 .. m + n -> S]
  <2> SUFFICES ASSUME NEW i \in 0 .. m + n PROVE (IF i <= m THEN f[i] ELSE g[i - m]) \in S
    OBVIOUS
  <2>1. (i <= m => i \in 0 .. m) /\ (~(i <= m) => i - m \in 0 .. n)
    BY <1>1
  <2> QED
    BY <1>2, <1>3, <2>1
<1>5. (\A i \in 0 .. m : h[i] = f[i]) /\ \A i \in 0 .. n : h[i + m] = g[i]
  <2>1. ASSUME NEW i \in 0 .. m PROVE h[i] = f[i]
    BY <1>1
  <2>2. ASSUME NEW i \in 0 .. n PROVE h[i + m] = g[i]
    <3>1. i + m \in 0 .. m + n /\ (i + m) - m = i /\ (i + m <= m => i = 0)
      BY <1>1
    <3>2. CASE i = 0
      <4>1. h[0 + m] = f[m]
        BY <1>1
      <4> QED
        BY <1>2, <1>3, <3>2, <4>1
    <3>3. CASE i # 0
      BY <3>1, <3>3
    <3> QED
      BY <3>2, <3>3
  <2> QED
    BY <2>1, <2>2
<1> HIDE DEF h
<1>6. h[0] = q /\ h[m + n] = u
  <2>1. 0 \in 0 .. m /\ n \in 0 .. n /\ n + m = m + n
    BY <1>1
  <2>2. h[0] = f[0] /\ h[n + m] = g[n]
    BY <1>5, <2>1
  <2> QED
    BY <1>2, <1>3, <2>1, <2>2
<1>7. ASSUME NEW i \in 1 .. m + n PROVE Moves(h[i - 1], st[i], h[i])
  <2>1. CASE i <= m
    <3>1. i \in 1 .. m /\ i \in 0 .. m /\ i - 1 \in 0 .. m
      BY <1>1, <2>1
    <3>2. h[i - 1] = f[i - 1] /\ st[i] = s[i] /\ h[i] = f[i] /\ Moves(f[i - 1], s[i], f[i])
      BY <1>1, <1>2, <1>5, <3>1
    <3> QED
      BY <3>2
  <2>2. CASE ~(i <= m)
    <3> DEFINE j == i - m
    <3>1. j \in 1 .. n /\ j \in 0 .. n /\ j - 1 \in 0 .. n /\ j + m = i /\ (j - 1) + m = i - 1
      BY <1>1, <2>2
    <3> HIDE DEF j
    <3>2. h[(j - 1) + m] = g[j - 1] /\ st[j + m] = t[j] /\ h[j + m] = g[j] /\ Moves(g[j - 1], t[j], g[j])
      BY <1>1, <1>3, <1>5, <3>1
    <3> QED
      BY <3>1, <3>2
  <2> QED
    BY <2>1, <2>2
<1> QED
  BY <1>1, <1>4, <1>6, <1>7 DEF Leads, S, m, n, st

LEMMA OneAndOne ==
  ASSUME NEW T, NEW s \in Seq(T), NEW t \in Seq(T), Len(s) = 1, Len(t) = 1
  PROVE  (s \o t)[1] = s[1] /\ (s \o t)[2] = t[1]
<1>1. (\A i \in 1 .. Len(s) : (s \o t)[i] = s[i]) /\ \A i \in 1 .. Len(t) : (s \o t)[i + Len(s)] = t[i]
  BY ConcatProperties, SMTT(30)
<1>2. (s \o t)[1 + 1] = t[1]
  BY <1>1, SMTT(30)
<1> QED
  BY <1>1, <1>2, SMTT(30)

LEMMA TwoLines ==
  ASSUME NEW P, NEW a \in P, NEW b \in P
  PROVE  <<a>> \in Seq(P) /\ <<b>> \in Seq(P) /\ <<b>> \o <<a>> = <<b, a>>
<1>1. <<a>> \in Seq(P) /\ <<b>> \in Seq(P)
  OBVIOUS
<1>2. <<b, a>> \in Seq(P) /\ Len(<<b, a>>) = 2 /\ Len(<<b>>) = 1 /\ Len(<<a>>) = 1
      /\ <<b, a>>[1] = b /\ <<b, a>>[2] = a /\ <<b>>[1] = b /\ <<a>>[1] = a
  OBVIOUS
<1> DEFINE s == <<b>>
           t == <<a>>
           u == <<b, a>>
<1> HIDE DEF s, t, u
<1>3. s \in Seq(P) /\ t \in Seq(P) /\ u \in Seq(P) /\ Len(u) = 2 /\ Len(s) = 1 /\ Len(t) = 1
      /\ u[1] = b /\ u[2] = a /\ s[1] = b /\ t[1] = a
  BY <1>1, <1>2 DEF s, t, u
<1>4. s \o t \in Seq(P) /\ Len(s \o t) = Len(u) /\ \A i \in 1 .. 2 : (s \o t)[i] = u[i]
  <2>1. s \o t \in Seq(P) /\ Len(s \o t) = 2
    BY <1>3, ConcatProperties, SMTT(30)
  <2>2. (s \o t)[1] = b /\ (s \o t)[2] = a
    BY <1>3, OneAndOne
  <2> QED
    BY <1>3, <2>1, <2>2
<1>5. s \o t = u
  BY <1>3, <1>4, SeqEqual
<1> QED
  BY <1>1, <1>5 DEF s, t, u

LEMMA LeadsThrough ==
  ASSUME NEW files, NEW P, NEW ss \in Seq(Seq(P)), NEW qs \in [0 .. Len(ss) -> Spots(files)],
         \A k \in 1 .. Len(ss) : Leads(files, qs[k - 1], ss[k], qs[k])
  PROVE  Leads(files, qs[0], FlattenSeq(ss), qs[Len(ss)])
<1> DEFINE N == Len(ss)
           S == Spots(files)
<1>1. N \in Nat /\ \A i \in 1 .. N : ss[i] \in Seq(P)
  OBVIOUS
<1>2. CASE ss = << >>
  <2> DEFINE at == [i \in 0 .. 0 |-> qs[0]]
  <2>1. FlattenSeq(ss) = << >> /\ N = 0 /\ Len(<< >>) = 0
    BY <1>2 DEF FlattenSeq
  <2> HIDE DEF S
  <2>2. at \in [0 .. 0 -> S] /\ at[0] = qs[0]
    <3>1. qs[0] \in S
      BY <1>1 DEF S
    <3> QED
      BY <3>1
  <2>3. \A i \in 1 .. 0 : Moves(at[i - 1], << >>[i], at[i])
    OBVIOUS
  <2> HIDE DEF at, N
  <2>4. Leads(files, qs[0], << >>, qs[0])
    BY <2>1, <2>2, <2>3 DEF Leads, S
  <2> QED
    BY <2>1, <2>4 DEF N
<1>3. CASE ss # << >>
  <2>1. PICK f \in [1 .. N -> Seq(P)] :
          /\ f[1] = ss[1] /\ \A i \in 2 .. N : f[i] = f[i - 1] \o ss[i]
          /\ FlattenSeq(ss) = f[N]
    BY <1>3, FlattenSteps
  <2>2. N \in 1 .. N /\ 1 \in 1 .. N
    BY <1>1, <1>3
  <2> DEFINE Bad == {k \in 1 .. N : ~Leads(files, qs[0], f[k], qs[k])}
  <2> HIDE DEF N, S
  <2>3. \A k \in Bad : \E j \in Bad : j < k
    <3> SUFFICES ASSUME NEW k \in 1 .. N, ~Leads(files, qs[0], f[k], qs[k]) PROVE k - 1 \in Bad /\ k - 1 < k
      BY <1>1
    <3>1. k # 1
      <4>1. Leads(files, qs[1 - 1], ss[1], qs[1])
        BY <2>2 DEF N
      <4>2. 1 - 1 = 0
        OBVIOUS
      <4> QED
        BY <2>1, <4>1, <4>2
    <3>2. k - 1 \in 1 .. N /\ k \in 2 .. N /\ k - 1 < k
      BY <1>1, <3>1
    <3>3. f[k] = f[k - 1] \o ss[k] /\ f[k - 1] \in Seq(P) /\ ss[k] \in Seq(P) /\ Leads(files, qs[k - 1], ss[k], qs[k])
      BY <1>1, <2>1, <3>2 DEF N
    <3>4. ~Leads(files, qs[0], f[k - 1], qs[k - 1])
      BY <3>3, LeadsOn
    <3> QED
      BY <3>2, <3>4
  <2>4. Bad = {}
    <3>1. Bad \in SUBSET Nat
      BY <1>1
    <3> HIDE DEF Bad
    <3> QED
      BY <2>3, <3>1, NoLeast
  <2> QED
    BY <2>1, <2>2, <2>4 DEF N
<1> QED
  BY <1>2, <1>3

\* What flatten-tex makes of a line.
FlatPiece(files, flat, v, n) ==
  LET x == files[v.file][n]
      within == v.seen \cup {v.file}
  IN IF x.k \notin {"input", "figure"} THEN <<Place(v.file, n)>>
     ELSE IF x.k = "input" /\ x.file \in DOMAIN files \ within
     THEN <<Mark("inlined", x.file)>> \o flat[[file |-> x.file, seen |-> within]] \o <<Mark("end", x.file)>>
     ELSE <<Mark("missing", v.file), Place(v.file, n)>>

Unfolded(files, flat) ==
  \A v \in [file : DOMAIN files, seen : SUBSET DOMAIN files] :
    flat[v] = FlatStep(files, flat, v) /\ flat[v] \in Seq(Places(files))

LEMMA FlatPieceIs ==
  ASSUME NEW files, IsFiles(files), NEW flat, Unfolded(files, flat),
         NEW v \in [file : DOMAIN files, seen : SUBSET DOMAIN files], NEW n \in DOMAIN files[v.file]
  PROVE  /\ FlatPiece(files, flat, v, n) \in Seq(Places(files))
         /\ {Mark("missing", v.file), Place(v.file, n)} \subseteq Places(files)
         /\ \A f \in DOMAIN files : {Mark("inlined", f), Mark("end", f)} \subseteq Places(files)
<1> DEFINE F == DOMAIN files
           D == [file : F, seen : SUBSET F]
           P == Places(files)
           x == files[v.file][n]
           within == v.seen \cup {v.file}
           inside == flat[[file |-> x.file, seen |-> within]]
<1>1. files[v.file] \in Seq(ToSet(files[v.file])) /\ v.file \in F /\ within \in SUBSET F
  BY DEF IsFiles
<1>2. n \in Nat
  BY <1>1
<1>3. Mark("missing", v.file) \in P /\ Place(v.file, n) \in P
      /\ \A f \in F : Mark("inlined", f) \in P /\ Mark("end", f) \in P
  BY <1>1, <1>2 DEF Mark, Place, Places
<1>4. FlatPiece(files, flat, v, n) \in Seq(P)
  <2>1. CASE x.k \notin {"input", "figure"}
    <3>1. FlatPiece(files, flat, v, n) = <<Place(v.file, n)>>
      BY <2>1 DEF FlatPiece
    <3> HIDE DEF P
    <3>2. <<Place(v.file, n)>> \in Seq(P)
      BY <1>3
    <3> QED
      BY <3>1, <3>2
  <2>2. CASE x.k = "input" /\ x.file \in F \ within
    <3>1. inside \in Seq(P)
      <4>1. [file |-> x.file, seen |-> within] \in D
        BY <1>1, <2>2
      <4> QED
        BY <4>1 DEF Unfolded
    <3>2. FlatPiece(files, flat, v, n) = <<Mark("inlined", x.file)>> \o inside \o <<Mark("end", x.file)>>
      BY <2>2 DEF FlatPiece
    <3>3. Mark("inlined", x.file) \in P /\ Mark("end", x.file) \in P
      BY <1>3, <2>2
    <3> HIDE DEF inside, P, x
    <3>4. <<Mark("inlined", x.file)>> \in Seq(P) /\ <<Mark("end", x.file)>> \in Seq(P)
      BY <3>3
    <3>5. <<Mark("inlined", x.file)>> \o inside \in Seq(P)
      BY <3>1, <3>4, ConcatProperties
    <3> QED
      BY <3>2, <3>4, <3>5, ConcatProperties
  <2>3. CASE x.k \in {"input", "figure"} /\ ~(x.k = "input" /\ x.file \in F \ within)
    <3>1. FlatPiece(files, flat, v, n) = <<Mark("missing", v.file), Place(v.file, n)>>
      BY <2>3 DEF FlatPiece
    <3> HIDE DEF P
    <3>2. <<Mark("missing", v.file), Place(v.file, n)>> \in Seq(P)
      BY <1>3
    <3> QED
      BY <3>1, <3>2
  <2> HIDE DEF P
  <2> QED
    BY <2>1, <2>2, <2>3
<1> QED
  BY <1>3, <1>4

LEMMA StepLeads ==
  ASSUME NEW files, IsFiles(files), NEW flat, Unfolded(files, flat),
         NEW v \in [file : DOMAIN files, seen : SUBSET DOMAIN files],
         NEW qs \in [0 .. Len(files[v.file]) -> Spots(files)],
         \A n \in 1 .. Len(files[v.file]) : Leads(files, qs[n - 1], FlatPiece(files, flat, v, n), qs[n])
  PROVE  Leads(files, qs[0], flat[v], qs[Len(files[v.file])])
<1> DEFINE P == Places(files)
           N == Len(files[v.file])
           piece(n) == FlatPiece(files, flat, v, n)
           ss == [n \in 1 .. N |-> piece(n)]
<1>1. N \in Nat /\ DOMAIN files[v.file] = 1 .. N
  <2>1. files[v.file] \in Seq(ToSet(files[v.file]))
    BY DEF IsFiles
  <2> QED
    BY <2>1
<1>2. \A n \in 1 .. N : piece(n) \in Seq(P)
  BY <1>1, FlatPieceIs
<1>3. flat[v] = FlattenSeq(ss)
  <2>1. flat[v] = FlatStep(files, flat, v)
    BY DEF Unfolded
  <2>2. FlatStep(files, flat, v) = FlattenSeq([n \in DOMAIN files[v.file] |-> piece(n)])
    BY DEF FlatStep, FlatPiece
  <2> QED
    BY <1>1, <2>1, <2>2
<1> HIDE DEF P, N, piece
<1>4. ss \in Seq(Seq(P)) /\ Len(ss) = N /\ \A n \in 1 .. N : ss[n] = piece(n)
  BY <1>1, <1>2
<1> HIDE DEF ss
<1>5. qs \in [0 .. Len(ss) -> Spots(files)] /\ \A n \in 1 .. Len(ss) : Leads(files, qs[n - 1], ss[n], qs[n])
  BY <1>4 DEF N, piece
<1>6. Leads(files, qs[0], FlattenSeq(ss), qs[Len(ss)])
  BY <1>4, <1>5, LeadsThrough
<1> QED
  BY <1>3, <1>4, <1>6 DEF N

\* An included file, read to its end.
LEMMA IncludedLeads ==
  ASSUME NEW files, IsFiles(files), NEW flat, Unfolded(files, flat),
         NEW v \in [file : DOMAIN files, seen : SUBSET DOMAIN files], v.file # "main",
         \A x \in ToSet(files[v.file]) : x.k = "input" => x.file \notin DOMAIN files
  PROVE  Leads(files, [file |-> v.file, line |-> 0], flat[v], [file |-> v.file, line |-> Len(files[v.file])])
<1> DEFINE f == v.file
           N == Len(files[f])
           qs == [n \in 0 .. N |-> [file |-> f, line |-> n]]
<1>1. files[f] \in Seq(ToSet(files[f])) /\ f \in DOMAIN files
  BY DEF IsFiles
<1>2. N \in Nat /\ DOMAIN files[f] = 1 .. N /\ \A n \in 1 .. N : files[f][n] \in ToSet(files[f])
  BY <1>1
<1>3. qs \in [0 .. N -> Spots(files)] /\ \A n \in 0 .. N : [file |-> f, line |-> n] \in Spots(files)
  BY <1>1, <1>2 DEF Spots
<1>4. ASSUME NEW n \in 1 .. N
      PROVE  Leads(files, [file |-> f, line |-> n - 1], FlatPiece(files, flat, v, n), [file |-> f, line |-> n])
  <2> DEFINE q == [file |-> f, line |-> n - 1]
             r == [file |-> f, line |-> n]
             a == Place(f, n)
             b == Mark("missing", f)
             P == Places(files)
  <2>1. q \in Spots(files) /\ r \in Spots(files)
    BY <1>2, <1>3
  <2>2. Moves(q, a, r) /\ Moves(q, b, q)
    <3>1. f # "main" /\ n = (n - 1) + 1
      BY <1>2
    <3>2. a.mark = "line" /\ a.file = f /\ a.line = n /\ b.mark = "missing"
      BY DEF Place, Mark
    <3> HIDE DEF a, b
    <3> QED
      BY <3>1, <3>2 DEF Moves
  <2>3. a \in P /\ b \in P
    BY <1>2, FlatPieceIs
  <2>4. FlatPiece(files, flat, v, n) = <<a>> \/ FlatPiece(files, flat, v, n) = <<b, a>>
    <3>1. files[f][n] \in ToSet(files[f])
      BY <1>2
    <3> QED
      BY <3>1 DEF FlatPiece
  <2> HIDE DEF q, r, a, b, P
  <2>5. Leads(files, q, <<a>>, r) /\ Leads(files, q, <<b>>, q)
    BY <2>1, <2>2, LeadsOne
  <2>6. <<a>> \in Seq(P) /\ <<b>> \in Seq(P) /\ <<b>> \o <<a>> = <<b, a>>
    BY <2>3, TwoLines
  <2>7. Leads(files, q, <<b>> \o <<a>>, r)
    BY <2>5, <2>6, LeadsOn
  <2>8. Leads(files, q, FlatPiece(files, flat, v, n), r)
    BY <2>4, <2>5, <2>6, <2>7
  <2> QED
    BY <2>8 DEF q, r
<1>5. (\A n \in 0 .. N : qs[n] = [file |-> f, line |-> n]) /\ 0 \in 0 .. N /\ N \in 0 .. N /\ \A n \in 1 .. N : n - 1 \in 0 .. N
  BY <1>2
<1> HIDE DEF qs
<1>6. \A n \in 1 .. N : Leads(files, qs[n - 1], FlatPiece(files, flat, v, n), qs[n])
  <2> SUFFICES ASSUME NEW n \in 1 .. N PROVE Leads(files, qs[n - 1], FlatPiece(files, flat, v, n), qs[n])
    OBVIOUS
  <2>1. n \in 0 .. N /\ n - 1 \in 0 .. N
    BY <1>2
  <2>2. qs[n] = [file |-> f, line |-> n] /\ qs[n - 1] = [file |-> f, line |-> n - 1]
    BY <1>5, <2>1
  <2> QED
    BY <1>4, <2>2
<1>7. Leads(files, qs[0], flat[v], qs[N])
  BY <1>3, <1>6, StepLeads
<1> QED
  BY <1>5, <1>7

LEMMA FlattenLeads ==
  ASSUME NEW files, IsFiles(files),
         \A f \in DOMAIN files \ {"main"} : \A x \in ToSet(files[f]) : x.k = "input" => x.file \notin DOMAIN files
  PROVE  Leads(files, Outside, FlattenTex(files), Outside)
<1> DEFINE F == DOMAIN files
           v == [file |-> "main", seen |-> {}]
           N == Len(files["main"])
           P == Places(files)
           qs == [n \in 0 .. N |-> Outside]
<1>1. PICK flat : FlattenTex(files) = flat[v] /\ Unfolded(files, flat)
  BY FlattenTexIs DEF Unfolded
<1>2. v \in [file : F, seen : SUBSET F] /\ "main" \in F
  BY DEF IsFiles
<1>3. files["main"] \in Seq(ToSet(files["main"])) /\ N \in Nat /\ DOMAIN files["main"] = 1 .. N
  <2>1. files["main"] \in Seq(ToSet(files["main"]))
    BY <1>2 DEF IsFiles
  <2> QED
    BY <2>1
<1>4. Outside \in Spots(files)
  BY <1>2 DEF Outside, Spots
<1>5. ASSUME NEW n \in 1 .. N PROVE Leads(files, Outside, FlatPiece(files, flat, v, n), Outside)
  <2> DEFINE x == files["main"][n]
             a == Place("main", n)
             b == Mark("missing", "main")
  <2>1. a \in P /\ b \in P /\ \A f \in F : Mark("inlined", f) \in P /\ Mark("end", f) \in P
    BY <1>1, <1>2, <1>3, FlatPieceIs
  <2>2. Moves(Outside, a, Outside) /\ Moves(Outside, b, Outside)
    BY DEF Moves, Outside, Place, Mark
  <2>3. CASE x.k = "input" /\ x.file \in F \ {"main"}
    <3> DEFINE w == [file |-> x.file, seen |-> {"main"}]
               q == [file |-> x.file, line |-> 0]
               r == [file |-> x.file, line |-> Len(files[x.file])]
               c == Mark("inlined", x.file)
               e == Mark("end", x.file)
    <3>1. w \in [file : F, seen : SUBSET F] /\ w.file = x.file /\ x.file # "main" /\ x.file \in F
      BY <1>2, <2>3
    <3>2. FlatPiece(files, flat, v, n) = <<c>> \o flat[w] \o <<e>>
      BY <2>3 DEF FlatPiece
    <3>3. flat[w] \in Seq(P) /\ c \in P /\ e \in P
      BY <1>1, <2>1, <3>1 DEF Unfolded
    <3>4. files[x.file] \in Seq(ToSet(files[x.file]))
      BY <3>1 DEF IsFiles
    <3>5. q \in Spots(files) /\ r \in Spots(files)
      BY <3>1, <3>4 DEF Spots
    <3>6. Leads(files, q, flat[w], r)
      BY <1>1, <3>1, IncludedLeads
    <3>7. Moves(Outside, c, q) /\ Moves(r, e, Outside)
      BY <3>1 DEF Moves, Outside, Mark
    <3> HIDE DEF x, w, q, r, c, e, P
    <3>8. Leads(files, Outside, <<c>>, q) /\ Leads(files, r, <<e>>, Outside)
      BY <1>4, <3>5, <3>7, LeadsOne
    <3>9. <<c>> \in Seq(P) /\ <<e>> \in Seq(P)
      BY <3>3
    <3>10. Leads(files, Outside, <<c>> \o flat[w], r) /\ <<c>> \o flat[w] \in Seq(P)
      BY <3>3, <3>6, <3>8, <3>9, LeadsOn, ConcatProperties
    <3>11. Leads(files, Outside, <<c>> \o flat[w] \o <<e>>, Outside)
      BY <3>8, <3>9, <3>10, LeadsOn
    <3> QED
      BY <3>2, <3>11
  <2>4. CASE ~(x.k = "input" /\ x.file \in F \ {"main"})
    <3>1. FlatPiece(files, flat, v, n) = <<a>> \/ FlatPiece(files, flat, v, n) = <<b, a>>
      BY <2>4 DEF FlatPiece
    <3> HIDE DEF a, b, P
    <3>2. Leads(files, Outside, <<a>>, Outside) /\ Leads(files, Outside, <<b>>, Outside)
      BY <1>4, <2>2, LeadsOne
    <3>3. <<a>> \in Seq(P) /\ <<b>> \in Seq(P) /\ <<b>> \o <<a>> = <<b, a>>
      BY <2>1, TwoLines
    <3>4. Leads(files, Outside, <<b>> \o <<a>>, Outside)
      BY <3>2, <3>3, LeadsOn
    <3> QED
      BY <3>1, <3>2, <3>3, <3>4
  <2> QED
    BY <2>3, <2>4
<1>6. qs \in [0 .. N -> Spots(files)] /\ (\A n \in 0 .. N : qs[n] = Outside)
      /\ 0 \in 0 .. N /\ N \in 0 .. N /\ \A n \in 1 .. N : n - 1 \in 0 .. N
  BY <1>3, <1>4
<1> HIDE DEF qs
<1>7. \A n \in 1 .. N : Leads(files, qs[n - 1], FlatPiece(files, flat, v, n), qs[n])
  BY <1>5, <1>6
<1>8. Leads(files, qs[0], flat[v], qs[N])
  <2>1. v.file = "main"
    OBVIOUS
  <2> HIDE DEF v
  <2> QED
    BY <1>1, <1>2, <1>6, <1>7, <2>1, StepLeads
<1> QED
  BY <1>1, <1>6, <1>8

\* What the scan of the marks keeps: opened files, regions and lines that are nobody's.
Scans(files) ==
  [open : Seq([file : DOMAIN files, start : Nat]),
   regions : SUBSET [file : DOMAIN files, start : Nat, end : Nat], synthetic : SUBSET Nat]

NothingScanned == [open |-> <<>>, regions |-> {}, synthetic |-> {}]

\* A line scanned leaves the scan of its type.
LEMMA ScannedTyped ==
  ASSUME NEW files, NEW s \in Scans(files), NEW x \in Places(files), NEW i \in Nat
  PROVE  Scanned(s, x, i) \in Scans(files)
<1> DEFINE O == [file : DOMAIN files, start : Nat]
           R == [file : DOMAIN files, start : Nat, end : Nat]
<1>1. s.open \in Seq(O) /\ s.regions \in SUBSET R /\ s.synthetic \in SUBSET Nat
      /\ s = [open |-> s.open, regions |-> s.regions, synthetic |-> s.synthetic]
  BY DEF Scans
<1>2. x.file \in DOMAIN files
  BY DEF Places
<1>3. \A open \in Seq(O), regions \in SUBSET R, synthetic \in SUBSET Nat :
        [open |-> open, regions |-> regions, synthetic |-> synthetic] \in Scans(files)
  <2> HIDE DEF O, R
  <2>1. \A open \in Seq(O), regions \in SUBSET R, synthetic \in SUBSET Nat :
          [open |-> open, regions |-> regions, synthetic |-> synthetic]
            \in [open : Seq(O), regions : SUBSET R, synthetic : SUBSET Nat]
    OBVIOUS
  <2> QED
    BY <2>1 DEF Scans, O, R
<1>4. CASE x.mark = "inlined"
  <2> DEFINE o == [file |-> x.file, start |-> i]
             syn == IF s.open = <<>> THEN s.synthetic ELSE s.synthetic \cup {i}
  <2>1. o \in O /\ syn \in SUBSET Nat
    BY <1>1, <1>2
  <2>2. Scanned(s, x, i) = [s EXCEPT !.open = Append(@, o),
                                     !.synthetic = IF s.open = <<>> THEN @ ELSE @ \cup {i}]
    BY <1>4 DEF Scanned
  <2> HIDE DEF O, R, o
  <2>3. Append(s.open, o) \in Seq(O)
    BY <1>1, <2>1
  <2> DEFINE a == Append(s.open, o)
  <2>4. Scanned(s, x, i) = [open |-> a, regions |-> s.regions, synthetic |-> syn]
    BY <1>1, <2>2
  <2> HIDE DEF a, syn
  <2> QED
    BY <1>1, <1>3, <2>1, <2>3, <2>4 DEF a
<1>5. CASE x.mark = "end" /\ s.open # <<>> /\ Last(s.open).file = x.file
  <2> DEFINE r == [file |-> x.file, start |-> Last(s.open).start, end |-> i]
             syn == s.synthetic \cup {i}
             reg == s.regions \cup {r}
             open == Front(s.open)
  <2>1. Last(s.open) \in O /\ open \in Seq(O)
    <3> DEFINE u == s.open
    <3> HIDE DEF O, u
    <3>1. u \in Seq(O) /\ u # << >>
      BY <1>1, <1>5 DEF u
    <3>2. Len(u) \in Nat /\ Len(u) >= 1 /\ \A n \in 1 .. Len(u) : u[n] \in O
      BY <3>1
    <3>3. Last(u) \in O
      BY <3>2 DEF Last
    <3>4. SubSeq(u, 1, Len(u) - 1) \in Seq(O)
      BY <3>1, <3>2
    <3> QED
      BY <3>3, <3>4 DEF Front, u
  <2>2. r \in R /\ syn \in SUBSET Nat /\ reg \in SUBSET R
    BY <1>1, <1>2, <2>1
  <2>3. Scanned(s, x, i) = [s EXCEPT !.open = Front(@), !.synthetic = @ \cup {i}, !.regions = @ \cup {r}]
    BY <1>5 DEF Scanned
  <2>4. Scanned(s, x, i) = [open |-> open, regions |-> reg, synthetic |-> syn]
    <3> HIDE DEF r, O, R
    <3> QED
      BY <1>1, <2>3
  <2> HIDE DEF r, O, R, open, syn, reg
  <2> QED
    BY <1>3, <2>1, <2>2, <2>4
<1>6. CASE ~(x.mark = "inlined") /\ ~(x.mark = "end" /\ s.open # <<>> /\ Last(s.open).file = x.file)
  <2> DEFINE syn == s.synthetic \cup {i}
  <2>1. syn \in SUBSET Nat
    BY <1>1
  <2>2. Scanned(s, x, i) = s \/ Scanned(s, x, i) = [s EXCEPT !.synthetic = @ \cup {i}]
    BY <1>6 DEF Scanned
  <2>3. [s EXCEPT !.synthetic = @ \cup {i}] = [open |-> s.open, regions |-> s.regions, synthetic |-> syn]
    <3>1. s = [open |-> s.open, regions |-> s.regions, synthetic |-> s.synthetic]
      BY <1>1
    <3> HIDE DEF O, R
    <3> QED
      BY <3>1
  <2> HIDE DEF syn, O, R
  <2> QED
    BY <1>1, <1>3, <2>1, <2>2, <2>3, SMTT(40)
<1> QED
  BY <1>4, <1>5, <1>6

\* A mark or a line met inside at most one file.
LEMMA ScannedIs ==
  ASSUME NEW files, NEW s \in Scans(files), NEW x \in Places(files), NEW i \in Nat
  PROVE  /\ x.mark = "inlined" /\ s.open = <<>>
              => Scanned(s, x, i) = [open |-> <<[file |-> x.file, start |-> i]>>,
                                     regions |-> s.regions, synthetic |-> s.synthetic]
         /\ \A b \in Nat : x.mark = "end" /\ s.open = <<[file |-> x.file, start |-> b]>>
              => Scanned(s, x, i) = [open |-> <<>>, regions |-> s.regions \cup {[file |-> x.file, start |-> b, end |-> i]},
                                     synthetic |-> s.synthetic \cup {i}]
         /\ x.mark = "missing"
              => Scanned(s, x, i) = [open |-> s.open, regions |-> s.regions, synthetic |-> s.synthetic \cup {i}]
         /\ x.mark = "line" => Scanned(s, x, i) = s
<1>1. s = [open |-> s.open, regions |-> s.regions, synthetic |-> s.synthetic]
  BY DEF Scans
<1>2. ASSUME x.mark = "inlined", s.open = <<>>
      PROVE  Scanned(s, x, i) = [open |-> <<[file |-> x.file, start |-> i]>>,
                                 regions |-> s.regions, synthetic |-> s.synthetic]
  <2> DEFINE o == [file |-> x.file, start |-> i]
  <2>1. Scanned(s, x, i) = [s EXCEPT !.open = Append(@, o), !.synthetic = IF s.open = <<>> THEN @ ELSE @ \cup {i}]
    BY <1>2 DEF Scanned
  <2> HIDE DEF o
  <2>2. Append(<<>>, o) = <<o>>
    OBVIOUS
  <2>3. Scanned(s, x, i) = [open |-> Append(s.open, o), regions |-> s.regions, synthetic |-> s.synthetic]
    BY <1>1, <1>2, <2>1
  <2>4. Scanned(s, x, i) = [open |-> <<o>>, regions |-> s.regions, synthetic |-> s.synthetic]
    BY <1>2, <2>2, <2>3
  <2> QED
    BY <2>4 DEF o
<1>3. ASSUME NEW b \in Nat, x.mark = "end", s.open = <<[file |-> x.file, start |-> b]>>
      PROVE  Scanned(s, x, i) = [open |-> <<>>, regions |-> s.regions \cup {[file |-> x.file, start |-> b, end |-> i]},
                                 synthetic |-> s.synthetic \cup {i}]
  <2> DEFINE o == [file |-> x.file, start |-> b]
             r == [file |-> x.file, start |-> b, end |-> i]
  <2>1. o.file = x.file /\ o.start = b
    OBVIOUS
  <2> HIDE DEF o
  <2>2. <<o>> # <<>> /\ Last(<<o>>) = o /\ Front(<<o>>) = <<>>
    <3>1. Len(<<o>>) = 1 /\ <<o>>[1] = o /\ <<o>> # <<>> /\ SubSeq(<<o>>, 1, 0) = <<>>
      OBVIOUS
    <3> QED
      BY <3>1 DEF Last, Front
  <2>3. s.open = <<o>>
    BY <1>3 DEF o
  <2>4. Scanned(s, x, i) = [s EXCEPT !.open = Front(@), !.synthetic = @ \cup {i},
                                     !.regions = @ \cup {[file |-> x.file, start |-> Last(s.open).start, end |-> i]}]
    BY <1>3, <2>1, <2>2, <2>3 DEF Scanned
  <2>5. Scanned(s, x, i) = [s EXCEPT !.open = Front(@), !.synthetic = @ \cup {i}, !.regions = @ \cup {r}]
    BY <2>1, <2>2, <2>3, <2>4
  <2> HIDE DEF r
  <2>6. Scanned(s, x, i) = [open |-> Front(s.open), regions |-> s.regions \cup {r}, synthetic |-> s.synthetic \cup {i}]
    BY <1>1, <2>5
  <2> QED
    BY <2>2, <2>3, <2>6 DEF r
<1>4. ASSUME x.mark = "missing"
      PROVE  Scanned(s, x, i) = [open |-> s.open, regions |-> s.regions, synthetic |-> s.synthetic \cup {i}]
  <2>1. Scanned(s, x, i) = [s EXCEPT !.synthetic = @ \cup {i}]
    BY <1>4 DEF Scanned
  <2> QED
    BY <1>1, <2>1
<1>5. ASSUME x.mark = "line" PROVE Scanned(s, x, i) = s
  BY <1>5 DEF Scanned
<1> QED
  BY <1>2, <1>3, <1>4, <1>5

\* The scan of a text, line by line.
LEMMA ScanIs ==
  ASSUME NEW files, NEW text \in Seq(Places(files))
  PROVE  \E scan \in [0 .. Len(text) -> Scans(files)] :
           /\ scan[0] = NothingScanned
           /\ \A i \in 1 .. Len(text) : scan[i] = Scanned(scan[i - 1], text[i], i)
           /\ ScanMarks(text) =
                [regions |-> scan[Len(text)].regions \cup
                             {[file |-> o.file, start |-> o.start, end |-> Len(text)] : o \in ToSet(scan[Len(text)].open)},
                 synthetic |-> scan[Len(text)].synthetic, lines |-> Len(text)]
<1> DEFINE N == Len(text)
           S == Scans(files)
           step == [p \in (1 .. N) \X S |-> Scanned(p[2], text[p[1]], p[1])]
           scan == CHOOSE f : f = [i \in 0 .. N |-> IF i = 0 THEN NothingScanned ELSE Scanned(f[i - 1], text[i], i)]
<1>1. N \in Nat /\ \A i \in 1 .. N : text[i] \in Places(files) /\ i \in Nat
  BY EmptySeq
<1>2. NothingScanned \in S
  BY DEF NothingScanned, Scans
<1>3. step \in [(1 .. N) \X S -> S]
  BY <1>1, ScannedTyped
<1>4. ScanMarks(text) =
        [regions |-> scan[N].regions \cup {[file |-> o.file, start |-> o.start, end |-> N] : o \in ToSet(scan[N].open)},
         synthetic |-> scan[N].synthetic, lines |-> N]
  BY DEF ScanMarks, NothingScanned
<1> HIDE DEF N, S
<1>5. PICK f \in [0 .. N -> S] : f[0] = NothingScanned /\ \A n \in 1 .. N : f[n] = step[<<n, f[n - 1]>>]
  <2> HIDE DEF step
  <2>1. IsChain(S, N, NothingScanned, step)
    BY <1>1, <1>2, <1>3 DEF IsChain
  <2> QED
    BY <2>1, Chain
<1>6. f = [i \in 0 .. N |-> IF i = 0 THEN NothingScanned ELSE Scanned(f[i - 1], text[i], i)]
  <2>1. ASSUME NEW i \in 0 .. N PROVE f[i] = IF i = 0 THEN NothingScanned ELSE Scanned(f[i - 1], text[i], i)
    <3>1. CASE i = 0
      BY <1>5, <3>1
    <3>2. CASE i # 0
      <4>1. i \in 1 .. N /\ i - 1 \in 0 .. N
        BY <1>1, <3>2
      <4>2. f[i] = step[<<i, f[i - 1]>>] /\ <<i, f[i - 1]>> \in (1 .. N) \X S
        BY <1>5, <4>1
      <4>3. step[<<i, f[i - 1]>>] = Scanned(f[i - 1], text[i], i)
        BY <4>2
      <4> QED
        BY <3>2, <4>2, <4>3
    <3> QED
      BY <3>1, <3>2
  <2> QED
    BY <1>5, <2>1
<1>7. scan = [i \in 0 .. N |-> IF i = 0 THEN NothingScanned ELSE Scanned(scan[i - 1], text[i], i)]
  <2> HIDE DEF step
  <2> QED
    BY <1>6
<1> HIDE DEF scan
<1>8. scan[0] = NothingScanned /\ \A i \in 1 .. N : scan[i] = Scanned(scan[i - 1], text[i], i)
  BY <1>1, <1>7
<1>9. \A i \in 0 .. N : scan[i] \in S
  <2> DEFINE Wrong == {i \in 0 .. N : scan[i] \notin S}
  <2>1. \A i \in Wrong : \E j \in Wrong : j < i
    <3> SUFFICES ASSUME NEW i \in 0 .. N, scan[i] \notin S PROVE i - 1 \in Wrong /\ i - 1 < i
      BY <1>1
    <3>1. i # 0
      BY <1>2, <1>8
    <3>2. i \in 1 .. N /\ i - 1 \in 0 .. N /\ i - 1 < i
      BY <1>1, <3>1
    <3>3. scan[i - 1] \notin S
      BY <1>1, <1>8, <3>2, ScannedTyped DEF S
    <3> QED
      BY <3>2, <3>3
  <2>2. Wrong \in SUBSET Nat
    BY <1>1
  <2> HIDE DEF Wrong
  <2>3. Wrong = {}
    BY <2>1, <2>2, NoLeast
  <2> QED
    BY <2>3 DEF Wrong
<1>10. scan \in [0 .. N -> S]
  <2>1. scan = [i \in 0 .. N |-> scan[i]]
    BY <1>7
  <2> QED
    BY <1>9, <2>1
<1> QED
  BY <1>4, <1>8, <1>10 DEF N, S

\* Line p, counted from the mark at b that opened file f.
Counted(text, s, p, f, b) ==
  b < p /\ text[p].file = f /\ text[p].line = p - b - Cardinality(MarksBefore(s, b, p))

\* What the scan s of the first i lines says where one is at q: the regions are apart,
\* the opened file is the one one is in, and the lines of included files are counted.
RegionsFit(i, s) ==
  /\ s.synthetic \subseteq 1 .. i
  /\ \A o \in s.regions : o.start < o.end /\ o.end <= i
  /\ \A a, o \in s.regions : a = o \/ a.end <= o.start \/ o.end <= a.start

Opened(i, q, s, b) ==
  /\ s.open = <<[file |-> q.file, start |-> b]>> /\ \A o \in s.regions : o.end <= b
  /\ q.line = i - b - Cardinality(MarksBefore(s, b, i))

LineFits(text, i, q, s, p) ==
  \/ \E o \in s.regions : p <= o.end /\ Counted(text, s, p, o.file, o.start)
  \/ \E b \in 1 .. i : q.file # "main" /\ s.open = <<[file |-> q.file, start |-> b]>> /\ Counted(text, s, p, q.file, b)

ScanFits(text, i, q, s) ==
  /\ RegionsFit(i, s)
  /\ q.file = "main" => s.open = <<>>
  /\ q.file # "main" => \E b \in 1 .. i : Opened(i, q, s, b)
  /\ \A p \in 1 .. i : text[p].mark = "line" /\ text[p].file # "main" => LineFits(text, i, q, s, p)

\* A line below adds nothing to the marks above it, and at a mark itself none is counted.
LEMMA MarksLater ==
  ASSUME NEW i \in Nat, NEW s, NEW t, s.synthetic \subseteq 1 .. i,
         t.synthetic = s.synthetic \/ t.synthetic = s.synthetic \cup {i + 1}
  PROVE  /\ t.synthetic \subseteq 1 .. i + 1
         /\ \A b \in Nat, p \in Nat : p <= i => MarksBefore(t, b, p) = MarksBefore(s, b, p)
         /\ Cardinality(MarksBefore(t, i + 1, i + 1)) = 0
<1>1. t.synthetic \subseteq 1 .. i + 1
  OBVIOUS
<1>2. \A b \in Nat, p \in Nat : p <= i => MarksBefore(t, b, p) = MarksBefore(s, b, p)
  BY DEF MarksBefore
<1>3. Cardinality(MarksBefore(t, i + 1, i + 1)) = 0
  <2>1. MarksBefore(t, i + 1, i + 1) = {}
    BY <1>1 DEF MarksBefore
  <2> QED
    BY <2>1, FS_EmptySet
<1> QED
  BY <1>1, <1>2, <1>3

\* The marks counted up to the next line are one more when this line is a mark, else as many.
LEMMA MarksNow ==
  ASSUME NEW i \in Nat, NEW s, NEW t, s.synthetic \subseteq 1 .. i, NEW b \in Nat, b <= i
  PROVE  LET c == Cardinality(MarksBefore(s, b, i))
             d == Cardinality(MarksBefore(t, b, i + 1))
         IN /\ c \in Nat
            /\ t.synthetic = s.synthetic => d = c
            /\ t.synthetic = s.synthetic \cup {i + 1} => d = c + 1
<1> DEFINE M == MarksBefore(s, b, i)
<1>1. IsFiniteSet(M) /\ Cardinality(M) \in Nat
  <2>1. M \in SUBSET (1 .. i)
    BY DEF MarksBefore
  <2>2. IsFiniteSet(1 .. i)
    BY IntervalCount
  <2>3. IsFiniteSet(M)
    BY <2>1, <2>2, FS_Subset
  <2> QED
    BY <2>3, FS_CardinalityType
<1>2. t.synthetic = s.synthetic => MarksBefore(t, b, i + 1) = M
  BY DEF MarksBefore
<1>3. t.synthetic = s.synthetic \cup {i + 1} => MarksBefore(t, b, i + 1) = M \cup {i + 1}
  BY DEF MarksBefore
<1>4. i + 1 \notin M
  BY DEF MarksBefore
<1> HIDE DEF M
<1>5. Cardinality(M \cup {i + 1}) = Cardinality(M) + 1
  BY <1>1, <1>4, FS_AddElement
<1> QED
  BY <1>1, <1>2, <1>3, <1>5 DEF M

\* The lines above count as they did.
LEMMA CountedStill ==
  ASSUME NEW text, NEW i \in Nat, NEW s, NEW t, s.synthetic \subseteq 1 .. i,
         t.synthetic = s.synthetic \/ t.synthetic = s.synthetic \cup {i + 1},
         NEW p \in 1 .. i, NEW f, NEW b \in Nat, Counted(text, s, p, f, b)
  PROVE  Counted(text, t, p, f, b)
<1>1. p \in Nat /\ p <= i
  OBVIOUS
<1>2. MarksBefore(t, b, p) = MarksBefore(s, b, p)
  BY <1>1, MarksLater
<1> QED
  BY <1>2 DEF Counted

\* The mark or line read, and what becomes of the scan.
Opens(i, q, x, r, s, t) ==
  /\ q.file = "main" /\ s.open = <<>> /\ x.mark = "inlined"
  /\ r.file # "main" /\ r.line = 0 /\ t.open = <<[file |-> r.file, start |-> i + 1]>>
  /\ t.regions = s.regions /\ t.synthetic = s.synthetic

Closes(i, q, x, r, s, t, b) ==
  /\ q.file # "main" /\ Opened(i, q, s, b) /\ x.mark = "end"
  /\ r.file = "main" /\ t.open = <<>>
  /\ t.regions = s.regions \cup {[file |-> q.file, start |-> b, end |-> i + 1]}
  /\ t.synthetic = s.synthetic \cup {i + 1}

Reads(q, x, r, s, t) ==
  /\ q.file # "main" /\ x.mark = "line" /\ x.file = q.file /\ x.line = q.line + 1
  /\ r.file = q.file /\ r.line = q.line + 1 /\ t = s

Passes(q, x, r, s, t) == q.file = "main" /\ x.file = "main" /\ r = q /\ t = s

Skips(i, q, x, r, s, t) ==
  /\ x.mark = "missing" /\ r = q /\ t.open = s.open
  /\ t.regions = s.regions /\ t.synthetic = s.synthetic \cup {i + 1}

\* A line opens a file, closes one, is a line of it, is passed by outside, or is skipped: scan and reader agree.
LEMMA ScanMoves ==
  ASSUME NEW files, NEW text, NEW i \in Nat, NEW x \in Places(files),
         NEW q \in Spots(files), NEW r, Moves(q, x, r),
         NEW s \in Scans(files), NEW t, t = Scanned(s, x, i + 1), ScanFits(text, i, q, s)
  PROVE  \/ Opens(i, q, x, r, s, t) \/ \E b \in 1 .. i : Closes(i, q, x, r, s, t, b)
         \/ Reads(q, x, r, s, t) \/ Passes(q, x, r, s, t) \/ Skips(i, q, x, r, s, t)
<1> DEFINE n == i + 1
<1>1. n \in Nat /\ t = Scanned(s, x, n)
  OBVIOUS
<1> HIDE DEF n
<1>2. CASE x.mark = "inlined" /\ q.file = "main" /\ x.file # "main" /\ r = [file |-> x.file, line |-> 0]
  <2>1. s.open = <<>>
    BY <1>2 DEF ScanFits
  <2>2. t = [open |-> <<[file |-> x.file, start |-> n]>>, regions |-> s.regions, synthetic |-> s.synthetic]
    BY <1>1, <1>2, <2>1, ScannedIs
  <2>3. t.open = <<[file |-> x.file, start |-> n]>> /\ t.regions = s.regions /\ t.synthetic = s.synthetic
    BY <2>2
  <2>4. r.file = x.file /\ r.line = 0
    BY <1>2
  <2> QED
    BY <1>2, <2>1, <2>3, <2>4 DEF n, Opens
<1>3. CASE x.mark = "end" /\ q.file # "main" /\ x.file = q.file /\ r = Outside
  <2>1. PICK b \in 1 .. i : Opened(i, q, s, b)
    BY <1>3 DEF ScanFits
  <2>2. s.open = <<[file |-> x.file, start |-> b]>> /\ b \in Nat
    BY <1>3, <2>1 DEF Opened
  <2>3. t = [open |-> <<>>, regions |-> s.regions \cup {[file |-> x.file, start |-> b, end |-> n]},
             synthetic |-> s.synthetic \cup {n}]
    <3>1. \A c \in Nat : x.mark = "end" /\ s.open = <<[file |-> x.file, start |-> c]>>
            => Scanned(s, x, n) = [open |-> <<>>, regions |-> s.regions \cup {[file |-> x.file, start |-> c, end |-> n]},
                                   synthetic |-> s.synthetic \cup {n}]
      BY <1>1, ScannedIs
    <3> QED
      BY <1>1, <1>3, <2>2, <3>1
  <2>4. t.open = <<>> /\ t.regions = s.regions \cup {[file |-> x.file, start |-> b, end |-> n]}
        /\ t.synthetic = s.synthetic \cup {n}
    BY <2>3
  <2>5. r.file = "main"
    BY <1>3 DEF Outside
  <2> QED
    BY <1>3, <2>1, <2>4, <2>5 DEF n, Closes
<1>4. CASE x.mark = "line" /\ q.file # "main" /\ x.file = q.file /\ x.line = q.line + 1
           /\ r = [file |-> q.file, line |-> q.line + 1]
  <2>1. t = s
    BY <1>1, <1>4, ScannedIs
  <2>2. r.file = q.file /\ r.line = q.line + 1
    BY <1>4
  <2> QED
    BY <1>4, <2>1, <2>2 DEF Reads
<1>5. CASE x.mark = "line" /\ q.file = "main" /\ x.file = "main" /\ r = q
  <2>1. t = s
    BY <1>1, <1>5, ScannedIs
  <2> QED
    BY <1>5, <2>1 DEF Passes
<1>6. CASE x.mark = "missing" /\ r = q
  <2>1. t = [open |-> s.open, regions |-> s.regions, synthetic |-> s.synthetic \cup {n}]
    <3>1. x.mark = "missing"
            => Scanned(s, x, n) = [open |-> s.open, regions |-> s.regions, synthetic |-> s.synthetic \cup {n}]
      BY <1>1, ScannedIs
    <3> QED
      BY <1>1, <1>6, <3>1
  <2>2. t.open = s.open /\ t.regions = s.regions /\ t.synthetic = s.synthetic \cup {n}
    BY <2>1
  <2> QED
    BY <1>6, <2>2 DEF n, Skips
<1> QED
  BY <1>2, <1>3, <1>4, <1>5, <1>6 DEF Moves

\* A line adds at most one region, below the others.
LEMMA RegionsFitOn ==
  ASSUME NEW i \in Nat, NEW s, NEW t, RegionsFit(i, s),
         t.synthetic = s.synthetic \/ t.synthetic = s.synthetic \cup {i + 1},
         \A o \in s.regions : o.start \in Nat /\ o.end \in Nat,
         \/ t.regions = s.regions
         \/ \E b \in 1 .. i : \E f : /\ \A o \in s.regions : o.end <= b
                                     /\ t.regions = s.regions \cup {[file |-> f, start |-> b, end |-> i + 1]}
  PROVE  RegionsFit(i + 1, t)
<1>1. t.synthetic \subseteq 1 .. i + 1
  BY DEF RegionsFit
<1>2. CASE t.regions = s.regions
  BY <1>1, <1>2 DEF RegionsFit
<1>3. ASSUME NEW b \in 1 .. i, NEW f, \A o \in s.regions : o.end <= b,
             t.regions = s.regions \cup {[file |-> f, start |-> b, end |-> i + 1]}
      PROVE  RegionsFit(i + 1, t)
  <2> DEFINE z == [file |-> f, start |-> b, end |-> i + 1]
  <2>1. z.start = b /\ z.end = i + 1 /\ b \in Nat /\ b < i + 1
    OBVIOUS
  <2>2. t.regions = s.regions \cup {z}
    BY <1>3
  <2> HIDE DEF z
  <2>3. \A o \in t.regions : o.start < o.end /\ o.end <= i + 1
    BY <2>1, <2>2 DEF RegionsFit
  <2>4. ASSUME NEW a \in t.regions, NEW o \in t.regions PROVE a = o \/ a.end <= o.start \/ o.end <= a.start
    <3>1. CASE a \in s.regions /\ o \in s.regions
      BY <3>1 DEF RegionsFit
    <3>2. CASE a = z \/ o = z
      BY <1>3, <2>1, <2>2, <3>2
    <3> QED
      BY <2>2, <3>1, <3>2
  <2> QED
    BY <1>1, <2>3, <2>4 DEF RegionsFit
<1> QED
  BY <1>2, <1>3

\* Two stacks of one opened file each are equal only if the files and their starts are.
LEMMA OnlyOne ==
  ASSUME NEW f, NEW g, NEW a, NEW b, <<[file |-> f, start |-> a]>> = <<[file |-> g, start |-> b]>>
  PROVE  f = g /\ a = b
<1> DEFINE x == [file |-> f, start |-> a]
           y == [file |-> g, start |-> b]
<1>1. x = y
  <2> HIDE DEF x, y
  <2>1. <<x>>[1] = x /\ <<y>>[1] = y
    OBVIOUS
  <2>2. <<x>> = <<y>>
    BY DEF x, y
  <2> QED
    BY <2>1, <2>2
<1>2. x.file = f /\ y.file = g /\ x.start = a /\ y.start = b
  OBVIOUS
<1> QED
  BY <1>1, <1>2

\* A line scanned and read on leaves regions apart and lines counted.
LEMMA ScanFitsOn ==
  ASSUME NEW files, NEW text, NEW i \in Nat, text[i + 1] \in Places(files),
         NEW q \in Spots(files), NEW r \in Spots(files), Moves(q, text[i + 1], r),
         NEW s \in Scans(files), NEW t, t = Scanned(s, text[i + 1], i + 1), ScanFits(text, i, q, s)
  PROVE  ScanFits(text, i + 1, r, t)
<1> DEFINE x == text[i + 1]
           Far(p) == text[p].mark = "line" /\ text[p].file # "main"
           A == Opens(i, q, x, r, s, t)
           B(b) == Closes(i, q, x, r, s, t, b)
           C == Reads(q, x, r, s, t)
           D == Passes(q, x, r, s, t)
           E == Skips(i, q, x, r, s, t)
<1>1. A \/ (\E b \in 1 .. i : B(b)) \/ C \/ D \/ E
  <2>1. x \in Places(files) /\ Moves(q, x, r) /\ t = Scanned(s, x, i + 1)
    OBVIOUS
  <2> HIDE DEF x
  <2> QED
    BY <2>1, ScanMoves
<1>2. RegionsFit(i, s) /\ (q.file = "main" => s.open = <<>>)
      /\ (q.file # "main" => \E b \in 1 .. i : Opened(i, q, s, b))
      /\ \A p \in 1 .. i : Far(p) => LineFits(text, i, q, s, p)
  BY DEF ScanFits
<1>3. s.synthetic \subseteq 1 .. i /\ q.line \in Nat
      /\ \A o \in s.regions : o.start \in Nat /\ o.end \in Nat /\ o.end <= i
  BY <1>2 DEF RegionsFit, Scans, Spots
<1> USE DEF Opens, Closes, Reads, Passes, Skips
<1>4. t.synthetic = s.synthetic \/ t.synthetic = s.synthetic \cup {i + 1}
  BY <1>1
<1>5. \/ t.regions = s.regions
      \/ \E b \in 1 .. i : /\ q.file # "main" /\ Opened(i, q, s, b)
                           /\ t.regions = s.regions \cup {[file |-> q.file, start |-> b, end |-> i + 1]}
  BY <1>1
<1>6. RegionsFit(i + 1, t)
  <2>1. \/ t.regions = s.regions
        \/ \E b \in 1 .. i : \E f : /\ \A o \in s.regions : o.end <= b
                                    /\ t.regions = s.regions \cup {[file |-> f, start |-> b, end |-> i + 1]}
    BY <1>5 DEF Opened
  <2> QED
    BY <1>2, <1>3, <1>4, <2>1, RegionsFitOn
<1>7. s.regions \subseteq t.regions
  BY <1>5
\* The lines above.
<1>8. ASSUME NEW p \in 1 .. i, Far(p) PROVE LineFits(text, i + 1, r, t, p)
  <2>1. p <= i /\ p \in Nat
    OBVIOUS
  <2>2. LineFits(text, i, q, s, p)
    BY <1>2, <1>8
  <2>3. ASSUME NEW o \in s.regions, p <= o.end, Counted(text, s, p, o.file, o.start)
        PROVE  LineFits(text, i + 1, r, t, p)
    <3>1. Counted(text, t, p, o.file, o.start) /\ o \in t.regions
      BY <1>3, <1>4, <1>7, <2>3, CountedStill
    <3> QED
      BY <2>3, <3>1 DEF LineFits
  <2>4. ASSUME NEW c \in 1 .. i, q.file # "main", s.open = <<[file |-> q.file, start |-> c]>>,
               Counted(text, s, p, q.file, c)
        PROVE  LineFits(text, i + 1, r, t, p)
    <3>1. Counted(text, t, p, q.file, c)
      BY <1>3, <1>4, <2>4, CountedStill
    <3>2. CASE C \/ E
      <4>1. r.file = q.file /\ t.open = s.open /\ c \in 1 .. i + 1
        BY <3>2
      <4> QED
        BY <2>4, <3>1, <4>1 DEF LineFits
    <3>3. ASSUME NEW b \in 1 .. i, B(b) PROVE LineFits(text, i + 1, r, t, p)
      <4>1. b = c
        <5>1. <<[file |-> q.file, start |-> b]>> = <<[file |-> q.file, start |-> c]>>
          BY <2>4, <3>3 DEF Opened
        <5> QED
          BY <5>1, OnlyOne
      <4> DEFINE z == [file |-> q.file, start |-> b, end |-> i + 1]
      <4>2. z \in t.regions
        BY <3>3
      <4>3. z.file = q.file /\ z.start = c /\ z.end = i + 1 /\ p <= i + 1
        BY <2>1, <4>1
      <4> HIDE DEF z
      <4> QED
        BY <3>1, <4>2, <4>3 DEF LineFits
    <3>4. CASE A \/ D
      BY <2>4, <3>4
    <3> QED
      BY <1>1, <3>2, <3>3, <3>4
  <2> QED
    BY <2>2, <2>3, <2>4 DEF LineFits
\* The line or mark read.
<1>9. CASE A
  <2>1. Opened(i + 1, r, t, i + 1)
    <3>1. \A o \in t.regions : o.end <= i + 1
      BY <1>3, <1>9
    <3>2. Cardinality(MarksBefore(t, i + 1, i + 1)) = 0
      BY <1>3, <1>4, MarksLater
    <3> QED
      BY <1>9, <3>1, <3>2 DEF Opened
  <2>2. i + 1 \in 1 .. i + 1
    OBVIOUS
  <2>3. ~Far(i + 1)
    BY <1>9
  <2>4. \A p \in 1 .. i + 1 : Far(p) => LineFits(text, i + 1, r, t, p)
    BY <1>8, <2>3
  <2> QED
    BY <1>6, <1>9, <2>1, <2>2, <2>4 DEF ScanFits
<1>10. CASE (\E b \in 1 .. i : B(b)) \/ D
  <2>1. r.file = "main" /\ t.open = <<>> /\ ~Far(i + 1)
    BY <1>2, <1>10
  <2>2. \A p \in 1 .. i + 1 : Far(p) => LineFits(text, i + 1, r, t, p)
    BY <1>8, <2>1
  <2> QED
    BY <1>6, <2>1, <2>2 DEF ScanFits
<1>11. CASE C \/ E
  <2>1. r.file = q.file /\ t.open = s.open /\ t.regions = s.regions
    BY <1>11
  <2>2. ASSUME NEW b \in 1 .. i, Opened(i, q, s, b) PROVE Opened(i + 1, r, t, b)
    <3>1. b \in Nat /\ b <= i
      OBVIOUS
    <3> DEFINE c == Cardinality(MarksBefore(s, b, i))
               d == Cardinality(MarksBefore(t, b, i + 1))
    <3>2. c \in Nat /\ (t.synthetic = s.synthetic => d = c) /\ (t.synthetic = s.synthetic \cup {i + 1} => d = c + 1)
      <4>1. s.synthetic \subseteq 1 .. i
        BY <1>3
      <4> HIDE DEF Opens, Closes, Reads, Passes, Skips, x, Far, A, B, C, D, E
      <4> QED
        BY <3>1, <4>1, MarksNow
    <3> HIDE DEF c, d
    <3>3. q.line = i - b - c
      BY <2>2 DEF Opened, c
    <3>4. r.line = (i + 1) - b - d
      <4>1. CASE C
        BY <3>1, <3>2, <3>3, <4>1
      <4>2. CASE E
        BY <3>1, <3>2, <3>3, <4>2
      <4> QED
        BY <1>11, <4>1, <4>2
    <3> QED
      BY <2>1, <2>2, <3>4 DEF Opened, d
  <2>3. r.file # "main" => \E b \in 1 .. i + 1 : Opened(i + 1, r, t, b)
    <3>1. \A b \in 1 .. i : b \in 1 .. i + 1
      OBVIOUS
    <3> QED
      BY <1>2, <2>1, <2>2, <3>1
  <2>4. ASSUME Far(i + 1) PROVE LineFits(text, i + 1, r, t, i + 1)
    <3>1. q.file # "main" /\ x.file = q.file /\ x.line = r.line
      BY <1>11, <2>4
    <3>2. PICK b \in 1 .. i : Opened(i, q, s, b)
      BY <1>2, <3>1
    <3>3. Opened(i + 1, r, t, b) /\ b \in 1 .. i + 1 /\ b < i + 1
      BY <2>2, <3>2
    <3>4. Counted(text, t, i + 1, r.file, b)
      BY <2>1, <3>1, <3>3 DEF Counted, Opened
    <3> QED
      BY <2>1, <3>1, <3>3, <3>4 DEF LineFits, Opened
  <2>5. \A p \in 1 .. i + 1 : Far(p) => LineFits(text, i + 1, r, t, p)
    BY <1>8, <2>4
  <2> QED
    BY <1>2, <1>6, <2>1, <2>3, <2>5 DEF ScanFits
<1> QED
  BY <1>1, <1>9, <1>10, <1>11

\* At the end of the text regions are apart and lines counted.
LEMMA ScanFitsAll ==
  ASSUME NEW files, NEW text \in Seq(Places(files)), NEW at \in [0 .. Len(text) -> Spots(files)], at[0] = Outside,
         \A i \in 1 .. Len(text) : Moves(at[i - 1], text[i], at[i]),
         NEW scan \in [0 .. Len(text) -> Scans(files)], scan[0] = NothingScanned,
         \A i \in 1 .. Len(text) : scan[i] = Scanned(scan[i - 1], text[i], i)
  PROVE  ScanFits(text, Len(text), at[Len(text)], scan[Len(text)])
<1> DEFINE N == Len(text)
           Bad == {i \in 0 .. N : ~ScanFits(text, i, at[i], scan[i])}
<1>1. N \in Nat /\ \A i \in 1 .. N : text[i] \in Places(files)
  BY EmptySeq
<1> HIDE DEF N
<1>2. ScanFits(text, 0, at[0], scan[0])
  <2>1. RegionsFit(0, NothingScanned) /\ NothingScanned.open = <<>>
    BY DEF RegionsFit, NothingScanned
  <2> QED
    BY <2>1 DEF ScanFits, Outside
<1>3. \A i \in Bad : \E j \in Bad : j < i
  <2> SUFFICES ASSUME NEW i \in 0 .. N, ~ScanFits(text, i, at[i], scan[i]) PROVE i - 1 \in Bad /\ i - 1 < i
    OBVIOUS
  <2> DEFINE j == i - 1
  <2>1. i # 0
    BY <1>2
  <2>2. i \in 1 .. N /\ j \in 0 .. N /\ j < i /\ j \in Nat /\ j + 1 = i
    BY <1>1, <2>1
  <2>3. /\ text[i] \in Places(files) /\ at[j] \in Spots(files) /\ at[i] \in Spots(files) /\ Moves(at[j], text[i], at[i])
        /\ scan[j] \in Scans(files) /\ scan[i] = Scanned(scan[j], text[i], i)
    BY <1>1, <2>2 DEF N
  <2> HIDE DEF j
  <2>4. ~ScanFits(text, j, at[j], scan[j])
    <3> SUFFICES ASSUME ScanFits(text, j, at[j], scan[j]) PROVE FALSE
      OBVIOUS
    <3> DEFINE q == at[j]
               r == at[j + 1]
               s == scan[j]
               t == scan[j + 1]
    <3>1. text[j + 1] \in Places(files) /\ q \in Spots(files) /\ r \in Spots(files) /\ Moves(q, text[j + 1], r)
          /\ s \in Scans(files) /\ t = Scanned(s, text[j + 1], j + 1) /\ ScanFits(text, j, q, s)
      BY <2>2, <2>3
    <3> HIDE DEF q, r, s, t
    <3>2. ScanFits(text, j + 1, r, t)
      BY <2>2, <3>1, ScanFitsOn
    <3> QED
      BY <2>2, <3>2 DEF r, t
  <2> QED
    BY <2>2, <2>4 DEF j
<1>4. Bad = {}
  <2>1. Bad \in SUBSET Nat
    BY <1>1
  <2> HIDE DEF Bad
  <2> QED
    BY <1>3, <2>1, NoLeast
<1>5. N \in 0 .. N
  BY <1>1
<1> QED
  BY <1>4, <1>5 DEF N

\* A line of an included file is located on that line.
LEMMA LocateIncluded ==
  ASSUME NEW files, IsFiles(files), NEW text \in Seq(Places(files)), Leads(files, Outside, text, Outside),
         NEW p \in 1 .. Len(text), text[p].mark = "line", text[p].file # "main"
  PROVE  LocateLine(ScanMarks(text), p) = [file |-> text[p].file, line |-> text[p].line]
<1> DEFINE N == Len(text)
           map == ScanMarks(text)
<1>1. PICK at \in [0 .. N -> Spots(files)] :
        at[0] = Outside /\ at[N] = Outside /\ \A i \in 1 .. N : Moves(at[i - 1], text[i], at[i])
  BY DEF Leads
<1>2. PICK scan \in [0 .. N -> Scans(files)] :
        /\ scan[0] = NothingScanned /\ \A i \in 1 .. N : scan[i] = Scanned(scan[i - 1], text[i], i)
        /\ map = [regions |-> scan[N].regions \cup
                              {[file |-> o.file, start |-> o.start, end |-> N] : o \in ToSet(scan[N].open)},
                  synthetic |-> scan[N].synthetic, lines |-> N]
  BY ScanIs
<1> DEFINE s == scan[N]
<1>3. N \in Nat /\ p \in Nat /\ p <= N /\ s \in Scans(files)
  <2>1. N \in Nat
    BY EmptySeq
  <2>2. N \in 0 .. N
    BY <2>1
  <2> QED
    BY <2>1, <2>2
<1>4. ScanFits(text, N, Outside, s)
  <2>1. ScanFits(text, Len(text), at[Len(text)], scan[Len(text)])
    BY <1>1, <1>2, ScanFitsAll
  <2> QED
    BY <1>1, <2>1
<1> HIDE DEF N, map
<1>5. s.open = <<>> /\ RegionsFit(N, s) /\ LineFits(text, N, Outside, s, p)
  <2>1. p \in 1 .. N
    BY DEF N
  <2> QED
    BY <1>4, <2>1 DEF ScanFits, Outside
<1>6. map.regions = s.regions /\ map.synthetic = s.synthetic
  <2>1. ToSet(<<>>) = {}
    BY DEF ToSet
  <2>2. {[file |-> o.file, start |-> o.start, end |-> N] : o \in ToSet(s.open)} = {}
    BY <1>5, <2>1
  <2> QED
    BY <1>2, <2>2
<1>7. PICK o \in s.regions : p <= o.end /\ Counted(text, s, p, o.file, o.start)
  BY <1>5 DEF LineFits, Outside
<1> DEFINE around == {r \in map.regions : r.start < p /\ p <= r.end}
           inner == CHOOSE r \in around : \A q \in around : q.start <= r.start
<1>9. o.start \in Nat /\ o.end \in Nat /\ \A r \in s.regions : r.start \in Nat /\ r.end \in Nat
  BY <1>3 DEF Scans
<1>10. around = {o}
  <2>1. o \in around
    BY <1>6, <1>7 DEF Counted
  <2>2. ASSUME NEW r \in s.regions, r.start < p, p <= r.end PROVE r = o
    <3>1. r = o \/ r.end <= o.start \/ o.end <= r.start
      BY <1>5 DEF RegionsFit
    <3>2. o.start < p /\ p <= o.end
      BY <1>7 DEF Counted
    <3> QED
      BY <1>3, <1>9, <2>2, <3>1, <3>2
  <2> QED
    BY <1>6, <2>1, <2>2
<1> HIDE DEF around
<1>11. inner = o /\ around # {}
  <2>1. \A r \in around : r = o
    BY <1>10
  <2>2. o \in around /\ \A q \in around : q.start <= o.start
    BY <1>9, <1>10
  <2> QED
    BY <2>1, <2>2
<1> DEFINE count == Cardinality(MarksBefore(map, o.start, p))
           line == text[p].line
<1>12. line = p - o.start - count /\ text[p].file = o.file
  <2>1. MarksBefore(map, o.start, p) = MarksBefore(s, o.start, p)
    BY <1>6 DEF MarksBefore
  <2> QED
    BY <1>7, <2>1 DEF Counted
<1>13. line \in Nat /\ 1 <= line
  <2>1. text[p] \in Places(files)
    BY EmptySeq
  <2>2. text[p].file \in DOMAIN files /\ line \in DOMAIN files[text[p].file]
    BY <2>1 DEF Places
  <2> DEFINE f == files[text[p].file]
  <2>3. f \in Seq(ToSet(f)) /\ line \in DOMAIN f
    BY <2>2 DEF IsFiles
  <2> HIDE DEF f, line
  <2> QED
    BY <2>3
<1>14. Max({1, line}) = line
  <2>1. {1, line} \in SUBSET Nat /\ {1, line} # {}
    BY <1>13
  <2>2. IsFiniteSet({1, line})
    <3>1. IsFiniteSet({1} \cup {line})
      BY FS_Singleton, FS_Union
    <3>2. {1} \cup {line} = {1, line}
      OBVIOUS
    <3> QED
      BY <3>1, <3>2
  <2>3. Max({1, line}) \in {1, line} /\ \A i \in {1, line} : i <= Max({1, line})
    BY <2>1, <2>2, GreatestOf
  <2> HIDE DEF line
  <2> QED
    BY <1>13, <2>3
<1>15. LocateLine(map, p) = IF around = {} THEN [file |-> "main", line |-> p]
                            ELSE [file |-> inner.file,
                                  line |-> Max({1, p - inner.start - Cardinality(MarksBefore(map, inner.start, p))})]
  BY DEF LocateLine, around
<1> HIDE DEF inner
<1>16. LocateLine(map, p) = [file |-> o.file, line |-> Max({1, p - o.start - count})]
  BY <1>11, <1>15
<1> HIDE DEF count
<1>17. LocateLine(map, p) = [file |-> o.file, line |-> Max({1, line})]
  BY <1>12, <1>16
<1> QED
  BY <1>12, <1>14, <1>17 DEF map

\* Below p lines that are no marks, regions begin: p is in none.
LEMMA LocateMain ==
  ASSUME NEW files, NEW text \in Seq(Places(files)), NEW p \in 1 .. Len(text),
         \A i \in 1 .. p : text[i].mark = "line"
  PROVE  LocateLine(ScanMarks(text), p) = [file |-> "main", line |-> p]
<1> DEFINE N == Len(text)
           map == ScanMarks(text)
           Below(s) == (\A o \in s.regions : p < o.start) /\ \A n \in 1 .. Len(s.open) : p < s.open[n].start
<1>1. PICK scan \in [0 .. N -> Scans(files)] :
        /\ scan[0] = NothingScanned /\ \A i \in 1 .. N : scan[i] = Scanned(scan[i - 1], text[i], i)
        /\ map = [regions |-> scan[N].regions \cup
                              {[file |-> o.file, start |-> o.start, end |-> N] : o \in ToSet(scan[N].open)},
                  synthetic |-> scan[N].synthetic, lines |-> N]
  BY ScanIs
<1>2. N \in Nat /\ p \in Nat /\ p <= N /\ N \in 0 .. N /\ \A i \in 1 .. N : text[i] \in Places(files)
  BY EmptySeq
<1> HIDE DEF map, N
<1>3. ASSUME NEW i \in 1 .. N, NEW s \in Scans(files), Below(s) PROVE Below(Scanned(s, text[i], i))
  <2> DEFINE x == text[i]
             t == Scanned(s, x, i)
             u == s.open
             O == [file : DOMAIN files, start : Nat]
  <2>1. u \in Seq(O) /\ s = [open |-> u, regions |-> s.regions, synthetic |-> s.synthetic]
        /\ (\A o \in s.regions : p < o.start) /\ \A n \in 1 .. Len(u) : p < u[n].start
    BY <1>3 DEF Scans
  <2>2. CASE x.mark = "line"
    <3>1. t = s
      BY <2>2 DEF Scanned
    <3> QED
      BY <1>3, <3>1
  <2>3. CASE x.mark # "line"
    <3>1. p < i
      <4>1. i \in 1 .. p => x.mark = "line"
        OBVIOUS
      <4> QED
        BY <1>2, <2>3, <4>1
    <3>2. CASE x.mark = "inlined"
      <4> DEFINE o == [file |-> x.file, start |-> i]
                 syn == IF u = <<>> THEN s.synthetic ELSE s.synthetic \cup {i}
      <4>1. o.start = i
        OBVIOUS
      <4>2. t = [s EXCEPT !.open = Append(@, o), !.synthetic = IF u = <<>> THEN @ ELSE @ \cup {i}]
        BY <3>2 DEF Scanned
      <4> HIDE DEF o, u, O, x
      <4>3. t = [open |-> Append(u, o), regions |-> s.regions, synthetic |-> syn]
        BY <2>1, <4>2 DEF u
      <4>4. t.open = Append(u, o) /\ t.regions = s.regions
        BY <4>3
      <4>5. \A n \in 1 .. Len(Append(u, o)) : p < Append(u, o)[n].start
        <5>1. u \in Seq(O)
          BY <2>1
        <5>2. Len(Append(u, o)) = Len(u) + 1 /\ Len(u) \in Nat /\ Append(u, o)[Len(u) + 1] = o
              /\ \A n \in 1 .. Len(u) : Append(u, o)[n] = u[n]
          BY <5>1
        <5> QED
          BY <2>1, <3>1, <4>1, <5>2
      <4> HIDE DEF t
      <4>6. Below(t)
        BY <2>1, <4>4, <4>5
      <4> QED
        BY <4>6 DEF t, x
    <3>3. CASE x.mark = "end" /\ u # <<>> /\ Last(u).file = x.file
      <4> DEFINE r == [file |-> x.file, start |-> Last(u).start, end |-> i]
      <4>1. Len(u) \in Nat /\ Len(u) >= 1 /\ Last(u) = u[Len(u)]
            /\ Len(Front(u)) = Len(u) - 1 /\ \A n \in 1 .. Len(u) - 1 : Front(u)[n] = u[n]
        <5> HIDE DEF O, u
        <5>1. u \in Seq(O) /\ u # << >>
          BY <2>1, <3>3
        <5>2. Len(u) \in Nat /\ Len(u) >= 1
          BY <5>1
        <5> DEFINE m == Len(u) - 1
        <5>3. m \in 0 .. Len(u) /\ m \in Nat
          BY <5>2
        <5> HIDE DEF m
        <5>4. Len(SubSeq(u, 1, m)) = m /\ \A n \in 1 .. m : SubSeq(u, 1, m)[n] = u[n]
          BY <5>1, <5>3, SubSeqProperties, SMTT(30)
        <5> QED
          BY <5>2, <5>4 DEF Last, Front, m
      <4>2. r.start = Last(u).start
        OBVIOUS
      <4>3. t = [s EXCEPT !.open = Front(@), !.synthetic = @ \cup {i}, !.regions = @ \cup {r}]
        BY <3>3 DEF Scanned
      <4> HIDE DEF r, O, u, x
      <4>4. t = [open |-> Front(u), regions |-> s.regions \cup {r}, synthetic |-> s.synthetic \cup {i}]
        BY <2>1, <4>3 DEF u
      <4>5. t.open = Front(u) /\ t.regions = s.regions \cup {r}
        BY <4>4
      <4>6. \A n \in 1 .. Len(Front(u)) : p < Front(u)[n].start
        BY <2>1, <4>1
      <4>7. p < r.start
        BY <2>1, <4>1, <4>2
      <4> HIDE DEF t
      <4>8. Below(t)
        BY <2>1, <4>5, <4>6, <4>7
      <4> QED
        BY <4>8 DEF t, x
    <3>4. CASE ~(x.mark = "inlined") /\ ~(x.mark = "end" /\ u # <<>> /\ Last(u).file = x.file)
      <4>1. t = s \/ t = [s EXCEPT !.synthetic = @ \cup {i}]
        BY <3>4 DEF Scanned
      <4>2. t.open = u /\ t.regions = s.regions
        BY <2>1, <4>1
      <4> HIDE DEF t
      <4>3. Below(t)
        BY <2>1, <4>2
      <4> QED
        BY <4>3 DEF t
    <3> QED
      BY <3>2, <3>3, <3>4
  <2> QED
    BY <2>2, <2>3
<1>4. Below(NothingScanned)
  <2>1. NothingScanned.regions = {} /\ NothingScanned.open = <<>> /\ Len(<<>>) = 0
    BY DEF NothingScanned
  <2> QED
    BY <2>1
<1> HIDE DEF Below
<1> DEFINE Bad == {i \in 0 .. N : ~Below(scan[i])}
<1>5. \A i \in Bad : \E j \in Bad : j < i
  <2> SUFFICES ASSUME NEW i \in 0 .. N, ~Below(scan[i]) PROVE i - 1 \in Bad /\ i - 1 < i
    OBVIOUS
  <2>1. i # 0
    BY <1>1, <1>4
  <2>2. i \in 1 .. N /\ i - 1 \in 0 .. N /\ i - 1 < i
    BY <1>2, <2>1
  <2>3. scan[i - 1] \in Scans(files) /\ scan[i] = Scanned(scan[i - 1], text[i], i)
    BY <1>1, <2>2
  <2> QED
    BY <1>3, <2>2, <2>3
<1>6. Below(scan[N])
  <2>1. Bad \in SUBSET Nat
    BY <1>2
  <2>2. Bad = {}
    <3> HIDE DEF Bad
    <3> QED
      BY <1>5, <2>1, NoLeast
  <2> QED
    BY <1>2, <2>2
<1>7. \A r \in map.regions : p < r.start
  <2> DEFINE s == scan[N]
  <2>1. map.regions = s.regions \cup {[file |-> o.file, start |-> o.start, end |-> N] : o \in ToSet(s.open)}
    BY <1>1
  <2>2. s \in Scans(files)
    BY <1>1, <1>2
  <2> HIDE DEF s
  <2>3. \A o \in ToSet(s.open) : p < o.start
    <3>1. s.open \in Seq([file : DOMAIN files, start : Nat])
      BY <2>2 DEF Scans
    <3>2. \A n \in 1 .. Len(s.open) : p < s.open[n].start
      BY <1>6 DEF Below, s
    <3> QED
      BY <3>1, <3>2 DEF ToSet
  <2>4. \A o \in s.regions : p < o.start
    BY <1>6 DEF Below, s
  <2> QED
    BY <2>1, <2>3, <2>4
<1>8. {r \in map.regions : r.start < p /\ p <= r.end} = {}
  <2> SUFFICES ASSUME NEW r \in map.regions, r.start < p PROVE FALSE
    OBVIOUS
  <2>1. r.start \in Nat
    <3> DEFINE s == scan[N]
    <3>1. s \in Scans(files) /\ map.regions = s.regions \cup {[file |-> o.file, start |-> o.start, end |-> N] : o \in ToSet(s.open)}
      BY <1>1, <1>2
    <3> HIDE DEF s
    <3>2. s.open \in Seq([file : DOMAIN files, start : Nat]) /\ \A o \in s.regions : o.start \in Nat
      BY <3>1 DEF Scans
    <3>3. \A o \in ToSet(s.open) : o.start \in Nat
      <4> DEFINE u == s.open
      <4> HIDE DEF u
      <4> DEFINE O == [file : DOMAIN files, start : Nat]
      <4>1. (u \in Seq(O)) /\ \A o \in O : o.start \in Nat
        BY <3>2 DEF u
      <4> HIDE DEF O
      <4>2. \A n \in DOMAIN u : u[n].start \in Nat
        BY <4>1
      <4>3. \A o \in ToSet(u) : o.start \in Nat
        BY <4>2 DEF ToSet
      <4> QED
        BY <4>3 DEF u
    <3> QED
      BY <3>1, <3>2, <3>3
  <2>2. p < r.start
    BY <1>7
  <2> QED
    BY <1>2, <2>1, <2>2
<1>9. LocateLine(map, p) = [file |-> "main", line |-> p]
  BY <1>8 DEF LocateLine
<1> QED
  BY <1>9 DEF map

\* A text put together from pieces whose first m are single lines begins with those.
LEMMA FlattenOnes ==
  ASSUME NEW P, NEW ss \in Seq(Seq(P)), NEW m \in 0 .. Len(ss), \A k \in 1 .. m : Len(ss[k]) = 1
  PROVE  /\ FlattenSeq(ss) \in Seq(P) /\ m <= Len(FlattenSeq(ss)) /\ (m = Len(ss) => Len(FlattenSeq(ss)) = m)
         /\ \A k \in 1 .. m : FlattenSeq(ss)[k] = ss[k][1]
<1> DEFINE N == Len(ss)
<1>1. N \in Nat /\ m \in Nat /\ m <= N /\ \A i \in 1 .. N : ss[i] \in Seq(P)
  OBVIOUS
<1>2. FlattenSeq(ss) \in Seq(P)
  BY FlattenIs
<1>3. CASE ss = << >>
  <2>1. FlattenSeq(ss) = << >> /\ m = 0 /\ Len(<< >>) = 0
    BY <1>3 DEF FlattenSeq
  <2> QED
    BY <1>2, <1>3, <2>1
<1>4. CASE ss # << >>
  <2>1. PICK f \in [1 .. N -> Seq(P)] :
          /\ f[1] = ss[1] /\ \A i \in 2 .. N : f[i] = f[i - 1] \o ss[i]
          /\ FlattenSeq(ss) = f[N]
    BY <1>4, FlattenSteps
  <2>2. N \in 1 .. N /\ 1 \in 1 .. N
    BY <1>1, <1>4
  <2> HIDE DEF N
  <2> DEFINE Good(k) == /\ (k <= m => Len(f[k]) = k) /\ (k > m => Len(f[k]) >= m)
                        /\ \A j \in 1 .. m : j <= k => f[k][j] = ss[j][1]
             Bad == {k \in 1 .. N : ~Good(k)}
  <2>3. \A k \in Bad : \E j \in Bad : j < k
    <3> SUFFICES ASSUME NEW k \in 1 .. N, ~Good(k) PROVE k - 1 \in Bad /\ k - 1 < k
      BY <1>1
    <3>1. k # 1
      <4>1. f[1] = ss[1] /\ Len(ss[1]) \in Nat /\ (1 <= m => Len(ss[1]) = 1)
        BY <1>1, <2>1, <2>2
      <4>2. Good(1)
        BY <1>1, <4>1
      <4> HIDE DEF Good
      <4> QED
        BY <4>2
    <3> DEFINE h == k - 1
               s == f[h]
               t == ss[k]
    <3>2. h \in 1 .. N /\ k \in 2 .. N /\ h < k /\ h \in Nat /\ k = h + 1
      BY <1>1, <3>1, SMTT(40)
    <3>3. f[k] = s \o t /\ s \in Seq(P) /\ t \in Seq(P) /\ (k <= m => Len(t) = 1)
      <4>1. f[k] = s \o t
        BY <2>1, <3>2
      <4>2. s \in Seq(P) /\ t \in Seq(P)
        BY <1>1, <2>1, <3>2
      <4>3. k <= m => Len(t) = 1
        BY <1>1, <3>2
      <4> QED
        BY <4>1, <4>2, <4>3
    <3>4. Len(s \o t) = Len(s) + Len(t) /\ Len(s) \in Nat /\ Len(t) \in Nat
          /\ (\A i \in 1 .. Len(s) : (s \o t)[i] = s[i]) /\ \A i \in 1 .. Len(t) : (s \o t)[i + Len(s)] = t[i]
      <4> HIDE DEF s, t, h
      <4>1. Len(s \o t) = Len(s) + Len(t) /\ Len(s) \in Nat /\ Len(t) \in Nat
        BY <3>3, ConcatProperties, SMTT(30)
      <4> QED
        BY <3>3, <4>1, ConcatProperties, SMTT(30)
    <3>5. ~Good(h)
      <4> SUFFICES ASSUME Good(h) PROVE Good(k)
        OBVIOUS
      <4>1. (h <= m => Len(s) = h) /\ (h > m => Len(s) >= m) /\ \A j \in 1 .. m : j <= h => s[j] = ss[j][1]
        OBVIOUS
      <4> HIDE DEF s, h
      <4>2. (k <= m => Len(s \o t) = k) /\ (k > m => Len(s \o t) >= m)
        <5>1. PICK a \in Nat, b \in Nat, c \in Nat : Len(s) = a /\ Len(t) = b /\ Len(s \o t) = c /\ c = a + b
          BY <3>4
        <5>2. (k <= m => b = 1) /\ (h <= m => a = h) /\ (h > m => a >= m)
          BY <3>3, <4>1, <5>1
        <5>3. (k <= m => c = k) /\ (k > m => c >= m)
          BY <1>1, <3>2, <5>1, <5>2
        <5> QED
          BY <5>1, <5>3
      <4>3. ASSUME NEW j \in 1 .. m, j <= k PROVE (s \o t)[j] = ss[j][1]
        <5>1. CASE j = k
          <6>1. Len(s) = h /\ Len(t) = 1
            BY <1>1, <3>2, <3>3, <4>1, <5>1, SMTT(40)
          <6>2. (s \o t)[1 + Len(s)] = t[1]
            BY <3>4, <6>1, SMTT(40)
          <6> QED
            BY <3>2, <5>1, <6>1, <6>2
        <5>2. CASE j # k
          <6>1. j <= h /\ j \in 1 .. Len(s)
            BY <1>1, <3>2, <3>4, <4>1, <4>3, <5>2
          <6> QED
            BY <3>4, <4>1, <6>1
        <5> QED
          BY <5>1, <5>2
      <4> HIDE DEF t
      <4> QED
        BY <3>3, <4>2, <4>3
    <3> HIDE DEF Good
    <3> QED
      BY <3>2, <3>5
  <2> HIDE DEF Good
  <2>4. Bad = {}
    <3>1. Bad \in SUBSET Nat
      BY <1>1
    <3> HIDE DEF Bad
    <3> QED
      BY <2>3, <3>1, NoLeast
  <2>5. Good(N)
    BY <2>2, <2>4
  <2>6. (N <= m => Len(f[N]) = N) /\ (N > m => Len(f[N]) >= m) /\ \A j \in 1 .. m : j <= N => f[N][j] = ss[j][1]
    BY <2>5 DEF Good
  <2> QED
    BY <1>1, <1>2, <2>1, <2>6 DEF N
<1> QED
  BY <1>3, <1>4

\* Where its first m lines are no directives, the parsed text begins as the file does.
LEMMA BodyBegins ==
  ASSUME NEW paper, IsFiles(paper.files), NEW m \in 0 .. Len(RawText(paper)),
         \A j \in 1 .. m : LET p == RawText(paper)[j]
                           IN ~(p.mark = "line" /\ paper.files[p.file][p.line].k = "input")
  PROVE  /\ m <= Len(Body(paper)) /\ (m = Len(RawText(paper)) => Len(Body(paper)) = m)
         /\ \A j \in 1 .. m : Body(paper)[j] = RawText(paper)[j]
<1> DEFINE files == paper.files
           P == Places(files)
           raw == RawText(paper)
           N == Len(raw)
<1>1. PICK read : (\A w \in ReadCalls(files) : read[w] \in Seq(P)) /\ ReadsAs(paper, read)
  BY ReadIs
<1> DEFINE Piece(n) == Resolving(files, raw[n], read, 1, Root(paper))
           ss == [n \in 1 .. N |-> Piece(n)]
<1>2. raw \in Seq(P) /\ Root(paper) \in SUBSET DOMAIN files /\ 1 \in 1 .. MaxDepth + 1
  BY RawTextIs, WindowAssumption DEF Root, IsFiles
<1>3. N \in Nat /\ DOMAIN raw = 1 .. N /\ \A n \in 1 .. N : raw[n] \in P
  <2> HIDE DEF raw, P
  <2> QED
    BY <1>2
<1>4. \A n \in 1 .. N : Piece(n) \in Seq(P)
  <2> HIDE DEF raw, P, N
  <2> QED
    BY <1>1, <1>2, <1>3, ResolvingIs DEF P
<1>5. \A j \in 1 .. m : Piece(j) = <<raw[j]>>
  BY DEF Resolving
<1>6. Body(paper) = FlattenSeq(ss)
  BY <1>1, <1>3 DEF ReadsAs
<1> HIDE DEF Piece, P
<1>7. ss \in Seq(Seq(P)) /\ Len(ss) = N /\ \A n \in 1 .. N : ss[n] = Piece(n)
  BY <1>3, <1>4
<1>8. m \in Nat /\ m <= N /\ \A j \in 1 .. m : j \in 1 .. N
  BY <1>3
<1> HIDE DEF ss, N, raw
<1>9. \A j \in 1 .. m : Len(ss[j]) = 1 /\ ss[j][1] = raw[j]
  <2>1. \A x : Len(<<x>>) = 1 /\ <<x>>[1] = x
    OBVIOUS
  <2> QED
    BY <1>5, <1>7, <1>8, <2>1
<1>10. m <= Len(FlattenSeq(ss)) /\ (m = N => Len(FlattenSeq(ss)) = m) /\ \A k \in 1 .. m : FlattenSeq(ss)[k] = ss[k][1]
  <2>1. m \in 0 .. Len(ss)
    BY <1>3, <1>7, <1>8
  <2> QED
    BY <1>7, <1>9, <2>1, FlattenOnes
<1> QED
  BY <1>6, <1>9, <1>10 DEF N, raw

\* Up to its first directive main.tex is left as it is, flattened or not.
LEMMA RawBegins ==
  ASSUME NEW paper, IsFiles(paper.files), NEW p \in 1 .. Len(paper.files["main"]),
         \A j \in 1 .. p : /\ paper.files["main"][j].k # "input"
                           /\ paper.flat => paper.files["main"][j].k # "figure"
  PROVE  p <= Len(RawText(paper)) /\ \A j \in 1 .. p : RawText(paper)[j] = Place("main", j)
<1> DEFINE files == paper.files
           main == files["main"]
           N == Len(main)
           P == Places(files)
<1>1. "main" \in DOMAIN files /\ N \in Nat /\ DOMAIN main = 1 .. N /\ p \in Nat /\ p <= N
  <2>1. "main" \in DOMAIN files /\ main \in Seq(ToSet(main))
    BY DEF IsFiles
  <2> QED
    BY <2>1
<1>2. CASE ~paper.flat
  <2>1. RawText(paper) = [n \in 1 .. N |-> Place("main", n)]
    BY <1>1, <1>2 DEF RawText, AsPlaces
  <2>2. Len([n \in 1 .. N |-> Place("main", n)]) = N
    BY <1>1
  <2> HIDE DEF N, main
  <2> QED
    BY <1>1, <2>1, <2>2
<1>3. CASE paper.flat
  <2> DEFINE v == [file |-> "main", seen |-> {}]
  <2>1. PICK flat : FlattenTex(files) = flat[v] /\ Unfolded(files, flat)
    BY FlattenTexIs DEF Unfolded
  <2> DEFINE piece(n) == FlatPiece(files, flat, v, n)
             ss == [n \in 1 .. N |-> piece(n)]
  <2>2. v \in [file : DOMAIN files, seen : SUBSET DOMAIN files] /\ v.file = "main"
    BY <1>1
  <2>3. RawText(paper) = FlattenSeq(ss)
    <3>1. flat[v] = FlatStep(files, flat, v)
      BY <2>1, <2>2 DEF Unfolded
    <3>2. FlatStep(files, flat, v) = FlattenSeq([n \in DOMAIN main |-> piece(n)])
      BY DEF FlatStep, FlatPiece
    <3> QED
      BY <1>1, <1>3, <2>1, <3>1, <3>2 DEF RawText
  <2>4. \A n \in 1 .. N : piece(n) \in Seq(P)
    <3> HIDE DEF v
    <3> QED
      BY <1>1, <2>1, <2>2, FlatPieceIs
  <2>5. \A j \in 1 .. p : piece(j) = <<Place("main", j)>>
    BY <1>3 DEF FlatPiece
  <2> HIDE DEF piece, P, v
  <2>6. ss \in Seq(Seq(P)) /\ Len(ss) = N /\ \A n \in 1 .. N : ss[n] = piece(n)
    BY <1>1, <2>4
  <2> HIDE DEF ss, N, main
  <2>7. \A j \in 1 .. p : Len(ss[j]) = 1 /\ ss[j][1] = Place("main", j)
    <3>1. \A x : Len(<<x>>) = 1 /\ <<x>>[1] = x
      OBVIOUS
    <3>2. \A j \in 1 .. p : j \in 1 .. N
      BY <1>1
    <3> QED
      BY <2>5, <2>6, <3>1, <3>2
  <2>8. p \in 0 .. Len(ss)
    BY <1>1, <2>6
  <2>9. p <= Len(FlattenSeq(ss)) /\ \A k \in 1 .. p : FlattenSeq(ss)[k] = ss[k][1]
    BY <2>6, <2>7, <2>8, FlattenOnes
  <2> QED
    BY <2>3, <2>7, <2>9
<1> QED
  BY <1>2, <1>3

\* Where the parser has replaced nothing before it, line p begins p - 1 lines on.
LEMMA OffsetIs ==
  ASSUME NEW text, NEW p \in Nat, p >= 1, \A j \in 1 .. p - 1 : text[j].mark \notin {"comment", "rest"}
  PROVE  Offset(text, p) = LineWidth * (p - 1)
<1> DEFINE c == Cardinality({j \in 1 .. p - 1 : text[j].mark = "comment"})
           r == Cardinality({j \in 1 .. p - 1 : text[j].mark = "rest"})
<1>1. c = 0 /\ r = 0
  <2>1. {j \in 1 .. p - 1 : text[j].mark = "comment"} = {} /\ {j \in 1 .. p - 1 : text[j].mark = "rest"} = {}
    OBVIOUS
  <2> QED
    BY <2>1, FS_EmptySet
<1>2. Offset(text, p) = LineWidth * (p - 1) + CommentMore * c - (LineWidth - 1) * r
  BY DEF Offset
<1> HIDE DEF c, r
<1> QED
  BY <1>1, <1>2 DEF LineWidth, CommentMore

\* And there it is found.
LEMMA LocateThere ==
  ASSUME NEW map, NEW n \in Nat, map.lines = n, NEW p \in 1 .. n
  PROVE  Locate(map, LineWidth * (p - 1)) = LocateLine(map, p)
<1>1. LineWidth * (p - 1) < LineWidth * n /\ ((LineWidth * (p - 1)) \div LineWidth) + 1 = p
  BY DEF LineWidth
<1>2. FlatLine(map, LineWidth * (p - 1)) = p
  BY <1>1 DEF FlatLine
<1> QED
  BY <1>2 DEF Locate

\* A claim's location is where its environment begins.
LEMMA ClaimLocated ==
  ASSUME NEW front, NEW c, IsCirOf(front, c), NEW n \in DOMAIN OfKind(CirNodes(c), {"claim"})
  PROVE  LET p == OfKind(CirNodes(c), {"claim"})[n]
             map == SourceMap(Paper(c.of))
             at == Locate(map.marks, Offset(map.text, p))
         IN /\ p \in 1 .. Len(Body(Paper(c.of))) /\ CirNodes(c)[p].k = "env"
            /\ c.claims[n].location.file = at.file /\ c.claims[n].location.line_start = at.line
<1> DEFINE nodes == CirNodes(c)
           claims == OfKind(nodes, {"claim"})
           p == claims[n]
           map == SourceMap(Paper(c.of))
           e == PairClaimsWithEvidence(nodes)[n]
<1>1. IsSource(c.of) /\ AreRecords(c.claims, c.id, nodes, c.aux, map)
  BY CirIs
<1>2. nodes \in Seq(Line) /\ DOMAIN nodes = 1 .. Len(Body(Paper(c.of)))
  BY <1>1, NodesLines, NodesAre DEF CirNodes
<1>3. ProvedBy(c, n, e) /\ n <= Len(Claimed(nodes))
  <2>1. DOMAIN c.claims = 1 .. RecordCount(nodes)
    BY <1>1 DEF AreRecords
  <2> HIDE DEF nodes
  <2>2. DOMAIN claims = 1 .. Len(claims) /\ claims = Claimed(nodes) /\ Len(claims) <= RecordCount(nodes)
        /\ Len(claims) \in Nat /\ RecordCount(nodes) \in Nat
    BY <1>2, PlacesOf DEF Claimed
  <2>3. n \in DOMAIN claims
    BY DEF nodes
  <2>4. n \in DOMAIN c.claims /\ n <= Len(Claimed(nodes))
    BY <2>1, <2>2, <2>3
  <2> QED
    BY <2>4, CirProofs DEF nodes
<1> HIDE DEF nodes, map
<1>4. PlaceOf(nodes, n) = p
  BY <1>3 DEF PlaceOf, Claimed
<1>5. p \in Environments(nodes)
  <2>1. n \in 1 .. Len(claims) /\ ToSet(claims) = {i \in Environments(nodes) : nodes[i].env = "claim"}
        /\ claims[n] \in ToSet(claims)
    <3>1. n \in DOMAIN claims
      BY DEF nodes
    <3> HIDE DEF nodes
    <3>2. DOMAIN claims = 1 .. Len(claims) /\ ToSet(claims) = {i \in Environments(nodes) : nodes[i].env = "claim"}
      BY <1>2, OfKindIs
    <3>3. \A m \in 1 .. Len(claims) : claims[m] \in ToSet(claims)
      BY <1>2, OfKindIs
    <3> QED
      BY <3>1, <3>2, <3>3
  <2> QED
    BY <2>1
<1>6. p \in DOMAIN nodes /\ nodes[p].k = "env"
  BY <1>2, <1>5, EnvironmentsAre
<1> HIDE DEF p, e
<1>7. c.claims[n].location = SourceLocation(map, p, IF e = 0 THEN p ELSE e)
  <2>1. c.claims[n].location = SourceLocation(SourceMap(Paper(c.of)), PlaceOf(CirNodes(c), n),
                                              IF e = 0 THEN PlaceOf(CirNodes(c), n) ELSE e)
    BY <1>3 DEF ProvedBy
  <2> QED
    BY <1>4, <2>1 DEF nodes, map
<1> DEFINE at == Locate(map.marks, Offset(map.text, p))
<1>8. \A end : SourceLocation(map, p, end).file = at.file /\ SourceLocation(map, p, end).line_start = at.line
  BY DEF SourceLocation
<1> HIDE DEF at
<1>9. c.claims[n].location.file = at.file /\ c.claims[n].location.line_start = at.line
  BY <1>7, <1>8
<1> QED
  BY <1>2, <1>6, <1>9 DEF nodes, map, p, at

\* A text flattened of files that include none has lines and marks of flatten-tex only.
LEMMA LeadsMarks ==
  ASSUME NEW files, NEW text, Leads(files, Outside, text, Outside), NEW j \in 1 .. Len(text)
  PROVE  text[j].mark \notin {"comment", "rest"}
<1>1. PICK at : \A i \in 1 .. Len(text) : Moves(at[i - 1], text[i], at[i])
  BY DEF Leads
<1>2. Moves(at[j - 1], text[j], at[j])
  BY <1>1
<1> HIDE DEF Outside
<1> QED
  BY <1>2 DEF Moves

\* Where the parsed text says that line p of it is.
LEMMA PlaceFound ==
  ASSUME NEW s, IsSource(s), NEW p \in 1 .. Len(Body(Paper(s))), Nodes(Paper(s))[p].k = "env"
  PROVE  LET main == s.files["main"]
             raw == RawText(Paper(s))
             place == Body(Paper(s))[p]
             map == SourceMap(Paper(s))
             at == Locate(map.marks, Offset(map.text, p))
         IN \/ /\ p \in DOMAIN main
               /\ \A j \in 1 .. p : main[j].k # "input" /\ (s.flat => main[j].k # "figure")
            \/ /\ s.flat /\ place.file # "main" /\ IncludesNone(s)
               /\ \A j \in DOMAIN raw : j <= p => ~IsDirective(s, raw[j])
            => at.file = place.file /\ at.line = place.line
<1> DEFINE files == s.files
           main == files["main"]
           body == Body(Paper(s))
           raw == RawText(Paper(s))
           place == body[p]
           marks == ScanMarks(raw)
           at == Locate(marks, Offset(body, p))
<1>1. IsFiles(files) /\ Paper(s).files = files /\ Paper(s).flat = s.flat /\ s.flat \in BOOLEAN
  BY NodesAre DEF Paper, IsSource
<1>2. place.mark = "line"
  <2>1. p \in DOMAIN body
    <3>1. DOMAIN Nodes(Paper(s)) = 1 .. Len(body) /\ DOMAIN Nodes(Paper(s)) = DOMAIN body
      BY NodesAre DEF Nodes
    <3> QED
      BY <3>1
  <2>2. place.mark # "line" => Nodes(Paper(s))[p] = Text
    BY <2>1 DEF Nodes
  <2> QED
    BY <2>2 DEF Text
<1>3. raw \in Seq(Places(files)) /\ Len(raw) \in Nat /\ DOMAIN raw = 1 .. Len(raw)
  <2> DEFINE P == Places(files)
  <2>1. raw \in Seq(P)
    BY <1>1, RawTextIs
  <2> HIDE DEF P, raw
  <2> QED
    BY <2>1 DEF P
<1>4. marks.lines = Len(raw)
  BY DEF ScanMarks
<1>5. Len(body) \in Nat /\ p \in Nat /\ p >= 1 /\ p <= Len(body)
  BY NodesAre
<1> HIDE DEF marks, body, raw
<1>6. ASSUME p \in 1 .. Len(raw), \A j \in 1 .. p : body[j] = raw[j] /\ raw[j].mark \notin {"comment", "rest"}
      PROVE  at = LocateLine(marks, p)
  <2>1. \A j \in 1 .. p - 1 : body[j].mark \notin {"comment", "rest"}
    BY <1>5, <1>6
  <2>2. Offset(body, p) = LineWidth * (p - 1)
    BY <1>5, <2>1, OffsetIs
  <2> QED
    BY <1>3, <1>4, <1>6, <2>2, LocateThere
<1>7. ASSUME p \in DOMAIN main, \A j \in 1 .. p : main[j].k # "input" /\ (s.flat => main[j].k # "figure")
      PROVE  at.file = place.file /\ at.line = place.line
  <2>1. DOMAIN main = 1 .. Len(main) /\ Len(main) \in Nat
    <3>1. main \in Seq(ToSet(main))
      BY <1>1 DEF IsFiles
    <3> QED
      BY <3>1
  <2>2. p <= Len(raw) /\ \A j \in 1 .. p : raw[j] = Place("main", j)
    <3> DEFINE paper == Paper(s)
    <3>1. p \in 1 .. Len(main)
      BY <1>7, <2>1
    <3>2. paper.files = files /\ paper.flat = s.flat
      BY <1>1
    <3> HIDE DEF paper
    <3>3. IsFiles(paper.files) /\ p \in 1 .. Len(paper.files["main"])
          /\ \A j \in 1 .. p : paper.files["main"][j].k # "input" /\ (paper.flat => paper.files["main"][j].k # "figure")
      BY <1>1, <1>7, <3>1, <3>2
    <3>4. p <= Len(RawText(paper)) /\ \A j \in 1 .. p : RawText(paper)[j] = Place("main", j)
      BY <3>3, RawBegins
    <3> QED
      BY <3>4 DEF raw, paper
  <2>3. \A j \in 1 .. p : raw[j].mark = "line" /\ raw[j].file = "main" /\ raw[j].line = j
    <3>1. \A j : Place("main", j).mark = "line" /\ Place("main", j).file = "main" /\ Place("main", j).line = j
      BY DEF Place
    <3> HIDE DEF main
    <3> QED
      BY <2>2, <3>1
  <2>4. p \in 1 .. Len(raw) /\ p \in 0 .. Len(raw) /\ p \in 1 .. p
    BY <1>3, <1>5, <2>2
  <2>5. \A j \in 1 .. p : body[j] = raw[j]
    <3>1. \A j \in 1 .. p : ~(raw[j].mark = "line" /\ files[raw[j].file][raw[j].line].k = "input")
      BY <1>7, <2>3
    <3> QED
      BY <1>1, <2>4, <3>1, BodyBegins DEF body, raw
  <2>6. at = LocateLine(marks, p)
    BY <1>6, <2>3, <2>4, <2>5
  <2>7. LocateLine(marks, p) = [file |-> "main", line |-> p]
    BY <1>3, <2>3, <2>4, LocateMain DEF marks
  <2>8. place.file = "main" /\ place.line = p
    BY <2>3, <2>4, <2>5
  <2> HIDE DEF at, place
  <2> QED
    BY <2>6, <2>7, <2>8
<1>8. ASSUME s.flat, place.file # "main", IncludesNone(s), \A j \in DOMAIN raw : j <= p => ~IsDirective(s, raw[j])
      PROVE  at.file = place.file /\ at.line = place.line
  <2>1. raw = FlattenTex(files)
    BY <1>1, <1>8 DEF RawText, raw
  <2>2. Leads(files, Outside, raw, Outside)
    <3>1. \A f \in DOMAIN files \ {"main"} : \A x \in ToSet(files[f]) : x.k = "input" => x.file \notin DOMAIN files
      BY <1>8 DEF IncludesNone
    <3> QED
      BY <1>1, <2>1, <3>1, FlattenLeads
  <2>3. \A m \in 0 .. Len(raw) : m <= p =>
          /\ m <= Len(body) /\ (m = Len(raw) => Len(body) = m)
          /\ \A j \in 1 .. m : body[j] = raw[j]
    <3> SUFFICES ASSUME NEW m \in 0 .. Len(raw), m <= p
                 PROVE  /\ m <= Len(body) /\ (m = Len(raw) => Len(body) = m)
                        /\ \A j \in 1 .. m : body[j] = raw[j]
      OBVIOUS
    <3>1. \A j \in 1 .. m : ~(raw[j].mark = "line" /\ files[raw[j].file][raw[j].line].k = "input")
      BY <1>3, <1>5, <1>8 DEF IsDirective
    <3> QED
      BY <1>1, <3>1, BodyBegins DEF body, raw
  <2>4. p <= Len(raw)
    <3> SUFFICES ASSUME ~(p <= Len(raw)) PROVE FALSE
      OBVIOUS
    <3>1. Len(raw) \in 0 .. Len(raw) /\ Len(raw) <= p
      BY <1>3, <1>5
    <3>2. Len(body) = Len(raw)
      BY <2>3, <3>1
    <3> QED
      BY <1>3, <1>5, <3>2
  <2>5. p \in 1 .. Len(raw) /\ p \in 0 .. Len(raw) /\ p \in 1 .. p
    BY <1>3, <1>5, <2>4
  <2>6. \A j \in 1 .. p : body[j] = raw[j]
    BY <1>5, <2>3, <2>5
  <2>7. \A j \in 1 .. p : raw[j].mark \notin {"comment", "rest"}
    BY <1>3, <1>5, <2>2, <2>4, LeadsMarks
  <2>8. at = LocateLine(marks, p)
    BY <1>6, <2>5, <2>6, <2>7
  <2>9. place = raw[p]
    BY <2>5, <2>6
  <2>10. LocateLine(marks, p) = [file |-> raw[p].file, line |-> raw[p].line]
    BY <1>1, <1>2, <1>3, <1>8, <2>2, <2>5, <2>9, LocateIncluded DEF marks
  <2> HIDE DEF at, place
  <2> QED
    BY <2>8, <2>9, <2>10
<1>9. SourceMap(Paper(s)).marks = marks /\ SourceMap(Paper(s)).text = body
  BY DEF SourceMap, marks, body, raw
<1> HIDE DEF at, place, main
<1> QED
  BY <1>7, <1>8, <1>9 DEF at, place, main, raw, body

\* LocTrue: where the parser has replaced no directive before it, a claim is located on its
\* own line, in main.tex and in an included file of a flattened paper.
THEOREM LocationsAreTrue == Spec => []LocTrue
<1>1. IInv => LocTrue
  <2> SUFFICES ASSUME IInv, cir # NoCir PROVE LocTrue
    BY DEF LocTrue
  <2> DEFINE s == cir.of
             main == s.files["main"]
             raw == RawText(Paper(s))
             nodes == Nodes(Paper(s))
             claims == OfKind(nodes, {"claim"})
             body == Body(Paper(s))
             map == SourceMap(Paper(s))
             Plain(i, place) ==
               \/ /\ i \in DOMAIN main
                  /\ \A j \in 1 .. i : main[j].k # "input" /\ (s.flat => main[j].k # "figure")
               \/ /\ s.flat /\ place.file # "main" /\ IncludesNone(s)
                  /\ \A j \in DOMAIN raw : j <= i => ~IsDirective(s, raw[j])
  <2>1. IsCirOf(src.front, cir) /\ nodes = CirNodes(cir)
    BY DEF IInv, CirNodes
  <2>2. IsSource(s)
    BY <2>1, CirIs
  <2>3. ASSUME NEW n \in DOMAIN claims, Plain(claims[n], body[claims[n]])
        PROVE  LocatedAt(cir.claims[n], body[claims[n]])
    <3> DEFINE p == claims[n]
               at == Locate(map.marks, Offset(map.text, p))
    <3>1. /\ p \in 1 .. Len(body) /\ nodes[p].k = "env"
          /\ cir.claims[n].location.file = at.file /\ cir.claims[n].location.line_start = at.line
      <4>1. n \in DOMAIN OfKind(CirNodes(cir), {"claim"})
        BY <2>1
      <4> QED
        BY <2>1, <4>1, ClaimLocated
    <3>2. at.file = body[p].file /\ at.line = body[p].line
      <4> HIDE DEF p
      <4>1. Plain(p, body[p])
        BY <2>3 DEF p
      <4> QED
        BY <2>2, <3>1, <4>1, PlaceFound
    <3> HIDE DEF at, p
    <3> QED
      BY <3>1, <3>2 DEF p, LocatedAt
  <2> QED
    BY <2>3 DEF LocTrue
<1> QED
  BY <1>1, Invariant, PTL
=============================================================================
