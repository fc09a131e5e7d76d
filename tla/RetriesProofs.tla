----------------------------- MODULE RetriesProofs -----------------------------
(***************************************************************************)
(* Proofs about Retries, for every value of its constants.                 *)
(***************************************************************************)
EXTENDS Retries, FiniteSetTheorems, TLAPS

\* A set of numbers has a least element: induction without a predicate parameter.
LEMMA LeastOf ==
  ASSUME NEW S \in SUBSET Nat, S # {}
  PROVE  \E m \in S : \A k \in S : m <= k
<1> DEFINE R == OpToRel(<, Nat)
<1>1. PICK x \in S : \A y \in S : <<y, x>> \notin R
  <2>1. IsWellFoundedOn(R, Nat)
    BY NatLessThanWellFounded
  <2> HIDE DEF R
  <2> QED
    BY <2>1, WFMin
<1>2. ASSUME NEW y \in S PROVE x <= y
  <2>1. <<y, x>> \notin {p \in Nat \X Nat : p[1] < p[2]}
    BY <1>1 DEF OpToRel
  <2> QED
    BY <2>1
<1> QED
  BY <1>2

-----------------------------------------------------------------------------
(***************************************************************************)
(* Sums over a finite set of ages.                                         *)
(***************************************************************************)
First(s) == CHOOSE x \in s : TRUE

\* The sums of f over the subsets of S, as MapThenSumSet computes them.
Sums(f, S, sum) ==
  /\ sum \in [SUBSET S -> Nat]
  /\ sum[{}] = 0
  /\ \A s \in (SUBSET S) \ {{}} : sum[s] = f[First(s)] + sum[s \ {First(s)}]

SumRule(f, S, sum) ==
  sum = [s \in SUBSET S |-> IF s = {} THEN 0 ELSE f[First(s)] + sum[s \ {First(s)}]]

LEMMA SumsExist ==
  ASSUME NEW S, IsFiniteSet(S), NEW f, \A a \in S : f[a] \in Nat
  PROVE  \E sum : SumRule(f, S, sum)
<1> DEFINE Small(n) == {s \in SUBSET S : Cardinality(s) <= n}
           Ends(n) == \E sum : sum = [s \in Small(n) |-> IF s = {} THEN 0 ELSE f[First(s)] + sum[s \ {First(s)}]]
           Fails == {n \in Nat : ~Ends(n)}
<1>1. \A s \in SUBSET S : IsFiniteSet(s) /\ Cardinality(s) \in Nat /\ Cardinality(s) <= Cardinality(S)
  BY FS_Subset, FS_CardinalityType
<1>2. Cardinality(S) \in Nat
  BY FS_CardinalityType
<1>3. Fails = {}
  <2> SUFFICES ASSUME Fails # {} PROVE FALSE
    OBVIOUS
  <2>1. PICK n \in Fails : \A k \in Fails : n <= k
    <3>1. Fails \in SUBSET Nat
      OBVIOUS
    <3> HIDE DEF Fails
    <3> QED
      BY <3>1, LeastOf
  <2>2. CASE n = 0
    <3>1. Small(0) = {{}}
      BY <1>1, FS_EmptySet
    <3> DEFINE sum == [s \in Small(0) |-> 0]
    <3>2. sum = [s \in Small(0) |-> IF s = {} THEN 0 ELSE f[First(s)] + sum[s \ {First(s)}]]
      BY <3>1
    <3> QED
      BY <2>1, <2>2, <3>2
  <2>3. CASE n # 0
    <3>1. n \in Nat /\ n - 1 \in Nat /\ n - 1 \notin Fails
      <4>1. n \in Nat /\ n - 1 \in Nat
        BY <2>1, <2>3
      <4> HIDE DEF Fails
      <4> QED
        BY <2>1, <4>1
    <3>2. PICK sum : sum = [s \in Small(n - 1) |-> IF s = {} THEN 0 ELSE f[First(s)] + sum[s \ {First(s)}]]
      BY <3>1
    <3> DEFINE Step(s) == IF s = {} THEN 0 ELSE f[First(s)] + sum[s \ {First(s)}]
               more == [s \in Small(n) |-> Step(s)]
    <3>3. ASSUME NEW s \in Small(n), s # {} PROVE s \ {First(s)} \in Small(n - 1) /\ First(s) \in s
      <4>1. First(s) \in s
        BY <3>3 DEF First
      <4>2. Cardinality(s \ {First(s)}) = Cardinality(s) - 1
        BY <1>1, <4>1, FS_RemoveElement
      <4> QED
        BY <1>1, <3>1, <4>1, <4>2
    <3>4. \A s \in Small(n - 1) : s \in Small(n) /\ sum[s] = Step(s)
      <4>1. \A s \in Small(n - 1) : s \in Small(n)
        BY <1>1, <3>1
      <4> HIDE DEF Small
      <4> QED
        BY <3>2, <4>1
    <3>5. \A s \in Small(n) : more[s] = IF s = {} THEN 0 ELSE f[First(s)] + more[s \ {First(s)}]
      <4> HIDE DEF Small
      <4> QED
        BY <3>3, <3>4
    <3>6. more = [s \in Small(n) |-> IF s = {} THEN 0 ELSE f[First(s)] + more[s \ {First(s)}]]
      BY <3>5
    <3> HIDE DEF more, Small
    <3> QED
      BY <2>1, <3>6
  <2> QED
    BY <2>2, <2>3
<1>4. Small(Cardinality(S)) = SUBSET S
  BY <1>1
<1>5. Ends(Cardinality(S))
  BY <1>2, <1>3
<1> HIDE DEF Small
<1> QED
  BY <1>4, <1>5 DEF SumRule

Added(f, S) == MapThenSumSet(LAMBDA a : f[a], S)

LEMMA SumsOf ==
  ASSUME NEW S, IsFiniteSet(S), NEW f, \A a \in S : f[a] \in Nat
  PROVE  \E sum : Sums(f, S, sum) /\ Added(f, S) = sum[S]
<1>1. PICK sum : SumRule(f, S, sum) /\ Added(f, S) = sum[S]
  <2> DEFINE chosen == CHOOSE any : SumRule(f, S, any)
  <2>1. Added(f, S) = chosen[S]
    BY DEF Added, MapThenSumSet, MapThenFoldSet, First, SumRule
  <2>2. SumRule(f, S, chosen)
    BY SumsExist
  <2> HIDE DEF chosen
  <2> QED
    BY <2>1, <2>2
<1>3. \A s \in (SUBSET S) \ {{}} : sum[s] = f[First(s)] + sum[s \ {First(s)}]
  BY <1>1 DEF SumRule
<1>4. sum[{}] = 0 /\ DOMAIN sum = SUBSET S /\ sum = [s \in SUBSET S |-> sum[s]]
  BY <1>1 DEF SumRule
<1>5. \A s \in SUBSET S : sum[s] \in Nat
  <2> DEFINE Fails == {n \in Nat : \E s \in SUBSET S : Cardinality(s) = n /\ sum[s] \notin Nat}
  <2>1. \A s \in SUBSET S : IsFiniteSet(s) /\ Cardinality(s) \in Nat
    BY FS_Subset, FS_CardinalityType
  <2> SUFFICES ASSUME Fails # {} PROVE FALSE
    BY <2>1
  <2>2. PICK n \in Fails : \A k \in Fails : n <= k
    <3>1. Fails \in SUBSET Nat
      OBVIOUS
    <3> HIDE DEF Fails
    <3> QED
      BY <3>1, LeastOf
  <2>3. PICK s \in SUBSET S : Cardinality(s) = n /\ sum[s] \notin Nat
    BY <2>2
  <2>4. s # {} /\ First(s) \in s /\ First(s) \in S
    <3>1. \A t \in SUBSET S : t = {} => sum[t] = 0
      BY <1>4
    <3>2. s # {}
      BY <2>3, <3>1
    <3>3. First(s) \in s
      BY <3>2 DEF First
    <3> QED
      BY <3>2, <3>3
  <2>5. Cardinality(s \ {First(s)}) = n - 1 /\ n - 1 \in Nat
    <3>1. IsFiniteSet(s) /\ Cardinality(s) = n
      BY <2>1, <2>3
    <3>2. Cardinality(s \ {First(s)}) = n - 1
      BY <2>4, <3>1, FS_RemoveElement
    <3>3. s \ {First(s)} \in SUBSET S
      OBVIOUS
    <3> QED
      BY <2>1, <3>2, <3>3
  <2>6. sum[s \ {First(s)}] \in Nat
    BY <2>2, <2>5
  <2>7. f[First(s)] \in Nat /\ sum[s] = f[First(s)] + sum[s \ {First(s)}]
    BY <1>3, <2>4
  <2>8. sum[s] \in Nat
    BY <2>6, <2>7
  <2> QED
    BY <2>3, <2>8
<1> QED
  BY <1>1, <1>3, <1>4, <1>5 DEF Sums

\* The order in which the elements are added up does not matter.
LEMMA AnyOrder ==
  ASSUME NEW S, IsFiniteSet(S), NEW f, \A a \in S : f[a] \in Nat, NEW sum, Sums(f, S, sum),
         NEW s \in SUBSET S, NEW x \in s
  PROVE  sum[s] = f[x] + sum[s \ {x}]
<1> DEFINE Swaps(t) == \A y \in t : sum[t] = f[y] + sum[t \ {y}]
           Fails == {n \in Nat : \E t \in SUBSET S : Cardinality(t) = n /\ ~Swaps(t)}
<1>1. \A t \in SUBSET S : IsFiniteSet(t) /\ Cardinality(t) \in Nat
  BY FS_Subset, FS_CardinalityType
<1>2. ASSUME Fails # {} PROVE FALSE
  <2>1. PICK n \in Fails : \A k \in Fails : n <= k
    <3>1. Fails \in SUBSET Nat
      OBVIOUS
    <3> HIDE DEF Fails
    <3> QED
      BY <1>2, <3>1, LeastOf
  <2>2. PICK t \in SUBSET S : Cardinality(t) = n /\ ~Swaps(t)
    BY <2>1
  <2>3. PICK y \in t : sum[t] # f[y] + sum[t \ {y}]
    BY <2>2
  <2>4. ASSUME NEW u \in SUBSET S, u \subseteq t, u # t PROVE Swaps(u)
    <3>1. Cardinality(u) < n
      BY <1>1, <2>2, <2>4, FS_Subset
    <3>2. Cardinality(u) \notin Fails
      BY <1>1, <2>1, <3>1
    <3> HIDE DEF Swaps
    <3> QED
      BY <1>1, <3>2
  <2> DEFINE z == First(t)
  <2>5. z \in t /\ sum[t] = f[z] + sum[t \ {z}]
    <3>1. z \in t
      BY <2>3 DEF First
    <3>2. t # {}
      BY <2>3
    <3> QED
      BY <3>1, <3>2 DEF Sums
  <2> HIDE DEF z
  <2>6. z # y
    BY <2>3, <2>5
  <2>7. sum[t \ {z}] = f[y] + sum[(t \ {z}) \ {y}]
    BY <2>3, <2>4, <2>5, <2>6
  <2>8. sum[t \ {y}] = f[z] + sum[(t \ {y}) \ {z}]
    BY <2>3, <2>4, <2>5, <2>6
  <2>9. sum[(t \ {z}) \ {y}] = sum[(t \ {y}) \ {z}]
    <3>1. (t \ {z}) \ {y} = (t \ {y}) \ {z}
      OBVIOUS
    <3> QED
      BY ONLY <3>1, Zenon
  <2>10. f[y] \in Nat /\ f[z] \in Nat /\ sum[(t \ {y}) \ {z}] \in Nat
    BY <2>3, <2>5 DEF Sums
  <2>11. sum[t] = f[z] + (f[y] + sum[(t \ {y}) \ {z}])
    BY <2>5, <2>7, <2>9
  <2>12. f[y] + sum[t \ {y}] = f[y] + (f[z] + sum[(t \ {y}) \ {z}])
    BY <2>8
  <2>13. f[y] + (f[z] + sum[(t \ {y}) \ {z}]) = f[z] + (f[y] + sum[(t \ {y}) \ {z}])
    BY ONLY <2>10
  <2> QED
    BY <2>3, <2>11, <2>12, <2>13
<1>3. \A t \in SUBSET S : Cardinality(t) \notin Fails
  BY <1>2
<1>4. Swaps(s)
  <2> HIDE DEF Swaps
  <2> QED
    BY <1>1, <1>3
<1> QED
  BY <1>4

\* A sum grows with what is added up.
LEMMA SumsGrow ==
  ASSUME NEW S, IsFiniteSet(S), NEW f, \A a \in S : f[a] \in Nat, NEW g, \A a \in S : g[a] \in Nat,
         \A a \in S : f[a] <= g[a], NEW small, Sums(f, S, small), NEW large, Sums(g, S, large)
  PROVE  small[S] <= large[S] /\ small[S] \in Nat /\ large[S] \in Nat
<1> DEFINE Fails == {n \in Nat : \E t \in SUBSET S : Cardinality(t) = n /\ ~(small[t] <= large[t])}
<1>1. \A t \in SUBSET S : IsFiniteSet(t) /\ Cardinality(t) \in Nat
  BY FS_Subset, FS_CardinalityType
<1>2. ASSUME Fails # {} PROVE FALSE
  <2>1. PICK n \in Fails : \A k \in Fails : n <= k
    <3>1. Fails \in SUBSET Nat
      OBVIOUS
    <3> HIDE DEF Fails
    <3> QED
      BY <1>2, <3>1, LeastOf
  <2>2. PICK t \in SUBSET S : Cardinality(t) = n /\ ~(small[t] <= large[t])
    BY <2>1
  <2>3. t # {}
    <3>1. \A u \in SUBSET S : u = {} => small[u] = 0 /\ large[u] = 0
      BY DEF Sums
    <3> QED
      BY <2>2, <3>1
  <2> DEFINE z == First(t)
  <2>4. z \in t
    BY <2>3 DEF First
  <2>5. small[t] = f[z] + small[t \ {z}] /\ large[t] = g[z] + large[t \ {z}]
    BY <2>3 DEF Sums
  <2> HIDE DEF z
  <2>6. Cardinality(t \ {z}) = n - 1 /\ n - 1 \in Nat
    <3>1. IsFiniteSet(t) /\ n \in Nat
      BY <1>1, <2>1
    <3> HIDE DEF Fails
    <3>2. Cardinality(t \ {z}) = n - 1 /\ Cardinality(t \ {z}) \in Nat
      <4>1. IsFiniteSet(t \ {z}) /\ Cardinality(t \ {z}) = Cardinality(t) - 1
        BY <2>4, <3>1, FS_RemoveElement
      <4> QED
        BY <2>2, <4>1, FS_CardinalityType
    <3> QED
      BY <3>2
  <2>7. small[t \ {z}] <= large[t \ {z}]
    BY <2>1, <2>6
  <2>8. f[z] \in Nat /\ g[z] \in Nat /\ f[z] <= g[z] /\ small[t \ {z}] \in Nat /\ large[t \ {z}] \in Nat
    BY <2>4 DEF Sums
  <2>9. small[t] <= large[t]
    BY <2>5, <2>7, <2>8
  <2> QED
    BY <2>2, <2>9
<1>3. Cardinality(S) \notin Fails
  BY <1>2
<1> QED
  BY <1>1, <1>3 DEF Sums

-----------------------------------------------------------------------------
(***************************************************************************)
(* The rate window.  Total(f) is what Count and ServedWithinRpm compute.   *)
(***************************************************************************)
Total(f) == Added(f, 0 .. Window)

LEMMA WindowFinite ==
  /\ Window \in Nat /\ IsFiniteSet(0 .. Window)
  /\ {a \in Ages : InWindow(a)} = 0 .. Window
  /\ \A a \in 0 .. Window : a \in Ages
<1>1. Window \in Nat
  BY RetriesAssumption
<1>2. IsFiniteSet(0 .. Window)
  BY <1>1, FS_Interval
<1> QED
  BY <1>1, <1>2 DEF Ages, InWindow

LEMMA CountIsTotal ==
  ASSUME NEW f
  PROVE  Count(f) = Total(f)
BY WindowFinite, Zenon DEF Count, Total, Added

LEMMA TotalGrows ==
  ASSUME NEW f \in [Ages -> Nat], NEW g \in [Ages -> Nat], \A a \in Ages : f[a] <= g[a]
  PROVE  Total(f) \in Nat /\ Total(g) \in Nat /\ Total(f) <= Total(g)
<1> DEFINE S == 0 .. Window
<1>1. IsFiniteSet(S) /\ \A a \in S : a \in Ages
  BY WindowFinite
<1> HIDE DEF S
<1>2. \A a \in S : f[a] \in Nat /\ g[a] \in Nat /\ f[a] <= g[a]
  BY <1>1
<1>3. PICK small : Sums(f, S, small) /\ Added(f, S) = small[S]
  BY <1>1, <1>2, SumsOf
<1>4. PICK large : Sums(g, S, large) /\ Added(g, S) = large[S]
  BY <1>1, <1>2, SumsOf
<1>5. small[S] <= large[S] /\ small[S] \in Nat /\ large[S] \in Nat
  BY <1>1, <1>2, <1>3, <1>4, SumsGrow
<1>6. Total(f) = small[S] /\ Total(g) = large[S]
  BY <1>3, <1>4 DEF Total, S
<1> QED
  BY <1>5, <1>6

LEMMA TotalOfNone ==
  ASSUME NEW f, \A a \in Ages : f[a] = 0
  PROVE  Total(f) = 0
<1> DEFINE S == 0 .. Window
<1>1. IsFiniteSet(S) /\ \A a \in S : a \in Ages
  BY WindowFinite
<1> HIDE DEF S
<1>2. PICK sum : Sums(f, S, sum) /\ Added(f, S) = sum[S]
  BY <1>1, SumsOf
<1> DEFINE Fails == {n \in Nat : \E t \in SUBSET S : Cardinality(t) = n /\ sum[t] # 0}
<1>3. \A t \in SUBSET S : IsFiniteSet(t) /\ Cardinality(t) \in Nat
  BY <1>1, FS_Subset, FS_CardinalityType
<1>4. ASSUME Fails # {} PROVE FALSE
  <2>1. PICK n \in Fails : \A k \in Fails : n <= k
    <3>1. Fails \in SUBSET Nat
      OBVIOUS
    <3> HIDE DEF Fails
    <3> QED
      BY <1>4, <3>1, LeastOf
  <2>2. PICK t \in SUBSET S : Cardinality(t) = n /\ sum[t] # 0
    BY <2>1
  <2>3. PICK z \in t : TRUE
    <3>1. \A u \in SUBSET S : u = {} => sum[u] = 0
      BY <1>2 DEF Sums
    <3> QED
      BY <2>2, <3>1
  <2>4. sum[t] = f[z] + sum[t \ {z}]
    BY <1>1, <1>2, AnyOrder
  <2>5. Cardinality(t \ {z}) = n - 1 /\ n - 1 \in Nat
    BY <1>3, <2>2, <2>3, FS_RemoveElement
  <2>6. sum[t \ {z}] = 0
    BY <2>1, <2>5
  <2> QED
    BY <1>1, <2>2, <2>4, <2>6
<1>5. sum[S] = 0
  <2>1. Cardinality(S) \notin Fails
    BY <1>4
  <2> QED
    BY <1>3, <2>1
<1> QED
  BY <1>2, <1>5 DEF Total, S

\* A second later the same requests count, less those that have become too old.
LEMMA TotalAges ==
  ASSUME NEW f \in [Ages -> Nat]
  PROVE  Total(Older(f)) <= Total(f)
<1> DEFINE S == 0 .. Window
           g == Older(f)
           Upto(n) == 0 .. n
<1>1. Window \in Nat /\ IsFiniteSet(S) /\ \A a \in S : a \in Ages
  BY WindowFinite
<1>2. g \in [Ages -> Nat] /\ g[0] = 0 /\ \A a \in S \ {0} : g[a] = f[a - 1] /\ a - 1 \in S
  BY <1>1 DEF Older, Ages
<1>3. \A a \in S : f[a] \in Nat /\ g[a] \in Nat
  BY <1>1, <1>2
<1>4. \A n \in S : Upto(n) \in SUBSET S /\ n \in Upto(n)
  BY <1>1
<1>5. \A n \in S \ {0} : Upto(n) \ {n} = Upto(n - 1)
  BY <1>1
<1>6. Upto(0) \ {0} = {}
  OBVIOUS
<1>7. 0 \in S /\ Window \in S /\ Upto(Window) = S /\ S \subseteq Nat
  BY <1>1
<1> HIDE DEF S, g, Upto
<1>8. PICK old : Sums(f, S, old) /\ Added(f, S) = old[S]
  BY <1>1, <1>3, SumsOf
<1>9. PICK new : Sums(g, S, new) /\ Added(g, S) = new[S]
  BY <1>1, <1>3, SumsOf
<1>10. \A n \in S : /\ old[Upto(n)] = f[n] + old[Upto(n) \ {n}]
                    /\ new[Upto(n)] = g[n] + new[Upto(n) \ {n}]
  BY <1>1, <1>3, <1>4, <1>8, <1>9, AnyOrder
<1>11. \A t \in SUBSET S : old[t] \in Nat /\ new[t] \in Nat
  BY <1>8, <1>9 DEF Sums
<1>12. \A t \in SUBSET S : t = {} => old[t] = 0 /\ new[t] = 0
  BY <1>8, <1>9 DEF Sums
<1> DEFINE Shifted(n) == new[Upto(n)] + f[n] = old[Upto(n)]
           Fails == {n \in S : ~Shifted(n)}
<1>13. Shifted(0)
  <2>1. \A t \in SUBSET S : t = Upto(0) \ {0} => old[t] = 0 /\ new[t] = 0
    BY <1>6, <1>12
  <2>2. Upto(0) \ {0} \in SUBSET S
    BY <1>4, <1>7
  <2>3. new[Upto(0)] = g[0] + 0 /\ old[Upto(0)] = f[0] + 0
    BY <1>7, <1>10, <2>1, <2>2
  <2> QED
    BY <1>2, <1>3, <1>7, <2>3
<1>14. ASSUME NEW n \in S \ {0}, Shifted(n - 1) PROVE Shifted(n)
  <2>1. old[Upto(n)] = f[n] + old[Upto(n - 1)]
    BY <1>5, <1>10
  <2>2. new[Upto(n)] = f[n - 1] + new[Upto(n - 1)]
    BY <1>2, <1>5, <1>10
  <2>3. n - 1 \in S
    BY <1>2
  <2>4. f[n] \in Nat /\ f[n - 1] \in Nat /\ new[Upto(n - 1)] \in Nat /\ old[Upto(n - 1)] \in Nat
    BY <1>3, <1>4, <1>11, <2>3
  <2> QED
    BY <1>14, <2>1, <2>2, <2>4
<1>15. ASSUME Fails # {} PROVE FALSE
  <2>1. PICK n \in Fails : \A k \in Fails : n <= k
    <3>1. Fails \in SUBSET Nat
      BY <1>7
    <3> HIDE DEF Fails
    <3> QED
      BY <1>15, <3>1, LeastOf
  <2>2. n \in S \ {0} /\ ~Shifted(n)
    BY <1>13, <2>1
  <2>3. n - 1 \in S /\ n \in Nat
    BY <1>2, <1>7, <2>2
  <2>4. n - 1 \notin Fails
    <3> HIDE DEF Fails
    <3> QED
      BY <1>7, <2>1, <2>3
  <2>5. Shifted(n - 1)
    BY <2>3, <2>4
  <2> QED
    BY <1>14, <2>2, <2>5
<1>16. new[S] + f[Window] = old[S]
  BY <1>7, <1>15
<1>17. f[Window] \in Nat /\ new[S] \in Nat /\ old[S] \in Nat
  BY <1>3, <1>7, <1>11
<1>18. Total(Older(f)) = new[S] /\ Total(f) = old[S]
  BY <1>8, <1>9 DEF Total, S, g
<1> QED
  BY <1>16, <1>17, <1>18

-----------------------------------------------------------------------------
(***************************************************************************)
(* No more than the limit gets through in a window.                        *)
(***************************************************************************)
Windows ==
  /\ window \in [Ages -> Nat] /\ served \in [Kinds -> [Ages -> Nat]]
  /\ \A k \in Kinds : \A a \in Ages : served[k][a] <= window[a]
  /\ \A k \in Kinds : Total(served[k]) <= RpmFor(k)

\* What a step that lets one request of kind k through, or none, does to the window.
Lets(through, k) ==
  /\ window' = Recorded
  /\ through => Count(window') <= RpmFor(k)
  /\ served' = IF through THEN [served EXCEPT ![k][0] = @ + 1] ELSE served

LEMMA WindowsBegin == Init => Windows
<1> SUFFICES ASSUME Init PROVE Windows
  OBVIOUS
<1>1. window \in [Ages -> Nat] /\ served \in [Kinds -> [Ages -> Nat]]
  BY DEF Init
<1>2. \A k \in Kinds : \A a \in Ages : served[k][a] = 0 /\ window[a] = 0
  BY DEF Init
<1>3. \A k \in Kinds : Total(served[k]) = 0
  BY <1>2, TotalOfNone
<1>4. \A k \in Kinds : RpmFor(k) \in Nat
  BY RetriesAssumption DEF RpmFor
<1> QED
  BY <1>1, <1>2, <1>3, <1>4 DEF Windows

LEMMA WindowsLet ==
  ASSUME Windows, NEW through \in BOOLEAN, NEW k \in Kinds, Lets(through, k)
  PROVE  Windows'
<1>1. PICK w : w = window'
  OBVIOUS
<1>2. PICK s : s = served'
  OBVIOUS
<1>3. 0 \in Ages /\ window \in [Ages -> Nat] /\ served \in [Kinds -> [Ages -> Nat]]
  BY RetriesAssumption DEF Windows, Ages
<1>4. w \in [Ages -> Nat] /\ \A a \in Ages : window[a] <= w[a] /\ (a = 0 => w[a] = window[a] + 1)
  BY <1>1, <1>3 DEF Lets, Recorded
<1>5. s \in [Kinds -> [Ages -> Nat]] /\ \A j \in Kinds : ~(through /\ j = k) => s[j] = served[j]
  BY <1>2, <1>3 DEF Lets
<1>6. \A j \in Kinds : \A a \in Ages : s[j][a] <= IF a = 0 THEN served[j][a] + 1 ELSE served[j][a]
  BY <1>2, <1>3 DEF Lets
<1>7. \A j \in Kinds : \A a \in Ages : s[j][a] <= w[a]
  <2> SUFFICES ASSUME NEW j \in Kinds, NEW a \in Ages PROVE s[j][a] <= w[a]
    OBVIOUS
  <2>1. served[j][a] <= window[a] /\ served[j][a] \in Nat /\ window[a] \in Nat
    BY <1>3 DEF Windows
  <2>2. w[a] \in Nat /\ s[j][a] \in Nat
    BY <1>4, <1>5
  <2> QED
    BY <1>4, <1>6, <2>1, <2>2
<1>8. ASSUME NEW j \in Kinds PROVE Total(s[j]) <= RpmFor(j)
  <2>1. CASE through /\ j = k
    <3>1. Total(w) <= RpmFor(j) /\ RpmFor(j) \in Nat
      BY <1>1, <2>1, CountIsTotal, RetriesAssumption DEF Lets, RpmFor
    <3>2. Total(s[j]) <= Total(w) /\ Total(s[j]) \in Nat /\ Total(w) \in Nat
      BY <1>4, <1>5, <1>7, TotalGrows
    <3> QED
      BY <3>1, <3>2
  <2>2. CASE ~(through /\ j = k)
    BY <1>5, <2>2 DEF Windows
  <2> QED
    BY <2>1, <2>2
<1> QED
  BY <1>1, <1>2, <1>4, <1>5, <1>7, <1>8 DEF Windows

LEMMA WindowsAge ==
  ASSUME Windows, Tick
  PROVE  Windows'
<1>1. PICK w : w = window'
  OBVIOUS
<1>2. PICK s : s = served'
  OBVIOUS
<1>3. window \in [Ages -> Nat] /\ served \in [Kinds -> [Ages -> Nat]]
  BY DEF Windows
<1>4. w = Older(window) /\ s = [k \in Kinds |-> Older(served[k])]
  BY <1>1, <1>2 DEF Tick
<1>5. \A f \in [Ages -> Nat] : Older(f) \in [Ages -> Nat]
  BY RetriesAssumption DEF Older, Ages
<1>6. \A k \in Kinds : \A a \in Ages : s[k][a] <= w[a]
  BY <1>3, <1>4, RetriesAssumption DEF Windows, Older, Ages
<1>7. ASSUME NEW k \in Kinds PROVE Total(s[k]) <= RpmFor(k)
  <2>1. s[k] = Older(served[k]) /\ served[k] \in [Ages -> Nat] /\ s[k] \in [Ages -> Nat]
    BY <1>3, <1>4, <1>5
  <2>2. Total(s[k]) <= Total(served[k])
    BY <2>1, TotalAges
  <2>3. Total(s[k]) \in Nat /\ Total(served[k]) \in Nat
    BY <2>1, TotalGrows
  <2>4. Total(served[k]) <= RpmFor(k) /\ RpmFor(k) \in Nat
    BY RetriesAssumption DEF Windows, RpmFor
  <2> QED
    BY <2>2, <2>3, <2>4
<1> QED
  BY <1>1, <1>2, <1>3, <1>4, <1>5, <1>6, <1>7 DEF Windows

LEMMA WindowsInductive == Windows /\ [Next]_vars => Windows'
<1> SUFFICES ASSUME Windows, [Next]_vars PROVE Windows'
  OBVIOUS
<1>1. CASE Tick
  BY <1>1, WindowsAge
<1>2. CASE ListKeys
  <2>1. \E through \in BOOLEAN : Lets(through, "read")
    <3>1. CASE Count(window') <= RpmFor("read")
      BY <1>2, <3>1 DEF ListKeys, Lets
    <3>2. CASE ~(Count(window') <= RpmFor("read"))
      BY <1>2, <3>2 DEF ListKeys, Lets
    <3> QED
      BY <3>1, <3>2
  <2> QED
    BY <2>1, WindowsLet DEF Kinds
<1>3. ASSUME TurnAway PROVE Windows'
  <2>1. Lets(FALSE, "write")
    BY <1>3 DEF TurnAway, Lets
  <2> QED
    BY <2>1, WindowsLet DEF Kinds
<1>4. ASSUME Admit PROVE Windows'
  <2>1. Lets(TRUE, "write")
    BY <1>4 DEF Admit, Lets
  <2> QED
    BY <2>1, WindowsLet DEF Kinds
<1>5. ASSUME UNCHANGED <<window, served>> PROVE Windows'
  BY <1>5 DEF Windows
<1>6. CASE UNCHANGED vars
  BY <1>5, <1>6 DEF vars
<1>7. ASSUME NEW c \in Clients, ClientStep(c) PROVE Windows'
  BY <1>5, <1>7 DEF ClientStep, Call, React, Resend, Lose, server
<1>8. ASSUME NEW c \in Clients, Handle(c) PROVE Windows'
  BY <1>3, <1>4, <1>5, <1>8 DEF Handle, Limit, Write, Fail, Read, ProxyFail, server
<1>9. ASSUME RunPast \/ \E c \in Clients : RunOn(c) PROVE Windows'
  BY <1>3, <1>4, <1>9 DEF RunPast, RunOn
<1> QED
  BY <1>1, <1>2, <1>6, <1>7, <1>8, <1>9 DEF Next

\* However many clients share the token, whatever they retry and whatever the clock does,
\* no more requests of a kind that record_request counts get through in a window than
\* require_identity's limit: what got through was counted, and the count only ages.
THEOREM WithinRpm == Spec => []ServedWithinRpm
<1>1. Init => Windows
  BY WindowsBegin
<1>2. Windows /\ [Next]_vars => Windows'
  BY WindowsInductive
<1>3. Windows => ServedWithinRpm
  BY DEF Windows, ServedWithinRpm, Total, Added
<1> QED
  BY <1>1, <1>2, <1>3, PTL DEF Spec

-----------------------------------------------------------------------------
(***************************************************************************)
(* What a call says of its row.  A request is sent, and sent again, only   *)
(* before the row is there; this is where the default policy comes in.     *)
(***************************************************************************)
Unwritten(c) == rows[c] = 0 /\ ~recorded[c] /\ outcome[c] = "none"
Answered(c) ==
  /\ answer[c].status \in {"2xx", "429", "5xx"} /\ outcome[c] = "none" /\ rows[c] \in {0, 1}
  /\ answer[c].status = "429" => Unwritten(c)
  /\ answer[c].status = "2xx" /\ kind[c] = "write" => rows[c] = 1
Ended(c) ==
  /\ rows[c] \in {0, 1}
  /\ kind[c] = "write" /\ outcome[c] = "ok" => rows[c] = 1
  /\ outcome[c] = "limited" => rows[c] = 0

\* What is left with the server is the first request of its call.
Tells(c) ==
  /\ left[c] => at[c] = "idle" /\ rows[c] = 0 /\ ~recorded[c] /\ outcome[c] = "lost"
  /\ at[c] \in {"idle", "sent", "answered", "asleep"}
  /\ at[c] \in {"sent", "asleep"} => Unwritten(c)
  /\ at[c] = "answered" => Answered(c)
  /\ at[c] = "idle" => Ended(c)

Shapes ==
  /\ DOMAIN at = Clients /\ DOMAIN kind = Clients /\ DOMAIN answer = Clients
  /\ DOMAIN outcome = Clients /\ DOMAIN rows = Clients /\ DOMAIN recorded = Clients
  /\ left \in [Clients -> BOOLEAN]

TellInv == Shapes /\ (~retry5xx => \A c \in Clients : Tells(c))

tells == <<at, kind, answer, outcome, rows, recorded, left>>

LEMMA ShapesKept == Shapes /\ [Next]_vars => Shapes'
<1> SUFFICES ASSUME Shapes, [Next]_vars PROVE Shapes'
  OBVIOUS
<1>1. CASE UNCHANGED tells
  BY <1>1 DEF Shapes, tells
<1>2. ASSUME NEW c \in Clients, ClientStep(c) PROVE Shapes'
  BY <1>2 DEF Shapes, ClientStep, Call, React, Resend, Lose, End, Sleep, server
<1>3. ASSUME NEW c \in Clients, Handle(c) PROVE Shapes'
  BY <1>3 DEF Shapes, Handle, Limit, Write, Fail, Posted, Store, StoreInPart, Read, ProxyFail, Answer, server
<1>4. ASSUME NEW c \in Clients, RunOn(c) PROVE Shapes'
  BY <1>4 DEF Shapes, RunOn, Store, StoreInPart, client
<1> QED
  BY <1>1, <1>2, <1>3, <1>4 DEF Next, Tick, ListKeys, RunPast, tells, client, vars

\* A step of client c, or of the server for it, changes no other client's part.
LEMMA OthersTell ==
  ASSUME Shapes, NEW c \in Clients, ClientStep(c) \/ Handle(c) \/ RunOn(c), NEW d \in Clients, d # c, Tells(d)
  PROVE  Tells(d)'
<1>1. /\ at'[d] = at[d] /\ kind'[d] = kind[d] /\ answer'[d] = answer[d]
      /\ outcome'[d] = outcome[d] /\ rows'[d] = rows[d] /\ recorded'[d] = recorded[d]
      /\ left'[d] = left[d]
  <2>1. CASE ClientStep(c)
    BY <2>1 DEF Shapes, ClientStep, Call, React, Resend, Lose, End, Sleep, server
  <2>2. CASE Handle(c)
    BY <2>2 DEF Shapes, Handle, Limit, Write, Fail, Posted, Store, StoreInPart, Read, ProxyFail, Answer, server
  <2>3. CASE RunOn(c)
    BY <2>3 DEF Shapes, RunOn, Store, StoreInPart, client
  <2> QED
    BY <2>1, <2>2, <2>3
<1> QED
  BY <1>1 DEF Tells, Unwritten, Answered, Ended

LEMMA CallerTells ==
  ASSUME Shapes, NEW c \in Clients, ClientStep(c), ~retry5xx, Tells(c)
  PROVE  Tells(c)'
<1>1. CASE Call(c)
  BY <1>1 DEF Shapes, Call, Tells, Unwritten
<1>2. CASE React(c)
  <2> USE DEF Shapes, Tells, Unwritten, Answered, Ended
  <2>1. ASSUME answer[c].status = "2xx", End(c, "ok"), UNCHANGED <<kind, rows, recorded>>
        PROVE  Tells(c)'
    BY <1>2, <2>1 DEF React, End
  <2>2. ASSUME answer[c].status # "2xx", UNCHANGED <<kind, rows, recorded>>,
               End(c, IF answer[c].status = "429" THEN "limited" ELSE "failed")
        PROVE  Tells(c)'
    BY <1>2, <2>2 DEF React, End
  <2>3. ASSUME answer[c].status = "429", UNCHANGED <<kind, rows, recorded>>, NEW wait, Sleep(c, wait)
        PROVE  Tells(c)'
    BY <1>2, <2>3 DEF React, Sleep
  <2> QED
    BY <1>2, <2>1, <2>2, <2>3 DEF React, IsRetryableStatus, server
<1>3. CASE Resend(c)
  BY <1>3 DEF Shapes, Resend, server, Tells, Unwritten
<1>4. CASE Lose(c)
  BY <1>4 DEF Shapes, Lose, End, server, Tells, Answered, Unwritten, Ended
<1> QED
  BY <1>1, <1>2, <1>3, <1>4 DEF ClientStep

LEMMA ServerTells ==
  ASSUME Shapes, NEW c \in Clients, Handle(c) \/ RunOn(c), Tells(c)
  PROVE  Tells(c)'
<1> USE DEF Shapes, Tells, Unwritten, Answered, Answer
<1>1. CASE Limit(c)
  BY <1>1 DEF Limit, Posted
<1>2. CASE Write(c)
  BY <1>2 DEF Write, Posted, Store
<1>3. CASE Fail(c)
  BY <1>3 DEF Fail, Posted, StoreInPart
<1>4. CASE Read(c)
  BY <1>4 DEF Read, server
<1>5. CASE ProxyFail(c)
  BY <1>5 DEF ProxyFail, server
<1>6. CASE RunOn(c)
  BY <1>6 DEF RunOn, Store, StoreInPart, client, Ended
<1> QED
  BY <1>1, <1>2, <1>3, <1>4, <1>5, <1>6 DEF Handle

LEMMA TellInductive == TellInv /\ [Next]_vars => TellInv'
<1> SUFFICES ASSUME TellInv, [Next]_vars PROVE TellInv'
  OBVIOUS
<1>1. retry5xx' = retry5xx
  BY DEF Next, Tick, ListKeys, RunPast, RunOn, ClientStep, Call, React, Resend, Lose,
         Handle, Limit, Write, Fail, Posted, Read, ProxyFail, vars
<1>2. Shapes'
  BY ShapesKept DEF TellInv
<1>3. ASSUME ~retry5xx, NEW c \in Clients PROVE Tells(c)'
  <2>1. Shapes /\ \A d \in Clients : Tells(d)
    BY <1>3 DEF TellInv
  <2>2. CASE UNCHANGED tells
    BY <2>1, <2>2 DEF tells, Tells, Unwritten, Answered, Ended
  <2>3. ASSUME NEW d \in Clients, ClientStep(d) PROVE Tells(c)'
    BY <1>3, <2>1, <2>3, OthersTell, CallerTells
  <2>4. ASSUME NEW d \in Clients, Handle(d) \/ RunOn(d) PROVE Tells(c)'
    BY <2>1, <2>4, OthersTell, ServerTells
  <2> QED
    BY <2>2, <2>3, <2>4 DEF Next, Tick, ListKeys, RunPast, tells, client, vars
<1> QED
  BY <1>1, <1>2, <1>3 DEF TellInv

\* With retry_on_5xx off, what a call of _json ends with is true of the row its request was
\* to write: once if it came back, never if it gave up on 429, at most once in any case.
THEOREM TruthfulCalls == Spec => []OutcomeTrue
<1>1. Init => TellInv
  BY DEF Init, TellInv, Shapes, Tells, Ended
<1>2. TellInv /\ [Next]_vars => TellInv'
  BY TellInductive
<1>3. TellInv => OutcomeTrue
  BY DEF TellInv, OutcomeTrue, Tells, Unwritten, Answered, Ended
<1> QED
  BY <1>1, <1>2, <1>3, PTL DEF Spec
=============================================================================
