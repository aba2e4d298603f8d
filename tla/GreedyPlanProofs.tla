--------------------------- MODULE GreedyPlanProofs ---------------------------
(***************************************************************************)
(* Proofs about GreedyPlan for any cluster, any thresholds and weights and *)
(* any number of plans.  They go up in layers, each inductive on top of    *)
(* the ones before: where the entries come from and go to, types, the      *)
(* agreement of usage and utilizations with the plan, the target, and what *)
(* parts of a plan do to nodes that are alike.  Sums over sets of nodes    *)
(* and of entries are reasoned about by induction, as the absence of a     *)
(* smallest counterexample.                                                *)
(***************************************************************************)
EXTENDS GreedyPlan, FiniteSetTheorems, TLAPS

(***************************************************************************)
(* Sums over finite sets.  SumFunctionOnSet is a recursive function on the *)
(* subsets of its set; Adds says that g is a table of it.                  *)
(***************************************************************************)
Pick(s) == CHOOSE x \in s : TRUE
Adds(g, f, S) == g = [s \in SUBSET S |-> IF s = {} THEN 0 ELSE f[Pick(s)] + g[s \ {Pick(s)}]]
Total(f, S) == (CHOOSE g : Adds(g, f, S))[S]

\* The library's sum, without its operators.
LEMMA SumIsTotal ==
  ASSUME NEW f, NEW S
  PROVE  SumFunctionOnSet(f, S) = Total(f, S)
  BY DEF SumFunctionOnSet, FoldFunctionOnSet, MapThenFoldSet, Total, Adds, Pick

\* Induction over the subsets of a finite set, as a smallest counterexample:
\* a set of subsets that is not empty has a member with none below it.
LEMMA SmallestSubset ==
  ASSUME NEW S, IsFiniteSet(S), NEW Bad, Bad \subseteq SUBSET S, Bad # {}
  PROVE  \E s \in Bad : \A t \in Bad : t \subseteq s => t = s
  <1>1. IsWellFoundedOn(StrictSubsetOrdering(S), SUBSET S)
    BY FS_StrictSubsetOrderingWellFounded, FS_FiniteSubsetsOfFinite
  <1>2. PICK s \in Bad : \A t \in Bad : ~(<<t, s>> \in StrictSubsetOrdering(S))
    BY <1>1, WFMin
  <1>3. ASSUME NEW t \in Bad, t \subseteq s PROVE t = s
    BY <1>2, <1>3 DEF StrictSubsetOrdering
  <1> QED
    BY <1>3

LEMMA PickIn ==
  ASSUME NEW s, s # {}
  PROVE  Pick(s) \in s
  BY DEF Pick

LEMMA AddsValue ==
  ASSUME NEW f, NEW S, NEW g, Adds(g, f, S), NEW s \in SUBSET S
  PROVE  g[s] = IF s = {} THEN 0 ELSE f[Pick(s)] + g[s \ {Pick(s)}]
  <1> DEFINE e(r) == IF r = {} THEN 0 ELSE f[Pick(r)] + g[r \ {Pick(r)}]
  <1>1. g = [r \in SUBSET S |-> e(r)]
    BY DEF Adds
  <1> HIDE DEF e
  <1>2. g[s] = e(s)
    BY <1>1
  <1> QED
    BY <1>2 DEF e

\* Two tables agree on what they both have,
LEMMA AddsUnique ==
  ASSUME NEW f, NEW S, NEW T, IsFiniteSet(S), S \subseteq T, NEW g, NEW h,
         Adds(g, f, S), Adds(h, f, T)
  PROVE  g[S] = h[S]
  <1> DEFINE Bad == {s \in SUBSET S : g[s] # h[s]}
  <1> SUFFICES ASSUME Bad # {} PROVE FALSE
    OBVIOUS
  <1>0. Bad \subseteq SUBSET S
    OBVIOUS
  <1> HIDE DEF Bad
  <1>1. PICK s \in Bad : \A t \in Bad : t \subseteq s => t = s
    BY <1>0, SmallestSubset
  <1> USE DEF Bad
  <1>2. s \in SUBSET S /\ s \in SUBSET T
    OBVIOUS
  <1>3. g[s] # h[s]
    OBVIOUS
  <1>4. s # {}
    BY <1>2, <1>3, AddsValue
  <1>5. Pick(s) \in s
    BY <1>4, PickIn
  <1>6. s \ {Pick(s)} \notin Bad
    BY <1>1, <1>5
  <1>7. g[s \ {Pick(s)}] = h[s \ {Pick(s)}]
    BY <1>2, <1>6
  <1>8. g[s] = f[Pick(s)] + g[s \ {Pick(s)}] /\ h[s] = f[Pick(s)] + h[s \ {Pick(s)}]
    <2> HIDE DEF Bad
    <2>1. g[s] = f[Pick(s)] + g[s \ {Pick(s)}]
      BY <1>2, <1>4, AddsValue
    <2>2. h[s] = f[Pick(s)] + h[s \ {Pick(s)}]
      BY <1>2, <1>4, AddsValue
    <2> QED
      BY <2>1, <2>2
  <1> QED
    BY <1>3, <1>7, <1>8

LEMMA TotalAdds ==
  ASSUME NEW f, NEW S, NEW g, Adds(g, f, S)
  PROVE  /\ Adds(CHOOSE h : Adds(h, f, S), f, S)
         /\ Total(f, S) = (CHOOSE h : Adds(h, f, S))[S]
  BY DEF Total

LEMMA TotalIs ==
  ASSUME NEW f, NEW S, NEW T, IsFiniteSet(S), S \subseteq T, NEW g, NEW h,
         Adds(g, f, S), Adds(h, f, T)
  PROVE  h[S] = Total(f, S)
  <1> DEFINE c == CHOOSE k : Adds(k, f, S)
  <1>1. Adds(c, f, S) /\ Total(f, S) = c[S]
    BY TotalAdds
  <1> HIDE DEF c
  <1>2. c[S] = h[S]
    BY <1>1, AddsUnique
  <1> QED
    BY <1>1, <1>2

\* and every finite set has one.
LEMMA AddsExists ==
  ASSUME NEW f, NEW S, IsFiniteSet(S)
  PROVE  \E g : Adds(g, f, S)
  <1> DEFINE Bad == {s \in SUBSET S : ~\E g : Adds(g, f, s)}
  <1> SUFFICES ASSUME Bad # {} PROVE FALSE
    OBVIOUS
  <1>0. Bad \subseteq SUBSET S
    OBVIOUS
  <1> HIDE DEF Bad
  <1>1. PICK s \in Bad : \A t \in Bad : t \subseteq s => t = s
    BY <1>0, SmallestSubset
  <1> USE DEF Bad
  <1>2. s \in SUBSET S /\ ~\E g : Adds(g, f, s)
    OBVIOUS
  <1>3. ASSUME NEW t \in SUBSET s, t # s PROVE IsFiniteSet(t) /\ \E g : Adds(g, f, t)
    BY <1>1, <1>2, <1>3, FS_Subset
  <1> HIDE DEF Bad
  <1> DEFINE e(r) == IF r = {} THEN 0 ELSE f[Pick(r)] + Total(f, r \ {Pick(r)})
             g == [r \in SUBSET s |-> e(r)]
  <1>4. ASSUME NEW t \in SUBSET s, t # s PROVE Total(f, t) = e(t)
    <2>1. PICK h : Adds(h, f, t)
      BY <1>3, <1>4
    <2>2. h[t] = Total(f, t)
      BY <1>3, <1>4, <2>1, TotalIs
    <2>3. CASE t = {}
      BY <2>1, <2>2, <2>3, AddsValue
    <2>4. CASE t # {}
      <3> DEFINE u == t \ {Pick(t)}
      <3>1. Pick(t) \in t /\ u \in SUBSET s /\ u # s /\ u \subseteq t
        BY <2>4, PickIn
      <3>2. h[t] = f[Pick(t)] + h[u]
        BY <2>1, <2>4, AddsValue
      <3> HIDE DEF u
      <3>3. PICK k : Adds(k, f, u)
        BY <1>3, <3>1
      <3>4. h[u] = Total(f, u)
        BY <1>3, <2>1, <3>1, <3>3, TotalIs
      <3> QED
        BY <2>2, <2>4, <3>2, <3>4 DEF u
    <2> QED
      BY <2>3, <2>4
  <1>5. ASSUME NEW r \in SUBSET s PROVE e(r) = IF r = {} THEN 0 ELSE f[Pick(r)] + g[r \ {Pick(r)}]
    <2>1. CASE r = {}
      BY <2>1
    <2>2. CASE r # {}
      <3> DEFINE u == r \ {Pick(r)}
      <3>1. Pick(r) \in r /\ u \in SUBSET s /\ u # s
        BY <2>2, PickIn
      <3> HIDE DEF u, e
      <3>2. g[u] = e(u)
        BY <3>1
      <3>3. Total(f, u) = e(u)
        BY <1>4, <3>1
      <3>4. e(r) = f[Pick(r)] + Total(f, u)
        BY <2>2 DEF e, u
      <3> QED
        BY <2>2, <3>2, <3>3, <3>4 DEF u
    <2> QED
      BY <2>1, <2>2
  <1> HIDE DEF e
  <1>6. g = [r \in SUBSET s |-> IF r = {} THEN 0 ELSE f[Pick(r)] + g[r \ {Pick(r)}]]
    BY <1>5
  <1> HIDE DEF g
  <1>7. Adds(g, f, s)
    BY <1>6 DEF Adds
  <1> QED
    BY <1>2, <1>7

LEMMA TotalStep ==
  ASSUME NEW f, NEW S, IsFiniteSet(S)
  PROVE  Total(f, S) = IF S = {} THEN 0 ELSE f[Pick(S)] + Total(f, S \ {Pick(S)})
  <1>1. PICK g : Adds(g, f, S)
    BY AddsExists
  <1>2. g[S] = Total(f, S)
    BY <1>1, TotalIs
  <1>3. CASE S = {}
    BY <1>1, <1>2, <1>3, AddsValue
  <1>4. CASE S # {}
    <2> DEFINE R == S \ {Pick(S)}
    <2>1. R \subseteq S /\ IsFiniteSet(R)
      BY FS_Subset
    <2>2. g[S] = f[Pick(S)] + g[R]
      BY <1>1, <1>4, AddsValue
    <2> HIDE DEF R
    <2>3. PICK h : Adds(h, f, R)
      BY <2>1, AddsExists
    <2>4. g[R] = Total(f, R)
      BY <1>1, <2>1, <2>3, TotalIs
    <2> QED
      BY <1>2, <1>4, <2>2, <2>4 DEF R
  <1> QED
    BY <1>3, <1>4

\* Sums by hand: of nothing, with one member taken out, put in.
LEMMA SumEmpty ==
  ASSUME NEW f
  PROVE  SumFunctionOnSet(f, {}) = 0
  BY SumIsTotal, TotalStep, FS_EmptySet

LEMMA SumPick ==
  ASSUME NEW f, NEW S, IsFiniteSet(S), S # {}
  PROVE  SumFunctionOnSet(f, S) = f[Pick(S)] + SumFunctionOnSet(f, S \ {Pick(S)})
  BY SumIsTotal, TotalStep

LEMMA SumInt ==
  ASSUME NEW f, NEW S, IsFiniteSet(S), \A x \in S : f[x] \in Int
  PROVE  SumFunctionOnSet(f, S) \in Int
  <1> DEFINE Bad == {s \in SUBSET S : SumFunctionOnSet(f, s) \notin Int}
  <1> SUFFICES ASSUME Bad # {} PROVE FALSE
    OBVIOUS
  <1>1. Bad \subseteq SUBSET S
    OBVIOUS
  <1> HIDE DEF Bad
  <1>2. PICK s \in Bad : \A t \in Bad : t \subseteq s => t = s
    BY <1>1, SmallestSubset
  <1>3. s \in SUBSET S /\ IsFiniteSet(s) /\ SumFunctionOnSet(f, s) \notin Int
    BY FS_Subset DEF Bad
  <1>4. s # {}
    BY <1>3, SumEmpty
  <1> DEFINE x == Pick(s)
             r == s \ {x}
  <1>5. x \in s
    BY <1>4, PickIn
  <1>6. SumFunctionOnSet(f, s) = f[x] + SumFunctionOnSet(f, r)
    BY <1>3, <1>4, SumPick
  <1> HIDE DEF x
  <1>7. r \notin Bad /\ r \in SUBSET S
    BY <1>2, <1>3, <1>5
  <1> HIDE DEF r
  <1>8. SumFunctionOnSet(f, r) \in Int
    BY <1>7 DEF Bad
  <1>9. f[x] \in Int
    BY <1>3, <1>5
  <1> QED
    BY <1>3, <1>6, <1>8, <1>9

LEMMA SumRemove ==
  ASSUME NEW f, NEW S, IsFiniteSet(S), \A x \in S : f[x] \in Int, NEW y \in S
  PROVE  SumFunctionOnSet(f, S) = f[y] + SumFunctionOnSet(f, S \ {y})
  <1> DEFINE Bad == {s \in SUBSET S :
                       \E z \in s : SumFunctionOnSet(f, s) # f[z] + SumFunctionOnSet(f, s \ {z})}
  <1> SUFFICES ASSUME Bad # {} PROVE FALSE
    OBVIOUS
  <1>1. Bad \subseteq SUBSET S
    OBVIOUS
  <1> HIDE DEF Bad
  <1>2. PICK s \in Bad : \A t \in Bad : t \subseteq s => t = s
    BY <1>1, SmallestSubset
  <1>3. s \in SUBSET S /\ IsFiniteSet(s)
    BY <1>1, FS_Subset
  <1>4. PICK z \in s : SumFunctionOnSet(f, s) # f[z] + SumFunctionOnSet(f, s \ {z})
    BY DEF Bad
  <1> DEFINE x == Pick(s)
  <1>5. x \in s /\ SumFunctionOnSet(f, s) = f[x] + SumFunctionOnSet(f, s \ {x})
    BY <1>3, <1>4, PickIn, SumPick
  <1> HIDE DEF x
  <1>6. x # z
    BY <1>4, <1>5
  <1> DEFINE rest == s \ {x, z}
  <1>7. s \ {x} \notin Bad /\ s \ {z} \notin Bad
    BY <1>2, <1>4, <1>5
  <1>8. /\ z \in s \ {x} /\ x \in s \ {z}
        /\ (s \ {x}) \ {z} = rest /\ (s \ {z}) \ {x} = rest
        /\ s \ {x} \in SUBSET S /\ s \ {z} \in SUBSET S
    BY <1>3, <1>4, <1>5, <1>6
  <1> HIDE DEF rest
  <1>9. SumFunctionOnSet(f, s \ {x}) = f[z] + SumFunctionOnSet(f, rest)
    BY <1>7, <1>8 DEF Bad
  <1>10. SumFunctionOnSet(f, s \ {z}) = f[x] + SumFunctionOnSet(f, rest)
    BY <1>7, <1>8 DEF Bad
  <1>11. IsFiniteSet(rest) /\ rest \subseteq S
    BY <1>3, FS_Subset DEF rest
  <1>12. f[x] \in Int /\ f[z] \in Int /\ SumFunctionOnSet(f, rest) \in Int
    BY <1>3, <1>4, <1>5, <1>11, SumInt
  <1> QED
    BY <1>4, <1>5, <1>9, <1>10, <1>12

LEMMA SumAdd ==
  ASSUME NEW f, NEW S, IsFiniteSet(S), NEW y, y \notin S, \A x \in S \cup {y} : f[x] \in Int
  PROVE  SumFunctionOnSet(f, S \cup {y}) = f[y] + SumFunctionOnSet(f, S)
  <1>1. IsFiniteSet(S \cup {y})
    BY FS_AddElement
  <1>2. (S \cup {y}) \ {y} = S
    OBVIOUS
  <1> DEFINE T == S \cup {y}
  <1>3. y \in T
    OBVIOUS
  <1> HIDE DEF T
  <1>4. SumFunctionOnSet(f, T) = f[y] + SumFunctionOnSet(f, T \ {y})
    BY <1>1, <1>3, SumRemove DEF T
  <1> QED
    BY <1>2, <1>4 DEF T

\* A sum depends on what the function is on the set.
LEMMA SumEqual ==
  ASSUME NEW f, NEW g, NEW S, IsFiniteSet(S), \A x \in S : f[x] = g[x]
  PROVE  SumFunctionOnSet(f, S) = SumFunctionOnSet(g, S)
  <1> DEFINE Bad == {s \in SUBSET S : SumFunctionOnSet(f, s) # SumFunctionOnSet(g, s)}
  <1> SUFFICES ASSUME Bad # {} PROVE FALSE
    OBVIOUS
  <1>1. Bad \subseteq SUBSET S
    OBVIOUS
  <1> HIDE DEF Bad
  <1>2. PICK s \in Bad : \A t \in Bad : t \subseteq s => t = s
    BY <1>1, SmallestSubset
  <1>3. s \in SUBSET S /\ IsFiniteSet(s) /\ SumFunctionOnSet(f, s) # SumFunctionOnSet(g, s)
    BY FS_Subset DEF Bad
  <1>4. s # {}
    BY <1>3, SumEmpty
  <1> DEFINE x == Pick(s)
             r == s \ {x}
  <1>5. x \in s
    BY <1>4, PickIn
  <1>6. /\ SumFunctionOnSet(f, s) = f[x] + SumFunctionOnSet(f, r)
        /\ SumFunctionOnSet(g, s) = g[x] + SumFunctionOnSet(g, r)
    BY <1>3, <1>4, SumPick
  <1> HIDE DEF x
  <1>7. r \notin Bad /\ r \in SUBSET S
    BY <1>2, <1>3, <1>5
  <1> HIDE DEF r
  <1>8. SumFunctionOnSet(f, r) = SumFunctionOnSet(g, r)
    BY <1>7 DEF Bad
  <1>9. f[x] = g[x]
    BY <1>3, <1>5
  <1> QED
    BY <1>3, <1>6, <1>8, <1>9

\* Of amounts that are not negative, a part sums up to no more than the whole.
LEMMA SumOfParts ==
  ASSUME NEW f, NEW S, IsFiniteSet(S), \A x \in S : f[x] \in Nat, NEW T, T \subseteq S
  PROVE  /\ SumFunctionOnSet(f, T) \in Nat
         /\ SumFunctionOnSet(f, T) <= SumFunctionOnSet(f, S)
  <1> DEFINE Bad == {s \in SUBSET S :
                       ~(/\ SumFunctionOnSet(f, s \cap T) \in Nat
                         /\ SumFunctionOnSet(f, s) \in Nat
                         /\ SumFunctionOnSet(f, s \cap T) <= SumFunctionOnSet(f, s))}
  <1> SUFFICES ASSUME Bad # {} PROVE FALSE
    <2>1. S \cap T = T
      OBVIOUS
    <2> QED
      BY <2>1
  <1>1. Bad \subseteq SUBSET S
    OBVIOUS
  <1> HIDE DEF Bad
  <1>2. PICK s \in Bad : \A t \in Bad : t \subseteq s => t = s
    BY <1>1, SmallestSubset
  <1>3. s \in SUBSET S /\ IsFiniteSet(s)
    BY <1>1, FS_Subset
  <1>4. s # {}
    <2> SUFFICES ASSUME s = {} PROVE FALSE
      OBVIOUS
    <2>1. s \cap T = {}
      OBVIOUS
    <2> QED
      BY <2>1, SumEmpty DEF Bad
  <1> DEFINE x == Pick(s)
             r == s \ {x}
  <1>5. x \in s
    BY <1>4, PickIn
  <1>6. SumFunctionOnSet(f, s) = f[x] + SumFunctionOnSet(f, r)
    BY <1>3, <1>4, SumPick
  <1> HIDE DEF x
  <1>7. r \notin Bad /\ r \in SUBSET S
    BY <1>2, <1>3, <1>5
  <1>8. x \in T => x \in s \cap T /\ (s \cap T) \ {x} = r \cap T
    BY <1>5
  <1>9. x \notin T => s \cap T = r \cap T
    OBVIOUS
  <1> HIDE DEF r
  <1>10. /\ SumFunctionOnSet(f, r \cap T) \in Nat /\ SumFunctionOnSet(f, r) \in Nat
         /\ SumFunctionOnSet(f, r \cap T) <= SumFunctionOnSet(f, r)
    BY <1>7 DEF Bad
  <1>11. f[x] \in Nat
    BY <1>3, <1>5
  <1>12. CASE x \in T
    <2>1. IsFiniteSet(s \cap T) /\ \A z \in s \cap T : f[z] \in Int
      BY <1>3, FS_Subset
    <2>2. SumFunctionOnSet(f, s \cap T) = f[x] + SumFunctionOnSet(f, r \cap T)
      BY <1>8, <1>12, <2>1, SumRemove
    <2>3. /\ SumFunctionOnSet(f, s \cap T) \in Nat /\ SumFunctionOnSet(f, s) \in Nat
          /\ SumFunctionOnSet(f, s \cap T) <= SumFunctionOnSet(f, s)
      BY <1>6, <1>10, <1>11, <2>2
    <2> QED
      BY <2>3 DEF Bad
  <1>13. CASE x \notin T
    <2>1. SumFunctionOnSet(f, s \cap T) = SumFunctionOnSet(f, r \cap T)
      BY <1>9, <1>13
    <2>2. /\ SumFunctionOnSet(f, s \cap T) \in Nat /\ SumFunctionOnSet(f, s) \in Nat
          /\ SumFunctionOnSet(f, s \cap T) <= SumFunctionOnSet(f, s)
      BY <1>6, <1>10, <1>11, <2>1
    <2> QED
      BY <2>2 DEF Bad
  <1> QED
    BY <1>12, <1>13

-------------------------------------------------------------------------------
(***************************************************************************)
(* Variances.                                                              *)
(***************************************************************************)
LEMMA SquareNat == \A a \in Int : a * a \in Nat
  <1> SUFFICES ASSUME NEW a \in Int PROVE a * a >= 0 /\ a * a \in Int
    OBVIOUS
  <1>1. CASE a >= 0
    BY <1>1
  <1>2. CASE a < 0
    BY <1>2
  <1> QED
    BY <1>1, <1>2

LEMMA SpreadAround ==
  \A a, n, t, q, x \in Int :
    (n + 1) * (a * a) - 2 * a * (x + t) + (x * x + q)
      = (n * (a * a) - 2 * a * t + q) + (a - x) * (a - x)
  OBVIOUS

LEMMA SpreadGrows ==
  \A n, t, q, x \in Int :
    (n + 1) * (x * x + q) - (x + t) * (x + t)
      = (n * q - t * t) + (n * (x * x) - 2 * x * t + q)
  OBVIOUS

\* The square of a sum is at most the number of its terms times the sum of their
\* squares: n(q + xx) - (t + x)^2 grows by what q - 2xt + nxx is, and that is a
\* sum of squares too.
LEMMA SquaresDominate ==
  ASSUME NEW u, NEW sq, NEW S, IsFiniteSet(S),
         \A x \in S : u[x] \in Int /\ sq[x] = u[x] * u[x]
  PROVE  Cardinality(S) * SumFunctionOnSet(sq, S) - SumFunctionOnSet(u, S) * SumFunctionOnSet(u, S) \in Nat
  <1> DEFINE N(s) == Cardinality(s)
             T(s) == SumFunctionOnSet(u, s)
             Q(s) == SumFunctionOnSet(sq, s)
             Around(a, s) == N(s) * (a * a) - 2 * a * T(s) + Q(s)
             Spread(s) == N(s) * Q(s) - T(s) * T(s)
             Bad == {s \in SUBSET S : Spread(s) \notin Nat \/ \E a \in Int : Around(a, s) \notin Nat}
  <1> SUFFICES ASSUME Bad # {} PROVE FALSE
    OBVIOUS
  <1>1. Bad \subseteq SUBSET S
    OBVIOUS
  <1> HIDE DEF Bad
  <1>2. PICK s \in Bad : \A t \in Bad : t \subseteq s => t = s
    BY <1>1, SmallestSubset
  <1>3. s \in SUBSET S /\ IsFiniteSet(s)
    BY <1>1, FS_Subset
  <1>4. s # {}
    <2> SUFFICES ASSUME s = {} PROVE FALSE
      OBVIOUS
    <2>1. N(s) = 0 /\ T(s) = 0 /\ Q(s) = 0
      BY SumEmpty, FS_EmptySet
    <2> HIDE DEF N, T, Q
    <2>2. Spread(s) = 0 /\ \A a \in Int : Around(a, s) = 0
      BY <2>1
    <2> HIDE DEF Spread, Around
    <2> QED
      BY <2>2 DEF Bad
  <1> DEFINE p == Pick(s)
             r == s \ {p}
             x == u[p]
  <1>5. p \in s
    BY <1>4, PickIn
  <1>6. x \in Int /\ sq[p] = x * x
    BY <1>3, <1>5
  <1>7. T(s) = x + T(r) /\ Q(s) = x * x + Q(r)
    BY <1>3, <1>4, <1>6, SumPick
  <1> HIDE DEF p
  <1>8. r \notin Bad /\ r \in SUBSET S /\ IsFiniteSet(r)
    BY <1>2, <1>3, <1>5, FS_Subset
  <1>9. N(r) \in Nat /\ N(s) = N(r) + 1
    <2>1. p \notin r /\ s = r \cup {p}
      BY <1>5
    <2> HIDE DEF r
    <2> QED
      BY <1>8, <2>1, FS_AddElement, FS_CardinalityType
  <1> HIDE DEF r
  <1>10. T(r) \in Int /\ Q(r) \in Int
    <2>1. \A y \in r : u[y] \in Int /\ sq[y] \in Int
      BY <1>8, SquareNat
    <2> QED
      BY <1>8, <2>1, SumInt
  <1> HIDE DEF N, T, Q, x
  <1>11. Spread(r) \in Nat /\ \A a \in Int : Around(a, r) \in Nat
    BY <1>8 DEF Bad
  <1>12. ASSUME NEW a \in Int PROVE Around(a, s) \in Nat
    <2>1. Around(a, s) = Around(a, r) + (a - x) * (a - x)
      BY <1>6, <1>7, <1>9, <1>10, SpreadAround
    <2>2. (a - x) * (a - x) \in Nat
      BY <1>6, SquareNat
    <2> HIDE DEF Around
    <2> QED
      BY <1>11, <2>1, <2>2
  <1>13. Spread(s) \in Nat
    <2>1. Spread(s) = Spread(r) + Around(x, r)
      BY <1>6, <1>7, <1>9, <1>10, SpreadGrows
    <2> HIDE DEF Around, Spread
    <2> QED
      BY <1>6, <1>11, <2>1
  <1> HIDE DEF Around, Spread
  <1> QED
    BY <1>12, <1>13 DEF Bad

\* What moving an amount d from a to b does to n * (sum of squares).
LEMMA MovedSquares ==
  \A n, q, a, b, d, t \in Int :
    (n * ((a - d) * (a - d) + ((b + d) * (b + d) + q)) - t * t)
      - (n * (a * a + (b * b + q)) - t * t) = 2 * n * (d * (d - (a - b)))
  OBVIOUS

-------------------------------------------------------------------------------
(***************************************************************************)
(* Facts about the operators of the model.                                 *)
(***************************************************************************)
\* A share of an allocatable amount is a number, of nothing too.
LEMMA ShareType ==
  ASSUME NEW used \in Nat, NEW allocatable \in Nat
  PROVE  Share(used, allocatable) \in Nat
  <1>1. used * Scale \in Nat
    BY ClusterAssumption
  <1>2. CASE allocatable > 0
    <2>1. ASSUME NEW x \in Nat PROVE x \div allocatable \in Nat
      BY <1>2
    <2> QED
      BY <1>1, <1>2, <2>1 DEF Share
  <1>3. CASE ~(allocatable > 0)
    BY <1>3 DEF Share
  <1> QED
    BY <1>2, <1>3

\* So is the weighted utilization that classifyNodes compares.
LEMMA WeightedType ==
  ASSUME setting \in Settings, NEW n \in Nodes, NEW u \in Resources, NEW w \in Resources
  PROVE  Weighted(u, n, w) \in Nat
  <1>1. Allocatable[n] \in Resources
    BY SettingsAssumption DEF Allocatable
  <1>2. /\ u.cpu \in Nat /\ u.mem \in Nat /\ w.cpu \in Nat /\ w.mem \in Nat
        /\ Allocatable[n].cpu \in Nat /\ Allocatable[n].mem \in Nat
    BY <1>1 DEF Resources
  <1>3. Share(u.cpu, Allocatable[n].cpu) \in Nat /\ Share(u.mem, Allocatable[n].mem) \in Nat
    BY <1>2, ShareType
  <1>4. \A a, b, c, d \in Nat : a * b + c * d \in Nat
    OBVIOUS
  <1> QED
    BY <1>2, <1>3, <1>4 DEF Weighted

LEMMA WeightsType == DefaultedWeights \in Resources /\ Weights \in Resources
  BY ClusterAssumption DEF DefaultedWeights, Resources

\* A move is simulated with requests that are not negative.
LEMMA DemandType ==
  ASSUME NEW p \in Pods
  PROVE  Demand(p).cpu \in Nat /\ Demand(p).mem \in Nat
  <1>1. Requests[p] \in Resources
    BY ClusterAssumption
  <1> QED
    BY <1>1, ClusterAssumption DEF Demand, Resources

\* A variance is not negative.
LEMMA VarianceType ==
  ASSUME NEW u, \A n \in Nodes : u[n] \in Int
  PROVE  Variance(u) \in Nat
  <1> DEFINE sq == [n \in Nodes |-> u[n] * u[n]]
  <1>1. \A n \in Nodes : u[n] \in Int /\ sq[n] = u[n] * u[n]
    OBVIOUS
  <1> HIDE DEF sq
  <1>2. Cardinality(Nodes) * SumFunctionOnSet(sq, Nodes)
          - SumFunctionOnSet(u, Nodes) * SumFunctionOnSet(u, Nodes) \in Nat
    BY <1>1, SquaresDominate, ClusterAssumption
  <1> QED
    BY <1>2 DEF Variance, sq

\* The node a move is kept for is cold and one the pod may be scheduled on
\* (evaluateCandidate).
LEMMA BestIsAdmitted ==
  ASSUME NEW p, NEW to \in Best(p)
  PROVE  to \in cold /\ to \in CanSchedule(p)
  BY DEF Best, Survivors

-------------------------------------------------------------------------------
(***************************************************************************)
(* The inductive invariant.  The bands of classifyNodes do not overlap,    *)
(* what is left to consider runs on hot nodes, and every entry took a pod  *)
(* that is not considered again from a hot node to a cold one it fits on.  *)
(***************************************************************************)
BandsOK ==
  /\ setting \in Settings
  /\ pc = "measured" => usage \in [Nodes -> Resources]
  /\ weighted \in [Nodes -> Int]
  /\ hot \subseteq Nodes /\ cold \subseteq Nodes
  /\ \A n \in hot : IsHot(weighted[n])
  /\ \A n \in cold : ~IsHot(weighted[n])

TodoOK == \A p \in todo : p \in Pods /\ NodeOf[p] \in hot

EntryOK(e) ==
  /\ e.pod \in Pods \ todo
  /\ NodeOf[e.pod] \in hot
  /\ e.to \in cold \cap CanSchedule(e.pod)

EntriesOK ==
  /\ pc = "measured" => plan = <<>>
  /\ \E S : plan \in Seq(S)
  /\ \A i \in 1..Len(plan) : EntryOK(plan[i])
  /\ \A i, j \in 1..Len(plan) : i # j => plan[i].pod # plan[j].pod

GreedyOK == BandsOK /\ TodoOK /\ EntriesOK

LEMMA NoEntries ==
  ASSUME plan = <<>>
  PROVE  EntriesOK
  <1>1. plan \in Seq({}) /\ Len(plan) = 0
    OBVIOUS
  <1> QED
    BY <1>1 DEF EntriesOK

LEMMA InitGreedyOK == Init => GreedyOK
  <1> SUFFICES ASSUME Init PROVE GreedyOK
    OBVIOUS
  <1>1. BandsOK
    BY SettingsAssumption DEF Init, BandsOK, Measurements
  <1>2. TodoOK /\ EntriesOK
    BY NoEntries DEF Init, TodoOK
  <1> QED
    BY <1>1, <1>2 DEF GreedyOK

LEMMA ClassifyGreedyOK ==
  ASSUME GreedyOK, Classify
  PROVE  GreedyOK'
  <1>1. /\ setting' = setting /\ setting \in Settings /\ pc' = "planning"
        /\ usage \in [Nodes -> Resources]
        /\ weighted' = [n \in Nodes |-> Weighted(usage[n], n, DefaultedWeights)]
        /\ hot' = {n \in Nodes : IsHot(weighted'[n])}
        /\ cold' = {n \in Nodes : IsCold(weighted'[n])}
        /\ plan' = plan /\ plan = <<>>
    BY DEF Classify, GreedyOK, BandsOK, EntriesOK
  <1>2. weighted' \in [Nodes -> Int]
    BY <1>1, WeightedType, WeightsType
  <1>3. BandsOK'
    BY <1>1, <1>2 DEF BandsOK, IsHot, IsCold, HotThreshold, Hysteresis
  <1>4. TodoOK'
    BY DEF Classify, TodoOK
  <1>5. EntriesOK'
    <2>1. plan' = <<>>
      BY <1>1
    <2>2. plan' \in Seq({}) /\ Len(plan') = 0
      BY <2>1
    <2> QED
      BY <2>1, <2>2 DEF EntriesOK
  <1> QED
    BY <1>3, <1>4, <1>5 DEF GreedyOK

\* While nothing is measured, planned entries stay in order when candidates
\* are dropped.
LEMMA EntriesStay ==
  ASSUME GreedyOK, UNCHANGED <<setting, pc, hot, cold, plan>>, todo' \subseteq todo
  PROVE  EntriesOK'
  <1>1. \A p : CanSchedule(p)' = CanSchedule(p)
    BY DEF CanSchedule, Affinity, AntiAffinity, Domain
  <1> QED
    BY <1>1 DEF GreedyOK, EntriesOK, EntryOK

LEMMA BandsStay ==
  ASSUME GreedyOK, UNCHANGED <<setting, weighted, hot, cold>>, pc' # "measured" \/ (pc' = pc /\ usage' = usage)
  PROVE  BandsOK'
  BY DEF GreedyOK, BandsOK, IsHot, HotThreshold, Hysteresis

LEMMA MoveGreedyOK ==
  ASSUME GreedyOK, NEW p \in Pods, NEW to \in Nodes, Move(p, to)
  PROVE  GreedyOK'
  <1> DEFINE e == [pod |-> p, to |-> to, score |-> Delta(p, to)]
  <1>1. /\ UNCHANGED <<setting, pc, weighted, hot, cold>> /\ pc = "planning"
        /\ p \in todo /\ to \in Best(p)
        /\ plan' = Append(plan, e)
        /\ todo' \subseteq todo /\ p \notin todo'
    BY DEF Move, IsNext
  <1>2. e.pod = p /\ e.to = to
    OBVIOUS
  <1> HIDE DEF e
  <1>3. BandsOK' /\ TodoOK'
    BY <1>1, BandsStay DEF GreedyOK, TodoOK
  <1>4. to \in cold /\ to \in CanSchedule(p)
    BY <1>1, BestIsAdmitted
  <1>5. \A q : CanSchedule(q)' = CanSchedule(q)
    BY <1>1 DEF CanSchedule, Affinity, AntiAffinity, Domain
  <1>6. PICK S : plan \in Seq(S)
    BY DEF GreedyOK, EntriesOK
  <1>7. plan \in Seq(S \cup {e})
    BY <1>6
  <1>8. /\ plan' \in Seq(S \cup {e})
        /\ Len(plan') = Len(plan) + 1 /\ Len(plan) \in Nat
        /\ plan'[Len(plan) + 1] = e
        /\ \A i \in 1..Len(plan) : plan'[i] = plan[i]
    BY <1>1, <1>7
  <1>9. \A i \in 1..Len(plan) : EntryOK(plan[i]) /\ plan[i].pod # p
    BY <1>1 DEF GreedyOK, EntriesOK, EntryOK
  <1>10. /\ e.pod \in Pods \ todo' /\ NodeOf[e.pod] \in hot'
         /\ e.to \in cold' /\ e.to \in CanSchedule(e.pod)
    BY <1>1, <1>2, <1>4 DEF GreedyOK, TodoOK
  <1>11. \A i \in 1..Len(plan) : EntryOK(plan[i])'
    BY <1>1, <1>5, <1>8, <1>9 DEF EntryOK
  <1>12. \A i \in 1..Len(plan') : i \in 1..Len(plan) \/ i = Len(plan) + 1
    BY <1>8
  <1>13. ASSUME NEW i \in 1..Len(plan') PROVE EntryOK(plan[i])'
    <2>1. CASE i \in 1..Len(plan)
      BY <1>11, <2>1
    <2>2. CASE i = Len(plan) + 1
      BY <1>5, <1>8, <1>10, <2>2 DEF EntryOK
    <2> QED
      BY <1>12, <2>1, <2>2
  <1>14. ASSUME NEW i \in 1..Len(plan'), NEW j \in 1..Len(plan'), i # j
         PROVE  plan'[i].pod # plan'[j].pod
    <2>1. CASE i \in 1..Len(plan) /\ j \in 1..Len(plan)
      BY <1>8, <1>14, <2>1 DEF GreedyOK, EntriesOK
    <2>2. CASE i = Len(plan) + 1 /\ j \in 1..Len(plan)
      BY <1>2, <1>8, <1>9, <2>2
    <2>3. CASE j = Len(plan) + 1 /\ i \in 1..Len(plan)
      BY <1>2, <1>8, <1>9, <2>3
    <2> QED
      BY <1>12, <1>14, <2>1, <2>2, <2>3
  <1>15. EntriesOK'
    BY <1>1, <1>8, <1>13, <1>14 DEF EntriesOK
  <1> QED
    BY <1>3, <1>15 DEF GreedyOK

\* Sorting the entries keeps them: it only changes their order.
LEMMA SortPlanGreedyOK ==
  ASSUME GreedyOK, SortPlan
  PROVE  GreedyOK'
  <1> DEFINE n == Cardinality(ToSet(plan))
  <1>1. /\ UNCHANGED <<setting, weighted, hot, cold, todo>> /\ pc' = "planned"
        /\ plan' \in SetToSeqs(ToSet(plan))
    BY DEF SortPlan
  <1>2. BandsOK' /\ TodoOK'
    BY <1>1, BandsStay DEF GreedyOK, TodoOK
  <1>3. PICK S : plan \in Seq(S)
    BY DEF GreedyOK, EntriesOK
  <1>4. DOMAIN plan = 1..Len(plan) /\ Len(plan) \in Nat
    BY <1>3
  <1>5. IsFiniteSet(ToSet(plan))
    <2>1. IsFiniteSet(1..Len(plan))
      BY <1>4, FS_Interval
    <2>2. plan \in Surjection(1..Len(plan), ToSet(plan))
      BY <1>3, <1>4 DEF Surjection, ToSet
    <2> QED
      BY <2>1, <2>2, FS_Surjection
  <1>6. n \in Nat
    BY <1>5, FS_CardinalityType
  <1>7. /\ plan' \in [1..n -> ToSet(plan)]
        /\ \A i, j \in 1..n : i # j => plan'[i] # plan'[j]
    BY <1>1 DEF SetToSeqs
  <1> HIDE DEF n
  <1>8. plan' \in Seq(ToSet(plan)) /\ Len(plan') = n
    BY <1>6, <1>7
  <1>9. \A x \in ToSet(plan) : \E i \in 1..Len(plan) : x = plan[i]
    BY <1>4 DEF ToSet
  <1>10. ASSUME NEW i \in 1..Len(plan') PROVE EntryOK(plan[i])'
    <2>1. PICK k \in 1..Len(plan) : plan'[i] = plan[k]
      BY <1>7, <1>8, <1>9
    <2>2. \A p : CanSchedule(p)' = CanSchedule(p)
      BY <1>1 DEF CanSchedule, Affinity, AntiAffinity, Domain
    <2> QED
      BY <1>1, <2>1, <2>2 DEF GreedyOK, EntriesOK, EntryOK
  <1>11. ASSUME NEW i \in 1..Len(plan'), NEW j \in 1..Len(plan'), i # j
         PROVE  plan'[i].pod # plan'[j].pod
    <2>1. PICK k \in 1..Len(plan) : plan'[i] = plan[k]
      BY <1>7, <1>8, <1>9
    <2>2. PICK l \in 1..Len(plan) : plan'[j] = plan[l]
      BY <1>7, <1>8, <1>9
    <2>3. k # l
      BY <1>7, <1>8, <1>11, <2>1, <2>2
    <2> QED
      BY <2>1, <2>2, <2>3 DEF GreedyOK, EntriesOK
  <1>12. EntriesOK'
    BY <1>1, <1>8, <1>10, <1>11 DEF EntriesOK
  <1> QED
    BY <1>2, <1>12 DEF GreedyOK

LEMMA ReplanGreedyOK ==
  ASSUME GreedyOK, Replan
  PROVE  GreedyOK'
  <1>1. /\ setting' = setting /\ setting \in Settings
        /\ usage' \in setting.Measurements /\ weighted' = [n \in Nodes |-> 0]
        /\ hot' = {} /\ cold' = {} /\ todo' = {} /\ plan' = <<>>
    BY DEF Replan, GreedyOK, BandsOK, Measurements
  <1>2. usage' \in [Nodes -> Resources]
    BY <1>1, SettingsAssumption
  <1>3. BandsOK'
    BY <1>1, <1>2 DEF BandsOK
  <1>4. plan' \in Seq({}) /\ Len(plan') = 0
    BY <1>1
  <1>5. TodoOK' /\ EntriesOK'
    BY <1>1, <1>4 DEF TodoOK, EntriesOK
  <1> QED
    BY <1>3, <1>5 DEF GreedyOK

LEMMA NextGreedyOK == GreedyOK /\ [Next]_vars => GreedyOK'
  <1> SUFFICES ASSUME GreedyOK, [Next]_vars PROVE GreedyOK'
    OBVIOUS
  <1>1. CASE Classify
    BY <1>1, ClassifyGreedyOK
  <1>2. ASSUME NEW p \in Pods, Skip(p) PROVE GreedyOK'
    BY <1>2, BandsStay, EntriesStay DEF Skip, GreedyOK, TodoOK
  <1>3. CASE \E p \in Pods, to \in Nodes : Move(p, to)
    BY <1>3, MoveGreedyOK
  <1>4. CASE SortPlan
    BY <1>4, SortPlanGreedyOK
  <1>5. CASE Replan
    BY <1>5, ReplanGreedyOK
  <1>6. CASE UNCHANGED vars
    BY <1>6, BandsStay, EntriesStay DEF vars, GreedyOK, TodoOK
  <1> QED
    BY <1>1, <1>2, <1>3, <1>4, <1>5, <1>6 DEF Next

LEMMA GreedyInvariant == Spec => []GreedyOK
  BY InitGreedyOK, NextGreedyOK, PTL DEF Spec

-------------------------------------------------------------------------------
(***************************************************************************)
(* Second layer: types.  The memory of a source may go below zero          *)
(* (applyMove does not clamp it), that of a node that is not hot may not:  *)
(* such a node only gains.  So utilizations are natural numbers.           *)
(***************************************************************************)
Usage == [cpu : Nat, mem : Int]

OnlyHotGoBelow == \A n \in Nodes \ hot : usage[n].mem >= 0

TypesOK == TypeOK /\ OnlyHotGoBelow

LEMMA NonNegativeType == \A x \in Int : NonNegative(x) \in Nat
  BY DEF NonNegative

\* simulateVariance and applyMove, node by node.
LEMMA MovedNodes ==
  ASSUME GreedyOK, TypesOK, NEW p \in Pods, NEW to \in Nodes, to # NodeOf[p]
  PROVE  LET from == NodeOf[p]
             without == [cpu |-> NonNegative(usage[from].cpu - Demand(p).cpu),
                         mem |-> NonNegative(usage[from].mem - Demand(p).mem)]
             with == [cpu |-> usage[to].cpu + Demand(p).cpu, mem |-> usage[to].mem + Demand(p).mem]
             Moved(n, u) == IF Allocatable[n].cpu > 0 THEN Weighted(u, n, Weights) ELSE util[n]
         IN /\ DOMAIN SimulatedUtil(p, to) = Nodes /\ DOMAIN UsageAfter(p, to) = Nodes
            /\ SimulatedUtil(p, to)[from] = Moved(from, without)
            /\ SimulatedUtil(p, to)[to] = Moved(to, with)
            /\ \A n \in Nodes \ {from, to} : SimulatedUtil(p, to)[n] = util[n]
            /\ UsageAfter(p, to)[from].cpu = without.cpu
            /\ UsageAfter(p, to)[from].mem = usage[from].mem - Demand(p).mem
            /\ UsageAfter(p, to)[to] = with
            /\ \A n \in Nodes \ {from, to} : UsageAfter(p, to)[n] = usage[n]
  <1> DEFINE from == NodeOf[p]
             without == [cpu |-> NonNegative(usage[from].cpu - Demand(p).cpu),
                         mem |-> NonNegative(usage[from].mem - Demand(p).mem)]
             with == [cpu |-> usage[to].cpu + Demand(p).cpu, mem |-> usage[to].mem + Demand(p).mem]
             Moved(n, u) == IF Allocatable[n].cpu > 0 THEN Weighted(u, n, Weights) ELSE util[n]
             left == [cpu |-> NonNegative(usage[from].cpu - Demand(p).cpu),
                      mem |-> usage[from].mem - Demand(p).mem]
  <1>1. from \in Nodes /\ DOMAIN util = Nodes /\ DOMAIN usage = Nodes
    BY ClusterAssumption DEF TypesOK, TypeOK
  <1>2. SimulatedUtil(p, to) = [util EXCEPT ![from] = Moved(from, without), ![to] = Moved(to, with)]
    BY DEF SimulatedUtil
  <1>3. UsageAfter(p, to) = [usage EXCEPT ![from] = left, ![to] = with]
    BY <1>1 DEF UsageAfter
  <1>4. left.cpu = without.cpu /\ left.mem = usage[from].mem - Demand(p).mem
    OBVIOUS
  <1> HIDE DEF without, with, left, Moved
  <1>5. /\ DOMAIN SimulatedUtil(p, to) = Nodes
        /\ SimulatedUtil(p, to)[from] = Moved(from, without)
        /\ SimulatedUtil(p, to)[to] = Moved(to, with)
        /\ \A n \in Nodes \ {from, to} : SimulatedUtil(p, to)[n] = util[n]
    BY <1>1, <1>2
  <1>6. /\ DOMAIN UsageAfter(p, to) = Nodes
        /\ UsageAfter(p, to)[from] = left /\ UsageAfter(p, to)[to] = with
        /\ \A n \in Nodes \ {from, to} : UsageAfter(p, to)[n] = usage[n]
    BY <1>1, <1>3
  <1> QED
    BY <1>4, <1>5, <1>6 DEF without, with, left, Moved

LEMMA SimulatedType ==
  ASSUME GreedyOK, TypesOK, NEW p \in Pods, NEW to \in Nodes \ hot, to # NodeOf[p]
  PROVE  /\ SimulatedUtil(p, to) \in [Nodes -> Nat]
         /\ UsageAfter(p, to) \in [Nodes -> Usage]
         /\ \A n \in Nodes \ hot : n # NodeOf[p] => UsageAfter(p, to)[n].mem >= 0
  <1> DEFINE from == NodeOf[p]
             without == [cpu |-> NonNegative(usage[from].cpu - Demand(p).cpu),
                         mem |-> NonNegative(usage[from].mem - Demand(p).mem)]
             left == UsageAfter(p, to)[from]
             with == [cpu |-> usage[to].cpu + Demand(p).cpu, mem |-> usage[to].mem + Demand(p).mem]
  <1>1. from \in Nodes /\ setting \in Settings /\ util \in [Nodes -> Nat] /\ usage \in [Nodes -> Usage]
    BY ClusterAssumption DEF TypesOK, TypeOK, Usage
  <1>2. Demand(p).cpu \in Nat /\ Demand(p).mem \in Nat
    BY DemandType
  <1>3. /\ usage[from].cpu \in Nat /\ usage[from].mem \in Int
        /\ usage[to].cpu \in Nat /\ usage[to].mem \in Nat
    BY <1>1 DEF Usage, TypesOK, OnlyHotGoBelow
  <1>4. without \in Resources
    BY <1>2, <1>3, NonNegativeType DEF Resources
  <1>5. with \in Resources
    BY <1>2, <1>3 DEF Resources
  <1>6. /\ DOMAIN SimulatedUtil(p, to) = Nodes /\ DOMAIN UsageAfter(p, to) = Nodes
        /\ SimulatedUtil(p, to)[from] = IF Allocatable[from].cpu > 0 THEN Weighted(without, from, Weights) ELSE util[from]
        /\ SimulatedUtil(p, to)[to] = IF Allocatable[to].cpu > 0 THEN Weighted(with, to, Weights) ELSE util[to]
        /\ \A n \in Nodes \ {from, to} : SimulatedUtil(p, to)[n] = util[n]
        /\ UsageAfter(p, to)[from].cpu = without.cpu
        /\ UsageAfter(p, to)[from].mem = usage[from].mem - Demand(p).mem
        /\ UsageAfter(p, to)[to] = with
        /\ \A n \in Nodes \ {from, to} : UsageAfter(p, to)[n] = usage[n]
    BY MovedNodes
  <1>7. left = [cpu |-> NonNegative(usage[from].cpu - Demand(p).cpu),
                mem |-> usage[from].mem - Demand(p).mem]
    BY <1>1 DEF UsageAfter
  <1>8. left \in Usage
    BY <1>2, <1>3, <1>7, NonNegativeType DEF Usage
  <1>9. with \in Usage /\ with.mem >= 0
    BY <1>2, <1>3 DEF Usage
  <1> HIDE DEF without, with
  <1>10. SimulatedUtil(p, to)[from] \in Nat /\ SimulatedUtil(p, to)[to] \in Nat
    BY <1>1, <1>4, <1>5, <1>6, WeightedType, WeightsType
  <1>11. \A n \in Nodes : SimulatedUtil(p, to)[n] \in Nat
    BY <1>1, <1>6, <1>10
  <1>12. \A n \in Nodes : UsageAfter(p, to)[n] \in Usage
    BY <1>1, <1>6, <1>8, <1>9
  <1>13. ASSUME NEW n \in Nodes \ hot, n # from PROVE UsageAfter(p, to)[n].mem >= 0
    BY <1>6, <1>9, <1>13 DEF TypesOK, OnlyHotGoBelow
  <1>14. SimulatedUtil(p, to) \in [Nodes -> Nat]
    <2>1. SimulatedUtil(p, to) = [n \in Nodes |-> SimulatedUtil(p, to)[n]]
      BY <1>6 DEF SimulatedUtil
    <2> QED
      BY <1>11, <2>1
  <1>15. UsageAfter(p, to) \in [Nodes -> Usage]
    <2>1. UsageAfter(p, to) = [n \in Nodes |-> UsageAfter(p, to)[n]]
      BY <1>6 DEF UsageAfter
    <2> QED
      BY <1>12, <2>1
  <1> QED
    BY <1>13, <1>14, <1>15

LEMMA DeltaType ==
  ASSUME GreedyOK, TypesOK, NEW p \in Pods, NEW to \in Nodes \ hot, to # NodeOf[p]
  PROVE  /\ Variance(SimulatedUtil(p, to)) \in Nat
         /\ Delta(p, to) \in Int
  <1>1. Variance(SimulatedUtil(p, to)) \in Nat
    BY SimulatedType, VarianceType
  <1> QED
    BY <1>1, ClusterAssumption DEF Delta, TypesOK, TypeOK

\* Hot nodes and cold ones are different, so a move has two ends.
LEMMA TwoEnds ==
  ASSUME GreedyOK, NEW p \in todo, NEW to \in cold
  PROVE  p \in Pods /\ NodeOf[p] \in hot /\ to \in Nodes \ hot /\ to # NodeOf[p]
  BY DEF GreedyOK, TodoOK, BandsOK

LEMMA InitTypesOK == Init => TypesOK
  <1> SUFFICES ASSUME Init PROVE TypesOK
    OBVIOUS
  <1>1. measured \in [Nodes -> Resources]
    BY SettingsAssumption DEF Init, Measurements
  <1>2. usage \in [Nodes -> [cpu : Nat, mem : Int]]
    BY <1>1 DEF Init, Resources
  <1>3. plan \in Seq(Entry)
    BY DEF Init
  <1>4. \A n \in Nodes : usage[n].mem >= 0
    BY <1>1 DEF Init, Resources
  <1>5. weighted \in [Nodes -> Nat] /\ util \in [Nodes -> Nat] /\ variance \in Nat
    BY DEF Init
  <1> QED
    BY <1>2, <1>3, <1>4, <1>5 DEF Init, TypesOK, TypeOK, OnlyHotGoBelow

LEMMA ClassifyTypesOK ==
  ASSUME GreedyOK, TypesOK, Classify
  PROVE  TypesOK'
  <1>1. /\ setting' = setting /\ setting \in Settings
        /\ usage' = usage /\ usage \in [Nodes -> Resources]
        /\ weighted' = [n \in Nodes |-> Weighted(usage[n], n, DefaultedWeights)]
        /\ util' = weighted' /\ variance' = Variance(util')
    BY DEF Classify, GreedyOK, BandsOK
  <1>2. weighted' \in [Nodes -> Nat]
    BY <1>1, WeightedType, WeightsType
  <1>3. variance' \in Nat
    BY <1>1, <1>2, VarianceType
  <1>4. todo' \subseteq Pods
    BY DEF Classify
  <1>5. hot' \subseteq Nodes /\ cold' \subseteq Nodes
    BY DEF Classify
  <1>6. \A n \in Nodes : usage[n].mem >= 0
    BY <1>1 DEF Resources
  <1> QED
    BY <1>1, <1>2, <1>3, <1>4, <1>5, <1>6
    DEF Classify, TypesOK, TypeOK, OnlyHotGoBelow, Measurements

LEMMA MoveTypesOK ==
  ASSUME GreedyOK, TypesOK, NEW p \in Pods, NEW to \in Nodes, Move(p, to)
  PROVE  TypesOK'
  <1>1. p \in todo /\ to \in Best(p)
    BY DEF Move, IsNext
  <1>2. to \in cold
    BY <1>1, BestIsAdmitted
  <1>3. NodeOf[p] \in hot /\ to \in Nodes \ hot /\ to # NodeOf[p]
    BY <1>1, <1>2, TwoEnds
  <1>4. util' \in [Nodes -> Nat] /\ usage' \in [Nodes -> Usage]
    BY <1>3, SimulatedType DEF Move
  <1>5. \A n \in Nodes \ hot : usage'[n].mem >= 0
    BY <1>3, SimulatedType DEF Move
  <1>6. variance' \in Nat
    BY <1>4, VarianceType DEF Move
  <1>7. [pod |-> p, to |-> to, score |-> Delta(p, to)] \in Entry
    BY <1>3, DeltaType DEF Entry
  <1>8. plan' \in Seq(Entry)
    BY <1>7 DEF Move, TypesOK, TypeOK
  <1>9. UNCHANGED <<setting, pc, measured, weighted, hot, cold>> /\ todo' \subseteq todo
    BY DEF Move
  <1> QED
    BY <1>4, <1>5, <1>6, <1>8, <1>9 DEF TypesOK, TypeOK, OnlyHotGoBelow, Usage, Measurements

LEMMA SortPlanTypesOK ==
  ASSUME GreedyOK, GreedyOK', TypesOK, SortPlan
  PROVE  TypesOK'
  <1>1. /\ UNCHANGED <<setting, measured, usage, weighted, hot, cold, util, variance, todo>>
        /\ pc' = "planned" /\ plan' \in SetToSeqs(ToSet(plan))
    BY DEF SortPlan
  <1>2. plan \in Seq(Entry)
    BY DEF TypesOK, TypeOK
  <1>3. ToSet(plan) \subseteq Entry
    BY <1>2 DEF ToSet
  <1>4. \A i \in DOMAIN plan' : plan'[i] \in Entry
    BY <1>1, <1>3 DEF SetToSeqs
  <1>5. PICK S : plan' \in Seq(S)
    BY DEF GreedyOK, EntriesOK
  <1>6. plan' \in Seq(Entry)
    BY <1>4, <1>5
  <1> QED
    BY <1>1, <1>6 DEF TypesOK, TypeOK, OnlyHotGoBelow, Measurements

LEMMA ReplanTypesOK ==
  ASSUME TypesOK, Replan
  PROVE  TypesOK'
  <1>1. /\ setting' = setting /\ setting \in Settings
        /\ measured' \in setting.Measurements /\ usage' = measured'
        /\ weighted' = [n \in Nodes |-> 0] /\ util' = weighted' /\ variance' = 0
        /\ hot' = {} /\ cold' = {} /\ todo' = {} /\ plan' = <<>> /\ pc' = "measured"
    BY DEF Replan, TypesOK, TypeOK, Measurements
  <1>2. measured' \in [Nodes -> Resources]
    BY <1>1, SettingsAssumption
  <1>3. usage' \in [Nodes -> [cpu : Nat, mem : Int]] /\ \A n \in Nodes : usage'[n].mem >= 0
    BY <1>1, <1>2 DEF Resources
  <1>4. weighted' \in [Nodes -> Nat] /\ plan' \in Seq(Entry)
    BY <1>1
  <1> QED
    BY <1>1, <1>3, <1>4 DEF TypesOK, TypeOK, OnlyHotGoBelow, Measurements

LEMMA NextTypesOK == GreedyOK /\ GreedyOK' /\ TypesOK /\ [Next]_vars => TypesOK'
  <1> SUFFICES ASSUME GreedyOK, GreedyOK', TypesOK, [Next]_vars PROVE TypesOK'
    OBVIOUS
  <1>1. CASE Classify
    BY <1>1, ClassifyTypesOK
  <1>2. ASSUME NEW p \in Pods, Skip(p) PROVE TypesOK'
    BY <1>2 DEF Skip, TypesOK, TypeOK, OnlyHotGoBelow, Measurements
  <1>3. CASE \E p \in Pods, to \in Nodes : Move(p, to)
    BY <1>3, MoveTypesOK
  <1>4. CASE SortPlan
    BY <1>4, SortPlanTypesOK
  <1>5. CASE Replan
    BY <1>5, ReplanTypesOK
  <1>6. CASE UNCHANGED vars
    BY <1>6 DEF vars, TypesOK, TypeOK, OnlyHotGoBelow, Measurements
  <1> QED
    BY <1>1, <1>2, <1>3, <1>4, <1>5, <1>6 DEF Next

(***************************************************************************)
(* Types; in particular no simulated move, however much a pod requests of  *)
(* a node that uses less, makes a utilization or a variance negative       *)
(* (simulateVariance, applyMove, computeVariance).                         *)
(***************************************************************************)
THEOREM PlanTypes == Spec => []TypeOK
  <1>1. Spec => [](GreedyOK /\ TypesOK)
    BY InitGreedyOK, NextGreedyOK, InitTypesOK, NextTypesOK, PTL DEF Spec
  <1>2. TypesOK => TypeOK
    BY DEF TypesOK
  <1> QED
    BY <1>1, <1>2, PTL

-------------------------------------------------------------------------------
(***************************************************************************)
(* What a set of moves does to the nodes.  Pods leave hot nodes and go to  *)
(* nodes that are not hot, so no node both loses and gains.                *)
(***************************************************************************)
IsMove(e) == e.pod \in Pods /\ NodeOf[e.pod] \in hot /\ e.to \in Nodes \ hot

Moves(E) == IsFiniteSet(E) /\ \A e \in E : IsMove(e)

NetCPU(E, n) == measured[n].cpu + DemandOf(Gained(E, n)).cpu - DemandOf(Lost(E, n)).cpu
NetMem(E, n) == measured[n].mem + DemandOf(Gained(E, n)).mem - DemandOf(Lost(E, n)).mem

LEMMA DemandOfNothing == DemandOf({}).cpu = 0 /\ DemandOf({}).mem = 0
  BY SumEmpty DEF DemandOf

\* A part of a set of entries requests no more than the whole.
LEMMA DemandOfPart ==
  ASSUME NEW E, IsFiniteSet(E), \A e \in E : e.pod \in Pods, NEW D, D \subseteq E
  PROVE  /\ DemandOf(D).cpu \in Nat /\ DemandOf(D).cpu <= DemandOf(E).cpu
         /\ DemandOf(D).mem \in Nat /\ DemandOf(D).mem <= DemandOf(E).mem
  <1> DEFINE c == [e \in E |-> Demand(e.pod).cpu]
             m == [e \in E |-> Demand(e.pod).mem]
             cD == [e \in D |-> Demand(e.pod).cpu]
             mD == [e \in D |-> Demand(e.pod).mem]
  <1>1. \A e \in E : c[e] \in Nat /\ m[e] \in Nat
    BY DemandType
  <1>2. IsFiniteSet(D)
    BY FS_Subset
  <1>3. \A e \in D : c[e] = cD[e] /\ m[e] = mD[e]
    OBVIOUS
  <1>4. /\ DemandOf(E).cpu = SumFunctionOnSet(c, E) /\ DemandOf(E).mem = SumFunctionOnSet(m, E)
        /\ DemandOf(D).cpu = SumFunctionOnSet(cD, D) /\ DemandOf(D).mem = SumFunctionOnSet(mD, D)
    BY DEF DemandOf
  <1> HIDE DEF c, m, cD, mD
  <1>5. SumFunctionOnSet(cD, D) = SumFunctionOnSet(c, D) /\ SumFunctionOnSet(mD, D) = SumFunctionOnSet(m, D)
    BY <1>2, <1>3, SumEqual
  <1>6. SumFunctionOnSet(c, D) \in Nat /\ SumFunctionOnSet(c, D) <= SumFunctionOnSet(c, E)
    BY <1>1, SumOfParts
  <1>7. SumFunctionOnSet(m, D) \in Nat /\ SumFunctionOnSet(m, D) <= SumFunctionOnSet(m, E)
    BY <1>1, SumOfParts
  <1> QED
    BY <1>4, <1>5, <1>6, <1>7

\* One entry more requests what its pod does.
LEMMA DemandOfOneMore ==
  ASSUME NEW E, IsFiniteSet(E), NEW x, x \notin E, \A e \in E \cup {x} : e.pod \in Pods
  PROVE  /\ DemandOf(E \cup {x}).cpu = DemandOf(E).cpu + Demand(x.pod).cpu
         /\ DemandOf(E \cup {x}).mem = DemandOf(E).mem + Demand(x.pod).mem
  <1> DEFINE F == E \cup {x}
             c == [e \in F |-> Demand(e.pod).cpu]
             m == [e \in F |-> Demand(e.pod).mem]
             cE == [e \in E |-> Demand(e.pod).cpu]
             mE == [e \in E |-> Demand(e.pod).mem]
  <1>1. \A e \in F : c[e] \in Int /\ m[e] \in Int
    BY DemandType
  <1>2. \A e \in E : c[e] = cE[e] /\ m[e] = mE[e]
    OBVIOUS
  <1>3. /\ DemandOf(F).cpu = SumFunctionOnSet(c, F) /\ DemandOf(F).mem = SumFunctionOnSet(m, F)
        /\ DemandOf(E).cpu = SumFunctionOnSet(cE, E) /\ DemandOf(E).mem = SumFunctionOnSet(mE, E)
    BY DEF DemandOf
  <1>4. c[x] = Demand(x.pod).cpu /\ m[x] = Demand(x.pod).mem
    OBVIOUS
  <1> HIDE DEF c, m, cE, mE
  <1>5. SumFunctionOnSet(cE, E) = SumFunctionOnSet(c, E) /\ SumFunctionOnSet(mE, E) = SumFunctionOnSet(m, E)
    BY <1>2, SumEqual
  <1>6. SumFunctionOnSet(c, F) = c[x] + SumFunctionOnSet(c, E)
    BY <1>1, SumAdd
  <1>7. SumFunctionOnSet(m, F) = m[x] + SumFunctionOnSet(m, E)
    BY <1>1, SumAdd
  <1>8. /\ SumFunctionOnSet(c, E) \in Int /\ SumFunctionOnSet(m, E) \in Int
        /\ c[x] \in Int /\ m[x] \in Int
    BY <1>1, SumInt
  <1> QED
    BY <1>3, <1>4, <1>5, <1>6, <1>7, <1>8

\* What a node loses and gains.
LEMMA LostAndGained ==
  ASSUME NEW E, Moves(E), NEW n
  PROVE  /\ Lost(E, n) \subseteq E /\ Gained(E, n) \subseteq E
         /\ IsFiniteSet(Lost(E, n)) /\ IsFiniteSet(Gained(E, n))
         /\ \A e \in E : e.pod \in Pods
         /\ n \in hot => Gained(E, n) = {}
         /\ n \notin hot => Lost(E, n) = {}
  <1>1. Lost(E, n) \subseteq E /\ Gained(E, n) \subseteq E
    BY DEF Lost, Gained
  <1>2. IsFiniteSet(Lost(E, n)) /\ IsFiniteSet(Gained(E, n))
    BY <1>1, FS_Subset DEF Moves
  <1> QED
    BY <1>1, <1>2 DEF Lost, Gained, Moves, IsMove

LEMMA MovesParts ==
  ASSUME NEW E, Moves(E), NEW D, D \subseteq E
  PROVE  Moves(D)
  BY FS_Subset DEF Moves

LEMMA MovesOneMore ==
  ASSUME NEW E, Moves(E), NEW x, IsMove(x)
  PROVE  Moves(E \cup {x})
  BY FS_AddElement DEF Moves

\* A hot node only loses, any other only gains.
LEMMA NetType ==
  ASSUME measured \in [Nodes -> Resources], NEW E, Moves(E), NEW n \in Nodes
  PROVE  /\ NetCPU(E, n) \in Int /\ NetMem(E, n) \in Int
         /\ n \in hot => /\ NetCPU(E, n) = measured[n].cpu - DemandOf(Lost(E, n)).cpu
                         /\ NetMem(E, n) = measured[n].mem - DemandOf(Lost(E, n)).mem
         /\ n \notin hot => /\ NetCPU(E, n) = measured[n].cpu + DemandOf(Gained(E, n)).cpu
                            /\ NetMem(E, n) = measured[n].mem + DemandOf(Gained(E, n)).mem
                            /\ NetCPU(E, n) \in Nat /\ NetMem(E, n) \in Nat
  <1>1. measured[n].cpu \in Nat /\ measured[n].mem \in Nat
    BY DEF Resources
  <1>2. /\ DemandOf(Lost(E, n)).cpu \in Nat /\ DemandOf(Lost(E, n)).mem \in Nat
        /\ DemandOf(Gained(E, n)).cpu \in Nat /\ DemandOf(Gained(E, n)).mem \in Nat
    BY LostAndGained, DemandOfPart DEF Moves
  <1>3. CASE n \in hot
    <2>1. DemandOf(Gained(E, n)).cpu = 0 /\ DemandOf(Gained(E, n)).mem = 0
      BY <1>3, LostAndGained, DemandOfNothing
    <2> QED
      BY <1>1, <1>2, <1>3, <2>1 DEF NetCPU, NetMem
  <1>4. CASE n \notin hot
    <2>1. DemandOf(Lost(E, n)).cpu = 0 /\ DemandOf(Lost(E, n)).mem = 0
      BY <1>4, LostAndGained, DemandOfNothing
    <2> QED
      BY <1>1, <1>2, <1>4, <2>1 DEF NetCPU, NetMem
  <1> QED
    BY <1>3, <1>4

\* One move more.
LEMMA NetOneMore ==
  ASSUME measured \in [Nodes -> Resources], NEW E, Moves(E), NEW x, IsMove(x), x \notin E
  PROVE  /\ NetCPU(E \cup {x}, NodeOf[x.pod]) = NetCPU(E, NodeOf[x.pod]) - Demand(x.pod).cpu
         /\ NetMem(E \cup {x}, NodeOf[x.pod]) = NetMem(E, NodeOf[x.pod]) - Demand(x.pod).mem
         /\ NetCPU(E \cup {x}, x.to) = NetCPU(E, x.to) + Demand(x.pod).cpu
         /\ NetMem(E \cup {x}, x.to) = NetMem(E, x.to) + Demand(x.pod).mem
         /\ \A n \in Nodes \ {NodeOf[x.pod], x.to} :
              NetCPU(E \cup {x}, n) = NetCPU(E, n) /\ NetMem(E \cup {x}, n) = NetMem(E, n)
  <1> DEFINE from == NodeOf[x.pod]
             to == x.to
             F == E \cup {x}
  <1>1. from \in Nodes /\ from \in hot /\ to \in Nodes /\ to \notin hot /\ from # to
    BY ClusterAssumption DEF IsMove
  <1>2. Moves(F)
    BY MovesOneMore
  <1>3. /\ Lost(F, from) = Lost(E, from) \cup {x} /\ x \notin Lost(E, from)
        /\ Gained(F, to) = Gained(E, to) \cup {x} /\ x \notin Gained(E, to)
    BY DEF Lost, Gained
  <1>4. \A n \in Nodes \ {from, to} : Lost(F, n) = Lost(E, n) /\ Gained(F, n) = Gained(E, n)
    BY DEF Lost, Gained
  <1>5. /\ IsFiniteSet(Lost(E, from)) /\ \A e \in Lost(E, from) \cup {x} : e.pod \in Pods
        /\ IsFiniteSet(Gained(E, to)) /\ \A e \in Gained(E, to) \cup {x} : e.pod \in Pods
    BY LostAndGained DEF IsMove
  <1>6. /\ DemandOf(Lost(F, from)).cpu = DemandOf(Lost(E, from)).cpu + Demand(x.pod).cpu
        /\ DemandOf(Lost(F, from)).mem = DemandOf(Lost(E, from)).mem + Demand(x.pod).mem
    BY <1>3, <1>5, DemandOfOneMore
  <1>7. /\ DemandOf(Gained(F, to)).cpu = DemandOf(Gained(E, to)).cpu + Demand(x.pod).cpu
        /\ DemandOf(Gained(F, to)).mem = DemandOf(Gained(E, to)).mem + Demand(x.pod).mem
    BY <1>3, <1>5, DemandOfOneMore
  <1>8. /\ DemandOf(Lost(E, from)).cpu \in Nat /\ DemandOf(Lost(E, from)).mem \in Nat
        /\ DemandOf(Gained(E, to)).cpu \in Nat /\ DemandOf(Gained(E, to)).mem \in Nat
        /\ Demand(x.pod).cpu \in Nat /\ Demand(x.pod).mem \in Nat
    BY LostAndGained, DemandOfPart, DemandType DEF Moves, IsMove
  <1>9. /\ measured[from].cpu \in Nat /\ measured[from].mem \in Nat
        /\ measured[to].cpu \in Nat /\ measured[to].mem \in Nat
    BY <1>1 DEF Resources
  <1>10. /\ NetCPU(E, from) = measured[from].cpu - DemandOf(Lost(E, from)).cpu
         /\ NetMem(E, from) = measured[from].mem - DemandOf(Lost(E, from)).mem
         /\ NetCPU(E, to) = measured[to].cpu + DemandOf(Gained(E, to)).cpu
         /\ NetMem(E, to) = measured[to].mem + DemandOf(Gained(E, to)).mem
    BY <1>1, NetType
  <1>11. /\ NetCPU(F, from) = measured[from].cpu - DemandOf(Lost(F, from)).cpu
         /\ NetMem(F, from) = measured[from].mem - DemandOf(Lost(F, from)).mem
         /\ NetCPU(F, to) = measured[to].cpu + DemandOf(Gained(F, to)).cpu
         /\ NetMem(F, to) = measured[to].mem + DemandOf(Gained(F, to)).mem
    BY <1>1, <1>2, NetType
  <1>12. \A n \in Nodes \ {from, to} : NetCPU(F, n) = NetCPU(E, n) /\ NetMem(F, n) = NetMem(E, n)
    BY <1>4 DEF NetCPU, NetMem
  <1> HIDE DEF F
  <1>13. /\ NetCPU(F, from) = NetCPU(E, from) - Demand(x.pod).cpu
         /\ NetMem(F, from) = NetMem(E, from) - Demand(x.pod).mem
         /\ NetCPU(F, to) = NetCPU(E, to) + Demand(x.pod).cpu
         /\ NetMem(F, to) = NetMem(E, to) + Demand(x.pod).mem
    BY <1>6, <1>7, <1>8, <1>9, <1>10, <1>11
  <1> QED
    BY <1>12, <1>13 DEF F

LEMMA OutcomeIsNet ==
  ASSUME NEW E, NEW n \in Nodes
  PROVE  Outcome(E)[n] = [cpu |-> NonNegative(NetCPU(E, n)), mem |-> NonNegative(NetMem(E, n))]
  BY DEF Outcome, NetCPU, NetMem

-------------------------------------------------------------------------------
(***************************************************************************)
(* Third layer: the usage that applyMove keeps and the utilizations that   *)
(* simulateVariance keeps are both those of the measured usage with all    *)
(* the moves of the plan.  Usage is stated with the memory of a source     *)
(* below zero, where applyMove leaves it.                                  *)
(***************************************************************************)
UsageMatches ==
  \A n \in Nodes :
    usage[n].cpu = NonNegative(NetCPU(Entries, n)) /\ usage[n].mem = NetMem(Entries, n)

MovesMatch ==
  /\ pc = "measured" => usage = measured
  /\ pc # "measured" =>
       /\ UsageMatches
       /\ weighted = OutcomeUtil({})
       /\ util = OutcomeUtil(Entries)
       /\ variance = Variance(util)

LEMMA MeasuredType ==
  ASSUME TypesOK
  PROVE  measured \in [Nodes -> Resources]
  BY SettingsAssumption DEF TypesOK, TypeOK, Measurements

LEMMA EntriesMoves ==
  ASSUME GreedyOK
  PROVE  /\ Moves(Entries)
         /\ \A e \in Entries : e.pod \notin todo
  <1>1. PICK S : plan \in Seq(S)
    BY DEF GreedyOK, EntriesOK
  <1>2. DOMAIN plan = 1..Len(plan) /\ Len(plan) \in Nat
    BY <1>1
  <1>3. IsFiniteSet(Entries)
    <2>1. IsFiniteSet(1..Len(plan))
      BY <1>2, FS_Interval
    <2>2. plan \in Surjection(1..Len(plan), Entries)
      BY <1>1, <1>2 DEF Surjection, Entries, ToSet
    <2> QED
      BY <2>1, <2>2, FS_Surjection
  <1>4. ASSUME NEW e \in Entries PROVE IsMove(e) /\ e.pod \notin todo
    <2>1. PICK i \in 1..Len(plan) : e = plan[i]
      BY <1>2 DEF Entries, ToSet
    <2>2. EntryOK(e)
      BY <2>1 DEF GreedyOK, EntriesOK
    <2> QED
      BY <2>2 DEF EntryOK, IsMove, GreedyOK, BandsOK
  <1> QED
    BY <1>3, <1>4 DEF Moves

LEMMA OutcomeUtilIs ==
  ASSUME NEW E
  PROVE  /\ OutcomeUtil(E) = [n \in Nodes |-> OutcomeUtil(E)[n]]
         /\ \A n \in Nodes : OutcomeUtil(E)[n] = Weighted(Outcome(E)[n], n, DefaultedWeights)
  BY DEF OutcomeUtil

\* A pod that is still to consider is not in the plan, so its move is one more.
LEMMA AnotherMove ==
  ASSUME GreedyOK, NEW p \in todo, NEW to \in cold, NEW e, e.pod = p, e.to = to
  PROVE  IsMove(e) /\ e \notin Entries
  BY TwoEnds, EntriesMoves DEF IsMove

LEMMA ClampTwice ==
  \A x \in Int : \A d \in Nat : NonNegative(NonNegative(x) - d) = NonNegative(x - d)
  BY DEF NonNegative

LEMMA ClampNothing ==
  \A x \in Nat : NonNegative(x) = x
  BY DEF NonNegative

(***************************************************************************)
(* A simulated move is what the plan with that move does to the measured   *)
(* usage, and what applyMove then keeps is the usage of that.              *)
(***************************************************************************)
LEMMA SimulationIsOutcome ==
  ASSUME WeightsGiven, CPUReported, GreedyOK, TypesOK, MovesMatch, pc # "measured",
         NEW p \in todo, NEW to \in cold, NEW e, e.pod = p, e.to = to
  PROVE  /\ SimulatedUtil(p, to) = OutcomeUtil(Entries \cup {e})
         /\ \A n \in Nodes :
              /\ UsageAfter(p, to)[n].cpu = NonNegative(NetCPU(Entries \cup {e}, n))
              /\ UsageAfter(p, to)[n].mem = NetMem(Entries \cup {e}, n)
  <1> DEFINE from == NodeOf[p]
             F == Entries \cup {e}
             without == [cpu |-> NonNegative(usage[from].cpu - Demand(p).cpu),
                         mem |-> NonNegative(usage[from].mem - Demand(p).mem)]
             with == [cpu |-> usage[to].cpu + Demand(p).cpu, mem |-> usage[to].mem + Demand(p).mem]
  <1>1. /\ p \in Pods /\ from \in hot /\ from \in Nodes /\ to \in Nodes \ hot /\ to # from
        /\ Moves(Entries) /\ IsMove(e) /\ e \notin Entries
        /\ measured \in [Nodes -> Resources]
    BY TwoEnds, EntriesMoves, AnotherMove, MeasuredType, ClusterAssumption
  <1>2. Moves(F)
    BY <1>1, MovesOneMore
  <1>3. /\ DOMAIN SimulatedUtil(p, to) = Nodes
        /\ SimulatedUtil(p, to)[from] = IF Allocatable[from].cpu > 0 THEN Weighted(without, from, Weights) ELSE util[from]
        /\ SimulatedUtil(p, to)[to] = IF Allocatable[to].cpu > 0 THEN Weighted(with, to, Weights) ELSE util[to]
        /\ \A n \in Nodes \ {from, to} : SimulatedUtil(p, to)[n] = util[n]
        /\ UsageAfter(p, to)[from].cpu = without.cpu
        /\ UsageAfter(p, to)[from].mem = usage[from].mem - Demand(p).mem
        /\ UsageAfter(p, to)[to] = with
        /\ \A n \in Nodes \ {from, to} : UsageAfter(p, to)[n] = usage[n]
    BY <1>1, MovedNodes
  <1>4. Weights = DefaultedWeights
    BY DEF WeightsGiven, DefaultedWeights
  <1>5. \A n \in Nodes : Allocatable[n].cpu > 0
    BY DEF CPUReported, Allocatable, TypesOK, TypeOK
  <1>6. /\ NetCPU(F, from) = NetCPU(Entries, from) - Demand(p).cpu
        /\ NetMem(F, from) = NetMem(Entries, from) - Demand(p).mem
        /\ NetCPU(F, to) = NetCPU(Entries, to) + Demand(p).cpu
        /\ NetMem(F, to) = NetMem(Entries, to) + Demand(p).mem
        /\ \A n \in Nodes \ {from, to} :
              NetCPU(F, n) = NetCPU(Entries, n) /\ NetMem(F, n) = NetMem(Entries, n)
    BY <1>1, NetOneMore
  <1>7. /\ NetCPU(Entries, from) \in Int /\ NetMem(Entries, from) \in Int
        /\ NetCPU(Entries, to) \in Nat /\ NetMem(Entries, to) \in Nat
        /\ NetCPU(F, to) \in Nat /\ NetMem(F, to) \in Nat
        /\ Demand(p).cpu \in Nat /\ Demand(p).mem \in Nat
    BY <1>1, <1>2, NetType, DemandType
  <1>8. /\ \A n \in Nodes : usage[n].cpu = NonNegative(NetCPU(Entries, n)) /\ usage[n].mem = NetMem(Entries, n)
        /\ util = OutcomeUtil(Entries)
    BY DEF MovesMatch, UsageMatches
  <1> HIDE DEF F
  <1>9. /\ without.cpu = NonNegative(NetCPU(F, from))
        /\ without.mem = NonNegative(NetMem(F, from))
    <2> DEFINE x == NetCPU(Entries, from)
               y == NetMem(Entries, from)
               d == Demand(p)
    <2>1. without.cpu = NonNegative(NonNegative(x) - d.cpu) /\ without.mem = NonNegative(y - d.mem)
      BY <1>1, <1>8
    <2>2. NetCPU(F, from) = x - d.cpu /\ NetMem(F, from) = y - d.mem
      BY <1>6
    <2>3. x \in Int /\ d.cpu \in Nat
      BY <1>7
    <2> HIDE DEF x, y, d
    <2>4. NonNegative(NonNegative(x) - d.cpu) = NonNegative(x - d.cpu)
      BY <2>3, ClampTwice
    <2> QED
      BY <2>1, <2>2, <2>4
  <1>10. /\ with.cpu = NetCPU(F, to) /\ with.mem = NetMem(F, to)
         /\ NonNegative(NetCPU(F, to)) = NetCPU(F, to) /\ NonNegative(NetMem(F, to)) = NetMem(F, to)
    BY <1>1, <1>6, <1>7, <1>8, ClampNothing
  <1>11. without = Outcome(F)[from]
    <2>1. Outcome(F)[from] = [cpu |-> NonNegative(NetCPU(F, from)), mem |-> NonNegative(NetMem(F, from))]
      BY <1>1, OutcomeIsNet
    <2> QED
      BY <1>9, <2>1
  <1>12. with = Outcome(F)[to]
    <2>1. Outcome(F)[to] = [cpu |-> NonNegative(NetCPU(F, to)), mem |-> NonNegative(NetMem(F, to))]
      BY <1>1, OutcomeIsNet
    <2> QED
      BY <1>10, <2>1
  <1>13. \A n \in Nodes \ {from, to} : Outcome(F)[n] = Outcome(Entries)[n]
    <2> TAKE n \in Nodes \ {from, to}
    <2>1. NetCPU(F, n) = NetCPU(Entries, n) /\ NetMem(F, n) = NetMem(Entries, n)
      BY <1>6
    <2>2. /\ Outcome(F)[n] = [cpu |-> NonNegative(NetCPU(F, n)), mem |-> NonNegative(NetMem(F, n))]
          /\ Outcome(Entries)[n]
               = [cpu |-> NonNegative(NetCPU(Entries, n)), mem |-> NonNegative(NetMem(Entries, n))]
      BY OutcomeIsNet
    <2> QED
      BY <2>1, <2>2
  <1> HIDE DEF without, with
  <1>14. \A n \in Nodes : SimulatedUtil(p, to)[n] = OutcomeUtil(F)[n]
    <2>1. SimulatedUtil(p, to)[from] = OutcomeUtil(F)[from]
      BY <1>1, <1>3, <1>4, <1>5, <1>11, OutcomeUtilIs
    <2>2. SimulatedUtil(p, to)[to] = OutcomeUtil(F)[to]
      BY <1>1, <1>3, <1>4, <1>5, <1>12, OutcomeUtilIs
    <2>3. \A n \in Nodes \ {from, to} : SimulatedUtil(p, to)[n] = OutcomeUtil(F)[n]
      BY <1>3, <1>8, <1>13, OutcomeUtilIs
    <2> QED
      BY <2>1, <2>2, <2>3
  <1>15. SimulatedUtil(p, to) = OutcomeUtil(F)
    <2>1. SimulatedUtil(p, to) = [n \in Nodes |-> SimulatedUtil(p, to)[n]]
      BY <1>3 DEF SimulatedUtil
    <2> QED
      BY <1>14, <2>1, OutcomeUtilIs
  <1>16. ASSUME NEW n \in Nodes
         PROVE  /\ UsageAfter(p, to)[n].cpu = NonNegative(NetCPU(F, n))
                /\ UsageAfter(p, to)[n].mem = NetMem(F, n)
    <2>1. CASE n = from
      BY <1>1, <1>3, <1>6, <1>8, <1>9, <2>1
    <2>2. CASE n = to
      BY <1>3, <1>10, <2>2
    <2>3. CASE n \in Nodes \ {from, to}
      BY <1>3, <1>6, <1>8, <2>3
    <2> QED
      BY <2>1, <2>2, <2>3
  <1> QED
    BY <1>15, <1>16 DEF F

\* Neither a move nor the sort changes what a set of entries does.
LEMMA OutcomeStays ==
  ASSUME UNCHANGED <<setting, measured>>
  PROVE  /\ \A E : OutcomeUtil(E)' = OutcomeUtil(E)
         /\ \A E : \A n \in Nodes : NetCPU(E, n)' = NetCPU(E, n) /\ NetMem(E, n)' = NetMem(E, n)
  BY DEF OutcomeUtil, Outcome, Weighted, Allocatable, NetCPU, NetMem

\* Without moves the nodes use what was measured.
LEMMA NoMoves ==
  ASSUME measured \in [Nodes -> Resources], NEW n \in Nodes
  PROVE  /\ NetCPU({}, n) = measured[n].cpu /\ NetMem({}, n) = measured[n].mem
         /\ Outcome({})[n] = measured[n]
  <1>1. measured[n].cpu \in Nat /\ measured[n].mem \in Nat
        /\ measured[n] = [cpu |-> measured[n].cpu, mem |-> measured[n].mem]
    BY DEF Resources
  <1>2. Lost({}, n) = {} /\ Gained({}, n) = {}
    BY DEF Lost, Gained
  <1> DEFINE lost == DemandOf(Lost({}, n))
             gained == DemandOf(Gained({}, n))
  <1>3. NetCPU({}, n) = measured[n].cpu /\ NetMem({}, n) = measured[n].mem
    <2>1. lost.cpu = 0 /\ lost.mem = 0 /\ gained.cpu = 0 /\ gained.mem = 0
      BY <1>2, DemandOfNothing
    <2>2. /\ NetCPU({}, n) = measured[n].cpu + gained.cpu - lost.cpu
          /\ NetMem({}, n) = measured[n].mem + gained.mem - lost.mem
      BY DEF NetCPU, NetMem
    <2> HIDE DEF lost, gained
    <2> QED
      BY <1>1, <2>1, <2>2
  <1>4. Outcome({})[n] = [cpu |-> NonNegative(NetCPU({}, n)), mem |-> NonNegative(NetMem({}, n))]
    BY OutcomeIsNet
  <1>5. NonNegative(measured[n].cpu) = measured[n].cpu /\ NonNegative(measured[n].mem) = measured[n].mem
    BY <1>1, ClampNothing
  <1> QED
    BY <1>1, <1>3, <1>4, <1>5

LEMMA NoEntriesYet ==
  ASSUME plan = <<>>
  PROVE  Entries = {}
  BY DEF Entries, ToSet

\* Appending an entry adds it.
LEMMA OneMoreEntry ==
  ASSUME GreedyOK, NEW e, plan' = Append(plan, e)
  PROVE  Entries' = Entries \cup {e}
  <1>1. PICK S : plan \in Seq(S)
    BY DEF GreedyOK, EntriesOK
  <1>2. plan \in Seq(S \cup {e})
    BY <1>1
  <1>3. /\ DOMAIN plan = 1..Len(plan) /\ Len(plan) \in Nat
        /\ DOMAIN plan' = 1..(Len(plan) + 1)
        /\ plan'[Len(plan) + 1] = e
        /\ \A i \in 1..Len(plan) : plan'[i] = plan[i]
    BY <1>2
  <1>4. ASSUME NEW x \in Entries' PROVE x \in Entries \cup {e}
    <2>1. PICK i \in DOMAIN plan' : x = plan'[i]
      BY DEF Entries, ToSet
    <2>2. i \in 1..Len(plan) \/ i = Len(plan) + 1
      BY <1>3, <2>1
    <2> QED
      BY <1>3, <2>1, <2>2 DEF Entries, ToSet
  <1>5. ASSUME NEW x \in Entries \cup {e} PROVE x \in Entries'
    <2>1. CASE x = e
      <3>1. Len(plan) + 1 \in DOMAIN plan'
        BY <1>3
      <3> QED
        BY <1>3, <2>1, <3>1 DEF Entries, ToSet
    <2>2. CASE x \in Entries
      <3>1. PICK i \in 1..Len(plan) : x = plan[i]
        BY <1>3, <2>2 DEF Entries, ToSet
      <3>2. i \in DOMAIN plan' /\ x = plan'[i]
        BY <1>3, <3>1
      <3> QED
        BY <3>2 DEF Entries, ToSet
    <2> QED
      BY <2>1, <2>2
  <1> QED
    BY <1>4, <1>5

\* Sorting loses no entry: as many, all different, out of the same finite set.
LEMMA SameEntries ==
  ASSUME GreedyOK, SortPlan
  PROVE  Entries' = Entries
  <1> DEFINE n == Cardinality(Entries)
  <1>1. IsFiniteSet(Entries) /\ n \in Nat
    BY EntriesMoves, FS_CardinalityType DEF Moves
  <1>2. plan' \in SetToSeqs(Entries)
    BY DEF SortPlan, Entries
  <1>3. plan' \in [1..n -> Entries] /\ \A i, j \in 1..n : i # j => plan'[i] # plan'[j]
    BY <1>2 DEF SetToSeqs
  <1>4. plan' \in Injection(1..n, Entries)
    BY <1>3 DEF Injection, IsInjective
  <1>5. IsFiniteSet(1..n) /\ Cardinality(1..n) = n
    BY <1>1, FS_Interval
  <1>6. plan' \in Surjection(1..n, Entries)
    BY <1>1, <1>4, <1>5, FS_Injection
  <1>7. \A x \in Entries : \E i \in 1..n : plan'[i] = x
    BY <1>6 DEF Surjection
  <1>8. DOMAIN plan' = 1..n
    BY <1>3
  <1> HIDE DEF n
  <1>9. Entries' = {plan'[i] : i \in 1..n}
    BY <1>8 DEF Entries, ToSet
  <1> QED
    BY <1>3, <1>7, <1>9

LEMMA ClassifyMovesMatch ==
  ASSUME GreedyOK, TypesOK, MovesMatch, Classify
  PROVE  MovesMatch'
  <1>1. /\ pc = "measured" /\ pc' = "planning" /\ UNCHANGED <<setting, measured, usage, plan>>
        /\ weighted' = [n \in Nodes |-> Weighted(usage[n], n, DefaultedWeights)]
        /\ util' = weighted' /\ variance' = Variance(util')
        /\ plan = <<>> /\ usage = measured
    BY DEF Classify, GreedyOK, EntriesOK, MovesMatch
  <1>2. measured \in [Nodes -> Resources]
    BY MeasuredType
  <1>3. Entries = {} /\ Entries' = {}
    BY <1>1, NoEntriesYet DEF Entries, ToSet
  <1>4. \A n \in Nodes : /\ NetCPU({}, n) = measured[n].cpu /\ NetMem({}, n) = measured[n].mem
                         /\ Outcome({})[n] = measured[n]
                         /\ NonNegative(measured[n].cpu) = measured[n].cpu
    BY <1>2, NoMoves, ClampNothing DEF Resources
  <1>5. \A n \in Nodes : OutcomeUtil({})[n] = weighted'[n]
    BY <1>1, <1>4, OutcomeUtilIs
  <1>6. OutcomeUtil({}) = weighted'
    BY <1>1, <1>5, OutcomeUtilIs
  <1>7. UsageMatches'
    BY <1>1, <1>3, <1>4, OutcomeStays DEF UsageMatches
  <1>8. OutcomeUtil({})' = weighted' /\ OutcomeUtil(Entries)' = weighted'
    BY <1>1, <1>3, <1>6, OutcomeStays
  <1> QED
    BY <1>1, <1>7, <1>8 DEF MovesMatch

LEMMA MoveMovesMatch ==
  ASSUME WeightsGiven, CPUReported, GreedyOK, TypesOK, MovesMatch,
         NEW p \in Pods, NEW to \in Nodes, Move(p, to)
  PROVE  MovesMatch'
  <1> DEFINE e == [pod |-> p, to |-> to, score |-> Delta(p, to)]
  <1>1. /\ pc = "planning" /\ pc' = pc /\ UNCHANGED <<setting, measured, weighted>>
        /\ p \in todo /\ to \in Best(p)
        /\ util' = SimulatedUtil(p, to) /\ variance' = Variance(util')
        /\ usage' = UsageAfter(p, to)
        /\ plan' = Append(plan, e)
    BY DEF Move, IsNext
  <1>2. e.pod = p /\ e.to = to
    OBVIOUS
  <1> HIDE DEF e
  <1>3. to \in cold
    BY <1>1, BestIsAdmitted
  <1>4. Entries' = Entries \cup {e}
    BY <1>1, OneMoreEntry
  <1>5. /\ SimulatedUtil(p, to) = OutcomeUtil(Entries \cup {e})
        /\ \A n \in Nodes :
             /\ UsageAfter(p, to)[n].cpu = NonNegative(NetCPU(Entries \cup {e}, n))
             /\ UsageAfter(p, to)[n].mem = NetMem(Entries \cup {e}, n)
    <2>1. pc # "measured" /\ p \in todo
      BY <1>1
    <2> QED
      BY <1>2, <1>3, <2>1, SimulationIsOutcome
  <1>6. UsageMatches'
    BY <1>1, <1>4, <1>5, OutcomeStays DEF UsageMatches
  <1>7. util' = OutcomeUtil(Entries)' /\ weighted' = OutcomeUtil({})'
    BY <1>1, <1>4, <1>5, OutcomeStays DEF MovesMatch
  <1> QED
    BY <1>1, <1>6, <1>7 DEF MovesMatch

LEMMA SameMovesMatch ==
  ASSUME MovesMatch, UNCHANGED <<setting, measured, usage, weighted, util, variance>>,
         Entries' = Entries, pc' = pc \/ (pc # "measured" /\ pc' # "measured")
  PROVE  MovesMatch'
  <1>1. UsageMatches => UsageMatches'
    BY OutcomeStays DEF UsageMatches
  <1>2. OutcomeUtil(Entries)' = OutcomeUtil(Entries) /\ OutcomeUtil({})' = OutcomeUtil({})
    BY OutcomeStays
  <1> QED
    BY <1>1, <1>2 DEF MovesMatch

LEMMA NextMovesMatch ==
  ASSUME WeightsGiven, CPUReported
  PROVE  GreedyOK /\ TypesOK /\ MovesMatch /\ [Next]_vars => MovesMatch'
  <1> SUFFICES ASSUME GreedyOK, TypesOK, MovesMatch, [Next]_vars PROVE MovesMatch'
    OBVIOUS
  <1>1. CASE Classify
    BY <1>1, ClassifyMovesMatch
  <1>2. ASSUME NEW p \in Pods, Skip(p) PROVE MovesMatch'
    BY <1>2, SameMovesMatch DEF Skip, Entries
  <1>3. CASE \E p \in Pods, to \in Nodes : Move(p, to)
    BY <1>3, MoveMovesMatch
  <1>4. CASE SortPlan
    BY <1>4, SameMovesMatch, SameEntries DEF SortPlan
  <1>5. CASE Replan
    BY <1>5 DEF Replan, MovesMatch
  <1>6. CASE UNCHANGED vars
    BY <1>6, SameMovesMatch DEF vars, Entries
  <1> QED
    BY <1>1, <1>2, <1>3, <1>4, <1>5, <1>6 DEF Next

LEMMA MovesInvariant ==
  ASSUME WeightsGiven, CPUReported
  PROVE  Spec => [](GreedyOK /\ TypesOK /\ MovesMatch)
  <1>1. Init => MovesMatch
    BY DEF Init, MovesMatch
  <1> QED
    BY <1>1, InitGreedyOK, NextGreedyOK, InitTypesOK, NextTypesOK, NextMovesMatch, PTL DEF Spec

(***************************************************************************)
(* For any cluster that reports its CPU and any policy with weights, any   *)
(* moves in any order: the utilizations and the variance that greedyPlan   *)
(* threads through its simulations are those of the measured usage with    *)
(* all the moves of the plan, although simulateVariance stops a source's   *)
(* memory at zero and applyMove does not.                                  *)
(***************************************************************************)
THEOREM UtilizationsMatchPlan ==
  ASSUME WeightsGiven, CPUReported
  PROVE  Spec => []UtilMatchesMoves
  <1>1. MovesMatch => UtilMatchesMoves
    BY DEF MovesMatch, UtilMatchesMoves
  <1> QED
    BY <1>1, MovesInvariant, PTL

-------------------------------------------------------------------------------
\* The variance falls with every entry, from the one that was measured.
VarianceFell ==
  pc # "measured" =>
    /\ variance <= Variance(weighted)
    /\ Entries # {} => variance < Variance(weighted)

LEMMA NextVarianceFell ==
  GreedyOK /\ TypesOK /\ TypesOK' /\ VarianceFell /\ [Next]_vars => VarianceFell'
  <1> SUFFICES ASSUME GreedyOK, TypesOK, TypesOK', VarianceFell, [Next]_vars
               PROVE  VarianceFell'
    OBVIOUS
  <1>1. CASE Classify
    <2>1. pc = "measured" /\ plan = <<>> /\ plan' = plan
      BY <1>1 DEF Classify, GreedyOK, EntriesOK
    <2>2. Entries' = {}
      BY <2>1, NoEntriesYet DEF Entries, ToSet
    <2>3. variance' = Variance(weighted') /\ variance' \in Nat
      BY <1>1 DEF Classify, TypesOK, TypeOK
    <2>4. Variance(weighted)' = Variance(weighted')
      BY DEF Variance
    <2> QED
      BY <2>2, <2>3, <2>4 DEF VarianceFell
  <1>2. ASSUME NEW p \in Pods, NEW to \in Nodes, Move(p, to) PROVE VarianceFell'
    <2>1. pc # "measured" /\ variance' < variance /\ weighted' = weighted
      BY <1>2 DEF Move, IsNext
    <2>2. variance \in Nat /\ variance' \in Nat /\ Variance(weighted) \in Nat
      BY VarianceType DEF TypesOK, TypeOK
    <2>3. variance <= Variance(weighted)
      BY <2>1 DEF VarianceFell
    <2>4. variance' < Variance(weighted)
      BY <2>1, <2>2, <2>3
    <2>5. variance' <= Variance(weighted)
      BY <2>2, <2>4
    <2>6. Variance(weighted)' = Variance(weighted)
      BY <2>1 DEF Variance
    <2> QED
      BY <2>4, <2>5, <2>6 DEF VarianceFell
  <1>3. ASSUME UNCHANGED <<weighted, variance>>, Entries' = Entries, pc # "measured" \/ pc' = pc
        PROVE  VarianceFell'
    <2>1. Variance(weighted)' = Variance(weighted)
      BY <1>3 DEF Variance
    <2> QED
      BY <1>3, <2>1 DEF VarianceFell
  <1>4. ASSUME NEW p \in Pods, Skip(p) PROVE VarianceFell'
    BY <1>3, <1>4 DEF Skip, Entries
  <1>5. CASE SortPlan
    BY <1>3, <1>5, SameEntries DEF SortPlan
  <1>6. CASE Replan
    BY <1>6 DEF Replan, VarianceFell
  <1>7. CASE UNCHANGED vars
    BY <1>3, <1>7 DEF vars, Entries
  <1> QED
    BY <1>1, <1>2, <1>4, <1>5, <1>6, <1>7 DEF Next

(***************************************************************************)
(* For any nodes, classes, bias and candidates: a plan that is not empty,  *)
(* carried out as a whole, leaves less variance than was measured.  The    *)
(* bias that evaluateCandidate adds for a preferred class never lets       *)
(* greedyPlan take a move that makes the balance worse, and the variance   *)
(* meant is that of the usage measured and moved, not of the loop's map.   *)
(***************************************************************************)
THEOREM WholePlansHelp ==
  ASSUME WeightsGiven, CPUReported
  PROVE  Spec => []WholePlanHelps
  <1>1. Init => VarianceFell
    BY DEF Init, VarianceFell
  <1>2. Spec => []VarianceFell
    BY <1>1, MovesInvariant, NextVarianceFell, PTL DEF Spec
  <1>3. GreedyOK /\ TypesOK /\ MovesMatch /\ VarianceFell => WholePlanHelps
    <2> SUFFICES ASSUME GreedyOK, TypesOK, MovesMatch, VarianceFell, plan # <<>>
                 PROVE  Variance(OutcomeUtil(Entries)) < Variance(weighted)
      BY DEF WholePlanHelps
    <2>1. pc # "measured"
      BY DEF GreedyOK, EntriesOK
    <2>2. plan \in Seq(Entry) /\ 1 \in DOMAIN plan
      BY DEF TypesOK, TypeOK
    <2>3. plan[1] \in Entries
      BY <2>2 DEF Entries, ToSet
    <2>4. Variance(OutcomeUtil(Entries)) = variance
      BY <2>1 DEF MovesMatch
    <2> QED
      BY <2>1, <2>3, <2>4 DEF VarianceFell
  <1> QED
    BY <1>2, <1>3, MovesInvariant, PTL

-------------------------------------------------------------------------------
(***************************************************************************)
(* Fourth layer: the target.  As long as candidates are left, the          *)
(* variance of a plan that is not empty is above it.                       *)
(***************************************************************************)
AboveTarget ==
  pc = "planning" /\ todo # {} => plan = <<>> \/ variance > TargetVariance

StopsOK == StopsAtTarget /\ AboveTarget

\* The entries of the first steps.
LEMMA FirstEntries ==
  ASSUME NEW S, NEW s \in Seq(S), NEW i \in 1..Len(s)
  PROVE  ToSet(SubSeq(s, 1, i)) = {s[j] : j \in 1..i}
  <1>1. /\ SubSeq(s, 1, i) \in Seq(S) /\ Len(SubSeq(s, 1, i)) = i
        /\ \A j \in 1..i : SubSeq(s, 1, i)[j] = s[j]
    OBVIOUS
  <1>2. DOMAIN SubSeq(s, 1, i) = 1..i
    BY <1>1
  <1> QED
    BY <1>1, <1>2 DEF ToSet

LEMMA MoveStopsOK ==
  ASSUME GreedyOK, TypesOK, TypesOK', MovesMatch, StopsOK,
         NEW p \in Pods, NEW to \in Nodes, Move(p, to)
  PROVE  StopsOK'
  <1> DEFINE e == [pod |-> p, to |-> to, score |-> Delta(p, to)]
             First(s, i) == {s[j] : j \in 1..i}
  <1>1. /\ pc = "planning" /\ pc' = pc /\ UNCHANGED <<setting, measured>>
        /\ p \in todo /\ plan' = Append(plan, e)
        /\ todo' = IF variance' <= TargetVariance THEN {} ELSE todo \ {p}
    BY DEF Move, IsNext
  <1>2. TargetVariance' = TargetVariance /\ TargetVariance \in Nat /\ variance' \in Nat
    BY <1>1, SettingsAssumption DEF TargetVariance, TypesOK, TypeOK
  <1>3. AboveTarget'
    BY <1>1, <1>2 DEF AboveTarget
  <1>4. plan \in Seq(Entry) /\ plan' \in Seq(Entry)
    BY DEF TypesOK, TypeOK
  <1>5. /\ Len(plan) \in Nat /\ Len(plan') = Len(plan) + 1
        /\ \A j \in 1..Len(plan) : plan'[j] = plan[j]
        /\ DOMAIN plan = 1..Len(plan)
        /\ plan = <<>> => Len(plan) = 0
    BY <1>1, <1>4
  <1>6. ASSUME NEW i \in 1..(Len(plan') - 1)
        PROVE  Variance(OutcomeUtil(ToSet(SubSeq(plan', 1, i)))) > TargetVariance
    <2>1. i \in 1..Len(plan) /\ i \in 1..Len(plan')
      BY <1>5
    <2>2. \A j \in 1..i : plan'[j] = plan[j]
      BY <1>5, <2>1
    <2>3. First(plan', i) = First(plan, i)
      BY <2>2
    <2>4. /\ ToSet(SubSeq(plan', 1, i)) = First(plan', i)
          /\ ToSet(SubSeq(plan, 1, i)) = First(plan, i)
      BY <1>4, <2>1, FirstEntries
    <2> HIDE DEF First
    <2>5. CASE i \in 1..(Len(plan) - 1)
      BY <1>1, <2>3, <2>4, <2>5 DEF StopsOK, StopsAtTarget
    <2>6. CASE i = Len(plan)
      <3>1. First(plan, i) = Entries
        BY <1>5, <2>6 DEF First, Entries, ToSet
      <3>2. variance = Variance(OutcomeUtil(Entries))
        BY <1>1 DEF MovesMatch
      <3>3. variance > TargetVariance
        <4>1. plan # <<>> /\ todo # {}
          BY <1>1, <1>5, <2>1, <2>6
        <4> QED
          BY <1>1, <4>1 DEF StopsOK, AboveTarget
      <3> QED
        BY <2>3, <2>4, <3>1, <3>2, <3>3
    <2>7. i \in 1..(Len(plan) - 1) \/ i = Len(plan)
      <3>1. \A k \in Nat : \A j \in 1..k : j \in 1..(k - 1) \/ j = k
        OBVIOUS
      <3> QED
        BY <1>5, <2>1, <3>1
    <2> QED
      BY <2>5, <2>6, <2>7
  <1>7. StopsAtTarget'
    <2>1. \A E : OutcomeUtil(E)' = OutcomeUtil(E)
      BY <1>1, OutcomeStays
    <2> QED
      BY <1>2, <1>6, <2>1 DEF StopsAtTarget
  <1> QED
    BY <1>3, <1>7 DEF StopsOK

\* Where nothing is planned yet, or not any more.
LEMMA NotPlanning ==
  ASSUME pc' # "planning" \/ plan' = <<>>
  PROVE  StopsOK'
  <1>1. CASE pc' # "planning"
    BY <1>1 DEF StopsOK, StopsAtTarget, AboveTarget
  <1>2. CASE plan' = <<>>
    <2>1. 1..(Len(plan') - 1) = {}
      BY <1>2
    <2> QED
      BY <1>2, <2>1 DEF StopsOK, StopsAtTarget, AboveTarget
  <1> QED
    BY <1>1, <1>2

LEMMA SameStopsOK ==
  ASSUME StopsOK, UNCHANGED <<setting, pc, measured, variance, plan>>, todo' \subseteq todo
  PROVE  StopsOK'
  <1>1. \A E : OutcomeUtil(E)' = OutcomeUtil(E)
    BY OutcomeStays
  <1>2. TargetVariance' = TargetVariance
    BY DEF TargetVariance
  <1>3. StopsAtTarget'
    BY <1>1, <1>2 DEF StopsOK, StopsAtTarget
  <1>4. AboveTarget'
    BY <1>2 DEF StopsOK, AboveTarget
  <1> QED
    BY <1>3, <1>4 DEF StopsOK

LEMMA NextStopsOK ==
  GreedyOK /\ TypesOK /\ TypesOK' /\ MovesMatch /\ StopsOK /\ [Next]_vars => StopsOK'
  <1> SUFFICES ASSUME GreedyOK, TypesOK, TypesOK', MovesMatch, StopsOK, [Next]_vars PROVE StopsOK'
    OBVIOUS
  <1>1. CASE Classify
    BY <1>1, NotPlanning DEF Classify, GreedyOK, EntriesOK
  <1>2. ASSUME NEW p \in Pods, Skip(p) PROVE StopsOK'
    BY <1>2, SameStopsOK DEF Skip
  <1>3. CASE \E p \in Pods, to \in Nodes : Move(p, to)
    BY <1>3, MoveStopsOK
  <1>4. CASE SortPlan
    BY <1>4, NotPlanning DEF SortPlan
  <1>5. CASE Replan
    BY <1>5, NotPlanning DEF Replan
  <1>6. CASE UNCHANGED vars
    BY <1>6, SameStopsOK DEF vars
  <1> QED
    BY <1>1, <1>2, <1>3, <1>4, <1>5, <1>6 DEF Next

(***************************************************************************)
(* For any target, candidates and moves: greedyPlan adds an entry to a     *)
(* plan only while the variance that the entries before it leave, of the   *)
(* measured usage and not of the loop's own bookkeeping, is above the      *)
(* target.                                                                 *)
(***************************************************************************)
THEOREM PlansStopAtTarget ==
  ASSUME WeightsGiven, CPUReported
  PROVE  Spec => []StopsAtTarget
  <1>1. Init => StopsOK
    <2> SUFFICES ASSUME Init PROVE StopsOK
      OBVIOUS
    <2>1. pc # "planning"
      BY DEF Init
    <2> QED
      BY <2>1 DEF StopsOK, StopsAtTarget, AboveTarget
  <1>2. Spec => []StopsOK
    BY <1>1, MovesInvariant, NextStopsOK, PTL DEF Spec
  <1>3. StopsOK => StopsAtTarget
    BY DEF StopsOK
  <1> QED
    BY <1>2, <1>3, PTL

-------------------------------------------------------------------------------
(***************************************************************************)
(* Nodes that are alike.  With nothing to clamp a utilization is linear in *)
(* what a node uses, and a move takes as much from one node as it gives to *)
(* the other.                                                              *)
(***************************************************************************)
Alike(E) ==
  /\ \A m, n \in Nodes : Allocatable[m] = Allocatable[n]
  /\ \A n \in Nodes :
       /\ measured[n].cpu >= DemandOf(Lost(E, n)).cpu
       /\ measured[n].mem >= DemandOf(Lost(E, n)).mem

\* The utilization of one unit.
Unit(allocatable) == IF allocatable > 0 THEN Scale \div allocatable ELSE 0
CPURate(n) == Unit(Allocatable[n].cpu) * DefaultedWeights.cpu
MemRate(n) == Unit(Allocatable[n].mem) * DefaultedWeights.mem

\* The utilization an entry takes along.
Load(e) ==
  Demand(e.pod).cpu * CPURate(NodeOf[e.pod]) + Demand(e.pod).mem * MemRate(NodeOf[e.pod])

LEMMA MultipleDiv ==
  ASSUME NEW a \in Nat, a > 0, NEW k \in Nat
  PROVE  (a * k) \div a = k
  <1> DEFINE r == (a * k) \div a
  <1>1. a * k \in Nat
    OBVIOUS
  <1>2. \A x \in Nat : x \div a \in Nat /\ a * (x \div a) <= x /\ x < a * (x \div a) + a
    OBVIOUS
  <1>3. r \in Nat /\ a * r <= a * k /\ a * k < a * r + a
    BY <1>1, <1>2
  <1> HIDE DEF r
  <1>4. ~(r < k)
    <2> SUFFICES ASSUME r < k PROVE FALSE
      OBVIOUS
    <2>1. k - r - 1 \in Nat
      BY <1>3
    <2>2. a * (k - r - 1) >= 0
      BY <2>1
    <2>3. a * (k - r - 1) = a * k - a * r - a
      BY <1>3
    <2> QED
      BY <1>3, <2>2, <2>3
  <1>5. ~(k < r)
    <2> SUFFICES ASSUME k < r PROVE FALSE
      OBVIOUS
    <2>1. r - k - 1 \in Nat
      BY <1>3
    <2>2. a * (r - k - 1) >= 0
      BY <2>1
    <2>3. a * (r - k - 1) = a * r - a * k - a
      BY <1>3
    <2> QED
      BY <1>3, <2>2, <2>3
  <1>6. r = k
    BY <1>3, <1>4, <1>5
  <1> QED
    BY <1>6 DEF r

\* Scale is a multiple of what a node has, so shares are exact.
LEMMA ShareIsLinear ==
  ASSUME NEW allocatable \in Nat, allocatable > 0 => Scale % allocatable = 0, NEW used \in Nat
  PROVE  Unit(allocatable) \in Nat /\ Share(used, allocatable) = used * Unit(allocatable)
  <1>1. CASE allocatable > 0
    <2> DEFINE q == Scale \div allocatable
    <2>1. Scale \in Nat
      BY ClusterAssumption
    <2>2. \A x \in Nat : x \div allocatable \in Nat /\ x = allocatable * (x \div allocatable) + (x % allocatable)
      BY <1>1
    <2>3. q \in Nat /\ Scale = allocatable * q
      BY <1>1, <2>1, <2>2
    <2> HIDE DEF q
    <2>4. used * Scale = allocatable * (used * q) /\ used * q \in Nat
      BY <2>3
    <2>5. (allocatable * (used * q)) \div allocatable = used * q
      BY <1>1, <2>4, MultipleDiv
    <2> QED
      BY <1>1, <2>3, <2>4, <2>5 DEF Share, Unit, q
  <1>2. CASE ~(allocatable > 0)
    BY <1>2 DEF Share, Unit
  <1> QED
    BY <1>1, <1>2

LEMMA RateType ==
  ASSUME setting \in Settings, NEW n \in Nodes
  PROVE  CPURate(n) \in Nat /\ MemRate(n) \in Nat
  <1>1. /\ Allocatable[n] \in Resources
        /\ Allocatable[n].cpu > 0 => Scale % Allocatable[n].cpu = 0
        /\ Allocatable[n].mem > 0 => Scale % Allocatable[n].mem = 0
    BY SettingsAssumption DEF Allocatable
  <1>2. Allocatable[n].cpu \in Nat /\ Allocatable[n].mem \in Nat
    BY <1>1 DEF Resources
  <1>3. Unit(Allocatable[n].cpu) \in Nat /\ Unit(Allocatable[n].mem) \in Nat
    BY <1>1, <1>2, ShareIsLinear
  <1>4. DefaultedWeights.cpu \in Nat /\ DefaultedWeights.mem \in Nat
    BY WeightsType DEF Resources
  <1>5. \A a, b \in Nat : a * b \in Nat
    OBVIOUS
  <1> QED
    BY <1>3, <1>4, <1>5 DEF CPURate, MemRate

LEMMA WeightedIsLinear ==
  ASSUME setting \in Settings, NEW n \in Nodes, NEW u, u.cpu \in Nat, u.mem \in Nat
  PROVE  Weighted(u, n, DefaultedWeights) = u.cpu * CPURate(n) + u.mem * MemRate(n)
  <1>1. /\ Allocatable[n] \in Resources
        /\ Allocatable[n].cpu > 0 => Scale % Allocatable[n].cpu = 0
        /\ Allocatable[n].mem > 0 => Scale % Allocatable[n].mem = 0
    BY SettingsAssumption DEF Allocatable
  <1>2. Allocatable[n].cpu \in Nat /\ Allocatable[n].mem \in Nat
    BY <1>1 DEF Resources
  <1>3. /\ Unit(Allocatable[n].cpu) \in Nat /\ Unit(Allocatable[n].mem) \in Nat
        /\ Share(u.cpu, Allocatable[n].cpu) = u.cpu * Unit(Allocatable[n].cpu)
        /\ Share(u.mem, Allocatable[n].mem) = u.mem * Unit(Allocatable[n].mem)
    BY <1>1, <1>2, ShareIsLinear
  <1>4. DefaultedWeights.cpu \in Nat /\ DefaultedWeights.mem \in Nat
    BY WeightsType DEF Resources
  <1>5. \A a, b, c \in Nat : (a * b) * c = a * (b * c)
    OBVIOUS
  <1> QED
    BY <1>3, <1>4, <1>5 DEF CPURate, MemRate, Weighted

LEMMA AlikeParts ==
  ASSUME measured \in [Nodes -> Resources], NEW E, Moves(E), Alike(E), NEW D, D \subseteq E
  PROVE  Alike(D)
  <1> SUFFICES ASSUME NEW n \in Nodes
               PROVE  /\ measured[n].cpu >= DemandOf(Lost(D, n)).cpu
                      /\ measured[n].mem >= DemandOf(Lost(D, n)).mem
    BY DEF Alike
  <1>1. Lost(D, n) \subseteq Lost(E, n)
    BY DEF Lost
  <1>2. IsFiniteSet(Lost(E, n)) /\ \A e \in Lost(E, n) : e.pod \in Pods
    BY LostAndGained
  <1>3. /\ DemandOf(Lost(D, n)).cpu \in Nat /\ DemandOf(Lost(D, n)).cpu <= DemandOf(Lost(E, n)).cpu
        /\ DemandOf(Lost(D, n)).mem \in Nat /\ DemandOf(Lost(D, n)).mem <= DemandOf(Lost(E, n)).mem
    BY <1>1, <1>2, DemandOfPart
  <1>4. DemandOf(Lost(E, n)).cpu \in Nat /\ DemandOf(Lost(E, n)).mem \in Nat
    BY <1>2, DemandOfPart
  <1>5. /\ measured[n].cpu \in Nat /\ measured[n].cpu >= DemandOf(Lost(E, n)).cpu
        /\ measured[n].mem \in Nat /\ measured[n].mem >= DemandOf(Lost(E, n)).mem
    BY DEF Resources, Alike
  <1> QED
    BY <1>3, <1>4, <1>5

\* Nothing to clamp.
LEMMA OutcomeIsLinear ==
  ASSUME setting \in Settings, measured \in [Nodes -> Resources],
         NEW E, Moves(E), Alike(E), NEW n \in Nodes
  PROVE  /\ NetCPU(E, n) \in Nat /\ NetMem(E, n) \in Nat
         /\ OutcomeUtil(E)[n] = NetCPU(E, n) * CPURate(n) + NetMem(E, n) * MemRate(n)
         /\ OutcomeUtil(E)[n] \in Nat
  <1>1. NetCPU(E, n) \in Nat /\ NetMem(E, n) \in Nat
    <2>1. CASE n \notin hot
      BY <2>1, NetType
    <2>2. CASE n \in hot
      <3>1. /\ NetCPU(E, n) = measured[n].cpu - DemandOf(Lost(E, n)).cpu
            /\ NetMem(E, n) = measured[n].mem - DemandOf(Lost(E, n)).mem
        BY <2>2, NetType
      <3>2. DemandOf(Lost(E, n)).cpu \in Nat /\ DemandOf(Lost(E, n)).mem \in Nat
        BY LostAndGained, DemandOfPart DEF Moves
      <3>3. /\ measured[n].cpu \in Nat /\ measured[n].cpu >= DemandOf(Lost(E, n)).cpu
            /\ measured[n].mem \in Nat /\ measured[n].mem >= DemandOf(Lost(E, n)).mem
        BY DEF Resources, Alike
      <3> QED
        BY <3>1, <3>2, <3>3
    <2> QED
      BY <2>1, <2>2
  <1> DEFINE u == [cpu |-> NetCPU(E, n), mem |-> NetMem(E, n)]
  <1>2. NonNegative(NetCPU(E, n)) = NetCPU(E, n) /\ NonNegative(NetMem(E, n)) = NetMem(E, n)
    BY <1>1, ClampNothing
  <1>3. Outcome(E)[n] = u
    BY <1>2, OutcomeIsNet
  <1>4. OutcomeUtil(E)[n] = Weighted(u, n, DefaultedWeights)
    BY <1>3, OutcomeUtilIs
  <1>5. u.cpu = NetCPU(E, n) /\ u.mem = NetMem(E, n)
    OBVIOUS
  <1> HIDE DEF u
  <1>6. OutcomeUtil(E)[n] = NetCPU(E, n) * CPURate(n) + NetMem(E, n) * MemRate(n)
    BY <1>1, <1>4, <1>5, WeightedIsLinear
  <1>7. \A a, b, c, d \in Nat : a * b + c * d \in Nat
    OBVIOUS
  <1> QED
    BY <1>1, <1>6, <1>7, RateType

\* A move takes Load from its source and gives it to its target.
ShiftsLoad(E, x) ==
  /\ Load(x) \in Nat
  /\ OutcomeUtil(E \cup {x})[NodeOf[x.pod]] = OutcomeUtil(E)[NodeOf[x.pod]] - Load(x)
  /\ OutcomeUtil(E \cup {x})[x.to] = OutcomeUtil(E)[x.to] + Load(x)
  /\ \A n \in Nodes \ {NodeOf[x.pod], x.to} : OutcomeUtil(E \cup {x})[n] = OutcomeUtil(E)[n]

LEMMA MoveShiftsLoad ==
  ASSUME setting \in Settings, measured \in [Nodes -> Resources],
         NEW E, Moves(E), NEW x, IsMove(x), x \notin E, Alike(E \cup {x})
  PROVE  ShiftsLoad(E, x)
  <1> DEFINE F == E \cup {x}
             a == NodeOf[x.pod]
             b == x.to
             c == Demand(x.pod).cpu
             m == Demand(x.pod).mem
  <1>1. a \in Nodes /\ b \in Nodes /\ x.pod \in Pods
    BY ClusterAssumption DEF IsMove
  <1>2. Moves(F) /\ Alike(F) /\ Alike(E)
    BY MovesOneMore, AlikeParts
  <1>3. c \in Nat /\ m \in Nat
    BY <1>1, DemandType
  <1>4. /\ NetCPU(F, a) = NetCPU(E, a) - c /\ NetMem(F, a) = NetMem(E, a) - m
        /\ NetCPU(F, b) = NetCPU(E, b) + c /\ NetMem(F, b) = NetMem(E, b) + m
        /\ \A n \in Nodes \ {a, b} : NetCPU(F, n) = NetCPU(E, n) /\ NetMem(F, n) = NetMem(E, n)
    BY NetOneMore
  <1>5. CPURate(b) = CPURate(a) /\ MemRate(b) = MemRate(a)
    <2>1. Allocatable[b] = Allocatable[a]
      BY <1>1, <1>2 DEF Alike
    <2> QED
      BY <2>1 DEF CPURate, MemRate
  <1> HIDE DEF F
  <1>6. /\ \A n \in Nodes : NetCPU(E, n) \in Nat /\ NetMem(E, n) \in Nat
        /\ \A n \in Nodes : OutcomeUtil(E)[n] = NetCPU(E, n) * CPURate(n) + NetMem(E, n) * MemRate(n)
        /\ \A n \in Nodes : OutcomeUtil(F)[n] = NetCPU(F, n) * CPURate(n) + NetMem(F, n) * MemRate(n)
    BY <1>2, OutcomeIsLinear
  <1>7. CPURate(a) \in Nat /\ MemRate(a) \in Nat
    BY <1>1, RateType
  <1>8. Load(x) = c * CPURate(a) + m * MemRate(a)
    BY DEF Load
  <1> HIDE DEF c, m, a, b
  <1>9. \A y, z, r, s, k, l \in Int :
          /\ (y - k) * r + (z - l) * s = (y * r + z * s) - (k * r + l * s)
          /\ (y + k) * r + (z + l) * s = (y * r + z * s) + (k * r + l * s)
    OBVIOUS
  <1>10. \A k, r, l, s \in Nat : k * r + l * s \in Nat
    OBVIOUS
  <1>11. OutcomeUtil(F)[a] = OutcomeUtil(E)[a] - Load(x)
    <2>1. NetCPU(E, a) \in Int /\ NetMem(E, a) \in Int
      BY <1>1, <1>6
    <2> QED
      BY <1>1, <1>3, <1>4, <1>6, <1>7, <1>8, <1>9, <2>1
  <1>12. OutcomeUtil(F)[b] = OutcomeUtil(E)[b] + Load(x)
    <2>1. NetCPU(E, b) \in Int /\ NetMem(E, b) \in Int
      BY <1>1, <1>6
    <2> QED
      BY <1>1, <1>3, <1>4, <1>5, <1>6, <1>7, <1>8, <1>9, <2>1
  <1>13. \A n \in Nodes \ {a, b} : OutcomeUtil(F)[n] = OutcomeUtil(E)[n]
    BY <1>4, <1>6
  <1>14. Load(x) \in Nat
    BY <1>3, <1>7, <1>8, <1>10
  <1> QED
    BY <1>11, <1>12, <1>13, <1>14 DEF ShiftsLoad, F, a, b

\* Sums over the nodes with two of them taken out.
LEMMA SumTwoOut ==
  ASSUME NEW f, \A n \in Nodes : f[n] \in Int, NEW a \in Nodes, NEW b \in Nodes, a # b
  PROVE  /\ SumFunctionOnSet(f, Nodes) = f[a] + (f[b] + SumFunctionOnSet(f, Nodes \ {a, b}))
         /\ SumFunctionOnSet(f, Nodes \ {a, b}) \in Int
  <1> DEFINE R == Nodes \ {a}
  <1>1. IsFiniteSet(Nodes) /\ IsFiniteSet(R) /\ IsFiniteSet(Nodes \ {a, b})
    BY ClusterAssumption, FS_Subset
  <1>2. SumFunctionOnSet(f, Nodes) = f[a] + SumFunctionOnSet(f, R)
    BY <1>1, SumRemove
  <1>3. b \in R /\ \A n \in R : f[n] \in Int
    OBVIOUS
  <1>4. R \ {b} = Nodes \ {a, b}
    OBVIOUS
  <1> HIDE DEF R
  <1>5. SumFunctionOnSet(f, R) = f[b] + SumFunctionOnSet(f, R \ {b})
    BY <1>1, <1>3, SumRemove
  <1>6. SumFunctionOnSet(f, Nodes \ {a, b}) \in Int
    BY <1>1, SumInt
  <1> QED
    BY <1>2, <1>4, <1>5, <1>6

\* An amount d goes from a to b.
Shifts(u, v, a, b, d) ==
  /\ a \in Nodes /\ b \in Nodes /\ a # b /\ d \in Int
  /\ \A n \in Nodes : u[n] \in Int
  /\ v[a] = u[a] - d /\ v[b] = u[b] + d
  /\ \A n \in Nodes \ {a, b} : v[n] = u[n]

\* What that does to the variance, where a was above b by gap.
ShiftEffect(d, gap) == 2 * Cardinality(Nodes) * (d * (d - gap))

LEMMA VarianceOfShift ==
  ASSUME NEW u, NEW v, NEW a, NEW b, NEW d, Shifts(u, v, a, b, d)
  PROVE  Variance(v) - Variance(u) = ShiftEffect(d, u[a] - u[b])
  <1> DEFINE R == Nodes \ {a, b}
             su == [n \in Nodes |-> u[n] * u[n]]
             sv == [n \in Nodes |-> v[n] * v[n]]
             N == Cardinality(Nodes)
  <1>0. /\ a \in Nodes /\ b \in Nodes /\ a # b /\ d \in Int
        /\ \A n \in Nodes : u[n] \in Int
        /\ v[a] = u[a] - d /\ v[b] = u[b] + d
        /\ \A n \in Nodes \ {a, b} : v[n] = u[n]
    BY DEF Shifts
  <1>1. \A n \in Nodes : v[n] \in Int
    BY <1>0
  <1>2. \A n \in Nodes : su[n] \in Int /\ sv[n] \in Int
    BY <1>0, <1>1, SquareNat
  <1>3. /\ su[a] = u[a] * u[a] /\ su[b] = u[b] * u[b]
        /\ sv[a] = (u[a] - d) * (u[a] - d) /\ sv[b] = (u[b] + d) * (u[b] + d)
    BY <1>0
  <1>4. \A n \in R : v[n] = u[n] /\ sv[n] = su[n]
    BY <1>0
  <1>5. /\ Variance(u) = N * SumFunctionOnSet(su, Nodes) - SumFunctionOnSet(u, Nodes) * SumFunctionOnSet(u, Nodes)
        /\ Variance(v) = N * SumFunctionOnSet(sv, Nodes) - SumFunctionOnSet(v, Nodes) * SumFunctionOnSet(v, Nodes)
    BY DEF Variance
  <1>6. IsFiniteSet(R) /\ N \in Nat
    BY ClusterAssumption, FS_Subset, FS_CardinalityType
  <1> HIDE DEF su, sv, N
  <1>7. SumFunctionOnSet(v, R) = SumFunctionOnSet(u, R) /\ SumFunctionOnSet(sv, R) = SumFunctionOnSet(su, R)
    <2> HIDE DEF R
    <2> QED
      BY <1>4, <1>6, SumEqual
  <1>8. /\ SumFunctionOnSet(u, Nodes) = u[a] + (u[b] + SumFunctionOnSet(u, R))
        /\ SumFunctionOnSet(v, Nodes) = v[a] + (v[b] + SumFunctionOnSet(v, R))
        /\ SumFunctionOnSet(u, R) \in Int
    BY <1>0, <1>1, SumTwoOut
  <1>9. /\ SumFunctionOnSet(su, Nodes) = su[a] + (su[b] + SumFunctionOnSet(su, R))
        /\ SumFunctionOnSet(sv, Nodes) = sv[a] + (sv[b] + SumFunctionOnSet(sv, R))
        /\ SumFunctionOnSet(su, R) \in Int
    BY <1>0, <1>2, SumTwoOut
  <1> HIDE DEF R
  <1>10. SumFunctionOnSet(v, Nodes) = SumFunctionOnSet(u, Nodes) /\ SumFunctionOnSet(u, Nodes) \in Int
    BY <1>0, <1>7, <1>8
  <1> DEFINE t == SumFunctionOnSet(u, Nodes)
             q == SumFunctionOnSet(su, R)
             x == u[a]
             y == u[b]
  <1>11. /\ Variance(u) = N * (x * x + (y * y + q)) - t * t
         /\ Variance(v) = N * ((x - d) * (x - d) + ((y + d) * (y + d) + q)) - t * t
    BY <1>0, <1>3, <1>5, <1>7, <1>9, <1>10
  <1>12. x \in Int /\ y \in Int /\ q \in Int /\ t \in Int /\ N \in Int
    BY <1>0, <1>6, <1>9, <1>10
  <1> HIDE DEF x, y, t, q
  <1>13. Variance(v) - Variance(u) = 2 * N * (d * (d - (x - y)))
    BY <1>0, <1>11, <1>12, MovedSquares
  <1> QED
    BY <1>13 DEF ShiftEffect, N, x, y

\* Fewer moves leave a hot node more loaded, and any other less.
LEMMA FewerMoves ==
  ASSUME setting \in Settings, measured \in [Nodes -> Resources],
         NEW E, Moves(E), Alike(E), NEW D, D \subseteq E, NEW n \in Nodes
  PROVE  /\ n \in hot => OutcomeUtil(E)[n] <= OutcomeUtil(D)[n]
         /\ n \notin hot => OutcomeUtil(D)[n] <= OutcomeUtil(E)[n]
  <1>1. Moves(D) /\ Alike(D)
    BY MovesParts, AlikeParts
  <1>2. /\ NetCPU(E, n) \in Nat /\ NetMem(E, n) \in Nat
        /\ OutcomeUtil(E)[n] = NetCPU(E, n) * CPURate(n) + NetMem(E, n) * MemRate(n)
        /\ NetCPU(D, n) \in Nat /\ NetMem(D, n) \in Nat
        /\ OutcomeUtil(D)[n] = NetCPU(D, n) * CPURate(n) + NetMem(D, n) * MemRate(n)
    BY <1>1, OutcomeIsLinear
  <1>3. CPURate(n) \in Nat /\ MemRate(n) \in Nat
    BY RateType
  <1>4. /\ Lost(D, n) \subseteq Lost(E, n) /\ Gained(D, n) \subseteq Gained(E, n)
        /\ IsFiniteSet(Lost(E, n)) /\ \A e \in Lost(E, n) : e.pod \in Pods
        /\ IsFiniteSet(Gained(E, n)) /\ \A e \in Gained(E, n) : e.pod \in Pods
    BY LostAndGained DEF Lost, Gained
  <1>5. /\ DemandOf(Lost(D, n)).cpu \in Nat /\ DemandOf(Lost(D, n)).cpu <= DemandOf(Lost(E, n)).cpu
        /\ DemandOf(Lost(D, n)).mem \in Nat /\ DemandOf(Lost(D, n)).mem <= DemandOf(Lost(E, n)).mem
        /\ DemandOf(Gained(D, n)).cpu \in Nat /\ DemandOf(Gained(D, n)).cpu <= DemandOf(Gained(E, n)).cpu
        /\ DemandOf(Gained(D, n)).mem \in Nat /\ DemandOf(Gained(D, n)).mem <= DemandOf(Gained(E, n)).mem
    BY <1>4, DemandOfPart
  <1>6. /\ DemandOf(Lost(E, n)).cpu \in Nat /\ DemandOf(Lost(E, n)).mem \in Nat
        /\ DemandOf(Gained(E, n)).cpu \in Nat /\ DemandOf(Gained(E, n)).mem \in Nat
        /\ measured[n].cpu \in Nat /\ measured[n].mem \in Nat
    BY <1>4, DemandOfPart DEF Resources
  <1>7. \A x, y, r \in Nat : x <= y => x * r <= y * r
    <2> SUFFICES ASSUME NEW x \in Nat, NEW y \in Nat, NEW r \in Nat, x <= y PROVE x * r <= y * r
      OBVIOUS
    <2>1. (y - x) * r \in Nat
      OBVIOUS
    <2>2. (y - x) * r = y * r - x * r
      OBVIOUS
    <2> QED
      BY <2>1, <2>2
  <1>8. \A w, x, y, z, r, s \in Nat : w <= x /\ y <= z => w * r + y * s <= x * r + z * s
    <2> SUFFICES ASSUME NEW w \in Nat, NEW x \in Nat, NEW y \in Nat, NEW z \in Nat,
                        NEW r \in Nat, NEW s \in Nat, w <= x, y <= z
                 PROVE  w * r + y * s <= x * r + z * s
      OBVIOUS
    <2>1. w * r <= x * r /\ y * s <= z * s
      BY <1>7
    <2> QED
      BY <2>1
  <1>9. CASE n \in hot
    <2>1. NetCPU(E, n) <= NetCPU(D, n) /\ NetMem(E, n) <= NetMem(D, n)
      <3>1. /\ NetCPU(E, n) = measured[n].cpu - DemandOf(Lost(E, n)).cpu
            /\ NetMem(E, n) = measured[n].mem - DemandOf(Lost(E, n)).mem
            /\ NetCPU(D, n) = measured[n].cpu - DemandOf(Lost(D, n)).cpu
            /\ NetMem(D, n) = measured[n].mem - DemandOf(Lost(D, n)).mem
        BY <1>1, <1>9, NetType
      <3> QED
        BY <1>5, <1>6, <3>1
    <2> QED
      BY <1>2, <1>3, <1>8, <1>9, <2>1
  <1>10. CASE n \notin hot
    <2>1. NetCPU(D, n) <= NetCPU(E, n) /\ NetMem(D, n) <= NetMem(E, n)
      <3>1. /\ NetCPU(E, n) = measured[n].cpu + DemandOf(Gained(E, n)).cpu
            /\ NetMem(E, n) = measured[n].mem + DemandOf(Gained(E, n)).mem
            /\ NetCPU(D, n) = measured[n].cpu + DemandOf(Gained(D, n)).cpu
            /\ NetMem(D, n) = measured[n].mem + DemandOf(Gained(D, n)).mem
        BY <1>1, <1>10, NetType
      <3> QED
        BY <1>5, <1>6, <3>1
    <2> QED
      BY <1>2, <1>3, <1>8, <1>10, <2>1
  <1> QED
    BY <1>9, <1>10

\* The variance after one move more, on top of any moves.
LEMMA VarianceOfMove ==
  ASSUME setting \in Settings, measured \in [Nodes -> Resources],
         NEW E, Moves(E), NEW x, IsMove(x), x \notin E, Alike(E \cup {x})
  PROVE  Variance(OutcomeUtil(E \cup {x})) - Variance(OutcomeUtil(E))
           = ShiftEffect(Load(x), OutcomeUtil(E)[NodeOf[x.pod]] - OutcomeUtil(E)[x.to])
  <1> DEFINE a == NodeOf[x.pod]
             b == x.to
             u == OutcomeUtil(E)
             v == OutcomeUtil(E \cup {x})
             d == Load(x)
  <1>1. a \in Nodes /\ b \in Nodes /\ a # b
    BY ClusterAssumption DEF IsMove
  <1>2. Moves(E \cup {x}) /\ Alike(E)
    BY MovesOneMore, AlikeParts
  <1>3. \A n \in Nodes : u[n] \in Int
    BY <1>2, OutcomeIsLinear
  <1>4. /\ d \in Nat /\ v[a] = u[a] - d /\ v[b] = u[b] + d
        /\ \A n \in Nodes \ {a, b} : v[n] = u[n]
    <2>1. ShiftsLoad(E, x)
      BY MoveShiftsLoad
    <2> QED
      BY <2>1 DEF ShiftsLoad
  <1> HIDE DEF u, v, a, b, d
  <1>5. Shifts(u, v, a, b, d)
    BY <1>1, <1>3, <1>4 DEF Shifts
  <1>6. Variance(v) - Variance(u) = ShiftEffect(d, u[a] - u[b])
    BY <1>5, VarianceOfShift
  <1> QED
    BY <1>6 DEF u, v, a, b, d

\* A product is negative only when its factors differ in sign.
LEMMA GapExceedsLoad ==
  ASSUME NEW n \in Nat, NEW d \in Nat, NEW g \in Int, 2 * n * (d * (d - g)) < 0
  PROVE  n > 0 /\ d > 0 /\ d < g
  <1> DEFINE x == d * (d - g)
  <1>0. x \in Int /\ (d = 0 => x = 0)
    <2>1. \A i, j \in Int : i * j \in Int /\ (i = 0 => i * j = 0)
      OBVIOUS
    <2>2. d - g \in Int
      OBVIOUS
    <2> QED
      BY <2>1, <2>2
  <1>1. n # 0 /\ d # 0
    <2> HIDE DEF x
    <2>1. \A i, j \in Int : i = 0 \/ j = 0 => 2 * i * j = 0
      OBVIOUS
    <2>2. n = 0 \/ x = 0 => 2 * n * x = 0
      BY <1>0, <2>1
    <2>3. 2 * n * x < 0
      BY DEF x
    <2> QED
      BY <1>0, <2>2, <2>3
  <1>3. ~(d >= g)
    <2> SUFFICES ASSUME d >= g PROVE FALSE
      OBVIOUS
    <2>1. d - g \in Nat
      OBVIOUS
    <2>2. \A i, j \in Nat : i * j \in Nat
      OBVIOUS
    <2>3. d * (d - g) \in Nat
      BY <2>1, <2>2
    <2>4. 2 * n \in Nat
      OBVIOUS
    <2>5. 2 * n * (d * (d - g)) \in Nat
      BY <2>2, <2>3, <2>4
    <2> QED
      BY <2>5
  <1> QED
    BY <1>1, <1>3

LEMMA LargerGapHelps ==
  ASSUME NEW n \in Nat, n > 0, NEW d \in Nat, d > 0, NEW g \in Int, d < g
  PROVE  2 * n * (d * (d - g)) < 0
  <1>1. \A i, j \in Nat : i > 0 /\ j > 0 => i * j \in Nat /\ i * j > 0
    <2> SUFFICES ASSUME NEW i \in Nat, NEW j \in Nat, i > 0, j > 0 PROVE i * j \in Nat /\ i * j > 0
      OBVIOUS
    <2>1. (i - 1) * (j - 1) \in Nat
      <3>1. i - 1 \in Nat /\ j - 1 \in Nat
        OBVIOUS
      <3> QED
        BY <3>1
    <2>2. (i - 1) * (j - 1) = i * j - i - j + 1
      OBVIOUS
    <2> QED
      BY <2>1, <2>2
  <1>2. g - d \in Nat /\ g - d > 0
    OBVIOUS
  <1>3. d * (g - d) \in Nat /\ d * (g - d) > 0
    BY <1>1, <1>2
  <1>4. (2 * n) * (d * (g - d)) > 0
    BY <1>1, <1>3
  <1>5. 2 * n * (d * (d - g)) = 0 - (2 * n) * (d * (g - d))
    OBVIOUS
  <1>6. \A i \in Int : i > 0 => 0 - i < 0
    OBVIOUS
  <1>7. (2 * n) * (d * (g - d)) \in Int
    BY <1>3
  <1> QED
    BY <1>4, <1>5, <1>6, <1>7

\* A move that lowers the variance is over a gap wider than what it moves,
LEMMA AcceptedGap ==
  ASSUME setting \in Settings, measured \in [Nodes -> Resources],
         NEW E, Moves(E), NEW x, IsMove(x), x \notin E, Alike(E \cup {x}),
         Variance(OutcomeUtil(E \cup {x})) < Variance(OutcomeUtil(E))
  PROVE  /\ Cardinality(Nodes) \in Nat /\ Cardinality(Nodes) > 0
         /\ Load(x) \in Nat /\ Load(x) > 0
         /\ Load(x) < OutcomeUtil(E)[NodeOf[x.pod]] - OutcomeUtil(E)[x.to]
  <1> DEFINE a == NodeOf[x.pod]
             b == x.to
             u == OutcomeUtil(E)
             v == OutcomeUtil(E \cup {x})
             gap == u[a] - u[b]
             d == Load(x)
             N == Cardinality(Nodes)
  <1>1. a \in Nodes /\ b \in Nodes
    BY ClusterAssumption DEF IsMove
  <1>2. Moves(E \cup {x}) /\ Alike(E)
    BY MovesOneMore, AlikeParts
  <1>3. \A n \in Nodes : u[n] \in Nat /\ v[n] \in Nat
    BY <1>2, OutcomeIsLinear
  <1>4. gap \in Int
    BY <1>1, <1>3
  <1>5. N \in Nat
    BY ClusterAssumption, FS_CardinalityType
  <1>6. d \in Nat
    <2>1. ShiftsLoad(E, x)
      BY MoveShiftsLoad
    <2> QED
      BY <2>1 DEF ShiftsLoad
  <1>7. Variance(u) \in Nat /\ Variance(v) \in Nat
    BY <1>3, VarianceType
  <1>8. Variance(v) - Variance(u) = ShiftEffect(d, gap)
    BY VarianceOfMove
  <1>9. Variance(v) < Variance(u)
    OBVIOUS
  <1> HIDE DEF u, v, gap, d
  <1>10. ShiftEffect(d, gap) < 0
    BY <1>7, <1>8, <1>9
  <1>11. 2 * N * (d * (d - gap)) < 0
    BY <1>10 DEF ShiftEffect
  <1> HIDE DEF N
  <1>12. N > 0 /\ d > 0 /\ d < gap
    BY <1>4, <1>5, <1>6, <1>11, GapExceedsLoad
  <1> QED
    BY <1>5, <1>6, <1>12 DEF u, gap, d, N, a, b

\* and it lowers it also when some of the moves before it are left out.
LEMMA HelpsWithoutSome ==
  ASSUME setting \in Settings, measured \in [Nodes -> Resources],
         NEW E, Moves(E), NEW x, IsMove(x), x \notin E, Alike(E \cup {x}),
         Variance(OutcomeUtil(E \cup {x})) < Variance(OutcomeUtil(E)),
         NEW Q, Q \subseteq E
  PROVE  /\ Variance(OutcomeUtil(Q)) \in Nat /\ Variance(OutcomeUtil(Q \cup {x})) \in Nat
         /\ Variance(OutcomeUtil(Q \cup {x})) < Variance(OutcomeUtil(Q))
  <1> DEFINE a == NodeOf[x.pod]
             b == x.to
             u == OutcomeUtil(E)
             w == OutcomeUtil(Q)
             v == OutcomeUtil(Q \cup {x})
             d == Load(x)
             N == Cardinality(Nodes)
  <1>1. a \in Nodes /\ b \in Nodes /\ a \in hot /\ b \notin hot
    BY ClusterAssumption DEF IsMove
  <1>2. Moves(E \cup {x}) /\ Alike(E)
    BY MovesOneMore, AlikeParts
  <1>3. Q \cup {x} \subseteq E \cup {x} /\ x \notin Q
    OBVIOUS
  <1>4. Moves(Q) /\ Moves(Q \cup {x}) /\ Alike(Q) /\ Alike(Q \cup {x})
    BY <1>2, <1>3, MovesParts, AlikeParts
  <1>5. N \in Nat /\ N > 0 /\ d \in Nat /\ d > 0 /\ d < u[a] - u[b]
    BY AcceptedGap
  <1>6. u[a] <= w[a] /\ w[b] <= u[b]
    BY <1>1, <1>2, FewerMoves
  <1>7. \A n \in Nodes : u[n] \in Nat /\ w[n] \in Nat /\ v[n] \in Nat
    BY <1>2, <1>4, OutcomeIsLinear
  <1>8. Variance(w) \in Nat /\ Variance(v) \in Nat
    <2> HIDE DEF u, v, w
    <2> QED
      BY <1>7, VarianceType
  <1>9. Variance(v) - Variance(w) = ShiftEffect(d, w[a] - w[b])
    BY <1>3, <1>4, VarianceOfMove
  <1> HIDE DEF u, v, w, d, N, a, b
  <1>10. w[a] - w[b] \in Int /\ d < w[a] - w[b]
    <2>1. u[a] \in Nat /\ u[b] \in Nat /\ w[a] \in Nat /\ w[b] \in Nat
      BY <1>1, <1>7
    <2> QED
      BY <1>5, <1>6, <2>1
  <1>11. 2 * N * (d * (d - (w[a] - w[b]))) < 0
    BY <1>5, <1>10, LargerGapHelps
  <1>12. Variance(v) < Variance(w)
    <2>1. ShiftEffect(d, w[a] - w[b]) < 0
      BY <1>11 DEF ShiftEffect, N
    <2> QED
      BY <1>8, <1>9, <2>1
  <1> QED
    BY <1>8, <1>12 DEF v, w

(***************************************************************************)
(* Fifth layer, for nodes that are alike.                                  *)
(***************************************************************************)
PartsHelp ==
  pc # "measured" /\ Homogeneous =>
    \A part \in SUBSET Entries : part # {} => Variance(OutcomeUtil(part)) < Variance(weighted)

PeakStays ==
  pc # "measured" /\ Homogeneous =>
    \A n \in Nodes : \E m \in Nodes : OutcomeUtil(Entries)[n] <= weighted[m]

BalanceOK == PartsHelp /\ PeakStays

LEMMA HomogeneousIsAlike == Homogeneous <=> Alike(Entries)
  BY DEF Homogeneous, Alike

LEMMA MoveBalanceOK ==
  ASSUME WeightsGiven, CPUReported, GreedyOK, TypesOK, MovesMatch, BalanceOK,
         NEW p \in Pods, NEW to \in Nodes, Move(p, to)
  PROVE  BalanceOK'
  <1> DEFINE e == [pod |-> p, to |-> to, score |-> Delta(p, to)]
  <1>1. /\ pc = "planning" /\ pc' = pc /\ UNCHANGED <<setting, measured, weighted>>
        /\ p \in todo /\ to \in Best(p)
        /\ util' = SimulatedUtil(p, to) /\ variance' = Variance(util') /\ variance' < variance
        /\ plan' = Append(plan, e)
    BY DEF Move, IsNext
  <1>2. e.pod = p /\ e.to = to
    OBVIOUS
  <1> HIDE DEF e
  <1>3. to \in cold
    BY <1>1, BestIsAdmitted
  <1>4. Entries' = Entries \cup {e}
    BY <1>1, OneMoreEntry
  <1> DEFINE E == Entries
             F == E \cup {e}
  <1>5. /\ setting \in Settings /\ measured \in [Nodes -> Resources]
        /\ Moves(E) /\ IsMove(e) /\ e \notin E
    BY <1>1, <1>2, <1>3, MeasuredType, EntriesMoves, AnotherMove DEF GreedyOK, BandsOK
  <1>6. /\ variance = Variance(OutcomeUtil(E)) /\ weighted = OutcomeUtil({})
    BY <1>1 DEF MovesMatch
  <1>7. SimulatedUtil(p, to) = OutcomeUtil(F)
    <2>1. pc # "measured" /\ p \in todo
      BY <1>1
    <2> QED
      BY <1>2, <1>3, <2>1, SimulationIsOutcome
  <1>8. Variance(OutcomeUtil(F)) < Variance(OutcomeUtil(E))
    BY <1>1, <1>6, <1>7
  <1>9. \A G : OutcomeUtil(G)' = OutcomeUtil(G)
    BY <1>1, OutcomeStays
  <1>10. Homogeneous' => Alike(F)
    BY <1>1, <1>4 DEF Homogeneous, Alike, Allocatable
  <1>11. SUFFICES ASSUME Alike(F)
                  PROVE  /\ \A part \in SUBSET F : part # {} => Variance(OutcomeUtil(part)) < Variance(weighted)
                         /\ \A n \in Nodes : \E m \in Nodes : OutcomeUtil(F)[n] <= weighted[m]
    BY <1>1, <1>4, <1>9, <1>10 DEF BalanceOK, PartsHelp, PeakStays
  <1>12. /\ Alike(E) /\ Moves(F)
         /\ Moves({}) /\ Alike({})
    <2>1. Moves(F) /\ E \subseteq F /\ {} \subseteq F
      BY <1>5, MovesOneMore
    <2> QED
      BY <1>5, <1>11, <2>1, MovesParts, AlikeParts
  <1>13. /\ \A part \in SUBSET E : part # {} => Variance(OutcomeUtil(part)) < Variance(weighted)
         /\ \A n \in Nodes : \E m \in Nodes : OutcomeUtil(E)[n] <= weighted[m]
    <2>1. pc # "measured" /\ Homogeneous
      BY <1>1, <1>12, HomogeneousIsAlike
    <2> QED
      BY <2>1 DEF BalanceOK, PartsHelp, PeakStays
  <1>14. ASSUME NEW part \in SUBSET F, part # {}
         PROVE  Variance(OutcomeUtil(part)) < Variance(weighted)
    <2>1. CASE e \notin part
      BY <1>13, <1>14, <2>1
    <2>2. CASE e \in part
      <3> DEFINE Q == part \ {e}
      <3>1. Q \subseteq E /\ part = Q \cup {e}
        BY <2>2
      <3> HIDE DEF Q, E
      <3>2. /\ Variance(OutcomeUtil(Q)) \in Nat /\ Variance(OutcomeUtil(part)) \in Nat
            /\ Variance(OutcomeUtil(part)) < Variance(OutcomeUtil(Q))
        BY <1>5, <1>8, <1>11, <3>1, HelpsWithoutSome
      <3>3. CASE Q = {}
        BY <1>6, <3>2, <3>3
      <3>4. CASE Q # {}
        <4>1. Variance(OutcomeUtil(Q)) < Variance(weighted)
          BY <1>13, <3>1, <3>4
        <4>2. Variance(weighted) \in Nat
          BY <1>5, <1>6, <1>12, OutcomeIsLinear, VarianceType
        <4> QED
          BY <3>2, <4>1, <4>2
      <3> QED
        BY <3>3, <3>4
    <2> QED
      BY <2>1, <2>2
  <1>15. ASSUME NEW n \in Nodes PROVE \E m \in Nodes : OutcomeUtil(F)[n] <= weighted[m]
    <2> DEFINE a == NodeOf[p]
    <2> HIDE DEF E
    <2>1. a \in Nodes /\ a \in hot
      BY <1>2, <1>5, ClusterAssumption DEF IsMove
    <2>2. /\ Load(e) \in Nat
          /\ OutcomeUtil(F)[a] = OutcomeUtil(E)[a] - Load(e)
          /\ OutcomeUtil(F)[to] = OutcomeUtil(E)[to] + Load(e)
          /\ \A k \in Nodes \ {a, to} : OutcomeUtil(F)[k] = OutcomeUtil(E)[k]
      <3>1. ShiftsLoad(E, e)
        BY <1>5, <1>11, MoveShiftsLoad
      <3> QED
        BY <1>2, <3>1 DEF ShiftsLoad
    <2>3. OutcomeUtil(E)[a] <= weighted[a]
      BY <1>5, <1>6, <1>12, <2>1, FewerMoves
    <2>4. \A k \in Nodes : OutcomeUtil(E)[k] \in Nat /\ OutcomeUtil({})[k] \in Nat
      BY <1>5, <1>12, OutcomeIsLinear
    <2>5. CASE n = a
      <3>1. OutcomeUtil(F)[n] <= weighted[a]
        BY <1>6, <2>1, <2>2, <2>3, <2>4, <2>5
      <3> QED
        BY <2>1, <3>1
    <2>6. CASE n = to
      <3>1. Load(e) < OutcomeUtil(E)[a] - OutcomeUtil(E)[to]
        BY <1>2, <1>5, <1>8, <1>11, AcceptedGap
      <3>2. OutcomeUtil(F)[n] <= weighted[a]
        <4>1. OutcomeUtil(F)[n] = OutcomeUtil(E)[to] + Load(e)
          BY <2>2, <2>6
        <4>2. weighted[a] \in Nat
          BY <1>6, <2>1, <2>4
        <4>3. OutcomeUtil(E)[a] \in Nat /\ OutcomeUtil(E)[to] \in Nat /\ Load(e) \in Nat
          BY <2>1, <2>2, <2>4, <2>6
        <4> QED
          BY <2>3, <3>1, <4>1, <4>2, <4>3
      <3> QED
        BY <2>1, <3>2
    <2>7. CASE n \in Nodes \ {a, to}
      BY <1>13, <2>2, <2>7
    <2> QED
      BY <2>5, <2>6, <2>7
  <1> QED
    BY <1>14, <1>15

LEMMA SameBalanceOK ==
  ASSUME BalanceOK, UNCHANGED <<setting, measured, weighted>>, Entries' = Entries,
         pc' = pc \/ pc # "measured"
  PROVE  BalanceOK'
  <1>1. \A G : OutcomeUtil(G)' = OutcomeUtil(G)
    BY OutcomeStays
  <1>2. Homogeneous' => Homogeneous
    BY DEF Homogeneous, Allocatable
  <1> QED
    BY <1>1, <1>2 DEF BalanceOK, PartsHelp, PeakStays

LEMMA ClassifyBalanceOK ==
  ASSUME GreedyOK, TypesOK', MovesMatch', Classify
  PROVE  BalanceOK'
  <1>1. plan' = <<>> /\ pc' # "measured"
    BY DEF Classify, GreedyOK, EntriesOK
  <1>2. Entries' = {}
    BY <1>1 DEF Entries, ToSet
  <1>3. weighted' = OutcomeUtil(Entries)' /\ \A n \in Nodes : weighted'[n] \in Nat
    BY <1>1, <1>2 DEF MovesMatch, TypesOK, TypeOK
  <1>4. PartsHelp'
    BY <1>2 DEF PartsHelp
  <1>5. PeakStays'
    BY <1>3 DEF PeakStays
  <1> QED
    BY <1>4, <1>5 DEF BalanceOK

LEMMA NextBalanceOK ==
  ASSUME WeightsGiven, CPUReported
  PROVE  /\ GreedyOK /\ TypesOK /\ TypesOK' /\ MovesMatch /\ MovesMatch'
         /\ BalanceOK /\ [Next]_vars
         => BalanceOK'
  <1> SUFFICES ASSUME GreedyOK, TypesOK, TypesOK', MovesMatch, MovesMatch', BalanceOK, [Next]_vars
               PROVE  BalanceOK'
    OBVIOUS
  <1>1. CASE Classify
    BY <1>1, ClassifyBalanceOK
  <1>2. ASSUME NEW p \in Pods, Skip(p) PROVE BalanceOK'
    BY <1>2, SameBalanceOK DEF Skip, Entries
  <1>3. CASE \E p \in Pods, to \in Nodes : Move(p, to)
    BY <1>3, MoveBalanceOK
  <1>4. CASE SortPlan
    BY <1>4, SameBalanceOK, SameEntries DEF SortPlan
  <1>5. CASE Replan
    BY <1>5 DEF Replan, BalanceOK, PartsHelp, PeakStays
  <1>6. CASE UNCHANGED vars
    BY <1>6, SameBalanceOK DEF vars, Entries
  <1> QED
    BY <1>1, <1>2, <1>3, <1>4, <1>5, <1>6 DEF Next

LEMMA BalanceInvariant ==
  ASSUME WeightsGiven, CPUReported
  PROVE  Spec => [](GreedyOK /\ TypesOK /\ MovesMatch /\ BalanceOK)
  <1>1. Init => BalanceOK
    BY DEF Init, BalanceOK, PartsHelp, PeakStays
  <1> QED
    BY <1>1, MovesInvariant, NextBalanceOK, PTL DEF Spec

(***************************************************************************)
(* For any number of nodes that are alike, any requests and any order: a   *)
(* part of the plan that the budgets, the sort by score and failed         *)
(* evictions let through, whichever it is, lowers the variance.  What      *)
(* greedyPlan tested was each entry on top of all the ones before it.      *)
(***************************************************************************)
THEOREM PartsLowerVariance ==
  ASSUME WeightsGiven, CPUReported
  PROVE  Spec => []EveryPartHelps
  <1>1. BalanceOK => EveryPartHelps
    BY DEF BalanceOK, PartsHelp, EveryPartHelps
  <1> QED
    BY <1>1, BalanceInvariant, PTL

(***************************************************************************)
(* For any number of nodes that are alike no part of a plan makes a node   *)
(* more loaded than the most loaded one was, though greedyPlan tests the   *)
(* variance only and never the node it fills.                              *)
(***************************************************************************)
THEOREM PartsKeepPeak ==
  ASSUME WeightsGiven, CPUReported
  PROVE  Spec => []PeakNeverRises
  <1>1. GreedyOK /\ TypesOK /\ MovesMatch /\ BalanceOK => PeakNeverRises
    <2> SUFFICES ASSUME GreedyOK, TypesOK, MovesMatch, BalanceOK, pc = "planned", Homogeneous,
                        NEW part \in SUBSET Entries, NEW n \in Nodes
                 PROVE  \E m \in Nodes : OutcomeUtil(part)[n] <= weighted[m]
      BY DEF PeakNeverRises
    <2>1. /\ setting \in Settings /\ measured \in [Nodes -> Resources]
          /\ Moves(Entries) /\ Alike(Entries)
      BY MeasuredType, EntriesMoves, HomogeneousIsAlike DEF GreedyOK, BandsOK
    <2>2. {} \subseteq part
      OBVIOUS
    <2>3. Moves(part) /\ Alike(part) /\ Moves({}) /\ Alike({})
      BY <2>1, <2>2, MovesParts, AlikeParts
    <2>4. weighted = OutcomeUtil({})
      BY DEF MovesMatch
    <2>5. CASE n \in hot
      BY <2>1, <2>2, <2>3, <2>4, <2>5, FewerMoves
    <2>6. CASE n \notin hot
      <3>1. PICK m \in Nodes : OutcomeUtil(Entries)[n] <= weighted[m]
        BY DEF BalanceOK, PeakStays
      <3>2. OutcomeUtil(part)[n] <= OutcomeUtil(Entries)[n]
        BY <2>1, <2>6, FewerMoves
      <3>3. OutcomeUtil(part)[n] \in Nat /\ OutcomeUtil(Entries)[n] \in Nat /\ weighted[m] \in Nat
        BY <2>1, <2>3, <2>4, OutcomeIsLinear
      <3> QED
        BY <3>1, <3>2, <3>3
    <2> QED
      BY <2>5, <2>6
  <1> QED
    BY <1>1, BalanceInvariant, PTL

-------------------------------------------------------------------------------
(***************************************************************************)
(* What is passed over.                                                    *)
(***************************************************************************)
\* A finite set has a smallest member, by one measure and then by another.
LEMMA SmallestByTwo ==
  ASSUME NEW S, IsFiniteSet(S), S # {}, NEW f, NEW g, \A x \in S : f[x] \in Int /\ g[x] \in Int
  PROVE  \E m \in S : \A y \in S : f[m] < f[y] \/ (f[m] = f[y] /\ g[m] <= g[y])
  <1> DEFINE Below(x, y) == f[x] < f[y] \/ (f[x] = f[y] /\ g[x] <= g[y])
             Bad == {s \in SUBSET S : s # {} /\ ~\E m \in s : \A y \in s : Below(m, y)}
  <1> SUFFICES ASSUME Bad # {} PROVE FALSE
    OBVIOUS
  <1>1. Bad \subseteq SUBSET S
    OBVIOUS
  <1>2. \A x, y \in S : Below(x, y) \/ Below(y, x)
    OBVIOUS
  <1>3. \A x, y, z \in S : Below(x, y) /\ Below(y, z) => Below(x, z)
    OBVIOUS
  <1> HIDE DEF Bad, Below
  <1>4. PICK s \in Bad : \A t \in Bad : t \subseteq s => t = s
    BY <1>1, SmallestSubset
  <1>5. s \in SUBSET S /\ s # {} /\ ~\E m \in s : \A y \in s : Below(m, y)
    BY DEF Bad
  <1>6. PICK x : x \in s
    BY <1>5
  <1>7. s \ {x} \notin Bad
    BY <1>4, <1>6
  <1>8. CASE s \ {x} = {}
    BY <1>2, <1>5, <1>6, <1>8
  <1>9. CASE s \ {x} # {}
    <2>1. PICK m \in s \ {x} : \A y \in s \ {x} : Below(m, y)
      BY <1>5, <1>7, <1>9 DEF Bad
    <2>2. CASE Below(m, x)
      BY <1>5, <1>6, <2>1, <2>2
    <2>3. CASE Below(x, m)
      <3>1. ASSUME NEW y \in s PROVE Below(x, y)
        BY <1>2, <1>3, <1>5, <1>6, <2>1, <2>3
      <3> QED
        BY <1>5, <1>6, <3>1
    <2> QED
      BY <1>2, <1>5, <1>6, <2>1, <2>2, <2>3
  <1> QED
    BY <1>8, <1>9

\* Where one cold node survives the tests, one is the best
\* (evaluateCandidate's loop keeps it).
LEMMA BestExists ==
  ASSUME GreedyOK, TypesOK, NEW p \in todo, Survivors(p) # {}
  PROVE  Best(p) # {}
  <1> DEFINE S == Survivors(p)
             f == [n \in Nodes |-> Variance(SimulatedUtil(p, n))]
  <1>1. S \subseteq cold /\ S \subseteq Nodes /\ IsFiniteSet(S)
    <2>1. S \subseteq cold /\ cold \subseteq Nodes
      BY DEF Survivors, GreedyOK, BandsOK
    <2> QED
      BY <2>1, ClusterAssumption, FS_Subset
  <1>2. \A n \in S : f[n] = Variance(SimulatedUtil(p, n))
    BY <1>1
  <1> HIDE DEF f, S
  <1>3. ASSUME NEW n \in S PROVE f[n] \in Int /\ weighted[n] \in Int
    <2>1. n \in cold /\ n \in Nodes
      BY <1>1
    <2>2. p \in Pods /\ n \in Nodes \ hot /\ n # NodeOf[p]
      BY <2>1, TwoEnds
    <2>3. Variance(SimulatedUtil(p, n)) \in Nat
      BY <2>2, DeltaType
    <2>4. weighted \in [Nodes -> Nat]
      BY DEF TypesOK, TypeOK
    <2>5. f[n] \in Nat /\ weighted[n] \in Nat
      BY <1>2, <2>1, <2>3, <2>4
    <2> QED
      BY <2>5
  <1>4. PICK m \in S : \A y \in S : f[m] < f[y] \/ (f[m] = f[y] /\ weighted[m] <= weighted[y])
    <2>1. S # {}
      BY DEF S
    <2> QED
      BY <1>1, <1>3, <2>1, SmallestByTwo
  <1>5. m \in Best(p)
    BY <1>2, <1>4 DEF Best, S
  <1> QED
    BY <1>5

\* A skipped candidate.
LEMMA SkippedHadNoMove ==
  ASSUME WeightsGiven, CPUReported, GreedyOK, TypesOK, MovesMatch, NEW p \in Pods, Skip(p),
         Computable(NodeOf[p]), NEW to \in cold \cap CanSchedule(p), Computable(to)
  PROVE  LET gain == variance - Variance(OutcomeUtil(Entries \cup {[pod |-> p, to |-> to, score |-> 0]}))
         IN IF NodeClassPreference = {} \/ HasPreferredClass(to) THEN gain <= 0 ELSE gain <= ClassBias
  <1> DEFINE e == [pod |-> p, to |-> to, score |-> 0]
             v == Variance(SimulatedUtil(p, to))
  <1>1. /\ p \in todo /\ pc # "measured" /\ to \in cold
        /\ \A n \in Best(p) : Variance(SimulatedUtil(p, n)) >= variance
    BY DEF Skip, IsNext
  <1>2. e.pod = p /\ e.to = to
    OBVIOUS
  <1> HIDE DEF e
  <1>3. v = Variance(OutcomeUtil(Entries \cup {e}))
    BY <1>1, <1>2, SimulationIsOutcome
  <1>4. \A n \in cold : Variance(SimulatedUtil(p, n)) \in Nat
    BY <1>1, TwoEnds, DeltaType
  <1>5. v \in Nat /\ variance \in Nat /\ ClassBias \in Nat
    BY <1>1, <1>4, ClusterAssumption DEF TypesOK, TypeOK
  <1>6. CASE Delta(p, to) < 0
    <2>1. to \in Survivors(p)
      BY <1>6 DEF Survivors
    <2>2. PICK n \in Best(p) : TRUE
      BY <1>1, <2>1, BestExists
    <2>3. n \in cold /\ (Variance(SimulatedUtil(p, n)) < v \/ Variance(SimulatedUtil(p, n)) = v)
      BY <2>1, <2>2 DEF Best, Survivors
    <2>4. Variance(SimulatedUtil(p, n)) >= variance /\ Variance(SimulatedUtil(p, n)) \in Nat
      BY <1>1, <1>4, <2>2, <2>3
    <2> HIDE DEF v
    <2>5. variance - v <= 0
      BY <1>5, <2>3, <2>4
    <2> QED
      BY <1>3, <1>5, <2>5 DEF e
  <1>7. CASE ~(Delta(p, to) < 0)
    <2> DEFINE bias == IF NodeClassPreference = {} THEN 0
                       ELSE IF HasPreferredClass(to) THEN -ClassBias ELSE ClassBias
    <2>1. Delta(p, to) = v - variance + bias
      BY DEF Delta
    <2> HIDE DEF v
    <2>2. bias \in Int /\ (IF NodeClassPreference = {} \/ HasPreferredClass(to) THEN bias <= 0 ELSE bias <= ClassBias)
      BY <1>5
    <2> HIDE DEF bias
    <2>3. variance - v <= bias
      BY <1>5, <1>7, <2>1, <2>2
    <2>4. IF NodeClassPreference = {} \/ HasPreferredClass(to) THEN variance - v <= 0 ELSE variance - v <= ClassBias
      BY <1>5, <2>2, <2>3
    <2> QED
      BY <1>3, <2>4 DEF e
  <1> QED
    BY <1>6, <1>7

(***************************************************************************)
(* For any cluster that reports its CPU and any policy with weights:       *)
(* greedyPlan passes over a candidate only when no node it could move to   *)
(* would lower the variance of the plan so far, by more than the class     *)
(* bias of evaluateCandidate; the best of several is never lost to a tie   *)
(* or to the order of the cold nodes.                                      *)
(***************************************************************************)
THEOREM NoMoveIsMissed ==
  ASSUME WeightsGiven, CPUReported
  PROVE  Spec => NothingMissed
  <1> DEFINE None ==
        pc = "planning" /\ pc' = "planning" /\ plan' = plan =>
          \A p \in {q \in todo \ todo' : Computable(NodeOf[q])} :
          \A to \in {n \in cold \cap CanSchedule(p) : Computable(n)} :
            LET gain == variance - Variance(OutcomeUtil(Entries \cup {[pod |-> p, to |-> to, score |-> 0]}))
            IN IF NodeClassPreference = {} \/ HasPreferredClass(to)
               THEN gain <= 0
               ELSE gain <= ClassBias
  <1>1. GreedyOK /\ TypesOK /\ MovesMatch /\ [Next]_vars => [None]_vars
    <2> SUFFICES ASSUME GreedyOK, TypesOK, MovesMatch, Next,
                        pc = "planning", pc' = "planning", plan' = plan,
                        NEW p \in todo \ todo', Computable(NodeOf[p]),
                        NEW to \in cold \cap CanSchedule(p), Computable(to)
                 PROVE  LET gain == variance - Variance(OutcomeUtil(Entries \cup {[pod |-> p, to |-> to, score |-> 0]}))
                        IN IF NodeClassPreference = {} \/ HasPreferredClass(to)
                           THEN gain <= 0
                           ELSE gain <= ClassBias
      OBVIOUS
    <2>1. ASSUME NEW q \in Pods, NEW n \in Nodes, Move(q, n) PROVE FALSE
      <3>1. plan' = Append(plan, [pod |-> q, to |-> n, score |-> Delta(q, n)])
        BY <2>1 DEF Move
      <3>2. PICK S : plan \in Seq(S)
        BY DEF GreedyOK, EntriesOK
      <3>3. Len(plan') = Len(plan) + 1 /\ Len(plan) \in Nat
        BY <3>1, <3>2
      <3> QED
        BY <3>3
    <2>2. ~Classify /\ ~SortPlan /\ ~Replan
      BY DEF Classify, SortPlan, Replan
    <2>3. PICK q \in Pods : Skip(q)
      BY <2>1, <2>2 DEF Next
    <2>4. q = p
      BY <2>3 DEF Skip
    <2> QED
      BY <2>3, <2>4, SkippedHadNoMove
  <1> QED
    BY <1>1, MovesInvariant, PTL DEF Spec, NothingMissed

-------------------------------------------------------------------------------
(***************************************************************************)
(* However wide the two bands of classifyNodes are, however they overlap   *)
(* and whatever the sort of greedyPlan does to the order, a plan only      *)
(* takes pods from hotter nodes to cooler ones, no node is both drained    *)
(* and filled, and no pod is planned twice.                                *)
(***************************************************************************)
THEOREM PlansGoHotToCold == Spec => []HotToCold
  <1>1. GreedyOK => HotToCold
    <2> SUFFICES ASSUME GreedyOK, NEW i \in 1..Len(plan), NEW j \in 1..Len(plan)
                 PROVE  /\ NodeOf[plan[i].pod] # plan[j].to
                        /\ weighted[plan[j].to] < weighted[NodeOf[plan[i].pod]]
                        /\ i # j => plan[i].pod # plan[j].pod
      BY DEF HotToCold
    <2> DEFINE from == NodeOf[plan[i].pod]
               to == plan[j].to
    <2>1. from \in hot /\ to \in cold
      BY DEF GreedyOK, EntriesOK, EntryOK
    <2>2. i # j => plan[i].pod # plan[j].pod
      BY DEF GreedyOK, EntriesOK
    <2> HIDE DEF from, to
    <2>3. weighted[from] \in Int /\ weighted[to] \in Int
      BY <2>1 DEF GreedyOK, BandsOK
    <2>4. HotThreshold \in Int /\ Hysteresis \in Int
      BY SettingsAssumption DEF GreedyOK, BandsOK, HotThreshold, Hysteresis
    <2>5. IsHot(weighted[from]) /\ ~IsHot(weighted[to])
      BY <2>1 DEF GreedyOK, BandsOK
    <2>6. weighted[to] < weighted[from]
      BY <2>3, <2>4, <2>5 DEF IsHot
    <2>7. from # to
      BY <2>3, <2>6
    <2> QED
      BY <2>2, <2>6, <2>7 DEF from, to
  <1> QED
    BY <1>1, GreedyInvariant, PTL
=============================================================================
