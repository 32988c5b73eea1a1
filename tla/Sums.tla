--------------------------------- MODULE Sums ---------------------------------
(***************************************************************************)
(* Facts about least elements, and about the sums that the models of the   *)
(* shelves are stated with: `SumFunctionOnSet(f, S)` of module Functions,  *)
(* the sum of f[x] over the elements x of a finite set S.  The operator is *)
(* a recursive function on the subsets of S.  The proofs go by the smallest*)
(* subset that is an exception, which exists because strict inclusion      *)
(* between finite sets is well founded.                                    *)
(***************************************************************************)
EXTENDS Functions, FiniteSets, FiniteSetTheorems, TLAPS

\* A nonempty family of subsets of a finite set has a minimal member.
LEMMA MinimalSubset ==
    ASSUME NEW S, IsFiniteSet(S), NEW F \in SUBSET (SUBSET S), F # {}
    PROVE  \E T \in F : \A U \in F : U \subseteq T => U = T
<1>1. IsWellFoundedOn(StrictSubsetOrdering(S), SUBSET S)
  BY FS_StrictSubsetOrderingWellFounded, FS_FiniteSubsetsOfFinite
<1>2. PICK T \in F : \A U \in F : <<U, T>> \notin StrictSubsetOrdering(S)
  BY <1>1, WFMin
<1>3. \A U \in F : U \subseteq T => U = T
  BY <1>2 DEF StrictSubsetOrdering
<1> QED  BY <1>3

\* A set of numbers up to n has a least one.
LEMMA LeastNumber ==
  ASSUME NEW n \in Nat, NEW D \in SUBSET (0..n), D # {}
  PROVE  \E i \in D : \A j \in D : i <= j
<1> DEFINE Bad == {0..i : i \in D}
<1>1. \A i, j \in Nat : j < i => (0..j) \subseteq (0..i) /\ (0..j) # (0..i)
  OBVIOUS
<1>2. /\ \A T \in Bad : T \in SUBSET (0..n)
      /\ Bad # {}
  <2>1. \A i \in D : (0..i) \in SUBSET (0..n)
    OBVIOUS
  <2> QED
    BY <2>1
<1> HIDE DEF Bad
<1>a. Bad \in SUBSET (SUBSET (0..n))
  BY <1>2
<1>3. IsFiniteSet(0..n)
  BY FS_Interval
<1>4. PICK T \in Bad : \A U \in Bad : U \subseteq T => U = T
  <2> DEFINE N == 0..n
  <2>1. Bad \in SUBSET (SUBSET N) /\ IsFiniteSet(N) /\ Bad # {}
    BY <1>2, <1>a, <1>3
  <2> HIDE DEF N
  <2>2. \E T \in Bad : \A U \in Bad : U \subseteq T => U = T
    BY <2>1, MinimalSubset
  <2> QED
    BY <2>2
<1>5. PICK i \in D : T = 0..i
  BY <1>4 DEF Bad
<1>6. \A j \in D : i <= j
  <2> SUFFICES ASSUME NEW j \in D, j < i PROVE FALSE
    OBVIOUS
  <2>1. (0..j) \in Bad
    BY DEF Bad
  <2> QED
    BY <1>1, <1>4, <1>5, <2>1
<1> QED
  BY <1>6

\* And so has every set of natural numbers.
LEMMA LeastNatural ==
  ASSUME NEW D \in SUBSET Nat, D # {}
  PROVE  \E i \in D : \A j \in D : i <= j
<1>1. PICK n \in D : TRUE
  OBVIOUS
<1>2. PICK i \in D \cap (0..n) : \A j \in D \cap (0..n) : i <= j
  <2> DEFINE E == D \cap (0..n)
  <2>1. n \in Nat /\ E \in SUBSET (0..n) /\ E # {}
    OBVIOUS
  <2> HIDE DEF E
  <2>2. \E i \in E : \A j \in E : i <= j
    BY <2>1, LeastNumber
  <2> QED
    BY <2>2 DEF E
<1> QED
  BY <1>2

------------------------------------------------------------------------------
(* The recursion behind the sum has exactly one solution.                  *)

\* The element that the fold takes first.
First(s) == CHOOSE x \in s : TRUE

\* One unfolding of the recursion: the sum over s from the sums g.
Unfolded(f, g, s) == IF s = {} THEN 0 ELSE f[First(s)] + g[s \ {First(s)}]

Solves(f, g, S) == g = [s \in SUBSET S |-> Unfolded(f, g, s)]

Solution(f, S) == CHOOSE g : Solves(f, g, S)

\* The first element of a nonempty set is one of its elements.
LEMMA FirstInSet == ASSUME NEW s, s # {}  PROVE First(s) \in s
BY DEF First

\* The library's operator is the solution's value at the whole set.
LEMMA SumIsSolution ==
    ASSUME NEW f, NEW S  PROVE SumFunctionOnSet(f, S) = Solution(f, S)[S]
BY DEF SumFunctionOnSet, FoldFunctionOnSet, MapThenFoldSet, Solution, Solves,
       Unfolded, First

\* Two solutions agree wherever both are defined.
LEMMA SolutionsAgree ==
    ASSUME NEW f, NEW S, NEW T, NEW g, NEW h, Solves(f, g, S), Solves(f, h, T),
           NEW U, IsFiniteSet(U), U \subseteq S, U \subseteq T
    PROVE  g[U] = h[U]
<1> DEFINE Bad == {s \in SUBSET U : g[s] # h[s]}
<1>1. SUFFICES ASSUME Bad # {} PROVE FALSE
  OBVIOUS
<1>2. PICK s \in Bad : \A u \in Bad : u \subseteq s => u = s
  <2>1. Bad \in SUBSET (SUBSET U)
    OBVIOUS
  <2> HIDE DEF Bad
  <2> QED  BY <1>1, <2>1, MinimalSubset
<1>3. g[s] = Unfolded(f, g, s) /\ h[s] = Unfolded(f, h, s)
  BY DEF Solves
<1>4. s # {}
  BY <1>2, <1>3 DEF Unfolded
<1> DEFINE u == s \ {First(s)}
<1>5. u \subseteq s /\ u # s /\ u \in SUBSET U
  BY <1>4, FirstInSet
<1>6. g[u] = h[u]
  BY <1>2, <1>5
<1> QED  BY <1>2, <1>3, <1>4, <1>6 DEF Unfolded

\* Every finite set has a solution.
LEMMA SolutionExists ==
    ASSUME NEW f, NEW S, IsFiniteSet(S)
    PROVE  \E g : Solves(f, g, S)
<1> DEFINE Bad == {U \in SUBSET S : ~\E g : Solves(f, g, U)}
<1>1. SUFFICES ASSUME Bad # {} PROVE FALSE
  OBVIOUS
<1>2. PICK U \in Bad : \A V \in Bad : V \subseteq U => V = U
  <2>1. Bad \in SUBSET (SUBSET S)
    OBVIOUS
  <2> HIDE DEF Bad
  <2> QED  BY <1>1, <2>1, MinimalSubset
<1> DEFINE k(s) == s \ {First(s)}
<1> DEFINE val(s) == IF s = {} THEN 0 ELSE f[First(s)] + Solution(f, k(s))[k(s)]
<1> DEFINE g == [s \in SUBSET U |-> val(s)]
<1>3. ASSUME NEW v \in SUBSET U, v # U
      PROVE  Solves(f, Solution(f, v), v) /\ val(v) = Solution(f, v)[v]
  <2>1. v \notin Bad /\ v \in SUBSET S
    BY <1>2, <1>3
  <2>2. Solves(f, Solution(f, v), v)
    BY <2>1 DEF Solution
  <2>3. Solution(f, v)[v] = Unfolded(f, Solution(f, v), v)
    BY <2>2 DEF Solves
  <2>4. CASE v = {}
    BY <2>2, <2>3, <2>4 DEF Unfolded
  <2>5. CASE v # {}
    <3>1. k(v) \subseteq v /\ k(v) \in SUBSET S /\ k(v) # U
      BY <2>5, FirstInSet
    <3>2. k(v) \notin Bad
      BY <3>1, <1>2, <2>1
    <3>3. Solves(f, Solution(f, k(v)), k(v))
      BY <3>1, <3>2 DEF Solution
    <3>4. IsFiniteSet(k(v))
      BY <3>1, FS_Subset
    <3>5. Solution(f, v)[k(v)] = Solution(f, k(v))[k(v)]
      BY <2>2, <3>1, <3>3, <3>4, SolutionsAgree
    <3> QED  BY <2>2, <2>3, <2>5, <3>5 DEF Unfolded
  <2> QED  BY <2>4, <2>5
<1>4. ASSUME NEW s \in SUBSET U  PROVE val(s) = Unfolded(f, g, s)
  <2>1. CASE s = {}
    BY <2>1 DEF Unfolded
  <2>2. CASE s # {}
    <3>1. k(s) \in SUBSET U /\ k(s) # U
      BY <2>2, FirstInSet
    <3>2. val(k(s)) = Solution(f, k(s))[k(s)]
      BY <3>1, <1>3
    <3>3. g[k(s)] = val(k(s))
      BY <3>1
    <3> QED  BY <2>2, <3>2, <3>3 DEF Unfolded
  <2> QED  BY <2>1, <2>2
<1>5. g = [s \in SUBSET U |-> Unfolded(f, g, s)]
  BY <1>4
<1>6. Solves(f, g, U)
  BY <1>5 DEF Solves
<1> QED  BY <1>6, <1>2

\* The solution over a subset is the sum over the subset.
LEMMA SolutionIsSum ==
    ASSUME NEW f, NEW S, IsFiniteSet(S), NEW T \in SUBSET S
    PROVE  Solution(f, S)[T] = SumFunctionOnSet(f, T)
<1>1. IsFiniteSet(T)
  BY FS_Subset
<1>2. Solves(f, Solution(f, S), S) /\ Solves(f, Solution(f, T), T)
  BY <1>1, SolutionExists DEF Solution
<1>3. Solution(f, S)[T] = Solution(f, T)[T]
  BY <1>1, <1>2, SolutionsAgree
<1> QED  BY <1>3, SumIsSolution

\* The sum over a set is its first term and the sum over the rest.
LEMMA SumUnfolds ==
    ASSUME NEW f, NEW S, IsFiniteSet(S)
    PROVE  SumFunctionOnSet(f, S) =
              IF S = {} THEN 0
              ELSE f[First(S)] + SumFunctionOnSet(f, S \ {First(S)})
<1>1. Solves(f, Solution(f, S), S)
  BY SolutionExists DEF Solution
<1>2. Solution(f, S)[S] = Unfolded(f, Solution(f, S), S)
  BY <1>1 DEF Solves
<1>3. Solution(f, S)[S \ {First(S)}] = SumFunctionOnSet(f, S \ {First(S)})
  BY SolutionIsSum
<1> QED  BY <1>2, <1>3, SumIsSolution DEF Unfolded

------------------------------------------------------------------------------
(* What the models' proofs cite.                                           *)

\* The empty sum.
LEMMA SumEmpty == ASSUME NEW f  PROVE SumFunctionOnSet(f, {}) = 0
BY SumUnfolds, FS_EmptySet

\* A sum of integers is an integer.
LEMMA SumIsInt ==
    ASSUME NEW S, IsFiniteSet(S), NEW f, \A x \in S : f[x] \in Int
    PROVE  SumFunctionOnSet(f, S) \in Int
<1> DEFINE Bad == {T \in SUBSET S : SumFunctionOnSet(f, T) \notin Int}
<1>1. SUFFICES ASSUME Bad # {} PROVE FALSE
  OBVIOUS
<1>2. PICK T \in Bad : \A U \in Bad : U \subseteq T => U = T
  <2>1. Bad \in SUBSET (SUBSET S)
    OBVIOUS
  <2> HIDE DEF Bad
  <2> QED  BY <1>1, <2>1, MinimalSubset
<1>3. IsFiniteSet(T)
  BY FS_Subset
<1>4. T # {}
  BY SumEmpty
<1> DEFINE c == First(T)
<1>5. c \in T /\ T \ {c} \subseteq T /\ T \ {c} # T
  BY <1>4, FirstInSet
<1>6. SumFunctionOnSet(f, T \ {c}) \in Int
  BY <1>2, <1>5
<1>7. SumFunctionOnSet(f, T) = f[c] + SumFunctionOnSet(f, T \ {c})
  BY <1>3, <1>4, SumUnfolds
<1> QED  BY <1>2, <1>5, <1>6, <1>7

\* Any element may be taken out of the sum, not only the first.
LEMMA SumRemove ==
    ASSUME NEW S, IsFiniteSet(S), NEW f, \A x \in S : f[x] \in Int, NEW y \in S
    PROVE  SumFunctionOnSet(f, S) = f[y] + SumFunctionOnSet(f, S \ {y})
<1> DEFINE Sum(T) == SumFunctionOnSet(f, T)
           Bad == {T \in SUBSET S : \E x \in T : Sum(T) # f[x] + Sum(T \ {x})}
<1>1. SUFFICES ASSUME Bad # {} PROVE FALSE
  OBVIOUS
<1>2. PICK T \in Bad : \A U \in Bad : U \subseteq T => U = T
  <2>1. Bad \in SUBSET (SUBSET S)
    OBVIOUS
  <2> HIDE DEF Bad
  <2> QED  BY <1>1, <2>1, MinimalSubset
<1>3. PICK x \in T : Sum(T) # f[x] + Sum(T \ {x})
  BY <1>2
<1>4. \A U \in SUBSET S : IsFiniteSet(U) /\ Sum(U) \in Int
  <2> TAKE U \in SUBSET S
  <2>1. IsFiniteSet(U)
    BY FS_Subset
  <2> QED  BY <2>1, SumIsInt
<1> DEFINE c == First(T)
<1>5. c \in T /\ T \in SUBSET S /\ f[c] \in Int /\ f[x] \in Int
  BY <1>2, <1>3, FirstInSet
<1>6. Sum(T) = f[c] + Sum(T \ {c})
  BY <1>4, <1>5, SumUnfolds
<1>7. c # x
  BY <1>3, <1>6
<1>8. T \ {c} \notin Bad /\ T \ {x} \notin Bad
  BY <1>2, <1>3, <1>5
<1>9. Sum(T \ {c}) = f[x] + Sum((T \ {c}) \ {x})
  BY <1>3, <1>5, <1>7, <1>8
<1>10. Sum(T \ {x}) = f[c] + Sum((T \ {x}) \ {c})
  BY <1>3, <1>5, <1>7, <1>8
<1>11. (T \ {x}) \ {c} = (T \ {c}) \ {x}
  OBVIOUS
<1>12. Sum((T \ {c}) \ {x}) \in Int
  BY <1>4, <1>5
<1>13. Sum(T) = f[c] + (f[x] + Sum((T \ {c}) \ {x}))
  BY <1>6, <1>9
<1>14. Sum(T \ {x}) = f[c] + Sum((T \ {c}) \ {x})
  BY <1>10, <1>11
<1> DEFINE r == Sum((T \ {c}) \ {x})
<1>15. f[c] + (f[x] + r) = f[x] + (f[c] + r)
  <2>1. r \in Int /\ f[c] \in Int /\ f[x] \in Int
    BY <1>5, <1>12
  <2> HIDE DEF r, c
  <2> QED  BY <2>1
<1> QED  BY <1>3, <1>13, <1>14, <1>15

\* Pointwise order carries over to the sums.
LEMMA SumMonotone ==
    ASSUME NEW S, IsFiniteSet(S), NEW f, NEW g,
           \A x \in S : f[x] \in Int /\ g[x] \in Int /\ f[x] <= g[x]
    PROVE  SumFunctionOnSet(f, S) <= SumFunctionOnSet(g, S)
<1> DEFINE F(T) == SumFunctionOnSet(f, T)
           G(T) == SumFunctionOnSet(g, T)
           Bad == {T \in SUBSET S : ~(F(T) <= G(T))}
<1>1. SUFFICES ASSUME Bad # {} PROVE FALSE
  OBVIOUS
<1>2. PICK T \in Bad : \A U \in Bad : U \subseteq T => U = T
  <2>1. Bad \in SUBSET (SUBSET S)
    OBVIOUS
  <2> HIDE DEF Bad
  <2> QED  BY <1>1, <2>1, MinimalSubset
<1>3. \A U \in SUBSET S : IsFiniteSet(U) /\ F(U) \in Int /\ G(U) \in Int
  <2> TAKE U \in SUBSET S
  <2>1. IsFiniteSet(U)
    BY FS_Subset
  <2> QED  BY <2>1, SumIsInt
<1>4. T # {}
  BY SumEmpty
<1> DEFINE c == First(T)
<1>5. c \in T /\ T \in SUBSET S
  BY <1>2, <1>4, FirstInSet
<1>6. F(T) = f[c] + F(T \ {c}) /\ G(T) = g[c] + G(T \ {c})
  BY <1>3, <1>4, <1>5, SumUnfolds
<1>7. F(T \ {c}) <= G(T \ {c})
  BY <1>2, <1>5
<1>8. F(T \ {c}) \in Int /\ G(T \ {c}) \in Int /\ f[c] \in Int /\ g[c] \in Int /\ f[c] <= g[c]
  BY <1>3, <1>5
<1>9. ~(F(T) <= G(T))
  BY <1>2
<1> HIDE DEF F, G, c
<1> QED  BY <1>6, <1>7, <1>8, <1>9

\* Functions that agree on the set have the same sum.
LEMMA SumEqual ==
    ASSUME NEW S, IsFiniteSet(S), NEW f, NEW g,
           \A x \in S : f[x] \in Int /\ g[x] = f[x]
    PROVE  SumFunctionOnSet(f, S) = SumFunctionOnSet(g, S)
<1>1. SumFunctionOnSet(f, S) \in Int /\ SumFunctionOnSet(g, S) \in Int
  BY SumIsInt
<1>2. SumFunctionOnSet(f, S) <= SumFunctionOnSet(g, S)
  BY SumMonotone
<1>3. SumFunctionOnSet(g, S) <= SumFunctionOnSet(f, S)
  BY SumMonotone
<1> QED  BY <1>1, <1>2, <1>3

\* When one term changes the sum changes by as much.
LEMMA SumChange ==
    ASSUME NEW S, IsFiniteSet(S), NEW f, NEW g, NEW y \in S, g[y] \in Int,
           \A x \in S : f[x] \in Int /\ (x # y => g[x] = f[x])
    PROVE  SumFunctionOnSet(g, S) = SumFunctionOnSet(f, S) + g[y] - f[y]
<1>1. SumFunctionOnSet(f, S) = f[y] + SumFunctionOnSet(f, S \ {y})
  BY SumRemove
<1>2. SumFunctionOnSet(g, S) = g[y] + SumFunctionOnSet(g, S \ {y})
  BY SumRemove
<1>3. IsFiniteSet(S \ {y})
  BY FS_Subset
<1>4. SumFunctionOnSet(f, S \ {y}) = SumFunctionOnSet(g, S \ {y})
  BY <1>3, SumEqual
<1>5. SumFunctionOnSet(f, S \ {y}) \in Int
  BY <1>3, SumIsInt
<1> QED  BY <1>1, <1>2, <1>4, <1>5

\* A sum of zeros is zero.
LEMMA SumZero ==
    ASSUME NEW S, IsFiniteSet(S), NEW f, \A x \in S : f[x] = 0
    PROVE  SumFunctionOnSet(f, S) = 0
<1> DEFINE Bad == {T \in SUBSET S : SumFunctionOnSet(f, T) # 0}
<1>1. SUFFICES ASSUME Bad # {} PROVE FALSE
  OBVIOUS
<1>2. PICK T \in Bad : \A U \in Bad : U \subseteq T => U = T
  <2>1. Bad \in SUBSET (SUBSET S)
    OBVIOUS
  <2> HIDE DEF Bad
  <2> QED  BY <1>1, <2>1, MinimalSubset
<1>3. IsFiniteSet(T) /\ T # {}
  BY FS_Subset, SumEmpty
<1>4. First(T) \in T
  BY <1>3, FirstInSet
<1>5. SumFunctionOnSet(f, T \ {First(T)}) = 0
  BY <1>2, <1>4
<1>6. SumFunctionOnSet(f, T) = f[First(T)] + SumFunctionOnSet(f, T \ {First(T)})
  BY <1>3, SumUnfolds
<1> QED  BY <1>2, <1>4, <1>5, <1>6

\* A sum of naturals is a natural, at least as large as each of its terms.
LEMMA SumIsNat ==
    ASSUME NEW S, IsFiniteSet(S), NEW f, \A x \in S : f[x] \in Nat
    PROVE  /\ SumFunctionOnSet(f, S) \in Nat
           /\ \A y \in S : f[y] <= SumFunctionOnSet(f, S)
<1> DEFINE none == [x \in S |-> 0]
<1>1. \A T \in SUBSET S : SumFunctionOnSet(f, T) \in Nat
  <2> TAKE T \in SUBSET S
  <2>1. IsFiniteSet(T)
    BY FS_Subset
  <2>2. SumFunctionOnSet(f, T) \in Int
    BY <2>1, SumIsInt
  <2>3. SumFunctionOnSet(none, T) = 0
    BY <2>1, SumZero
  <2>4. SumFunctionOnSet(none, T) <= SumFunctionOnSet(f, T)
    BY <2>1, SumMonotone
  <2> QED  BY <2>2, <2>3, <2>4
<1>2. ASSUME NEW y \in S  PROVE f[y] <= SumFunctionOnSet(f, S)
  <2>1. SumFunctionOnSet(f, S) = f[y] + SumFunctionOnSet(f, S \ {y})
    BY SumRemove
  <2> QED  BY <1>1, <2>1
<1> QED  BY <1>1, <1>2

\* The sum over one element is its term.
LEMMA SumSingle ==
    ASSUME NEW f, NEW y, f[y] \in Int
    PROVE  SumFunctionOnSet(f, {y}) = f[y]
<1>1. SumFunctionOnSet(f, {y}) = f[y] + SumFunctionOnSet(f, {y} \ {y})
  BY FS_Singleton, SumRemove
<1>2. {y} \ {y} = {}
  OBVIOUS
<1> QED  BY <1>1, <1>2, SumEmpty

\* A sum can be taken class by class: what has no class adds nothing.
LEMMA SumPartition ==
    ASSUME NEW S, IsFiniteSet(S), NEW T, IsFiniteSet(T), NEW f, NEW class,
           \A x \in S : f[x] \in Int,
           \A x \in S : class[x] \notin T => f[x] = 0
    PROVE  SumFunctionOnSet(f, S) =
              SumFunctionOnSet(
                  [t \in T |-> SumFunctionOnSet(f, {x \in S : class[x] = t})], T)
<1> DEFINE Of(U, t) == {x \in U : class[x] = t}
           by(U) == [t \in T |-> SumFunctionOnSet(f, Of(U, t))]
           Bad == {U \in SUBSET S :
                     SumFunctionOnSet(f, U) # SumFunctionOnSet(by(U), T)}
<1>1. SUFFICES ASSUME Bad # {} PROVE FALSE
  OBVIOUS
<1>2. PICK U \in Bad : \A V \in Bad : V \subseteq U => V = U
  <2>1. Bad \in SUBSET (SUBSET S)
    OBVIOUS
  <2> HIDE DEF Bad
  <2> QED  BY <1>1, <2>1, MinimalSubset
<1>3. ASSUME NEW V \in SUBSET S
      PROVE  /\ IsFiniteSet(V) /\ SumFunctionOnSet(f, V) \in Int
             /\ \A t \in T : by(V)[t] = SumFunctionOnSet(f, Of(V, t))
             /\ \A t : IsFiniteSet(Of(V, t)) /\ SumFunctionOnSet(f, Of(V, t)) \in Int
  <2>1. \A W \in SUBSET S : IsFiniteSet(W)
    BY FS_Subset
  <2>2. ASSUME NEW W \in SUBSET S PROVE SumFunctionOnSet(f, W) \in Int
    <3>1. \A x \in W : f[x] \in Int
      OBVIOUS
    <3> QED  BY <2>1, <3>1, SumIsInt
  <2>3. \A t : Of(V, t) \in SUBSET S
    OBVIOUS
  <2> HIDE DEF Of
  <2> QED  BY <2>1, <2>2, <2>3
<1>4. U # {}
  <2>1. \A t \in T : by({})[t] = 0
    <3>1. \A t : Of({}, t) = {}
      OBVIOUS
    <3> HIDE DEF Of
    <3> QED  BY <3>1, SumEmpty
  <2> DEFINE g == by({})
  <2>2. \A t \in T : g[t] = 0
    BY <2>1
  <2> HIDE DEF g
  <2>3. SumFunctionOnSet(g, T) = 0
    BY <2>2, SumZero
  <2> QED  BY <2>3, SumEmpty DEF g
<1>5. PICK x \in U : TRUE
  BY <1>4
<1> DEFINE V == U \ {x}
<1>6. SumFunctionOnSet(f, V) = SumFunctionOnSet(by(V), T)
  <2>1. V \in SUBSET S /\ V \subseteq U /\ V # U
    BY <1>2, <1>5
  <2> HIDE DEF V, by
  <2> QED  BY <1>2, <2>1
<1>7. SumFunctionOnSet(f, U) = f[x] + SumFunctionOnSet(f, V)
  <2>1. IsFiniteSet(U) /\ \A y \in U : f[y] \in Int
    BY <1>2, <1>3
  <2> QED  BY <1>5, <2>1, SumRemove
<1>8. \A t : t # class[x] => Of(V, t) = Of(U, t)
  OBVIOUS
<1>9. /\ \A t \in T : by(U)[t] \in Int /\ by(V)[t] \in Int
      /\ \A t \in T : t # class[x] => by(U)[t] = by(V)[t]
  <2>1. U \in SUBSET S /\ V \in SUBSET S
    BY <1>2
  <2> HIDE DEF V, Of, Bad
  <2> QED  BY <1>3, <1>8, <2>1
<1> DEFINE g == by(U)
           h == by(V)
<1>10. /\ \A t \in T : g[t] \in Int /\ h[t] \in Int
       /\ \A t \in T : t # class[x] => g[t] = h[t]
  BY <1>9
<1>11. SumFunctionOnSet(h, T) \in Int
  <2> HIDE DEF g, h
  <2> QED  BY <1>10, SumIsInt
<1>12. CASE class[x] \notin T
  <2>1. f[x] = 0
    BY <1>2, <1>5, <1>12
  <2>2. SumFunctionOnSet(g, T) = SumFunctionOnSet(h, T)
    <3>1. \A t \in T : h[t] \in Int /\ g[t] = h[t]
      BY <1>10, <1>12
    <3> HIDE DEF g, h
    <3> QED  BY <3>1, SumEqual
  <2> HIDE DEF by, V
  <2> QED  BY <1>2, <1>6, <1>7, <1>11, <2>1, <2>2
<1>13. CASE class[x] \in T
  <2> DEFINE c == class[x]
  <2>1. g[c] = f[x] + h[c]
    <3> DEFINE W == Of(U, c)
    <3>1. W \in SUBSET S /\ x \in W /\ Of(V, c) = W \ {x}
      BY <1>2, <1>5
    <3>2. IsFiniteSet(W) /\ \A y \in W : f[y] \in Int
      BY <1>2, <1>3
    <3> HIDE DEF W
    <3>3. SumFunctionOnSet(f, W) = f[x] + SumFunctionOnSet(f, W \ {x})
      BY <3>1, <3>2, SumRemove
    <3> QED  BY <1>13, <3>1, <3>3 DEF W
  <2>2. f[x] \in Int /\ h[c] \in Int
    BY <1>2, <1>5, <1>10, <1>13
  <2>3. c \in T
    BY <1>13
  <2>4. SumFunctionOnSet(g, T) = SumFunctionOnSet(h, T) + g[c] - h[c]
    <3>1. /\ g[c] \in Int
          /\ \A t \in T : h[t] \in Int /\ (t # c => g[t] = h[t])
      BY <1>10, <2>3
    <3> HIDE DEF g, h, c
    <3> QED  BY <2>3, <3>1, SumChange
  <2>5. SumFunctionOnSet(g, T) = f[x] + SumFunctionOnSet(h, T)
    <3> HIDE DEF g, h, c
    <3> QED  BY <1>11, <2>1, <2>2, <2>4
  <2> HIDE DEF by, V
  <2> QED  BY <1>2, <1>6, <1>7, <2>5
<1> QED  BY <1>12, <1>13

\* The sum of two functions is the sum of their sums.
LEMMA SumPlus ==
    ASSUME NEW S, IsFiniteSet(S), NEW f, NEW g, NEW h,
           \A x \in S : f[x] \in Int /\ g[x] \in Int /\ h[x] = f[x] + g[x]
    PROVE  SumFunctionOnSet(h, S) = SumFunctionOnSet(f, S) + SumFunctionOnSet(g, S)
<1> DEFINE F(T) == SumFunctionOnSet(f, T)
           G(T) == SumFunctionOnSet(g, T)
           H(T) == SumFunctionOnSet(h, T)
           Bad == {T \in SUBSET S : H(T) # F(T) + G(T)}
<1>1. SUFFICES ASSUME Bad # {} PROVE FALSE
  OBVIOUS
<1>2. PICK T \in Bad : \A U \in Bad : U \subseteq T => U = T
  <2>1. Bad \in SUBSET (SUBSET S)
    OBVIOUS
  <2> HIDE DEF Bad
  <2> QED  BY <1>1, <2>1, MinimalSubset
<1>3. T # {}
  <2>1. F({}) = 0 /\ G({}) = 0 /\ H({}) = 0
    BY SumEmpty
  <2>2. H(T) # F(T) + G(T)
    BY <1>2
  <2> HIDE DEF F, G, H
  <2>3. T = {} => H(T) = 0 /\ F(T) = 0 /\ G(T) = 0
    BY <2>1
  <2> QED  BY <2>2, <2>3
<1>4. PICK x \in T : TRUE
  BY <1>3
<1> DEFINE R == T \ {x}
<1>5. H(R) = F(R) + G(R)
  BY <1>2, <1>4
<1>6. IsFiniteSet(T) /\ IsFiniteSet(R) /\ x \in S /\ R \subseteq S
  BY <1>2, <1>4, FS_Subset
<1>7. F(T) = f[x] + F(R) /\ G(T) = g[x] + G(R) /\ H(T) = h[x] + H(R)
  BY <1>2, <1>4, <1>6, SumRemove
<1>8. F(R) \in Int /\ G(R) \in Int
  <2> HIDE DEF R
  <2> QED  BY <1>6, SumIsInt
<1>9. f[x] \in Int /\ g[x] \in Int /\ h[x] = f[x] + g[x]
  BY <1>6
<1> HIDE DEF F, G, H, R
<1> QED  BY <1>2, <1>5, <1>7, <1>8, <1>9
==============================================================================
