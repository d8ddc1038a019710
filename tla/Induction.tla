------------------------------ MODULE Induction ------------------------------
(***************************************************************************)
(* Induction over the natural numbers and over finite sets, as statements  *)
(* about sets: "S contains all numbers" instead of a predicate, which the  *)
(* provers could not instantiate.  From it follows that a definition by    *)
(* recursion has a solution, for functions into a set, for loops and for   *)
(* the sums of Functions.                                                  *)
(***************************************************************************)
EXTENDS Integers, FiniteSets, Functions, FiniteSetTheorems, WellFoundedInduction, TLAPS

\* A set of numbers has a least one: the sets 0 .. (n - 1) are ordered as the numbers n, and
\* the strict subset order of finite sets is well-founded.
LEMMA LeastNatural ==
    ASSUME NEW T \in SUBSET Nat, T # {}
    PROVE  \E n \in T : \A m \in T : n <= m
<1>. DEFINE R == StrictSubsetOrdering(Nat)
            Below == {0 .. (n - 1) : n \in T}
<1>1. IsWellFoundedOn(R, FiniteSubsetsOf(Nat))
  BY FS_StrictSubsetOrderingWellFounded
<1>2. \A n \in Nat : 0 .. (n - 1) \in FiniteSubsetsOf(Nat)
  BY FS_Interval DEF FiniteSubsetsOf
<1>3. Below \subseteq FiniteSubsetsOf(Nat) /\ Below # {}
  BY <1>2
<1>4. \A m, n \in Nat : m < n => <<0 .. (m - 1), 0 .. (n - 1)>> \in R
  <2>. SUFFICES ASSUME NEW m \in Nat, NEW n \in Nat, m < n
                PROVE  <<0 .. (m - 1), 0 .. (n - 1)>> \in R
    OBVIOUS
  <2>1. 0 .. (m - 1) \in SUBSET Nat /\ 0 .. (n - 1) \in SUBSET Nat
    OBVIOUS
  <2>2. 0 .. (m - 1) \subseteq 0 .. (n - 1)
    OBVIOUS
  <2>3. m \in 0 .. (n - 1) /\ m \notin 0 .. (m - 1)
    OBVIOUS
  <2>. QED BY <2>1, <2>2, <2>3 DEF StrictSubsetOrdering
<1>. HIDE DEF R, Below
<1>5. PICK b \in Below : \A c \in Below : <<c, b>> \notin R
  BY <1>1, <1>3, WFMin
<1>6. PICK n \in T : b = 0 .. (n - 1)
  BY DEF Below
<1>7. ASSUME NEW m \in T PROVE n <= m
  <2>1. 0 .. (m - 1) \in Below
    BY DEF Below
  <2>2. ~(m < n)
    BY <1>4, <1>5, <1>6, <2>1
  <2>. QED BY <2>2
<1>. QED BY <1>7

\* A set with 0 and the successors of its elements has every number.
LEMMA SetInduction ==
    ASSUME NEW S, 0 \in S, \A n \in Nat : n \in S => n + 1 \in S
    PROVE  Nat \subseteq S
<1>1. SUFFICES ASSUME Nat \ S # {} PROVE FALSE
  OBVIOUS
<1>2. PICK n \in Nat \ S : \A m \in Nat \ S : n <= m
  BY <1>1, LeastNatural
<1>3. n # 0 /\ n - 1 \in Nat /\ n - 1 \notin Nat \ S
  BY <1>2
<1>. QED BY <1>2, <1>3

\* A set that has a number whenever it has all smaller ones has every number.
LEMMA StrongInduction ==
    ASSUME NEW S, \A n \in Nat : (\A m \in Nat : m < n => m \in S) => n \in S
    PROVE  Nat \subseteq S
<1>1. SUFFICES ASSUME Nat \ S # {} PROVE FALSE
  OBVIOUS
<1>2. PICK n \in Nat \ S : \A m \in Nat \ S : n <= m
  BY <1>1, LeastNatural
<1>3. \A m \in Nat : m < n => m \in S
  BY <1>2
<1>. QED BY <1>2, <1>3

\* What holds of an element when it holds of all smaller ones holds of all.
LEMMA SizeInduction ==
    ASSUME NEW D, NEW size \in [D -> Nat], NEW S,
           \A x \in D : (\A y \in D : size[y] < size[x] => y \in S) => x \in S
    PROVE  D \subseteq S
<1>. DEFINE N == {k \in Nat : \A x \in D : size[x] = k => x \in S}
<1>1. ASSUME NEW k \in Nat, \A m \in Nat : m < k => m \in N PROVE k \in N
  <2>1. SUFFICES ASSUME NEW x \in D, size[x] = k PROVE x \in S
    OBVIOUS
  <2>2. \A y \in D : size[y] < size[x] => y \in S
    <3>1. SUFFICES ASSUME NEW y \in D, size[y] < size[x] PROVE y \in S
      OBVIOUS
    <3>2. size[y] \in N
      BY <1>1, <2>1, <3>1
    <3>. QED BY <3>2
  <2>. QED BY <2>2
<1>. HIDE DEF N
<1>2. Nat \subseteq N
  BY <1>1, StrongInduction
<1>3. ASSUME NEW x \in D PROVE x \in S
  <2>1. size[x] \in N
    BY <1>2
  <2>. QED BY <2>1 DEF N
<1>. QED BY <1>3

\* h[<<x, f>>] is the value at x of a function on D that is f below x; it looks at f only
\* where size is smaller than at x.
LooksBack(h, size, D, V) ==
    /\ size \in [D -> Nat]
    /\ h \in [D \X [D -> V] -> V]
    /\ \A x \in D : \A f, g \in [D -> V] :
          (\A y \in D : size[y] < size[x] => f[y] = g[y]) => h[<<x, f>>] = h[<<x, g>>]

\* f is a function with that recursion.
Solves(f, h, D, V) == f \in [D -> V] /\ \A x \in D : f[x] = h[<<x, f>>]

\* A recursion that looks back has a solution: the functions that are right up to size n,
\* for every n, agree where they are right.
LEMMA Recursion ==
    ASSUME NEW D, NEW V, NEW v0 \in V, NEW size, NEW h, LooksBack(h, size, D, V)
    PROVE  \E f : Solves(f, h, D, V)
<1>. USE DEF LooksBack
<1>. DEFINE Good(n) == {f \in [D -> V] : \A x \in D : size[x] < n => f[x] = h[<<x, f>>]}
<1>1. \A n \in Nat : Good(n) # {}
  <2>. DEFINE N == {n \in Nat : Good(n) # {}}
  <2>1. 0 \in N
    <3>1. [x \in D |-> v0] \in Good(0)
      OBVIOUS
    <3>. QED BY <3>1
  <2>2. ASSUME NEW n \in Nat, n \in N PROVE n + 1 \in N
    <3>1. PICK f \in Good(n) : TRUE
      BY <2>2
    <3>2. f \in [D -> V] /\ \A x \in D : size[x] < n => f[x] = h[<<x, f>>]
      BY <3>1
    <3>. DEFINE g == [x \in D |-> IF size[x] <= n THEN h[<<x, f>>] ELSE f[x]]
    <3>3. g \in [D -> V]
      BY <3>2
    <3>4. \A x \in D : size[x] < n => g[x] = f[x]
      BY <3>2
    <3>5. \A x \in D : size[x] <= n => g[x] = h[<<x, f>>]
      OBVIOUS
    <3>. HIDE DEF g
    <3>6. ASSUME NEW x \in D, size[x] < n + 1 PROVE g[x] = h[<<x, g>>]
      <4>1. size[x] \in Nat /\ size[x] <= n
        BY <3>6
      <4>2. \A y \in D : size[y] < size[x] => f[y] = g[y]
        BY <3>4, <4>1
      <4>3. h[<<x, f>>] = h[<<x, g>>]
        BY <3>2, <3>3, <4>2
      <4>. QED BY <3>5, <4>1, <4>3
    <3>7. g \in Good(n + 1)
      BY <3>3, <3>6
    <3>. QED BY <3>7
  <2>. HIDE DEF N
  <2>3. Nat \subseteq N
    BY <2>1, <2>2, SetInduction
  <2>. QED BY <2>3 DEF N
<1>2. ASSUME NEW m \in Nat, NEW n \in Nat, NEW f \in Good(m), NEW g \in Good(n),
             NEW x \in D, size[x] < m, size[x] < n
      PROVE  f[x] = g[x]
  <2>. DEFINE T == {k \in Nat : k < m /\ k < n /\ \E y \in D : size[y] = k /\ f[y] # g[y]}
  <2>1. SUFFICES ASSUME f[x] # g[x] PROVE FALSE
    OBVIOUS
  <2>2. size[x] \in T
    BY <1>2, <2>1
  <2>3. PICK k \in T : \A l \in T : k <= l
    <3>. HIDE DEF T
    <3>1. T \in SUBSET Nat
      BY DEF T
    <3>. QED BY <2>2, <3>1, LeastNatural
  <2>4. PICK y \in D : size[y] = k /\ f[y] # g[y]
    BY <2>3
  <2>5. \A z \in D : size[z] < size[y] => f[z] = g[z]
    <3>1. SUFFICES ASSUME NEW z \in D, size[z] < size[y], f[z] # g[z] PROVE FALSE
      OBVIOUS
    <3>2. size[z] \in T
      BY <2>3, <2>4, <3>1
    <3>. QED BY <2>3, <2>4, <3>1, <3>2
  <2>6. f \in [D -> V] /\ g \in [D -> V]
    OBVIOUS
  <2>7. h[<<y, f>>] = h[<<y, g>>]
    <3>. HIDE DEF Good
    <3>. QED BY <2>5, <2>6
  <2>8. f[y] = h[<<y, f>>] /\ g[y] = h[<<y, g>>]
    BY <2>3, <2>4
  <2>. QED BY <2>4, <2>7, <2>8
<1>3. PICK pick \in [Nat -> [D -> V]] : \A n \in Nat : pick[n] \in Good(n)
  <2>. DEFINE p == [n \in Nat |-> CHOOSE f \in Good(n) : TRUE]
  <2>1. \A n \in Nat : p[n] \in Good(n)
    BY <1>1
  <2>2. p \in [Nat -> [D -> V]]
    BY <2>1
  <2>. QED BY <2>1, <2>2
<1>. DEFINE F == [x \in D |-> pick[size[x] + 1][x]]
<1>4. F \in [D -> V]
  BY <1>3
<1>5. ASSUME NEW x \in D PROVE F[x] = h[<<x, F>>]
  <2>. DEFINE f == pick[size[x] + 1]
  <2>1. size[x] + 1 \in Nat /\ f \in Good(size[x] + 1) /\ f \in [D -> V]
    <3>. HIDE DEF Good
    <3>1. size[x] + 1 \in Nat
      OBVIOUS
    <3>. QED BY <1>3, <3>1
  <2>2. \A y \in D : size[y] < size[x] => F[y] = f[y]
    <3>1. SUFFICES ASSUME NEW y \in D, size[y] < size[x] PROVE F[y] = f[y]
      OBVIOUS
    <3>2. size[y] \in Nat /\ size[x] \in Nat
      OBVIOUS
    <3>3. size[y] + 1 \in Nat /\ pick[size[y] + 1] \in Good(size[y] + 1) /\ size[y] < size[y] + 1 /\ size[y] < size[x] + 1
      <4>. HIDE DEF Good, F, f
      <4>1. size[y] + 1 \in Nat /\ size[y] < size[y] + 1 /\ size[y] < size[x] + 1
        BY <3>1, <3>2
      <4>. QED BY <1>3, <4>1
    <3>4. F[y] = pick[size[y] + 1][y]
      OBVIOUS
    <3>. HIDE DEF F, f, Good
    <3>. QED BY <1>2, <2>1, <3>3, <3>4
  <2>3. h[<<x, F>>] = h[<<x, f>>]
    <3>. HIDE DEF F, f, Good
    <3>. QED BY <1>4, <2>1, <2>2
  <2>4. f[x] = h[<<x, f>>]
    <3>1. size[x] \in Nat /\ size[x] < size[x] + 1
      OBVIOUS
    <3>. HIDE DEF f
    <3>. QED BY <2>1, <3>1
  <2>. QED BY <2>3, <2>4
<1>6. Solves(F, h, D, V)
  BY <1>4, <1>5 DEF Solves
<1>. QED BY <1>6

\* A loop that goes from z to next[z] until it is done, and comes closer with each step.
Descends(next, done, size, Z) ==
    /\ size \in [Z -> Nat]
    /\ next \in [Z -> Z]
    /\ \A z \in Z : z \notin done => size[next[z]] < size[z]

\* f[z] is what the loop returns when it starts at z.
Iterates(f, next, done, out, Z, V) ==
    f \in [Z -> V] /\ \A z \in Z : f[z] = IF z \in done THEN out[z] ELSE f[next[z]]

\* Such a loop returns for every start.
LEMMA Loop ==
    ASSUME NEW Z, NEW V, NEW v0 \in V, NEW out \in [Z -> V],
           NEW done, NEW next, NEW size, Descends(next, done, size, Z)
    PROVE  \E f : Iterates(f, next, done, out, Z, V)
<1>. DEFINE h == [p \in Z \X [Z -> V] |-> IF p[1] \in done THEN out[p[1]] ELSE p[2][next[p[1]]]]
<1>1. \A z \in Z, f \in [Z -> V] : h[<<z, f>>] = IF z \in done THEN out[z] ELSE f[next[z]]
  OBVIOUS
<1>2. h \in [Z \X [Z -> V] -> V]
  BY DEF Descends
<1>. HIDE DEF h
<1>3. LooksBack(h, size, Z, V)
  <2>1. ASSUME NEW z \in Z, NEW f \in [Z -> V], NEW g \in [Z -> V],
               \A y \in Z : size[y] < size[z] => f[y] = g[y]
        PROVE  h[<<z, f>>] = h[<<z, g>>]
    <3>1. z \notin done => next[z] \in Z /\ size[next[z]] < size[z]
      BY DEF Descends
    <3>2. z \notin done => f[next[z]] = g[next[z]]
      BY <2>1, <3>1
    <3>. QED BY <1>1, <3>2
  <2>2. size \in [Z -> Nat]
    BY DEF Descends
  <2>. QED BY <1>2, <2>1, <2>2 DEF LooksBack
<1>4. PICK f : Solves(f, h, Z, V)
  BY <1>3, Recursion
<1>5. Iterates(f, next, done, out, Z, V)
  BY <1>1, <1>4 DEF Solves, Iterates
<1>. QED BY <1>5

-----------------------------------------------------------------------------
\* The element that a fold takes first.
Picked(s) == CHOOSE x \in s : TRUE

\* Without it, a finite set is smaller by one.
LEMMA PickedApart ==
    ASSUME NEW s, IsFiniteSet(s), s # {}
    PROVE  /\ Picked(s) \in s
           /\ Cardinality(s) \in Nat
           /\ Cardinality(s \ {Picked(s)}) = Cardinality(s) - 1
<1>1. Picked(s) \in s
  BY DEF Picked
<1>2. Cardinality(s) \in Nat
  BY FS_CardinalityType
<1>3. Cardinality(s \ {Picked(s)}) = Cardinality(s) - 1
  BY <1>1, FS_RemoveElement
<1>. QED BY <1>1, <1>2, <1>3

\* A family P with {} and with every subset of S that it has but for one element contains all
\* subsets of the finite set S.
LEMMA SubsetInduction ==
    ASSUME NEW S, IsFiniteSet(S), NEW P, {} \in P,
           \A s \in SUBSET S : s # {} /\ s \ {Picked(s)} \in P => s \in P
    PROVE  SUBSET S \subseteq P
<1>. DEFINE N == {n \in Nat : \A s \in SUBSET S : Cardinality(s) = n => s \in P}
<1>1. 0 \in N
  <2>1. \A s \in SUBSET S : Cardinality(s) = 0 => s = {}
    BY FS_EmptySet, FS_Subset
  <2>. QED BY <2>1
<1>2. ASSUME NEW n \in Nat, n \in N PROVE n + 1 \in N
  <2>1. SUFFICES ASSUME NEW s \in SUBSET S, Cardinality(s) = n + 1 PROVE s \in P
    OBVIOUS
  <2>2. CASE s # {}
    <3>1. IsFiniteSet(s)
      BY FS_Subset
    <3>2. Cardinality(s \ {Picked(s)}) = n /\ s \ {Picked(s)} \in SUBSET S
      BY <2>1, <2>2, <3>1, PickedApart
    <3>. QED BY <1>2, <2>2, <3>2
  <2>. QED BY <2>2
<1>3. Nat \subseteq N
  <2>. HIDE DEF N
  <2>. QED BY <1>1, <1>2, SetInduction
<1>4. \A s \in SUBSET S : Cardinality(s) \in Nat
  BY FS_Subset, FS_CardinalityType
<1>. QED BY <1>3, <1>4

\* sum has the sums of fun over all subsets of S.
IsSum(sum, fun, S) ==
    /\ sum \in [SUBSET S -> Nat]
    /\ sum[{}] = 0
    /\ \A s \in SUBSET S : s # {} => sum[s] = fun[Picked(s)] + sum[s \ {Picked(s)}]

\* SumFunctionOnSet is defined by such a function, for finite sets and numbers.
LEMMA SumRecursion ==
    ASSUME NEW S, IsFiniteSet(S), NEW fun, \A x \in S : fun[x] \in Nat
    PROVE  \E sum : IsSum(sum, fun, S) /\ SumFunctionOnSet(fun, S) = sum[S]
<1>. DEFINE D == SUBSET S
            size == [s \in D |-> Cardinality(s)]
            h == [p \in D \X [D -> Nat] |->
                    IF p[1] = {} THEN 0 ELSE fun[Picked(p[1])] + p[2][p[1] \ {Picked(p[1])}]]
            R(f) == f = [s \in D |-> IF s = {} THEN 0 ELSE fun[Picked(s)] + f[s \ {Picked(s)}]]
            C == CHOOSE f : R(f)
<1>1. \A s \in D : s # {} => Picked(s) \in s
  BY DEF Picked
<1>2. \A s \in D : s # {} => s \ {Picked(s)} \in D /\ fun[Picked(s)] \in Nat
  BY <1>1
<1>3. size \in [D -> Nat]
  <2>1. \A s \in D : Cardinality(s) \in Nat
    BY FS_Subset, FS_CardinalityType
  <2>. QED BY <2>1
<1>4. \A s \in D : s # {} => size[s \ {Picked(s)}] = size[s] - 1
  BY <1>2, FS_Subset, PickedApart
<1>5. h \in [D \X [D -> Nat] -> Nat]
  <2>1. SUFFICES ASSUME NEW s \in D, NEW f \in [D -> Nat] PROVE h[<<s, f>>] \in Nat
    OBVIOUS
  <2>. QED BY <1>2
<1>6. \A s \in D, f \in [D -> Nat] :
         h[<<s, f>>] = IF s = {} THEN 0 ELSE fun[Picked(s)] + f[s \ {Picked(s)}]
  OBVIOUS
<1>. HIDE DEF size, h
<1>7. ASSUME NEW s \in D, NEW f \in [D -> Nat], NEW g \in [D -> Nat],
             \A t \in D : size[t] < size[s] => f[t] = g[t]
      PROVE  h[<<s, f>>] = h[<<s, g>>]
  <2>1. CASE s = {}
    BY <1>6, <2>1
  <2>2. CASE s # {}
    <3>1. size[s \ {Picked(s)}] < size[s] /\ s \ {Picked(s)} \in D
      BY <1>2, <1>3, <1>4, <2>2
    <3>2. f[s \ {Picked(s)}] = g[s \ {Picked(s)}]
      BY <1>7, <3>1
    <3>. QED BY <1>6, <2>2, <3>2
  <2>. QED BY <2>1, <2>2
<1>8. PICK f : Solves(f, h, D, Nat)
  <2>1. LooksBack(h, size, D, Nat)
    <3>. HIDE DEF D
    <3>. QED BY <1>3, <1>5, <1>7 DEF LooksBack
  <2>. HIDE DEF D, R, C
  <2>2. 0 \in Nat
    OBVIOUS
  <2>. QED BY <2>1, <2>2, Recursion
<1>9. R(f)
  BY <1>6, <1>8 DEF Solves
<1>10. R(C)
  <2>. HIDE DEF R
  <2>. QED BY <1>9
<1>11. SumFunctionOnSet(fun, S) = C[S]
  BY Zenon DEF SumFunctionOnSet, FoldFunctionOnSet, MapThenFoldSet, Picked
<1>. HIDE DEF C
<1>12. \A s \in D : C[s] = IF s = {} THEN 0 ELSE fun[Picked(s)] + C[s \ {Picked(s)}]
  BY <1>10
<1>13. C \in [D -> Nat]
  <2>. DEFINE P == {s \in D : C[s] \in Nat}
  <2>1. {} \in P
    <3>1. {} \in D /\ C[{}] = 0
      BY <1>12
    <3>. QED BY <3>1
  <2>2. ASSUME NEW s \in D, s # {}, s \ {Picked(s)} \in P PROVE s \in P
    BY <1>2, <1>12, <2>2
  <2>3. D \subseteq P
    <3>. HIDE DEF P
    <3>. QED BY <2>1, <2>2, SubsetInduction
  <2>4. \A s \in D : C[s] \in Nat
    BY <2>3
  <2>5. C = [s \in D |-> C[s]]
    BY <1>10
  <2>. QED BY <2>4, <2>5
<1>14. IsSum(C, fun, S)
  BY <1>12, <1>13 DEF IsSum
<1>. QED BY <1>11, <1>14

\* A sum of numbers is a number.
LEMMA SumNat ==
    ASSUME NEW S, IsFiniteSet(S), NEW fun, \A x \in S : fun[x] \in Nat
    PROVE  SumFunctionOnSet(fun, S) \in Nat
<1>1. PICK sum : IsSum(sum, fun, S) /\ SumFunctionOnSet(fun, S) = sum[S]
  BY SumRecursion
<1>. QED BY <1>1 DEF IsSum

\* A sum of zeros is zero.
LEMMA SumOfZeros ==
    ASSUME NEW S, IsFiniteSet(S), NEW fun, \A x \in S : fun[x] = 0
    PROVE  SumFunctionOnSet(fun, S) = 0
<1>1. PICK sum : IsSum(sum, fun, S) /\ SumFunctionOnSet(fun, S) = sum[S]
  BY SumRecursion
<1>. DEFINE P == {s \in SUBSET S : sum[s] = 0}
<1>2. {} \in P
  BY <1>1 DEF IsSum
<1>3. ASSUME NEW s \in SUBSET S, s # {}, s \ {Picked(s)} \in P PROVE s \in P
  <2>1. Picked(s) \in s
    BY <1>3 DEF Picked
  <2>2. sum[s] = 0 + 0
    BY <1>1, <1>3, <2>1 DEF IsSum
  <2>. QED BY <2>2
<1>4. SUBSET S \subseteq P
  <2>. HIDE DEF P
  <2>. QED BY <1>2, <1>3, SubsetInduction
<1>. QED BY <1>1, <1>4

\* If one number grows by one, so does the sum, when that number is a summand.
LEMMA SumOneMore ==
    ASSUME NEW S, IsFiniteSet(S), NEW fun, \A x \in S : fun[x] \in Nat,
           NEW more, NEW e, e \in S => more[e] = fun[e] + 1, \A x \in S \ {e} : more[x] = fun[x]
    PROVE  SumFunctionOnSet(more, S) = SumFunctionOnSet(fun, S) + IF e \in S THEN 1 ELSE 0
<1>0. \A x \in S : more[x] \in Nat
  <2>. SUFFICES ASSUME NEW x \in S PROVE more[x] \in Nat
    OBVIOUS
  <2>. QED BY fun[x] \in Nat, x = e \/ x \in S \ {e}
<1>1. PICK sum : IsSum(sum, fun, S) /\ SumFunctionOnSet(fun, S) = sum[S]
  BY SumRecursion
<1>2. PICK sum2 : IsSum(sum2, more, S) /\ SumFunctionOnSet(more, S) = sum2[S]
  BY <1>0, SumRecursion
<1>. DEFINE Part(s) == IF e \in s THEN 1 ELSE 0
            P == {s \in SUBSET S : sum2[s] = sum[s] + Part(s)}
<1>3. {} \in P
  BY <1>1, <1>2 DEF IsSum
<1>4. ASSUME NEW s \in SUBSET S, s # {}, s \ {Picked(s)} \in P PROVE s \in P
  <2>. DEFINE x == Picked(s)
              rest == s \ {x}
  <2>1. x \in s
    BY <1>4 DEF Picked
  <2>2. sum2[rest] = sum[rest] + Part(rest)
    BY <1>4
  <2>3. sum[s] = fun[x] + sum[rest] /\ sum2[s] = more[x] + sum2[rest]
    BY <1>1, <1>2, <1>4 DEF IsSum
  <2>4. fun[x] \in Nat /\ more[x] \in Nat
    BY <1>0, <2>1
  <2>5. sum[rest] \in Nat /\ sum2[rest] \in Nat
    BY <1>1, <1>2 DEF IsSum
  <2>6. x \in S /\ (e \in rest <=> e \in s /\ e # x)
    BY <2>1
  <2>7. CASE x = e
    <3>. HIDE DEF x, rest
    <3>. QED BY <2>1, <2>2, <2>3, <2>4, <2>5, <2>6, <2>7
  <2>8. CASE x # e
    <3>1. more[x] = fun[x]
      BY <2>6, <2>8
    <3>. HIDE DEF x, rest
    <3>. QED BY <2>1, <2>2, <2>3, <2>4, <2>5, <2>6, <2>8, <3>1
  <2>. QED BY <2>7, <2>8
<1>5. SUBSET S \subseteq P
  <2>. HIDE DEF P
  <2>. QED BY <1>3, <1>4, SubsetInduction
<1>6. sum2[S] = sum[S] + Part(S)
  BY <1>5
<1>. QED BY <1>1, <1>2, <1>6

\* If one of the summands grows by one, so does the sum.
LEMMA SumIncremented ==
    ASSUME NEW S, IsFiniteSet(S), NEW fun, \A x \in S : fun[x] \in Nat,
           NEW more, NEW e \in S, more[e] = fun[e] + 1, \A x \in S \ {e} : more[x] = fun[x]
    PROVE  SumFunctionOnSet(more, S) = SumFunctionOnSet(fun, S) + 1
BY SumOneMore

\* A sum is at least each of its summands.
LEMMA SumAtLeast ==
    ASSUME NEW S, IsFiniteSet(S), NEW fun, \A x \in S : fun[x] \in Nat, NEW e \in S
    PROVE  fun[e] <= SumFunctionOnSet(fun, S)
<1>1. PICK sum : IsSum(sum, fun, S) /\ SumFunctionOnSet(fun, S) = sum[S]
  BY SumRecursion
<1>. DEFINE P == {s \in SUBSET S : e \in s => fun[e] <= sum[s]}
<1>2. {} \in P
  OBVIOUS
<1>3. ASSUME NEW s \in SUBSET S, s # {}, s \ {Picked(s)} \in P PROVE s \in P
  <2>. DEFINE x == Picked(s)
              rest == s \ {x}
  <2>1. x \in s /\ x \in S /\ rest \in SUBSET S
    BY <1>3 DEF Picked
  <2>2. sum[s] = fun[x] + sum[rest] /\ sum[rest] \in Nat
    BY <1>1, <1>3, <2>1 DEF IsSum
  <2>3. e \in rest => fun[e] <= sum[rest]
    BY <1>3
  <2>4. e \in s => e = x \/ e \in rest
    OBVIOUS
  <2>5. fun[x] \in Nat /\ fun[e] \in Nat
    BY <2>1
  <2>. HIDE DEF x, rest
  <2>6. e \in s => fun[e] <= sum[s]
    BY <2>2, <2>3, <2>4, <2>5
  <2>. QED BY <2>6
<1>4. SUBSET S \subseteq P
  <2>. HIDE DEF P
  <2>. QED BY <1>2, <1>3, SubsetInduction
<1>. QED BY <1>1, <1>4

\* A sum of smaller summands is smaller.
LEMMA SumMonotone ==
    ASSUME NEW S, IsFiniteSet(S), NEW fun, NEW more,
           \A x \in S : fun[x] \in Nat /\ more[x] \in Nat /\ fun[x] <= more[x]
    PROVE  SumFunctionOnSet(fun, S) <= SumFunctionOnSet(more, S)
<1>1. PICK sum : IsSum(sum, fun, S) /\ SumFunctionOnSet(fun, S) = sum[S]
  BY SumRecursion
<1>2. PICK sum2 : IsSum(sum2, more, S) /\ SumFunctionOnSet(more, S) = sum2[S]
  BY SumRecursion
<1>. DEFINE P == {s \in SUBSET S : sum[s] <= sum2[s]}
<1>3. {} \in P
  BY <1>1, <1>2 DEF IsSum
<1>4. ASSUME NEW s \in SUBSET S, s # {}, s \ {Picked(s)} \in P PROVE s \in P
  <2>. DEFINE x == Picked(s)
              rest == s \ {x}
  <2>1. x \in S /\ rest \in SUBSET S
    BY <1>4 DEF Picked
  <2>2. /\ sum[s] = fun[x] + sum[rest] /\ sum[rest] \in Nat
        /\ sum2[s] = more[x] + sum2[rest] /\ sum2[rest] \in Nat
    BY <1>1, <1>2, <1>4, <2>1 DEF IsSum
  <2>3. sum[rest] <= sum2[rest]
    BY <1>4
  <2>4. fun[x] \in Nat /\ more[x] \in Nat /\ fun[x] <= more[x]
    BY <2>1
  <2>. HIDE DEF x, rest
  <2>5. sum[s] <= sum2[s]
    BY <2>2, <2>3, <2>4
  <2>. QED BY <2>5
<1>5. SUBSET S \subseteq P
  <2>. HIDE DEF P
  <2>. QED BY <1>3, <1>4, SubsetInduction
<1>. QED BY <1>1, <1>2, <1>5
==============================================================================
