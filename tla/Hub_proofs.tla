----------------------------- MODULE Hub_proofs -----------------------------
(***************************************************************************)
(* Theorems about HubIngest and, in the second half, about Queries: the    *)
(* rollups hold what was observed, and what the hub answers from them is   *)
(* what was observed, for every value of the constants that satisfies the  *)
(* assumptions named there, every request and every state.  The half about *)
(* HubIngest uses no assumption of Queries.                                *)
(***************************************************************************)
EXTENDS Queries, FiniteSets, FiniteSetTheorems, TLAPS

-----------------------------------------------------------------------------
(* Sums over finite sets.  The library's folds go through a set in an order of their *)
(* own; these lemmas say that a fold exists, and that in a commutative monoid it     *)
(* does not depend on that order.                                                    *)

\* The element with which a fold goes on.
Pick(T) == CHOOSE x \in T : TRUE

LEMMA PickIn ==
  ASSUME NEW T, T # {}
  PROVE  Pick(T) \in T
  BY DEF Pick

\* Induction over the subsets of a finite set, from all the smaller ones.
LEMMA StrictSubsetInduction ==
  ASSUME NEW S, IsFiniteSet(S), NEW P,
         \A T \in SUBSET S : (\A U \in SUBSET T : U # T => U \in P) => T \in P
  PROVE  \A T \in SUBSET S : T \in P
<1> DEFINE Bad == {T \in SUBSET S : T \notin P}
<1>1. SUFFICES ASSUME Bad # {} PROVE FALSE
  OBVIOUS
<1>2. IsWellFoundedOn(StrictSubsetOrdering(S), SUBSET S)
  BY FS_StrictSubsetOrderingWellFounded, FS_FiniteSubsetsOfFinite
<1>3. Bad \subseteq SUBSET S
  OBVIOUS
<1> HIDE DEF Bad
<1>4. PICK T \in Bad : \A U \in Bad : ~ (<<U, T>> \in StrictSubsetOrdering(S))
  BY <1>1, <1>2, <1>3, WFMin
<1>5. T \in SUBSET S /\ T \notin P
  BY <1>4 DEF Bad
<1>6. ASSUME NEW U \in SUBSET T, U # T
      PROVE  U \in P
  <2>1. <<U, T>> \in StrictSubsetOrdering(S)
    BY <1>5, <1>6 DEF StrictSubsetOrdering
  <2> QED
    BY <1>4, <1>5, <2>1 DEF Bad
<1> QED
  BY <1>5, <1>6

\* The same as a fold goes through the set.
LEMMA SubsetInduction ==
  ASSUME NEW S, IsFiniteSet(S), NEW P, {} \in P,
         \A T \in SUBSET S : T # {} /\ T \ {Pick(T)} \in P => T \in P
  PROVE  \A T \in SUBSET S : T \in P
<1>1. ASSUME NEW T \in SUBSET S, \A U \in SUBSET T : U # T => U \in P
      PROVE  T \in P
  <2>1. CASE T = {}
    BY <2>1
  <2>2. CASE T # {}
    BY <1>1, <2>2, PickIn
  <2> QED
    BY <2>1, <2>2
<1> QED
  BY <1>1, StrictSubsetInduction

-----------------------------------------------------------------------------
(* Sums in a commutative monoid M, whose addition is the curried add.      *)

Monoid(M, add, zero) ==
    /\ zero \in M
    /\ add \in [M -> [M -> M]]
    /\ \A x \in M : add[x][zero] = x
    /\ \A x, y \in M : add[x][y] = add[y][x]
    /\ \A x, y, z \in M : add[add[x][y]][z] = add[x][add[y][z]]

LEMMA MonoidSwap ==
  ASSUME NEW M, NEW add, NEW zero, Monoid(M, add, zero),
         NEW a \in M, NEW b \in M, NEW c \in M
  PROVE  add[a][add[b][c]] = add[b][add[a][c]]
<1>0. \A x, y, z \in M : add[add[x][y]][z] = add[x][add[y][z]]
  BY DEF Monoid
<1>1. add[a][add[b][c]] = add[add[a][b]][c] /\ add[b][add[a][c]] = add[add[b][a]][c]
  BY <1>0
<1>2. add[a][b] = add[b][a]
  BY DEF Monoid
<1> QED
  BY <1>1, <1>2

\* g is the fold of F over the subsets of S, by the element picked.
IsFold(g, add, zero, F, S) ==
    \A T \in SUBSET S :
        g[T] = IF T = {} THEN zero ELSE add[F[Pick(T)]][g[T \ {Pick(T)}]]

LEMMA FoldExists ==
  ASSUME NEW S, IsFiniteSet(S), NEW M, NEW zero \in M,
         NEW add \in [M -> [M -> M]], NEW F, \A x \in S : F[x] \in M
  PROVE  \E g \in [SUBSET S -> M] : IsFold(g, add, zero, F, S)
\* The fold equation up to the size of T.
<1> DEFINE Sized(T, g) ==
      \A U \in SUBSET S :
         Cardinality(U) <= Cardinality(T)
            => g[U] = IF U = {} THEN zero ELSE add[F[Pick(U)]][g[U \ {Pick(U)}]]
<1> DEFINE P == {T \in SUBSET S : \E g \in [SUBSET S -> M] : Sized(T, g)}
<1>0. \A U \in SUBSET S : /\ IsFiniteSet(U)
                          /\ Cardinality(U) \in Nat
                          /\ Cardinality(U) <= Cardinality(S)
                          /\ Cardinality(U) = 0 <=> U = {}
  BY FS_Subset, FS_CardinalityType, FS_EmptySet
<1>Z. ASSUME NEW U \in SUBSET S, U # {}
      PROVE  Cardinality(U) = Cardinality(U \ {Pick(U)}) + 1
  <2>1. IsFiniteSet(U) /\ Pick(U) \in U /\ Cardinality(U) \in Nat
    BY <1>0, <1>Z, PickIn
  <2> DEFINE x == Pick(U)
  <2> HIDE DEF x
  <2>2. Cardinality(U \ {x}) = Cardinality(U) - 1
    BY <2>1, FS_RemoveElement DEF x
  <2> QED
    BY <2>1, <2>2 DEF x
<1>1. {} \in P
  <2> DEFINE g == [T \in SUBSET S |-> zero]
  <2>1. g \in [SUBSET S -> M]
    OBVIOUS
  <2>2. ASSUME NEW U \in SUBSET S, Cardinality(U) <= Cardinality({})
        PROVE  U = {}
    BY <1>0, <2>2, FS_EmptySet
  <2>3. Sized({}, g)
    BY <2>2
  <2> QED
    BY <2>1, <2>3
<1>2. ASSUME NEW T \in SUBSET S, T # {}, T \ {Pick(T)} \in P
      PROVE  T \in P
  <2> DEFINE T1 == T \ {Pick(T)}
  <2>1. PICK g \in [SUBSET S -> M] : Sized(T1, g)
    BY <1>2
  <2>2. Cardinality(T) = Cardinality(T1) + 1 /\ Cardinality(T1) \in Nat
    BY <1>0, <1>Z, <1>2
  <2> DEFINE h == [U \in SUBSET S |->
        IF Cardinality(U) <= Cardinality(T1) THEN g[U]
        ELSE add[F[Pick(U)]][g[U \ {Pick(U)}]]]
  <2>3. h \in [SUBSET S -> M]
    <3> SUFFICES ASSUME NEW U \in SUBSET S, ~ (Cardinality(U) <= Cardinality(T1))
                 PROVE  add[F[Pick(U)]][g[U \ {Pick(U)}]] \in M
      OBVIOUS
    <3>1. U # {}
      BY <1>0, <2>2
    <3>2. F[Pick(U)] \in M /\ g[U \ {Pick(U)}] \in M
      BY <3>1, PickIn
    <3> QED
      BY <3>2
  <2>4. ASSUME NEW U \in SUBSET S, Cardinality(U) <= Cardinality(T)
        PROVE  h[U] = IF U = {} THEN zero ELSE add[F[Pick(U)]][h[U \ {Pick(U)}]]
    <3> DEFINE V == U \ {Pick(U)}
    <3>1. CASE U = {}
      <4>1. Cardinality(U) <= Cardinality(T1)
        BY <1>0, <2>2, <3>1
      <4>2. h[U] = g[U] /\ g[U] = zero
        BY <2>1, <3>1, <4>1
      <4> QED
        BY <3>1, <4>2
    <3>2. CASE U # {}
      <4>1. Cardinality(U) = Cardinality(V) + 1 /\ V \in SUBSET S
        BY <1>Z, <3>2
      <4>2. Cardinality(V) <= Cardinality(T1)
        BY <1>0, <2>2, <2>4, <4>1
      <4>3. h[V] = g[V]
        BY <4>1, <4>2
      <4>4. h[U] = add[F[Pick(U)]][g[V]]
        <5>1. CASE Cardinality(U) <= Cardinality(T1)
          BY <2>1, <3>2, <5>1
        <5>2. CASE ~ (Cardinality(U) <= Cardinality(T1))
          BY <5>2
        <5> QED
          BY <5>1, <5>2
      <4> QED
        BY <3>2, <4>3, <4>4
    <3> QED
      BY <3>1, <3>2
  <2>5. Sized(T, h)
    BY <2>4
  <2> HIDE DEF h, Sized
  <2> QED
    BY <2>3, <2>5
<1>3. S \in P
  <2> HIDE DEF P
  <2> QED
    BY <1>1, <1>2, SubsetInduction
<1>4. PICK g \in [SUBSET S -> M] : Sized(S, g)
  BY <1>3
<1>5. IsFold(g, add, zero, F, S)
  BY <1>0, <1>4 DEF IsFold
<1> QED
  BY <1>5

\* A fold is the same whatever larger set it is taken in, and depends only on
\* the values over the set.
LEMMA FoldUnique ==
  ASSUME NEW S, NEW T \in SUBSET S, IsFiniteSet(S), NEW add, NEW zero,
         NEW F, NEW G, \A x \in T : F[x] = G[x],
         NEW g, NEW h, IsFold(g, add, zero, F, S), IsFold(h, add, zero, G, T)
  PROVE  g[T] = h[T]
<1> DEFINE P == {U \in SUBSET T : g[U] = h[U]}
<1>0. IsFiniteSet(T)
  BY FS_Subset
<1>1. {} \in P
  BY DEF IsFold
<1>2. ASSUME NEW U \in SUBSET T, U # {}, U \ {Pick(U)} \in P
      PROVE  U \in P
  <2>1. g[U] = add[F[Pick(U)]][g[U \ {Pick(U)}]]
    BY <1>2 DEF IsFold
  <2>2. h[U] = add[G[Pick(U)]][h[U \ {Pick(U)}]]
    BY <1>2 DEF IsFold
  <2>3. F[Pick(U)] = G[Pick(U)]
    BY <1>2, PickIn
  <2> QED
    BY <1>2, <2>1, <2>2, <2>3
<1>3. T \in P
  <2> HIDE DEF P
  <2> QED
    BY <1>0, <1>1, <1>2, SubsetInduction
<1> QED
  BY <1>3

\* g is the sum of F over the subsets of S.
IsSum(g, M, add, zero, F, S) ==
    /\ IsFiniteSet(S) /\ Monoid(M, add, zero) /\ \A x \in S : F[x] \in M
    /\ g \in [SUBSET S -> M] /\ IsFold(g, add, zero, F, S)

\* A fold may go on with any element.
LEMMA SumAny ==
  ASSUME NEW S, NEW M, NEW add, NEW zero, NEW F, NEW g,
         IsSum(g, M, add, zero, F, S), NEW T \in SUBSET S, NEW e \in T
  PROVE  g[T] = add[F[e]][g[T \ {e}]]
<1>0. /\ IsFiniteSet(S) /\ Monoid(M, add, zero) /\ \A x \in S : F[x] \in M
      /\ g \in [SUBSET S -> M] /\ IsFold(g, add, zero, F, S)
  BY DEF IsSum
<1> USE <1>0
<1> DEFINE P == {V \in SUBSET S : \A y \in V : g[V] = add[F[y]][g[V \ {y}]]}
<1>1. ASSUME NEW T1 \in SUBSET S, \A U \in SUBSET T1 : U # T1 => U \in P, NEW x1 \in T1
      PROVE  g[T1] = add[F[x1]][g[T1 \ {x1}]]
  <2> DEFINE y == Pick(T1)
             V == (T1 \ {x1}) \ {y}
  <2>1. y \in T1 /\ g[T1] = add[F[y]][g[T1 \ {y}]]
    BY PickIn DEF IsFold
  <2> HIDE DEF y
  <2>2. SUFFICES ASSUME x1 # y PROVE g[T1] = add[F[x1]][g[T1 \ {x1}]]
    BY <2>1
  <2>3. g[T1 \ {x1}] = add[F[y]][g[V]]
    <3>1. T1 \ {x1} \in P /\ y \in T1 \ {x1}
      BY <1>1, <2>1, <2>2
    <3> QED
      BY <3>1
  <2>4. g[T1 \ {y}] = add[F[x1]][g[V]]
    <3>1. T1 \ {y} \in P /\ x1 \in T1 \ {y} /\ (T1 \ {y}) \ {x1} = V
      BY <1>1, <2>1, <2>2
    <3> QED
      BY <3>1
  <2>5. F[x1] \in M /\ F[y] \in M /\ g[V] \in M
    BY <2>1
  <2>6. add[F[y]][add[F[x1]][g[V]]] = add[F[x1]][add[F[y]][g[V]]]
    BY <2>5, MonoidSwap
  <2> QED
    BY <2>1, <2>3, <2>4, <2>6
<1>2. \A V \in SUBSET S : V \in P
  <2> HIDE DEF P
  <2>1. \A V \in SUBSET S : (\A U \in SUBSET V : U # V => U \in P) => V \in P
    BY <1>1 DEF P
  <2> QED
    BY <2>1, StrictSubsetInduction
<1> QED
  BY <1>2

\* A sum over two disjoint sets is the sum of their sums.
LEMMA SumUnion ==
  ASSUME NEW S, NEW M, NEW add, NEW zero, NEW F, NEW g,
         IsSum(g, M, add, zero, F, S),
         NEW A \in SUBSET S, NEW B \in SUBSET S, A \cap B = {}
  PROVE  g[A \cup B] = add[g[A]][g[B]]
<1>0. /\ IsFiniteSet(S) /\ Monoid(M, add, zero) /\ \A x \in S : F[x] \in M
      /\ g \in [SUBSET S -> M] /\ IsFold(g, add, zero, F, S)
  BY DEF IsSum
<1>4. \A x, y, z \in M : add[x][add[y][z]] = add[y][add[x][z]]
  BY <1>0, MonoidSwap
<1> USE <1>0
<1> DEFINE P == {D \in SUBSET S : A \cap D = {} => g[A \cup D] = add[g[A]][g[D]]}
<1>1. {} \in P
  <2>1. g[{}] = zero /\ g[A] \in M
    BY DEF IsFold
  <2>2. add[g[A]][zero] = g[A]
    BY <2>1 DEF Monoid
  <2> QED
    BY <2>1, <2>2
<1>2. ASSUME NEW D \in SUBSET S, D # {}, D \ {Pick(D)} \in P
      PROVE  D \in P
  <2> DEFINE x == Pick(D)
             C == D \ {x}
  <2>0. x \in D
    BY <1>2, PickIn
  <2>1. SUFFICES ASSUME A \cap D = {} PROVE g[A \cup D] = add[g[A]][g[D]]
    OBVIOUS
  <2>2. g[A \cup C] = add[g[A]][g[C]]
    BY <1>2, <2>1
  <2> HIDE DEF x
  <2>3. g[A \cup D] = add[F[x]][g[A \cup C]]
    <3>1. (A \cup D) \ {x} = A \cup C /\ x \in A \cup D /\ A \cup D \in SUBSET S
      BY <2>0, <2>1
    <3> QED
      BY <3>1, SumAny
  <2>4. g[D] = add[F[x]][g[C]]
    BY <2>0, SumAny
  <2>5. F[x] \in M /\ g[A] \in M /\ g[C] \in M
    BY <2>0
  <2>6. add[F[x]][add[g[A]][g[C]]] = add[g[A]][add[F[x]][g[C]]]
    BY <1>4, <2>5
  <2> QED
    BY <2>2, <2>3, <2>4, <2>6
<1>3. \A D \in SUBSET S : D \in P
  <2> HIDE DEF P
  <2> QED
    BY <1>1, <1>2, SubsetInduction
<1> QED
  BY <1>3

\* What adds nothing may be left out.
LEMMA SumZero ==
  ASSUME NEW S, NEW M, NEW add, NEW zero, NEW F, NEW g,
         IsSum(g, M, add, zero, F, S), NEW T \in SUBSET S, \A x \in T : F[x] = zero
  PROVE  g[T] = zero
<1>0. /\ IsFiniteSet(S) /\ Monoid(M, add, zero) /\ \A x \in S : F[x] \in M
      /\ g \in [SUBSET S -> M] /\ IsFold(g, add, zero, F, S)
  BY DEF IsSum
<1> USE <1>0
<1> DEFINE P == {V \in SUBSET S : (\A x \in V : F[x] = zero) => g[V] = zero}
<1>1. {} \in P
  BY DEF IsFold
<1>2. ASSUME NEW V \in SUBSET S, V # {}, V \ {Pick(V)} \in P
      PROVE  V \in P
  <2>1. SUFFICES ASSUME \A x \in V : F[x] = zero PROVE g[V] = zero
    OBVIOUS
  <2>2. g[V] = add[F[Pick(V)]][g[V \ {Pick(V)}]]
    BY <1>2 DEF IsFold
  <2>3. F[Pick(V)] = zero /\ g[V \ {Pick(V)}] = zero
    BY <1>2, <2>1, PickIn
  <2> QED
    BY <2>2, <2>3 DEF Monoid
<1>3. \A V \in SUBSET S : V \in P
  <2> HIDE DEF P
  <2> QED
    BY <1>1, <1>2, SubsetInduction
<1> QED
  BY <1>3

-----------------------------------------------------------------------------
(* Sums of integers. *)

PlusInt == [m \in Int |-> [n \in Int |-> m + n]]

LEMMA IntMonoid == Monoid(Int, PlusInt, 0)
  BY DEF Monoid, PlusInt

IntSums(F, S) == [T \in SUBSET S |-> SumFunctionOnSet(F, T)]

LEMMA IntSumIsSum ==
  ASSUME NEW S, IsFiniteSet(S), NEW F, \A x \in S : F[x] \in Int
  PROVE  IsSum(IntSums(F, S), Int, PlusInt, 0, F, S)
<1>1. PICK g \in [SUBSET S -> Int] : IsFold(g, PlusInt, 0, F, S)
  BY FoldExists, IntMonoid DEF Monoid
<1>2. ASSUME NEW T \in SUBSET S
      PROVE  SumFunctionOnSet(F, T) = g[T]
  <2> DEFINE Body(f) == [s \in SUBSET T |->
                           IF s = {} THEN 0 ELSE F[Pick(s)] + f[s \ {Pick(s)}]]
             I == CHOOSE f : f = Body(f)
             h == [s \in SUBSET T |-> g[s]]
  <2>1. \A U \in SUBSET T : g[U] = IF U = {} THEN 0 ELSE F[Pick(U)] + g[U \ {Pick(U)}]
    <3> SUFFICES ASSUME NEW U \in SUBSET T, U # {}
                 PROVE  g[U] = F[Pick(U)] + g[U \ {Pick(U)}]
      BY <1>1 DEF IsFold
    <3>1. F[Pick(U)] \in Int /\ g[U \ {Pick(U)}] \in Int
      BY PickIn
    <3>2. g[U] = PlusInt[F[Pick(U)]][g[U \ {Pick(U)}]]
      BY <1>1 DEF IsFold
    <3> QED
      BY <3>1, <3>2 DEF PlusInt
  <2>2. h = Body(h)
    BY <2>1
  <2>3. I = Body(I)
    <3> HIDE DEF h, Body
    <3> QED
      BY <2>2
  <2>4. SumFunctionOnSet(F, T) = I[T]
    BY DEF SumFunctionOnSet, FoldFunctionOnSet, MapThenFoldSet, Pick
  <2> HIDE DEF I
  <2> DEFINE P == {U \in SUBSET T : I[U] = g[U]}
  <2>5. {} \in P
    BY <2>1, <2>3
  <2>6. ASSUME NEW U \in SUBSET T, U # {}, U \ {Pick(U)} \in P
        PROVE  U \in P
    BY <2>1, <2>3, <2>6
  <2>7. \A U \in SUBSET T : U \in P
    <3> HIDE DEF P
    <3> QED
      BY <2>5, <2>6, SubsetInduction, FS_Subset
  <2> QED
    BY <2>4, <2>7
<1>3. IntSums(F, S) = g
  BY <1>2 DEF IntSums
<1> QED
  BY <1>1, <1>3, IntMonoid DEF IsSum

\* A sum of integers goes on with any element.
LEMMA IntSumFacts ==
  ASSUME NEW S, IsFiniteSet(S), NEW F, \A x \in S : F[x] \in Int
  PROVE  /\ SumFunctionOnSet(F, {}) = 0
         /\ \A T \in SUBSET S :
              /\ SumFunctionOnSet(F, T) \in Int
              /\ \A x \in T : SumFunctionOnSet(F, T) = F[x] + SumFunctionOnSet(F, T \ {x})
<1> DEFINE g == IntSums(F, S)
<1>1. IsSum(g, Int, PlusInt, 0, F, S)
  BY IntSumIsSum
<1>2. \A T \in SUBSET S : g[T] = SumFunctionOnSet(F, T)
  BY DEF IntSums
<1> HIDE DEF g
<1>3. g \in [SUBSET S -> Int] /\ g[{}] = 0
  BY <1>1 DEF IsSum, IsFold
<1>4. ASSUME NEW T \in SUBSET S, NEW x \in T
      PROVE  g[T] = F[x] + g[T \ {x}]
  <2>1. g[T] = PlusInt[F[x]][g[T \ {x}]]
    BY <1>1, SumAny
  <2>2. F[x] \in Int /\ g[T \ {x}] \in Int
    BY <1>3
  <2> QED
    BY <2>1, <2>2 DEF PlusInt
<1>5. \A T \in SUBSET S : \A x \in T : T \ {x} \in SUBSET S
  OBVIOUS
<1> QED
  BY <1>2, <1>3, <1>4, <1>5

LEMMA IntSumStep ==
  ASSUME NEW S, IsFiniteSet(S), NEW F, \A x \in S : F[x] \in Int, NEW T \in SUBSET S
  PROVE  /\ SumFunctionOnSet(F, {}) = 0
         /\ SumFunctionOnSet(F, T) \in Int
         /\ \A x \in T : SumFunctionOnSet(F, T) = F[x] + SumFunctionOnSet(F, T \ {x})
<1>1. /\ SumFunctionOnSet(F, {}) = 0
      /\ \A U \in SUBSET S :
           /\ SumFunctionOnSet(F, U) \in Int
           /\ \A x \in U : SumFunctionOnSet(F, U) = F[x] + SumFunctionOnSet(F, U \ {x})
  BY IntSumFacts
<1> QED
  BY <1>1

LEMMA IntSumMonotone ==
  ASSUME NEW S, IsFiniteSet(S), NEW F, NEW G,
         \A x \in S : F[x] \in Int /\ G[x] \in Int /\ F[x] <= G[x]
  PROVE  SumFunctionOnSet(F, S) <= SumFunctionOnSet(G, S)
<1> DEFINE f(T) == SumFunctionOnSet(F, T)
           g(T) == SumFunctionOnSet(G, T)
           P == {T \in SUBSET S : f(T) <= g(T)}
<1>1. /\ f({}) = 0
      /\ \A T \in SUBSET S : f(T) \in Int /\ \A x \in T : f(T) = F[x] + f(T \ {x})
  BY IntSumFacts
<1>2. /\ g({}) = 0
      /\ \A T \in SUBSET S : g(T) \in Int /\ \A x \in T : g(T) = G[x] + g(T \ {x})
  BY IntSumFacts
<1> HIDE DEF f, g
<1>3. {} \in P
  BY <1>1, <1>2
<1>4. ASSUME NEW T \in SUBSET S, T # {}, T \ {Pick(T)} \in P
      PROVE  T \in P
  <2> DEFINE x == Pick(T)
             U == T \ {x}
  <2>1. x \in T /\ U \in SUBSET S
    BY <1>4, PickIn
  <2>2. f(U) <= g(U)
    BY <1>4
  <2>3. /\ f(T) = F[x] + f(U) /\ g(T) = G[x] + g(U)
        /\ f(U) \in Int /\ g(U) \in Int /\ F[x] \in Int /\ G[x] \in Int /\ F[x] <= G[x]
    BY <1>1, <1>2, <2>1
  <2> HIDE DEF x, U
  <2>4. f(T) <= g(T)
    BY <2>2, <2>3
  <2> QED
    BY <2>4
<1>5. S \in P
  <2> HIDE DEF P
  <2> QED
    BY <1>3, <1>4, SubsetInduction
<1> QED
  BY <1>5 DEF f, g

LEMMA IntSumSame ==
  ASSUME NEW S, IsFiniteSet(S), NEW F, NEW G, \A x \in S : F[x] \in Int /\ F[x] = G[x]
  PROVE  SumFunctionOnSet(F, S) = SumFunctionOnSet(G, S)
<1>1. \A x \in S : F[x] \in Int /\ G[x] \in Int /\ F[x] <= G[x] /\ G[x] <= F[x]
  OBVIOUS
<1>2. SumFunctionOnSet(F, S) <= SumFunctionOnSet(G, S)
  BY <1>1, IntSumMonotone
<1>3. SumFunctionOnSet(G, S) <= SumFunctionOnSet(F, S)
  BY <1>1, IntSumMonotone
<1>4. SumFunctionOnSet(F, S) \in Int /\ SumFunctionOnSet(G, S) \in Int
  BY <1>1, IntSumFacts
<1> QED
  BY <1>2, <1>3, <1>4

\* A sum over two disjoint sets is the sum of their sums.
LEMMA IntSumUnion ==
  ASSUME NEW S, IsFiniteSet(S), NEW F, \A x \in S : F[x] \in Int,
         NEW A \in SUBSET S, NEW B \in SUBSET S, A \cap B = {}
  PROVE  SumFunctionOnSet(F, A \cup B) = SumFunctionOnSet(F, A) + SumFunctionOnSet(F, B)
<1> DEFINE g == IntSums(F, S)
<1>1. IsSum(g, Int, PlusInt, 0, F, S)
  BY IntSumIsSum
<1>2. \A T \in SUBSET S : g[T] = SumFunctionOnSet(F, T) /\ g[T] \in Int
  BY IntSumFacts DEF IntSums
<1> HIDE DEF g
<1>3. g[A \cup B] = PlusInt[g[A]][g[B]]
  BY <1>1, SumUnion
<1>4. A \cup B \in SUBSET S
  OBVIOUS
<1> QED
  BY <1>2, <1>3, <1>4 DEF PlusInt

\* What adds nothing may be left out.
LEMMA IntSumRestrict ==
  ASSUME NEW S, IsFiniteSet(S), NEW F, \A x \in S : F[x] \in Int,
         NEW T \in SUBSET S, \A x \in S \ T : F[x] = 0
  PROVE  SumFunctionOnSet(F, S) = SumFunctionOnSet(F, T)
<1> DEFINE g == IntSums(F, S)
<1>1. IsSum(g, Int, PlusInt, 0, F, S)
  BY IntSumIsSum
<1>2. \A U \in SUBSET S : g[U] = SumFunctionOnSet(F, U) /\ g[U] \in Int
  BY IntSumFacts DEF IntSums
<1> HIDE DEF g
<1> DEFINE R == S \ T
<1>3. g[R] = 0
  BY <1>1, SumZero
<1>4. T \cap R = {} /\ R \in SUBSET S
  OBVIOUS
<1>8. S = T \cup R
  OBVIOUS
<1> HIDE DEF R
<1>5. SumFunctionOnSet(F, T \cup R) = SumFunctionOnSet(F, T) + SumFunctionOnSet(F, R)
  BY <1>4, IntSumUnion
<1>6. SumFunctionOnSet(F, R) = 0 /\ SumFunctionOnSet(F, T) \in Int
  BY <1>2, <1>3, <1>4
<1>7. SumFunctionOnSet(F, T \cup R) = SumFunctionOnSet(F, T)
  BY <1>5, <1>6
<1> QED
  BY <1>7, <1>8

LEMMA IntSumAdd ==
  ASSUME NEW S, IsFiniteSet(S), NEW F, NEW G, NEW H,
         \A x \in S : F[x] \in Int /\ G[x] \in Int /\ H[x] = F[x] + G[x]
  PROVE  SumFunctionOnSet(H, S) = SumFunctionOnSet(F, S) + SumFunctionOnSet(G, S)
<1> DEFINE f(T) == SumFunctionOnSet(F, T)
           g(T) == SumFunctionOnSet(G, T)
           h(T) == SumFunctionOnSet(H, T)
           P == {T \in SUBSET S : h(T) = f(T) + g(T)}
<1>0. \A x \in S : F[x] \in Int /\ G[x] \in Int /\ H[x] \in Int
  OBVIOUS
<1>1. /\ f({}) = 0
      /\ \A T \in SUBSET S : f(T) \in Int /\ \A x \in T : f(T) = F[x] + f(T \ {x})
  BY IntSumFacts
<1>2. /\ g({}) = 0
      /\ \A T \in SUBSET S : g(T) \in Int /\ \A x \in T : g(T) = G[x] + g(T \ {x})
  BY IntSumFacts
<1>3. /\ h({}) = 0
      /\ \A T \in SUBSET S : h(T) \in Int /\ \A x \in T : h(T) = H[x] + h(T \ {x})
  BY <1>0, IntSumFacts
<1> HIDE DEF f, g, h
<1>4. {} \in P
  BY <1>1, <1>2, <1>3
<1>5. ASSUME NEW T \in SUBSET S, T # {}, T \ {Pick(T)} \in P
      PROVE  T \in P
  <2> DEFINE x == Pick(T)
             U == T \ {x}
  <2>1. x \in T /\ U \in SUBSET S
    BY <1>5, PickIn
  <2>2. h(U) = f(U) + g(U)
    BY <1>5
  <2>3. /\ f(T) = F[x] + f(U) /\ g(T) = G[x] + g(U) /\ h(T) = H[x] + h(U)
        /\ f(U) \in Int /\ g(U) \in Int /\ F[x] \in Int /\ G[x] \in Int
        /\ H[x] = F[x] + G[x]
    BY <1>1, <1>2, <1>3, <2>1
  <2> HIDE DEF x, U
  <2>4. h(T) = f(T) + g(T)
    BY <2>2, <2>3
  <2> QED
    BY <2>4
<1>6. S \in P
  <2> HIDE DEF P
  <2> QED
    BY <1>4, <1>5, SubsetInduction
<1> QED
  BY <1>6 DEF f, g, h

\* The order of two sums does not matter.
LEMMA IntSumExchange ==
  ASSUME NEW K, IsFiniteSet(K), NEW E, IsFiniteSet(E), NEW F \in [K -> [E -> Int]]
  PROVE  SumFunctionOnSet([k \in K |-> SumFunctionOnSet(F[k], E)], K)
           = SumFunctionOnSet([e \in E |-> SumFunctionOnSet([k \in K |-> F[k][e]], K)], E)
<1> DEFINE r == [k \in K |-> SumFunctionOnSet(F[k], E)]
           col(e) == [k \in K |-> F[k][e]]
           c(T) == [e \in E |-> SumFunctionOnSet(col(e), T)]
           P == {T \in SUBSET K : SumFunctionOnSet(r, T) = SumFunctionOnSet(c(T), E)}
<1>1. \A k \in K : r[k] = SumFunctionOnSet(F[k], E) /\ r[k] \in Int
  <2>1. ASSUME NEW k \in K PROVE SumFunctionOnSet(F[k], E) \in Int
    BY IntSumFacts
  <2> QED
    BY <2>1
<1>2. /\ SumFunctionOnSet(r, {}) = 0
      /\ \A T \in SUBSET K : \A x \in T :
           SumFunctionOnSet(r, T) = r[x] + SumFunctionOnSet(r, T \ {x})
  <2>1. \A k \in K : r[k] \in Int
    BY <1>1
  <2> HIDE DEF r
  <2> QED
    BY <2>1, IntSumFacts
<1>3. ASSUME NEW e \in E
      PROVE  /\ c({})[e] = 0
             /\ \A T \in SUBSET K :
                  /\ c(T)[e] \in Int
                  /\ \A x \in T : c(T)[e] = F[x][e] + c(T \ {x})[e]
  <2> DEFINE f == col(e)
  <2>1. \A k \in K : f[k] = F[k][e]
    OBVIOUS
  <2>2. \A k \in K : f[k] \in Int
    OBVIOUS
  <2>4. \A T : c(T)[e] = SumFunctionOnSet(f, T)
    BY DEF f
  <2> HIDE DEF f, c, r
  <2>3. SumFunctionOnSet(f, {}) = 0
    <3>1. {} \in SUBSET K
      OBVIOUS
    <3> QED
      BY <2>2, <3>1, IntSumStep
  <2>5. ASSUME NEW T \in SUBSET K
        PROVE  /\ SumFunctionOnSet(f, T) \in Int
               /\ \A x \in T : SumFunctionOnSet(f, T) = f[x] + SumFunctionOnSet(f, T \ {x})
    BY <2>2, IntSumStep
  <2> QED
    BY <2>1, <2>3, <2>4, <2>5
<1> HIDE DEF r, c
<1>4. {} \in P
  <2> DEFINE z == c({})
  <2>1. \A e \in E : z[e] = 0 /\ z[e] \in Int
    BY <1>3
  <2> HIDE DEF z
  <2>2. SumFunctionOnSet(z, E) = SumFunctionOnSet(z, {})
    BY <2>1, IntSumRestrict
  <2>3. SumFunctionOnSet(z, {}) = 0
    BY <2>1, IntSumFacts
  <2> QED
    BY <1>2, <2>2, <2>3 DEF z
<1>5. ASSUME NEW T \in SUBSET K, T # {}, T \ {Pick(T)} \in P
      PROVE  T \in P
  <2> DEFINE x == Pick(T)
             U == T \ {x}
             p == F[x]
             q == c(U)
             s == c(T)
  <2>1. x \in T /\ x \in K /\ U \in SUBSET K
    BY <1>5, PickIn
  <2>2. SumFunctionOnSet(r, U) = SumFunctionOnSet(q, E)
    BY <1>5
  <2> HIDE DEF x
  <2>3. SumFunctionOnSet(r, T) = SumFunctionOnSet(p, E) + SumFunctionOnSet(q, E)
    BY <1>1, <1>2, <2>1, <2>2
  <2>4. \A e \in E : p[e] \in Int /\ q[e] \in Int /\ s[e] = p[e] + q[e]
    BY <1>3, <2>1
  <2> HIDE DEF p, q, s
  <2>5. SumFunctionOnSet(s, E) = SumFunctionOnSet(p, E) + SumFunctionOnSet(q, E)
    BY <2>4, IntSumAdd
  <2>6. SumFunctionOnSet(r, T) = SumFunctionOnSet(c(T), E)
    BY <2>3, <2>5 DEF s
  <2> QED
    BY <2>6
<1>6. K \in P
  <2> HIDE DEF P
  <2> QED
    BY <1>4, <1>5, SubsetInduction
<1> QED
  BY <1>6 DEF r, c

\* Induction over the naturals, up to n.
LEMMA UpTo ==
  ASSUME NEW P, 0 \in P, \A i \in Nat : i \in P => i + 1 \in P, NEW n \in Nat
  PROVE  n \in P
<1> DEFINE S == 1 .. n
           Q == {T \in SUBSET S : Cardinality(T) \in P}
<1>1. IsFiniteSet(S) /\ Cardinality(S) = n
  BY FS_Interval
<1> HIDE DEF S
<1>2. {} \in Q
  BY FS_EmptySet
<1>3. ASSUME NEW T \in SUBSET S, T # {}, T \ {Pick(T)} \in Q
      PROVE  T \in Q
  <2> DEFINE x == Pick(T)
  <2>1. x \in T /\ IsFiniteSet(T)
    BY <1>1, <1>3, PickIn, FS_Subset
  <2>2. Cardinality(T \ {x}) \in P
    BY <1>3
  <2> HIDE DEF x
  <2>3. Cardinality(T) \in Nat /\ Cardinality(T \ {x}) = Cardinality(T) - 1
        /\ Cardinality(T \ {x}) \in Nat
    BY <2>1, FS_RemoveElement, FS_CardinalityType, FS_Subset
  <2>4. Cardinality(T) = Cardinality(T \ {x}) + 1
    BY <2>3
  <2> QED
    BY <2>2, <2>3, <2>4
<1>4. S \in Q
  <2> HIDE DEF Q
  <2> QED
    BY <1>1, <1>2, <1>3, SubsetInduction
<1> QED
  BY <1>1, <1>4

\* Nothings add up to nothing.
LEMMA IntSumZero ==
  ASSUME NEW S, IsFiniteSet(S), NEW F, \A x \in S : F[x] = 0
  PROVE  SumFunctionOnSet(F, S) = 0
<1>1. \A x \in S : F[x] \in Int
  OBVIOUS
<1>2. {} \in SUBSET S /\ \A x \in S \ {} : F[x] = 0
  OBVIOUS
<1>3. SumFunctionOnSet(F, S) = SumFunctionOnSet(F, {})
  BY <1>1, <1>2, IntSumRestrict
<1> QED
  BY <1>1, <1>3, IntSumFacts

\* A sum of naturals is at least any of them.
LEMMA NatSumAtLeast ==
  ASSUME NEW S, IsFiniteSet(S), NEW F, \A x \in S : F[x] \in Nat
  PROVE  /\ SumFunctionOnSet(F, S) \in Nat
         /\ \A x \in S : F[x] <= SumFunctionOnSet(F, S)
<1>1. \A x \in S : F[x] \in Int
  OBVIOUS
<1>2. ASSUME NEW T \in SUBSET S
      PROVE  SumFunctionOnSet(F, T) \in Nat
  <2> DEFINE Z == [x \in T |-> 0]
  <2>1. IsFiniteSet(T)
    BY FS_Subset
  <2>2. \A x \in T : Z[x] \in Int /\ F[x] \in Int /\ Z[x] <= F[x] /\ Z[x] = 0
    OBVIOUS
  <2> HIDE DEF Z
  <2>3. SumFunctionOnSet(Z, T) <= SumFunctionOnSet(F, T)
    BY <2>1, <2>2, IntSumMonotone
  <2>4. SumFunctionOnSet(Z, T) = 0
    BY <2>1, <2>2, IntSumZero
  <2>5. SumFunctionOnSet(F, T) \in Int
    BY <1>1, IntSumFacts
  <2> QED
    BY <2>3, <2>4, <2>5
<1>3. ASSUME NEW x \in S
      PROVE  F[x] <= SumFunctionOnSet(F, S)
  <2>1. SumFunctionOnSet(F, S) = F[x] + SumFunctionOnSet(F, S \ {x})
    BY <1>1, IntSumFacts
  <2>2. SumFunctionOnSet(F, S \ {x}) \in Nat
    BY <1>2
  <2> QED
    BY <2>1, <2>2
<1> QED
  BY <1>2, <1>3

-----------------------------------------------------------------------------
(* Rows. *)

LEMMA ZeroRowType == ZeroRow \in Row
  BY DEF ZeroRow, Row

LEMMA PlusType ==
  ASSUME NEW r \in Row, NEW d \in Row
  PROVE  Plus(r, d) \in Row
  BY DEF Plus, Row

LEMMA MinusType ==
  ASSUME NEW r \in Row, NEW d \in Row
  PROVE  Minus(r, d) \in Row
  BY DEF Minus, Row

LEMMA ResolutionType == \A res \in Resolutions : res \in Nat \ {0}
  BY RollupAssumption DEF Resolutions

\* A share is a row whenever it is taken of an integer time.
LEMMA CardShareType ==
  ASSUME NEW a \in PointType, NEW sec \in Int
  PROVE  CardShare(a, sec) \in Row
<1>1. Util(a) # NoUtil => Util(a) \in Int
  BY DEF Util, PointType
<1>2. Util(a) # NoUtil => sec * Util(a) \in Int
  BY <1>1
<1>. QED
  BY <1>2 DEF CardShare, Row

LEMMA UserShareType ==
  ASSUME NEW sec \in Int
  PROVE  UserShare(sec) \in Row
  BY ZeroRowType DEF UserShare, Row

\* The rows an edge writes have proper keys.
LEMMA TouchedType ==
  ASSUME NEW a \in PointType, NEW b \in PointType
  PROVE  Touched(a, b) \subseteq RollupKey
<1>. SUFFICES ASSUME NEW k \in Touched(a, b)
              PROVE  k \in RollupKey
  OBVIOUS
<1>1. PICK res \in Resolutions :
        k \in [gpu : {a.gpu}, user : Payers(a), res : {res}, bucket : Buckets(a, b, res)]
  BY DEF Touched
<1>2. res \in Nat \ {0}
  BY ResolutionType
<1>3. a.gpu \in GPU /\ a.at \in Int /\ b.at \in Int
  BY DEF PointType, Time
<1>4. Payers(a) \subseteq User \cup {NoUser}
  BY DEF Payers, Users, PointType
<1>5. Buckets(a, b, res) \subseteq Int
  BY <1>2, <1>3 DEF Buckets
<1>. QED
  BY <1>1, <1>3, <1>4, <1>5 DEF RollupKey

LEMMA ContributionType ==
  ASSUME NEW a \in PointType, NEW b \in PointType, NEW k
  PROVE  Contribution(a, b, k) \in Row
<1>1. CASE k \notin Touched(a, b)
  BY <1>1, ZeroRowType DEF Contribution
<1>2. CASE k \in Touched(a, b)
  <2>1. k \in RollupKey
    BY <1>2, TouchedType
  <2>2. k.res \in Nat /\ k.bucket \in Int
    BY <2>1, ResolutionType DEF RollupKey
  <2>3. a.at \in Int /\ b.at \in Int
    BY DEF PointType, Time
  <2>4. Seconds(a, b, k.res, k.bucket) \in Int
    BY <2>2, <2>3 DEF Seconds
  <2>. QED
    BY <1>2, <2>4, CardShareType, UserShareType DEF Contribution
<1>. QED
  BY <1>1, <1>2

-----------------------------------------------------------------------------
(* Sums of rollup rows. *)

PlusRow == [r \in Row |-> [d \in Row |-> Plus(r, d)]]

LEMMA RowMonoid == Monoid(Row, PlusRow, ZeroRow)
<1>1. ZeroRow \in Row
    BY DEF ZeroRow, Row
<1>2. \A r, d \in Row : Plus(r, d) \in Row
    BY DEF Plus, Row
<1>3. PlusRow \in [Row -> [Row -> Row]]
    BY <1>2 DEF PlusRow
<1>4. \A r \in Row : Plus(r, ZeroRow) = r
    BY DEF Plus, Row, ZeroRow
<1>5. \A r, d \in Row : Plus(r, d) = Plus(d, r)
    BY DEF Plus, Row
<1>6. \A r, d, c \in Row : Plus(Plus(r, d), c) = Plus(r, Plus(d, c))
    BY DEF Plus, Row
<1>7. \A r, d \in Row : PlusRow[r][d] = Plus(r, d)
    BY DEF PlusRow
<1> HIDE DEF PlusRow, ZeroRow, Row, Plus
<1> QED
    BY <1>1, <1>2, <1>3, <1>4, <1>5, <1>6, <1>7 DEF Monoid

RowSums(F, S) == [T \in SUBSET S |-> SumRows(F, T)]

LEMMA SumRowsIsSum ==
  ASSUME NEW S, IsFiniteSet(S), NEW F, \A x \in S : F[x] \in Row
  PROVE  IsSum(RowSums(F, S), Row, PlusRow, ZeroRow, F, S)
<1>1. PICK g \in [SUBSET S -> Row] : IsFold(g, PlusRow, ZeroRow, F, S)
    BY FoldExists, RowMonoid DEF Monoid
<1>2. ASSUME NEW T \in SUBSET S
        PROVE  SumRows(F, T) = g[T]
    <2> DEFINE Body(f) == [s \in SUBSET T |->
                             IF s = {} THEN ZeroRow
                             ELSE Plus(F[Pick(s)], f[s \ {Pick(s)}])]
               I == CHOOSE f : f = Body(f)
               h == [s \in SUBSET T |-> g[s]]
    <2>1. \A U \in SUBSET T : g[U] = IF U = {} THEN ZeroRow
                                   ELSE Plus(F[Pick(U)], g[U \ {Pick(U)}])
      <3> SUFFICES ASSUME NEW U \in SUBSET T, U # {}
                   PROVE  g[U] = Plus(F[Pick(U)], g[U \ {Pick(U)}])
        BY <1>1 DEF IsFold
      <3>1. F[Pick(U)] \in Row /\ g[U \ {Pick(U)}] \in Row
        BY PickIn
      <3> QED
        BY <1>1, <3>1 DEF IsFold, PlusRow
    <2>2. h = Body(h)
      BY <2>1
    <2>3. I = Body(I)
      <3> HIDE DEF h, Body
      <3> QED
        BY <2>2
    <2>4. SumRows(F, T) = I[T]
      BY DEF SumRows, FoldFunctionOnSet, MapThenFoldSet, Pick
    <2> HIDE DEF I
    <2> DEFINE P == {U \in SUBSET T : I[U] = g[U]}
    <2>5. {} \in P
      BY <2>1, <2>3
    <2>6. ASSUME NEW U \in SUBSET T, U # {}, U \ {Pick(U)} \in P
          PROVE  U \in P
      BY <2>1, <2>3, <2>6
    <2>7. \A U \in SUBSET T : U \in P
      <3> HIDE DEF P
      <3> QED
        BY <2>5, <2>6, SubsetInduction, FS_Subset
    <2> QED
      BY <2>4, <2>7
<1>3. RowSums(F, S) = g
  BY <1>2 DEF RowSums
<1> QED
  BY <1>1, <1>3, RowMonoid DEF IsSum

LEMMA AdditionsType ==
  ASSUME NEW S \in SUBSET EdgeType, NEW k
  PROVE  /\ Additions(S, k) \in [S -> Row]
         /\ \A e \in S : /\ Additions(S, k)[e] = Contribution(e.left, e.right, k)
                         /\ Additions(S, k)[e] \in Row
  BY ContributionType DEF EdgeType, Additions

\* The charge of a finite set of edges is the fold of what each adds.
Charges(S, k) == [T \in SUBSET S |-> Charge(T, k)]

LEMMA ChargeIsSum ==
  ASSUME NEW S \in SUBSET EdgeType, IsFiniteSet(S), NEW k
  PROVE  /\ IsSum(Charges(S, k), Row, PlusRow, ZeroRow, Additions(S, k), S)
         /\ \A T \in SUBSET S : Charge(T, k) = Charges(S, k)[T] /\ Charge(T, k) \in Row
<1>. DEFINE g == RowSums(Additions(S, k), S)
<1>1. IsSum(g, Row, PlusRow, ZeroRow, Additions(S, k), S)
  BY AdditionsType, SumRowsIsSum
<1>2. ASSUME NEW T \in SUBSET S
      PROVE  Charge(T, k) = g[T]
  <2>. DEFINE h == RowSums(Additions(T, k), T)
  <2>1. IsFiniteSet(T) /\ T \in SUBSET EdgeType
    BY FS_Subset
  <2>2. \A e \in T : Additions(T, k)[e] \in Row
    BY <2>1, AdditionsType
  <2>3. IsFold(h, PlusRow, ZeroRow, Additions(T, k), T)
    BY <2>1, <2>2, SumRowsIsSum DEF IsSum
  <2>4. \A e \in T : Additions(S, k)[e] = Additions(T, k)[e]
    BY DEF Additions
  <2>5. Charge(T, k) = h[T]
    BY DEF Charge, RowSums
  <2>6. IsFold(g, PlusRow, ZeroRow, Additions(S, k), S)
    BY <1>1 DEF IsSum
  <2>. HIDE DEF g, h
  <2>. QED
    BY <2>3, <2>4, <2>5, <2>6, FoldUnique
<1>3. g \in [SUBSET S -> Row]
  BY <1>1 DEF IsSum
<1>. HIDE DEF g
<1>4. Charges(S, k) = g
  BY <1>2, <1>3 DEF Charges
<1>. QED
  BY <1>1, <1>2, <1>3, <1>4

LEMMA ChargeType ==
  ASSUME NEW S \in SUBSET EdgeType, IsFiniteSet(S), NEW k
  PROVE  Charge(S, k) \in Row
  BY ChargeIsSum

LEMMA ChargeUnion ==
  ASSUME NEW A \in SUBSET EdgeType, IsFiniteSet(A),
         NEW B \in SUBSET EdgeType, IsFiniteSet(B), A \cap B = {}, NEW k
  PROVE  Charge(A \cup B, k) = Plus(Charge(A, k), Charge(B, k))
<1>. DEFINE S == A \cup B
            g == Charges(S, k)
<1>1. S \in SUBSET EdgeType /\ IsFiniteSet(S) /\ A \in SUBSET S /\ B \in SUBSET S
  BY FS_Union
<1>. HIDE DEF S
<1>2. /\ IsSum(g, Row, PlusRow, ZeroRow, Additions(S, k), S)
      /\ \A T \in SUBSET S : Charge(T, k) = g[T] /\ Charge(T, k) \in Row
  BY <1>1, ChargeIsSum
<1>. HIDE DEF g
<1>3. g[A \cup B] = PlusRow[g[A]][g[B]]
  BY <1>1, <1>2, SumUnion
<1>4. PlusRow[g[A]][g[B]] = Plus(g[A], g[B])
  BY <1>1, <1>2 DEF PlusRow
<1>5. Charge(A \cup B, k) = g[A \cup B] /\ Charge(A, k) = g[A] /\ Charge(B, k) = g[B]
  BY <1>1, <1>2 DEF S
<1>. QED
  BY <1>3, <1>4, <1>5

\* Edges that contribute nothing are charged nothing.
LEMMA ChargeNothing ==
  ASSUME NEW S \in SUBSET EdgeType, IsFiniteSet(S), NEW k,
         \A e \in S : Contribution(e.left, e.right, k) = ZeroRow
  PROVE  Charge(S, k) = ZeroRow
<1>. DEFINE g == Charges(S, k)
<1>1. IsSum(g, Row, PlusRow, ZeroRow, Additions(S, k), S) /\ Charge(S, k) = g[S]
  BY ChargeIsSum
<1>2. \A e \in S : Additions(S, k)[e] = ZeroRow
  BY AdditionsType
<1>3. S \in SUBSET S
  OBVIOUS
<1>. HIDE DEF g
<1>4. g[S] = ZeroRow
  BY <1>1, <1>2, <1>3, SumZero
<1>. QED
  BY <1>1, <1>4

LEMMA ChargeOne ==
  ASSUME NEW e \in EdgeType, NEW k
  PROVE  Charge({e}, k) = Contribution(e.left, e.right, k)
<1>. DEFINE S == {e}
            F == Additions(S, k)
            g == Charges(S, k)
<1>1. S \in SUBSET EdgeType /\ IsFiniteSet(S) /\ S \in SUBSET S /\ e \in S
  BY FS_Singleton
<1>2. IsSum(g, Row, PlusRow, ZeroRow, F, S) /\ Charge(S, k) = g[S]
  BY <1>1, ChargeIsSum
<1>3. F[e] = Contribution(e.left, e.right, k) /\ F[e] \in Row
  BY <1>1, AdditionsType
<1>4. S \ {e} = {}
  OBVIOUS
<1>. HIDE DEF g, F, S
<1>5. g[S] = PlusRow[F[e]][g[S \ {e}]]
  BY <1>1, <1>2, SumAny
<1>6. g[{}] = ZeroRow
  BY <1>2 DEF IsSum, IsFold
<1>7. PlusRow[F[e]][ZeroRow] = F[e]
  BY <1>3, RowMonoid DEF Monoid
<1>8. Charge(S, k) = Contribution(e.left, e.right, k)
  BY <1>2, <1>3, <1>4, <1>5, <1>6, <1>7
<1>. QED
  BY <1>8 DEF S

\* Taking back the charge of some of the edges leaves that of the others.
LEMMA ChargeWithout ==
  ASSUME NEW S \in SUBSET EdgeType, IsFiniteSet(S), NEW T \in SUBSET S, NEW k
  PROVE  Charge(S \ T, k) = Minus(Charge(S, k), Charge(T, k))
<1>1. IsFiniteSet(T) /\ IsFiniteSet(S \ T)
  BY FS_Subset
<1>2. Charge((S \ T) \cup T, k) = Plus(Charge(S \ T, k), Charge(T, k))
  BY <1>1, ChargeUnion
<1>3. (S \ T) \cup T = S
  OBVIOUS
<1>4. Charge(S \ T, k) \in Row /\ Charge(T, k) \in Row
  BY <1>1, ChargeType
<1>5. \A r, d \in Row : Minus(Plus(r, d), d) = r
  BY DEF Plus, Minus, Row
<1>. QED
  BY <1>2, <1>3, <1>4, <1>5

LEMMA TouchedByItsCard ==
  ASSUME NEW a, NEW b, NEW k \in Touched(a, b)
  PROVE  k.gpu = a.gpu /\ Integrable(a, b)
  BY DEF Touched

\* With at most one edge per card, the share is the charge.
LEMMA ShareIsCharge ==
  ASSUME NEW E \in SUBSET EdgeType, IsFiniteSet(E), NEW k,
         \A e, f \in E : e.left.gpu = f.left.gpu => e = f
  PROVE  Share(E, k) = Charge(E, k)
<1>1. \A e \in E : e.left.gpu # k.gpu => Contribution(e.left, e.right, k) = ZeroRow
  BY TouchedByItsCard DEF Contribution
<1>2. CASE \E e \in E : e.left.gpu = k.gpu
  <2>. DEFINE e == CHOOSE e \in E : e.left.gpu = k.gpu
  <2>1. e \in E /\ e.left.gpu = k.gpu
    BY <1>2
  <2>2. Share(E, k) = Contribution(e.left, e.right, k)
    BY <1>2 DEF Share
  <2>. HIDE DEF e
  <2>. DEFINE R == E \ {e}
  <2>3. R \in SUBSET EdgeType /\ IsFiniteSet(R) /\ IsFiniteSet({e}) /\ R \cap {e} = {}
        /\ R \cup {e} = E /\ e \in EdgeType
    BY <2>1, FS_Subset, FS_Singleton
  <2>4. Charge(R, k) = ZeroRow
    <3>1. \A f \in R : Contribution(f.left, f.right, k) = ZeroRow
      BY <1>1, <2>1
    <3>. HIDE DEF R
    <3>. QED
      BY <2>3, <3>1, ChargeNothing
  <2>. HIDE DEF R
  <2>5. Charge(E, k) = Plus(ZeroRow, Contribution(e.left, e.right, k))
    BY <2>3, <2>4, ChargeUnion, ChargeOne
  <2>6. \A r \in Row : Plus(ZeroRow, r) = r
    BY DEF Plus, ZeroRow, Row
  <2>7. Contribution(e.left, e.right, k) \in Row
    BY <2>3, ContributionType DEF EdgeType
  <2>. QED
    BY <2>2, <2>5, <2>6, <2>7
<1>3. CASE ~ \E e \in E : e.left.gpu = k.gpu
  BY <1>1, <1>3, ChargeNothing DEF Share
<1>. QED
  BY <1>2, <1>3

-----------------------------------------------------------------------------
(* What one snapshot writes. *)

LEMMA SampleFacts ==
  ASSUME TypeOK, NEW s \in taken
  PROVE  /\ s.boot \in Boot /\ s.seq \in Seq /\ s.at \in Int
         /\ s.gpuStatus \in GPUStatuses
         /\ DOMAIN s.cards \subseteq GPU
         /\ \A g \in DOMAIN s.cards : s.cards[g] \in ReadingType
<1>1. s \in SampleType
  BY DEF TypeOK
<1>2. PICK D \in SUBSET GPU : s.cards \in [D -> Readings]
  BY <1>1 DEF SampleType
<1>. QED
  BY <1>1, <1>2, IngestAssumption DEF SampleType, Time

LEMMA ReportedFacts ==
  ASSUME TypeOK, NEW s \in taken
  PROVE  /\ DOMAIN Reported(s) = DOMAIN s.cards \cup Carried(s)
         /\ DOMAIN Reported(s) \subseteq GPU
         /\ \A g \in DOMAIN Reported(s) : Reported(s)[g] \in ReadingType
<1>1. Carried(s) \subseteq GPU
  BY DEF Carried, Known, TypeOK
<1>2. Unqueried \in ReadingType
  <2>. DEFINE nobody == {}
  <2>1. nobody \in SUBSET (User \cup {NoUser}) /\ NoUtil \in Nat \cup {NoUtil}
    OBVIOUS
  <2>2. Unqueried = [status |-> "query_failed", process |-> "unknown",
                     owners |-> nobody, util |-> NoUtil]
    BY DEF Unqueried
  <2>3. "query_failed" \in Status /\ "unknown" \in Process
    BY DEF Status, Process
  <2>. HIDE DEF nobody
  <2>4. [status |-> "query_failed", process |-> "unknown",
         owners |-> nobody, util |-> NoUtil] \in
        [status : Status, process : Process,
         owners : SUBSET (User \cup {NoUser}), util : Nat \cup {NoUtil}]
    BY <2>1, <2>3
  <2>. QED
    BY <2>2, <2>4 DEF ReadingType
<1>. QED
  BY <1>1, <1>2, SampleFacts DEF Reported

LEMMA NewPointFacts ==
  ASSUME TypeOK, NEW s \in taken, NEW p \in NewPoints(s)
  PROVE  /\ p \in PointType
         /\ p.boot = s.boot /\ p.seq = s.seq /\ p.at = s.at
         /\ p.gpu \in DOMAIN Reported(s)
         /\ p = PointOf(s, p.gpu)
         /\ p.status = Reported(s)[p.gpu].status
<1>1. PICK g \in DOMAIN Reported(s) : p = PointOf(s, g)
  BY DEF NewPoints
<1>2. g \in GPU /\ Reported(s)[g] \in ReadingType
  BY ReportedFacts
<1>3. s.boot \in Boot /\ s.seq \in Seq /\ s.at \in Int
  BY SampleFacts
<1>4. /\ p.boot = s.boot /\ p.seq = s.seq /\ p.at = s.at /\ p.gpu = g
      /\ p.status = Reported(s)[g].status
  BY <1>1 DEF PointOf
<1>5. p \in PointType
  BY <1>1, <1>2, <1>3 DEF PointOf, PointType, ReadingType, Time
<1>. QED
  BY <1>1, <1>4, <1>5

LEMMA NewEdgeFacts ==
  ASSUME TypeOK, NEW s \in taken
  PROVE  /\ Incoming(NewPoints(s)) \subseteq EdgeType
         /\ Outgoing(NewPoints(s)) \subseteq EdgeType
         /\ Replaced(NewPoints(s)) \subseteq edges
<1>1. NewPoints(s) \subseteq PointType /\ points \subseteq PointType
  BY NewPointFacts DEF TypeOK
<1>. QED
  BY <1>1 DEF Incoming, Outgoing, Replaced, EdgeType

LEMMA ShareType ==
  ASSUME NEW E \in SUBSET EdgeType, NEW k
  PROVE  Share(E, k) \in Row
<1>1. CASE \E e \in E : e.left.gpu = k.gpu
  <2>. DEFINE f == CHOOSE e \in E : e.left.gpu = k.gpu
  <2>1. f \in EdgeType
    BY <1>1
  <2>2. f.left \in PointType /\ f.right \in PointType
    BY <2>1 DEF EdgeType
  <2>3. Share(E, k) = Contribution(f.left, f.right, k)
    BY <1>1 DEF Share
  <2>. HIDE DEF f
  <2>. QED
    BY <2>2, <2>3, ContributionType
<1>2. CASE ~ \E e \in E : e.left.gpu = k.gpu
  BY <1>2, ZeroRowType DEF Share
<1>. QED
  BY <1>1, <1>2

LEMMA TouchedByType ==
  ASSUME NEW E \in SUBSET EdgeType
  PROVE  TouchedBy(E) \subseteq RollupKey
<1>1. \A e \in E : Touched(e.left, e.right) \subseteq RollupKey
  BY TouchedType DEF EdgeType
<1>. QED
  BY <1>1 DEF TouchedBy

LEMMA RechargedType ==
  ASSUME TypeOK, NEW s \in taken
  PROVE  /\ DOMAIN Recharged(NewPoints(s)) \subseteq RollupKey
         /\ Recharged(NewPoints(s)) \in [DOMAIN Recharged(NewPoints(s)) -> Row]
<1>. DEFINE new == NewPoints(s)
            E == Incoming(new) \cup Outgoing(new) \cup Replaced(new)
            V(k) == Plus(Plus(Minus(RowAt(k), Share(Replaced(new), k)),
                              Share(Incoming(new), k)),
                         Share(Outgoing(new), k))
<1>1. /\ Incoming(new) \in SUBSET EdgeType
      /\ Outgoing(new) \in SUBSET EdgeType
      /\ Replaced(new) \in SUBSET EdgeType
  BY NewEdgeFacts DEF TypeOK
<1>2. TouchedBy(E) \subseteq RollupKey
  BY <1>1, TouchedByType
<1>3. ASSUME NEW k \in DOMAIN rollups \cup TouchedBy(E)
      PROVE  V(k) \in Row
  <2>1. RowAt(k) \in Row
    BY ZeroRowType DEF RowAt, TypeOK
  <2>2. /\ Share(Incoming(new), k) \in Row
        /\ Share(Outgoing(new), k) \in Row
        /\ Share(Replaced(new), k) \in Row
    BY <1>1, ShareType
  <2>. QED
    BY <2>1, <2>2, PlusType, MinusType
<1>4. Recharged(new) = [k \in DOMAIN rollups \cup TouchedBy(E) |-> V(k)]
  BY DEF Recharged
<1>5. DOMAIN rollups \subseteq RollupKey
  BY DEF TypeOK
<1>. HIDE DEF E, V, new
<1>. QED
  BY <1>2, <1>3, <1>4, <1>5 DEF new

LEMMA EventsType ==
  ASSUME TypeOK, NEW s \in taken
  PROVE  /\ Backdated(NewPoints(s)) \subseteq EventType
         /\ Started(NewPoints(s)) \subseteq EventType
         /\ Failures(NewPoints(s)) \subseteq EventType
         /\ Missing(s) \subseteq EventType
<1>. DEFINE new == NewPoints(s)
<1>1. \A p \in new : /\ p.boot \in Boot /\ p.seq \in Seq /\ p.at \in Time
                     /\ p.gpu \in GPU
  BY NewPointFacts DEF PointType
<1>2. Started(new) \subseteq EventType /\ Failures(new) \subseteq EventType
  BY <1>1 DEF Started, Failures, Event, EventType
<1>3. Missing(s) \subseteq EventType
  BY SampleFacts DEF Missing, Absent, Known, Event, EventType, TypeOK, Time
<1>4. Backdated(new) \subseteq EventType
  <2>. SUFFICES ASSUME NEW f \in Backdated(new) PROVE f \in EventType
    OBVIOUS
  <2>. DEFINE earlier(e) == {p \in new : /\ e.kind = "started"
                                        /\ SameChain(e, p)
                                        /\ Before(p) = {}
                                        /\ After(p) # {}
                                        /\ p.at < e.at}
  <2>1. PICK e \in events : f = IF earlier(e) = {} THEN e
            ELSE [e EXCEPT !.at = (CHOOSE p \in earlier(e) : TRUE).at]
    BY DEF Backdated
  <2>2. e \in EventType
    BY DEF TypeOK
  <2>3. earlier(e) # {} => (CHOOSE p \in earlier(e) : TRUE) \in new
    OBVIOUS
  <2>4. earlier(e) # {} => (CHOOSE p \in earlier(e) : TRUE).at \in Time
    BY <2>3, <1>1
  <2>. HIDE DEF earlier, new
  <2>. QED
    BY <2>1, <2>2, <2>4 DEF EventType
<1>. QED
  BY <1>2, <1>3, <1>4

-----------------------------------------------------------------------------
(* Type correctness. *)

\* Every reachable state is well-typed: in particular every rollup row keeps a
\* proper key and integer totals through undo, redo and pruning.
THEOREM TypeCorrect == Spec => []TypeOK
<1>1. Init => TypeOK
  <2>. SUFFICES ASSUME Init PROVE TypeOK
    OBVIOUS
  <2>1. NoRows \in [{} -> Row] /\ NoRows \in [{} -> [first : Time, last : Time]]
        /\ NoRows \in [{} -> Status] /\ DOMAIN NoRows = {}
    BY DEF NoRows
  <2>2. Start \in Nat
    BY IngestAssumption
  <2>. QED
    BY <2>1, <2>2 DEF Init, TypeOK, Time
<1>2. TypeOK /\ [Next]_vars => TypeOK'
  <2>. SUFFICES ASSUME TypeOK, [Next]_vars PROVE TypeOK'
    OBVIOUS
  <2>1. CASE Tick
    BY <2>1 DEF Tick, tables, TypeOK
  <2>2. CASE Take
    <3>1. PICK boot \in Boot, seq \in Seq, at \in now .. (now + Ahead),
               status \in GPUStatuses, D \in SUBSET GPU :
            \E cards \in [D -> Readings] :
               taken' = taken \cup {[boot |-> boot, seq |-> seq, at |-> at,
                                     gpuStatus |-> status, cards |-> cards]}
      BY <2>2 DEF Take
    <3>2. at \in Time
      BY IngestAssumption DEF Time, TypeOK
    <3>3. taken' \subseteq SampleType
      BY <3>1, <3>2 DEF TypeOK, SampleType
    <3>. QED
      BY <2>2, <3>3 DEF Take, tables, TypeOK
  <2>3. CASE Ingest
    <3>1. PICK s \in taken, backfill \in BOOLEAN :
            IF Duplicate(s) THEN UNCHANGED vars ELSE Record(s, backfill)
      BY <2>3 DEF Ingest
    <3>2. CASE Duplicate(s)
      BY <3>1, <3>2 DEF vars, tables, TypeOK
    <3>3. CASE ~ Duplicate(s)
      <4>. DEFINE new == NewPoints(s)
      <4>1. Record(s, backfill)
        BY <3>1, <3>3
      <4>2. samples' \subseteq [boot : Boot, seq : Seq, at : Time]
        BY <4>1, SampleFacts DEF Record, TypeOK, Time
      <4>3. points' \subseteq PointType /\ observed' \subseteq PointType
        BY <4>1, NewPointFacts DEF Record, TypeOK
      <4>4. edges' \subseteq EdgeType /\ charged' \subseteq EdgeType
        BY <4>1, NewEdgeFacts DEF Record, TypeOK
      <4>5. DOMAIN rollups' \subseteq RollupKey /\ rollups' \in [DOMAIN rollups' -> Row]
        BY <4>1, RechargedType DEF Record
      <4>6. events' \subseteq EventType
        BY <4>1, EventsType DEF Record
      <4>7. DOMAIN gpus' \subseteq GPU /\ gpus' \in [DOMAIN gpus' -> [first : Time, last : Time]]
        <5>1. gpus' = Registered(s)
          BY <4>1 DEF Record
        <5>2. s.at \in Time /\ DOMAIN Reported(s) \subseteq GPU
          BY SampleFacts, ReportedFacts DEF Time
        <5>. QED
          BY <5>1, <5>2 DEF Registered, TypeOK, Time
      <4>8. /\ DOMAIN snapshot'.cards \subseteq GPU
            /\ snapshot' \in [at : Time, cards : [DOMAIN snapshot'.cards -> Status]]
        <5>1. snapshot' = Live(s)
          BY <4>1 DEF Record
        <5>2. CASE ~ IsLatest(s)
          BY <5>1, <5>2 DEF Live, TypeOK
        <5>3. CASE IsLatest(s)
          <6>. DEFINE C == DOMAIN Reported(s) \cup Absent(s)
                      F == [g \in C |-> IF g \in Absent(s) THEN "not_detected"
                                        ELSE Reported(s)[g].status]
          <6>1. snapshot' = [at |-> s.at, cards |-> F]
            BY <5>1, <5>3 DEF Live
          <6>2. C \subseteq GPU
            BY ReportedFacts DEF Absent, Known, TypeOK
          <6>3. \A g \in DOMAIN Reported(s) : Reported(s)[g].status \in Status
            BY ReportedFacts DEF ReadingType
          <6>4. F \in [C -> Status] /\ DOMAIN F = C
            <7>1. "not_detected" \in Status
              BY DEF Status
            <7>2. ASSUME NEW g \in C
                  PROVE  (IF g \in Absent(s) THEN "not_detected"
                          ELSE Reported(s)[g].status) \in Status
              <8>1. CASE g \in Absent(s)
                BY <8>1, <7>1
              <8>2. CASE g \notin Absent(s)
                BY <8>2, <6>3
              <8>. QED
                BY <8>1, <8>2
            <7>. QED
              BY <7>2
          <6>. HIDE DEF C, F
          <6>5. s.at \in Time
            BY SampleFacts DEF Time
          <6>. QED
            BY <6>1, <6>2, <6>4, <6>5
        <5>. QED
          BY <5>2, <5>3
      <4>9. now' \in Nat /\ taken' \subseteq SampleType /\ receivedAt' \in Time
        BY <4>1 DEF Record, TypeOK, Time
      <4>. HIDE DEF new
      <4>. QED
        BY <4>2, <4>3, <4>4, <4>5, <4>6, <4>7, <4>8, <4>9 DEF TypeOK
    <3>. QED
      BY <3>2, <3>3
  <2>4. CASE Prune
    <3>1. rollups' = [k \in KeptKeys |-> rollups[k]] /\ KeptKeys \subseteq DOMAIN rollups
      BY <2>4 DEF Prune, Restrict, KeptKeys
    <3>2. DOMAIN rollups' \subseteq RollupKey /\ rollups' \in [DOMAIN rollups' -> Row]
      BY <3>1 DEF TypeOK
    <3>3. edges' \subseteq edges /\ points' \subseteq points /\ samples' \subseteq samples
          /\ events' \subseteq events
      BY <2>4 DEF Prune, KeptEdges
    <3>. QED
      BY <2>4, <3>2, <3>3 DEF Prune, TypeOK
  <2>5. CASE UNCHANGED vars
    BY <2>5 DEF vars, tables, TypeOK
  <2>. QED
    BY <2>1, <2>2, <2>3, <2>4, <2>5 DEF Next
<1>. QED
  BY <1>1, <1>2, PTL DEF Spec

-----------------------------------------------------------------------------
(* No double count. *)

\* A sample not yet ingested brings points at times and numbers of their own.
LEMMA NewPointDistinct ==
  ASSUME TypeOK, IdentityInv, NEW s \in taken, ~ Duplicate(s),
         NEW p \in NewPoints(s), NEW q \in points, SameChain(p, q)
  PROVE  p.at # q.at /\ p.seq # q.seq
<1>1. PICK t \in taken : [boot |-> q.boot, seq |-> q.seq, at |-> q.at]
                          = [boot |-> t.boot, seq |-> t.seq, at |-> t.at]
  BY DEF IdentityInv
<1>2. q.boot = t.boot /\ q.seq = t.seq /\ q.at = t.at
  BY <1>1
<1>3. p.boot = s.boot /\ p.seq = s.seq /\ p.at = s.at
  BY NewPointFacts
<1>4. SUFFICES ASSUME p.at = q.at \/ p.seq = q.seq PROVE FALSE
  OBVIOUS
<1>5. s = t
  BY <1>2, <1>3, <1>4 DEF IdentityInv, SameChain
<1>6. [boot |-> q.boot, seq |-> q.seq, at |-> q.at] \in samples
  BY DEF IdentityInv
<1>. QED
  BY <1>2, <1>5, <1>6 DEF Duplicate

LEMMA NewPointUnique ==
  ASSUME TypeOK, NEW s \in taken, NEW p \in NewPoints(s), NEW q \in NewPoints(s),
         SameChain(p, q)
  PROVE  p = q
  BY NewPointFacts DEF SameChain

LEMMA IdentityStep ==
  ASSUME TypeOK, IdentityInv, [Next]_vars
  PROVE  IdentityInv'
<1>1. CASE Tick
  BY <1>1 DEF Tick, tables, IdentityInv, SameChain
<1>2. CASE Take
  <2>1. PICK boot \in Boot, seq \in Seq, at \in now .. (now + Ahead),
             status \in GPUStatuses, D \in SUBSET GPU :
          \E cards \in [D -> Readings] :
             /\ FreshIdentity(boot, seq)
             /\ \A s \in taken : s.at < at
             /\ taken' = taken \cup {[boot |-> boot, seq |-> seq, at |-> at,
                                     gpuStatus |-> status, cards |-> cards]}
    BY <1>2 DEF Take
  <2>2. PICK cards \in [D -> Readings] :
             taken' = taken \cup {[boot |-> boot, seq |-> seq, at |-> at,
                                  gpuStatus |-> status, cards |-> cards]}
    BY <2>1
  <2>. DEFINE n == [boot |-> boot, seq |-> seq, at |-> at,
                    gpuStatus |-> status, cards |-> cards]
  <2>3. at \in Int /\ seq \in Int
    BY IngestAssumption DEF TypeOK, Seq
  <2>4. \A s \in taken : s.at \in Int /\ s.seq \in Int
    BY SampleFacts, IngestAssumption DEF Seq
  <2>5. \A s \in taken : s.boot = n.boot => s.seq # n.seq /\ s.at # n.at
    BY <2>1, <2>3, <2>4 DEF FreshIdentity
  <2>6. taken' = taken \cup {n}
    BY <2>2
  <2>. HIDE DEF n
  <2>7. \A s, t \in taken' : (s.boot = t.boot /\ (s.seq = t.seq \/ s.at = t.at)) => s = t
    BY <2>5, <2>6 DEF IdentityInv
  <2>. QED
    BY <1>2, <2>6, <2>7 DEF Take, tables, IdentityInv, SameChain
<1>3. CASE Ingest
  <2>1. PICK s \in taken, backfill \in BOOLEAN :
          IF Duplicate(s) THEN UNCHANGED vars ELSE Record(s, backfill)
    BY <1>3 DEF Ingest
  <2>2. CASE Duplicate(s)
    BY <2>1, <2>2 DEF vars, tables, IdentityInv, SameChain
  <2>3. CASE ~ Duplicate(s)
    <3>. DEFINE id == [boot |-> s.boot, seq |-> s.seq, at |-> s.at]
    <3>1. /\ taken' = taken
          /\ samples' = samples \cup {id}
          /\ points' = points \cup NewPoints(s)
      BY <2>1, <2>3 DEF Record
    <3>2. \A p \in points' : [boot |-> p.boot, seq |-> p.seq, at |-> p.at] \in samples'
      BY <3>1, NewPointFacts DEF IdentityInv
    <3>3. ASSUME NEW p \in points', NEW q \in points', SameChain(p, q),
                 p.at = q.at \/ p.seq = q.seq
          PROVE  p = q
      <4>1. SameChain(q, p)
        BY <3>3 DEF SameChain
      <4>. QED
        BY <2>3, <3>1, <3>3, <4>1, NewPointDistinct, NewPointUnique DEF IdentityInv
    <3>4. \A r \in samples' :
            \E t \in taken' : r = [boot |-> t.boot, seq |-> t.seq, at |-> t.at]
      BY <3>1 DEF IdentityInv
    <3>5. \A p, q \in points' :
            (SameChain(p, q) /\ (p.at = q.at \/ p.seq = q.seq)) => p = q
      BY <3>3
    <3>. QED
      BY <3>1, <3>2, <3>4, <3>5 DEF IdentityInv, SameChain
  <2>. QED
    BY <2>2, <2>3
<1>4. CASE Prune
  <2>1. /\ taken' = taken
        /\ points' = {p \in points : p.at >= now - Retain}
        /\ samples' = {r \in samples : r.at >= now - Retain}
    BY <1>4 DEF Prune
  <2>2. \A p \in points' : [boot |-> p.boot, seq |-> p.seq, at |-> p.at] \in samples'
    BY <2>1 DEF IdentityInv
  <2>. QED
    BY <2>1, <2>2 DEF IdentityInv, SameChain
<1>5. CASE UNCHANGED vars
  BY <1>5 DEF vars, tables, IdentityInv, SameChain
<1>. QED
  BY <1>1, <1>2, <1>3, <1>4, <1>5 DEF Next

\* The nearest points are what their names say, and there is at most one.
LEMMA BeforeFacts ==
  ASSUME TypeOK, IdentityInv, NEW p \in PointType, NEW q \in Before(p)
  PROVE  /\ q \in points /\ SameChain(q, p) /\ q.at < p.at
         /\ \A r \in points : SameChain(r, p) /\ r.at < p.at => r.at <= q.at
         /\ \A r \in Before(p) : r = q
<1>1. \A r \in points : r.at \in Int
  BY DEF TypeOK, PointType, Time
<1>. QED
  BY <1>1 DEF Before, IdentityInv, SameChain

LEMMA AfterFacts ==
  ASSUME TypeOK, IdentityInv, NEW p \in PointType, NEW q \in After(p)
  PROVE  /\ q \in points /\ SameChain(q, p) /\ q.at > p.at
         /\ \A r \in points : SameChain(r, p) /\ r.at > p.at => r.at >= q.at
         /\ \A r \in After(p) : r = q
<1>1. \A r \in points : r.at \in Int
  BY DEF TypeOK, PointType, Time
<1>. QED
  BY <1>1 DEF After, IdentityInv, SameChain

\* A new point that falls inside a stored edge replaces it: the right end of
\* the edge is the point after the new one.  (After is not empty because the
\* stored edge has nothing inside.)
LEMMA SplitEdgeReplaced ==
  ASSUME TypeOK, IdentityInv, EdgeInv, NEW s \in taken, ~ Duplicate(s),
         NEW p \in NewPoints(s), NEW f \in edges,
         Earlier(f.left, p), Earlier(p, f.right)
  PROVE  f \in Replaced(NewPoints(s))
<1>1. /\ p \in PointType /\ p.at \in Int
      /\ f.right \in points /\ f.left.at \in Int
      /\ \A r \in points : r.at \in Int
  BY NewPointFacts DEF TypeOK, EdgeInv, ChargedForward, EdgesJoinPoints, EdgesAdjacent, PrunedArePast, EdgeType, PointType, Time
<1>2. ASSUME NEW r \in points, SameChain(r, p), r.at > p.at
      PROVE  r.at >= f.right.at
  <2>1. ~ (Earlier(f.left, r) /\ Earlier(r, f.right))
    BY DEF EdgeInv, ChargedForward, EdgesJoinPoints, EdgesAdjacent, PrunedArePast
  <2>. QED
    BY <1>1, <1>2, <2>1 DEF Earlier, SameChain
<1>3. f.right \in After(p)
  BY <1>1, <1>2 DEF After, Earlier, SameChain
<1>4. [left |-> p, right |-> f.right] \in Outgoing(NewPoints(s))
  BY <1>1, <1>3 DEF Outgoing
<1>. QED
  BY <1>4 DEF Replaced, SameEdgeKey, SameChain

LEMMA IncomingFacts ==
  ASSUME TypeOK, IdentityInv, NEW s \in taken, NEW e \in Incoming(NewPoints(s))
  PROVE  /\ e.right \in NewPoints(s) /\ e.left \in Before(e.right)
         /\ e.left \in points /\ Earlier(e.left, e.right)
         /\ e = [left |-> e.left, right |-> e.right]
<1>1. e.right \in NewPoints(s) /\ e.left \in Before(e.right)
      /\ e = [left |-> e.left, right |-> e.right]
  BY DEF Incoming
<1>. QED
  BY <1>1, BeforeFacts, NewPointFacts DEF Earlier

LEMMA OutgoingFacts ==
  ASSUME TypeOK, IdentityInv, NEW s \in taken, NEW e \in Outgoing(NewPoints(s))
  PROVE  /\ e.left \in NewPoints(s) /\ e.right \in After(e.left)
         /\ e.right \in points /\ Earlier(e.left, e.right)
         /\ e = [left |-> e.left, right |-> e.right]
<1>1. e.left \in NewPoints(s) /\ e.right \in After(e.left)
      /\ e = [left |-> e.left, right |-> e.right]
  BY DEF Outgoing
<1>. QED
  BY <1>1, AfterFacts, NewPointFacts DEF Earlier, SameChain

\* What Record does to the points and edges, in one place.
LEMMA RecordFacts ==
  ASSUME TypeOK, NEW s \in taken, NEW backfill, Record(s, backfill)
  PROVE  LET new == NewPoints(s)
             fresh == Incoming(new) \cup Outgoing(new) IN
         /\ now' = now
         /\ points' = points \cup new
         /\ edges' = (edges \ Replaced(new)) \cup fresh
         /\ charged' = (charged \ Replaced(new)) \cup fresh
         /\ Replaced(new) \subseteq edges
  BY NewEdgeFacts DEF Record

LEMMA EdgeStep ==
  ASSUME TypeOK, IdentityInv, EdgeInv, [Next]_vars
  PROVE  EdgeInv'
<1>0. Retain \in Nat /\ Accept \in Nat /\ Accept <= Retain /\ now \in Nat
  <2>1. Interval \in Nat
    BY RollupAssumption
  <2>. QED
    BY <2>1, IngestAssumption, RetentionAssumption DEF TypeOK
<1>1. CASE Tick
  <2>1. now' = now + 1 /\ points' = points /\ edges' = edges /\ charged' = charged
    BY <1>1 DEF Tick, tables
  <2>2. \A e \in edges \cup charged : e.left.at \in Int /\ e.right.at \in Int
    BY DEF TypeOK, EdgeType, PointType, Time
  <2>3. \A x \in Int : x < now - Retain => x < now' - Retain
    BY <1>0, <2>1
  <2>. QED
    BY <2>1, <2>2, <2>3
       DEF EdgeInv, ChargedForward, EdgesJoinPoints, EdgesAdjacent, PrunedArePast, Earlier, SameChain
<1>2. CASE Take
  BY <1>2 DEF Take, tables, EdgeInv, ChargedForward, EdgesJoinPoints, EdgesAdjacent, PrunedArePast, Earlier, SameChain
<1>3. CASE Ingest
  <2>1. PICK s \in taken, backfill \in BOOLEAN :
          /\ Accepted(s)
          /\ IF Duplicate(s) THEN UNCHANGED vars ELSE Record(s, backfill)
    BY <1>3 DEF Ingest
  <2>2. CASE Duplicate(s)
    BY <2>1, <2>2 DEF vars, tables, EdgeInv, ChargedForward, EdgesJoinPoints, EdgesAdjacent, PrunedArePast, Earlier, SameChain
  <2>3. CASE ~ Duplicate(s)
    <3>. DEFINE new == NewPoints(s)
                fresh == Incoming(new) \cup Outgoing(new)
    <3>1. /\ now' = now
          /\ points' = points \cup new
          /\ edges' = (edges \ Replaced(new)) \cup fresh
          /\ charged' = (charged \ Replaced(new)) \cup fresh
          /\ Replaced(new) \subseteq edges
      BY <2>1, <2>3, RecordFacts
    <3>2. edges' \subseteq charged'
      BY <3>1
         DEF EdgeInv, ChargedForward, EdgesJoinPoints, EdgesAdjacent, PrunedArePast
    <3>3. ASSUME NEW e \in fresh
          PROVE  Earlier(e.left, e.right) /\ e.left \in points' /\ e.right \in points'
      BY <3>1, IncomingFacts, OutgoingFacts
    <3>4. \A e \in charged' : Earlier(e.left, e.right)
      BY <3>1, <3>3
         DEF EdgeInv, ChargedForward, EdgesJoinPoints, EdgesAdjacent, PrunedArePast
    <3>5. \A e \in edges' : /\ e.right \in points'
                            /\ e.left \in points' \/ e.left.at < now' - Retain
      BY <3>1, <3>3
         DEF EdgeInv, ChargedForward, EdgesJoinPoints, EdgesAdjacent, PrunedArePast
    <3>6. ASSUME NEW e \in edges', NEW p \in points',
                 Earlier(e.left, p), Earlier(p, e.right)
          PROVE  FALSE
      <4>1. CASE e \in edges \ Replaced(new) /\ p \in points
        BY <3>6, <4>1
           DEF EdgeInv, ChargedForward, EdgesJoinPoints, EdgesAdjacent, PrunedArePast
      <4>2. CASE e \in edges \ Replaced(new) /\ p \in new
        BY <2>3, <3>6, <4>2, SplitEdgeReplaced
      <4>3. CASE e \in Incoming(new)
        <5>1. /\ e.right \in new /\ e.left \in Before(e.right)
              /\ e.right \in PointType
          BY <4>3, IncomingFacts, NewPointFacts
        <5>2. p.at \in Int /\ e.left.at \in Int /\ e.right.at \in Int
          BY <3>1, <5>1, <4>3, NewPointFacts, IncomingFacts DEF TypeOK, PointType, Time
        <5>3. CASE p \in points
          BY <3>6, <5>1, <5>2, <5>3, BeforeFacts DEF Earlier
        <5>4. CASE p \in new
          BY <3>6, <5>1, <5>2, <5>4, NewPointUnique DEF Earlier
        <5>. QED
          BY <3>1, <5>3, <5>4
      <4>4. CASE e \in Outgoing(new)
        <5>1. /\ e.left \in new /\ e.right \in After(e.left)
              /\ e.left \in PointType
          BY <4>4, OutgoingFacts, NewPointFacts
        <5>2. p.at \in Int /\ e.left.at \in Int /\ e.right.at \in Int
          BY <3>1, <5>1, <4>4, NewPointFacts, OutgoingFacts DEF TypeOK, PointType, Time
        <5>3. CASE p \in points
          BY <3>6, <5>1, <5>2, <5>3, AfterFacts DEF Earlier, SameChain
        <5>4. CASE p \in new
          BY <3>6, <5>1, <5>2, <5>4, NewPointUnique DEF Earlier
        <5>. QED
          BY <3>1, <5>3, <5>4
      <4>. QED
        BY <3>1, <4>1, <4>2, <4>3, <4>4
    <3>7. ASSUME NEW e \in charged' \ edges'
          PROVE  /\ e.right.at < now' - Retain
                 /\ \A p \in points' : e.right.at < p.at
      <4>1. e \in charged \ edges
        BY <3>1
      <4>2. e.right.at \in Int /\ e.right.at < now - Retain
        BY <4>1
           DEF EdgeInv, ChargedForward, EdgesJoinPoints, EdgesAdjacent, PrunedArePast, TypeOK, EdgeType, PointType, Time
      <4>3. \A p \in new : p.at \in Int /\ p.at >= now - Accept
        BY <2>1, NewPointFacts, SampleFacts DEF Accepted
      <4>4. \A p \in new : e.right.at < p.at
        BY <1>0, <4>2, <4>3
      <4>. QED
        BY <3>1, <4>1, <4>2, <4>4
           DEF EdgeInv, ChargedForward, EdgesJoinPoints, EdgesAdjacent, PrunedArePast
    <3>8. \A e \in edges', p \in points' : ~ (Earlier(e.left, p) /\ Earlier(p, e.right))
      BY <3>6
    <3>9. \A e \in charged' \ edges' : /\ e.right.at < now' - Retain
                                       /\ \A p \in points' : e.right.at < p.at
      BY <3>7
    <3>. HIDE DEF new, fresh
    <3>10. ChargedForward'
      BY <3>2, <3>4 DEF ChargedForward, Earlier, SameChain
    <3>11. EdgesJoinPoints'
      BY <3>5 DEF EdgesJoinPoints
    <3>12. EdgesAdjacent'
      BY <3>8 DEF EdgesAdjacent, Earlier, SameChain
    <3>13. PrunedArePast'
      BY <3>9 DEF PrunedArePast
    <3>. QED
      BY <3>10, <3>11, <3>12, <3>13 DEF EdgeInv
  <2>. QED
    BY <2>2, <2>3
<1>4. CASE Prune
  <2>1. /\ points' = {p \in points : p.at >= now - Retain}
        /\ edges' = KeptEdges /\ charged' = charged /\ now' = now
    BY <1>4 DEF Prune
  <2>2. \A p \in points : p.at \in Int
    BY DEF TypeOK, PointType, Time
  <2>3. ASSUME NEW e \in edges
        PROVE  (e \in KeptEdges) <=> (e.right.at >= now - Retain)
    <3>1. e.right \in points /\ e.right.at \in Int
      BY <2>2
         DEF EdgeInv, ChargedForward, EdgesJoinPoints, EdgesAdjacent, PrunedArePast
    <3>2. \A p \in points : (SameChain(p, e.right) /\ p.seq = e.right.seq) => p = e.right
      BY <3>1 DEF IdentityInv
    <3>3. SameChain(e.right, e.right)
      BY DEF SameChain
    <3>. QED
      BY <3>1, <3>2, <3>3 DEF KeptEdges
  <2>4. edges' \subseteq edges
    BY <2>1 DEF KeptEdges
  <2>5. \A e \in edges' : /\ e.right \in points'
                          /\ e.left \in points' \/ e.left.at < now' - Retain
    <3>. SUFFICES ASSUME NEW e \in edges'
                  PROVE  /\ e.right \in points'
                         /\ e.left \in points' \/ e.left.at < now - Retain
      BY <2>1
    <3>1. e \in edges /\ e.right \in points /\ (e.left \in points \/ e.left.at < now - Retain)
      BY <2>4
         DEF EdgeInv, ChargedForward, EdgesJoinPoints, EdgesAdjacent, PrunedArePast
    <3>. QED
      BY <1>0, <2>1, <2>2, <2>3, <3>1
  <2>6. ASSUME NEW e \in charged' \ edges'
        PROVE  /\ e.right.at < now' - Retain
               /\ \A p \in points' : e.right.at < p.at
    <3>1. CASE e \in charged \ edges
      BY <2>1, <3>1
         DEF EdgeInv, ChargedForward, EdgesJoinPoints, EdgesAdjacent, PrunedArePast
    <3>2. CASE e \in edges
      <4>1. e.right \in points /\ e.right.at \in Int
        BY <2>2, <3>2
           DEF EdgeInv, ChargedForward, EdgesJoinPoints, EdgesAdjacent, PrunedArePast
      <4>2. e.right.at < now - Retain
        BY <1>0, <2>1, <2>3, <2>6, <3>2, <4>1
      <4>. QED
        BY <1>0, <2>1, <2>2, <4>1, <4>2
    <3>. QED
      BY <2>1, <2>6, <3>1, <3>2
  <2>7. edges' \subseteq charged' /\ \A e \in charged' : Earlier(e.left, e.right)
    BY <2>1, <2>4
       DEF EdgeInv, ChargedForward, EdgesJoinPoints, EdgesAdjacent, PrunedArePast
  <2>8. \A e \in edges', p \in points' : ~ (Earlier(e.left, p) /\ Earlier(p, e.right))
    BY <2>1, <2>4
       DEF EdgeInv, ChargedForward, EdgesJoinPoints, EdgesAdjacent, PrunedArePast
  <2>9. \A e \in charged' \ edges' : /\ e.right.at < now' - Retain
                                     /\ \A p \in points' : e.right.at < p.at
    BY <2>6
  <2>10. ChargedForward'
    BY <2>7 DEF ChargedForward, Earlier, SameChain
  <2>11. EdgesJoinPoints'
    BY <2>5 DEF EdgesJoinPoints
  <2>12. EdgesAdjacent'
    BY <2>8 DEF EdgesAdjacent, Earlier, SameChain
  <2>13. PrunedArePast'
    BY <2>9 DEF PrunedArePast
  <2>. QED
    BY <2>10, <2>11, <2>12, <2>13 DEF EdgeInv
<1>5. CASE UNCHANGED vars
  BY <1>5 DEF vars, tables, EdgeInv, ChargedForward, EdgesJoinPoints, EdgesAdjacent, PrunedArePast, Earlier, SameChain
<1>. QED
  BY <1>1, <1>2, <1>3, <1>4, <1>5 DEF Next

LEMMA PrunedPointsStep ==
  ASSUME TypeOK, PrunedPointsArePast, [Next]_vars
  PROVE  PrunedPointsArePast'
<1>0. /\ Retain \in Nat /\ Accept \in Nat /\ Accept <= Retain /\ now \in Nat
      /\ \A q \in observed \cup points : q.at \in Int
  BY RollupAssumption, IngestAssumption, RetentionAssumption
     DEF TypeOK, PointType, Time
<1>1. CASE Tick
  BY <1>0, <1>1 DEF Tick, tables, PrunedPointsArePast
<1>2. CASE Ingest
  <2>1. PICK s \in taken, backfill \in BOOLEAN :
          /\ Accepted(s)
          /\ IF Duplicate(s) THEN UNCHANGED vars ELSE Record(s, backfill)
    BY <1>2 DEF Ingest
  <2>2. CASE Duplicate(s)
    BY <2>1, <2>2 DEF vars, tables, PrunedPointsArePast
  <2>3. CASE ~ Duplicate(s)
    <3>1. /\ points' = points \cup NewPoints(s)
          /\ observed' = observed \cup NewPoints(s)
          /\ now' = now
      BY <2>1, <2>3 DEF Record
    <3>2. \A p \in NewPoints(s) : p.at \in Int /\ p.at >= now - Accept
      BY <2>1, NewPointFacts, SampleFacts DEF Accepted
    <3>. QED
      BY <1>0, <3>1, <3>2 DEF PrunedPointsArePast
  <2>. QED
    BY <2>2, <2>3
<1>3. CASE Prune
  BY <1>0, <1>3 DEF Prune, PrunedPointsArePast
<1>4. CASE UNCHANGED <<now, points, observed>>
  BY <1>4 DEF PrunedPointsArePast
<1>. QED
  BY <1>1, <1>2, <1>3, <1>4 DEF Next, Take, vars, tables

\* A charged edge and a new one of the same chain do not overlap.
LEMMA OldNewDisjoint ==
  ASSUME TypeOK, IdentityInv, EdgeInv, NEW s \in taken, ~ Duplicate(s), Accepted(s),
         NEW f \in charged \ Replaced(NewPoints(s)),
         NEW e \in Incoming(NewPoints(s)) \cup Outgoing(NewPoints(s)),
         SameChain(f.right, e.right)
  PROVE  Disjoint(f, e)
<1>. DEFINE new == NewPoints(s)
<1>1. /\ Retain \in Nat /\ Accept \in Nat /\ Accept <= Retain /\ now \in Nat
  BY RollupAssumption, IngestAssumption, RetentionAssumption DEF TypeOK
<1>2. \A p \in new : p.at \in Int /\ p.at >= now - Accept /\ p \in PointType
  BY NewPointFacts, SampleFacts DEF Accepted
<1>3. /\ f.left.at \in Int /\ f.right.at \in Int /\ f.left.at < f.right.at
      /\ SameChain(f.left, f.right)
  BY DEF TypeOK, EdgeType, PointType, Time,
         EdgeInv, ChargedForward, Earlier
<1>4. \A p \in points : p.at \in Int
  BY DEF TypeOK, PointType, Time
<1>5. CASE e \in Incoming(new)
  <2>1. /\ e.right \in new /\ e.left \in Before(e.right) /\ e.left \in points
        /\ Earlier(e.left, e.right)
    BY <1>5, IncomingFacts
  <2>2. CASE f \in edges
    <3>1. f.right \in points
      BY <2>2 DEF EdgeInv, EdgesJoinPoints
    <3>2. f.right.at # e.right.at
      BY <2>1, <3>1, NewPointDistinct DEF SameChain
    <3>3. CASE f.right.at < e.right.at
      <4>1. f.right.at <= e.left.at
        BY <1>2, <2>1, <3>1, <3>3, BeforeFacts
      <4>. QED
        BY <4>1 DEF Disjoint
    <3>4. CASE f.right.at > e.right.at
      <4>1. ~ (Earlier(f.left, e.right) /\ Earlier(e.right, f.right))
        BY <2>1, <2>2, SplitEdgeReplaced
      <4>2. e.right.at <= f.left.at
        BY <1>2, <1>3, <2>1, <3>4, <4>1 DEF Earlier, SameChain
      <4>. QED
        BY <4>2 DEF Disjoint
    <3>. QED
      BY <1>2, <1>3, <2>1, <3>2, <3>3, <3>4
  <2>3. CASE f \notin edges
    <3>1. f.right.at < e.left.at
      BY <2>1, <2>3 DEF EdgeInv, PrunedArePast
    <3>. QED
      BY <1>3, <1>4, <2>1, <3>1 DEF Disjoint
  <2>. QED
    BY <2>2, <2>3
<1>6. CASE e \in Outgoing(new)
  <2>1. /\ e.left \in new /\ e.right \in After(e.left) /\ e.right \in points
        /\ Earlier(e.left, e.right)
    BY <1>6, OutgoingFacts
  <2>2. CASE f \in edges
    <3>1. f.right \in points
      BY <2>2 DEF EdgeInv, EdgesJoinPoints
    <3>2. SUFFICES ASSUME f.left.at < e.right.at, f.right.at > e.left.at
                   PROVE  FALSE
      BY <1>2, <1>3, <1>4, <2>1 DEF Disjoint
    <3>3. f.right.at >= e.right.at
      BY <2>1, <1>2, <3>1, <3>2, AfterFacts DEF Earlier, SameChain
    <3>4. f.left.at >= e.left.at
      <4>1. ~ (Earlier(f.left, e.left) /\ Earlier(e.left, f.right))
        BY <2>1, <2>2, SplitEdgeReplaced
      <4>. QED
        BY <1>2, <1>3, <2>1, <3>2, <4>1 DEF Earlier, SameChain
    <3>5. f.left \in points
      BY <1>1, <1>2, <1>3, <2>1, <2>2, <3>4 DEF EdgeInv, EdgesJoinPoints
    <3>6. SameChain(f.left, e.left) /\ SameChain(e.left, f.left)
      BY <1>3, <2>1 DEF Earlier, SameChain
    <3>7. f.left.at # e.left.at
      BY <2>1, <3>5, <3>6, NewPointDistinct
    <3>8. f.left.at >= e.right.at
      BY <1>2, <1>3, <2>1, <3>4, <3>5, <3>6, <3>7, AfterFacts
    <3>. QED
      BY <1>3, <1>4, <2>1, <3>2, <3>8
  <2>3. CASE f \notin edges
    <3>1. f.right.at < now - Retain
      BY <2>3 DEF EdgeInv, PrunedArePast
    <3>. QED
      BY <1>1, <1>2, <1>3, <2>1, <3>1 DEF Disjoint
  <2>. QED
    BY <2>2, <2>3
<1>. QED
  BY <1>5, <1>6

\* The edges of one snapshot in one chain meet in its new point.
LEMMA NewNewDisjoint ==
  ASSUME TypeOK, IdentityInv, NEW s \in taken,
         NEW e \in Incoming(NewPoints(s)) \cup Outgoing(NewPoints(s)),
         NEW f \in Incoming(NewPoints(s)) \cup Outgoing(NewPoints(s)),
         SameChain(e.right, f.right), e # f
  PROVE  Disjoint(e, f)
<1>. DEFINE new == NewPoints(s)
<1>1. \A p \in new : p.at \in Int /\ p \in PointType
  BY NewPointFacts, SampleFacts
<1>2. CASE e \in Incoming(new) /\ f \in Incoming(new)
  <2>1. e.right = f.right
    BY <1>2, IncomingFacts, NewPointUnique
  <2>2. e.left = f.left
    BY <1>1, <1>2, <2>1, IncomingFacts, BeforeFacts
  <2>. QED
    BY <1>2, <2>1, <2>2, IncomingFacts
<1>3. CASE e \in Outgoing(new) /\ f \in Outgoing(new)
  <2>1. e.left = f.left
    BY <1>3, OutgoingFacts, NewPointUnique DEF Earlier, SameChain
  <2>2. e.right = f.right
    BY <1>1, <1>3, <2>1, OutgoingFacts, AfterFacts
  <2>. QED
    BY <1>3, <2>1, <2>2, OutgoingFacts
<1>4. CASE e \in Incoming(new) /\ f \in Outgoing(new)
  <2>1. e.right = f.left
    BY <1>4, IncomingFacts, OutgoingFacts, NewPointUnique DEF Earlier, SameChain
  <2>. QED
    BY <1>1, <1>4, <2>1, IncomingFacts DEF Disjoint
<1>5. CASE e \in Outgoing(new) /\ f \in Incoming(new)
  <2>1. e.left = f.right
    BY <1>5, IncomingFacts, OutgoingFacts, NewPointUnique DEF Earlier, SameChain
  <2>. QED
    BY <1>1, <1>5, <2>1, OutgoingFacts DEF Disjoint
<1>. QED
  BY <1>2, <1>3, <1>4, <1>5

LEMMA NoDoubleCountStep ==
  ASSUME TypeOK, IdentityInv, EdgeInv, NoDoubleCount, [Next]_vars
  PROVE  NoDoubleCount'
<1>1. CASE charged' = charged
  BY <1>1 DEF NoDoubleCount, SameChain, Disjoint
<1>2. CASE Ingest
  <2>1. PICK s \in taken, backfill \in BOOLEAN :
          /\ Accepted(s)
          /\ IF Duplicate(s) THEN UNCHANGED vars ELSE Record(s, backfill)
    BY <1>2 DEF Ingest
  <2>2. CASE Duplicate(s)
    BY <1>1, <2>1, <2>2 DEF vars
  <2>3. CASE ~ Duplicate(s)
    <3>. DEFINE new == NewPoints(s)
                fresh == Incoming(new) \cup Outgoing(new)
    <3>1. charged' = (charged \ Replaced(new)) \cup fresh
      BY <2>1, <2>3, RecordFacts
    <3>2. ASSUME NEW e \in charged', NEW f \in charged',
                 SameChain(e.right, f.right), e # f
          PROVE  Disjoint(e, f)
      <4>1. CASE e \in charged \ Replaced(new) /\ f \in charged \ Replaced(new)
        BY <3>2, <4>1 DEF NoDoubleCount
      <4>2. CASE e \in charged \ Replaced(new) /\ f \in fresh
        BY <2>1, <2>3, <3>2, <4>2, OldNewDisjoint
      <4>3. CASE e \in fresh /\ f \in charged \ Replaced(new)
        <5>1. SameChain(f.right, e.right)
          BY <3>2 DEF SameChain
        <5>2. Disjoint(f, e)
          BY <2>1, <2>3, <4>3, <5>1, OldNewDisjoint
        <5>. QED
          BY <5>2 DEF Disjoint
      <4>4. CASE e \in fresh /\ f \in fresh
        BY <3>2, <4>4, NewNewDisjoint
      <4>. QED
        BY <3>1, <4>1, <4>2, <4>3, <4>4
    <3>. QED
      BY <3>2 DEF NoDoubleCount, SameChain, Disjoint
  <2>. QED
    BY <2>2, <2>3
<1>. QED
  BY <1>1, <1>2 DEF Next, Tick, Take, Prune, vars

\* The invariant behind the integral: identities, neighbourhood and retention.
THEOREM ChainCorrect == Spec => []ChainInv
<1>1. Init => ChainInv
  BY DEF Init, ChainInv, IdentityInv, EdgeInv, ChargedForward, EdgesJoinPoints,
         EdgesAdjacent, PrunedArePast, PrunedPointsArePast
<1>2. TypeOK /\ ChainInv /\ [Next]_vars => ChainInv'
  BY IdentityStep, EdgeStep, PrunedPointsStep DEF ChainInv
<1>. QED
  BY <1>1, <1>2, TypeCorrect, PTL DEF Spec

\* No instant of a card is charged twice within one start of the agent, in
\* whatever order, how late and how often its samples are delivered, and
\* however the retention job interferes.
THEOREM NeverDoubleCounts == Spec => []NoDoubleCount
<1>1. Init => NoDoubleCount
  BY DEF Init, NoDoubleCount
<1>2. TypeOK /\ ChainInv /\ NoDoubleCount /\ [Next]_vars => NoDoubleCount'
  BY NoDoubleCountStep DEF ChainInv
<1>. QED
  BY <1>1, <1>2, TypeCorrect, ChainCorrect, PTL DEF Spec

-----------------------------------------------------------------------------
(* Exactly the known time is charged. *)

LEMMA ConsecutiveFacts ==
  ASSUME NEW e
  PROVE  e \in Consecutive <=>
           /\ e \in [left : observed, right : observed]
           /\ Earlier(e.left, e.right)
           /\ \A r \in observed : ~ (Earlier(e.left, r) /\ Earlier(r, e.right))
  BY DEF Consecutive

LEMMA NeighboursStep ==
  ASSUME TypeOK, IdentityInv, EdgeInv, PrunedPointsArePast, ChargedAreNeighbours,
         NEW s \in taken, NEW backfill \in BOOLEAN,
         ~ Duplicate(s), Accepted(s), Record(s, backfill)
  PROVE  ChargedAreNeighbours'
<1>. DEFINE new == NewPoints(s)
            fresh == Incoming(new) \cup Outgoing(new)
            seen == observed \cup new
            Adjacent(e) ==
               /\ e \in [left : seen, right : seen]
               /\ Earlier(e.left, e.right)
               /\ \A r \in seen : ~ (Earlier(e.left, r) /\ Earlier(r, e.right))
<1>1. /\ points' = points \cup new /\ observed' = seen
      /\ charged' = (charged \ Replaced(new)) \cup fresh
      /\ Replaced(new) \subseteq edges
  BY RecordFacts DEF Record
<1>2. /\ Retain \in Nat /\ Accept \in Nat /\ now \in Nat /\ Interval \in Nat
      /\ Accept + 2 * Interval <= Retain
  BY RollupAssumption, IngestAssumption, RetentionAssumption DEF TypeOK
<1>3. \A p \in new : p.at \in Int /\ p.at >= now - Accept /\ p \in PointType
  BY NewPointFacts, SampleFacts DEF Accepted
<1>4. \A q \in observed : q.at \in Int
  BY DEF TypeOK, PointType, Time
<1>5. \A q \in observed \ points : q.at < now - Retain /\ \A p \in points : q.at < p.at
  BY DEF PrunedPointsArePast
<1>6. points \subseteq observed
  BY DEF PrunedPointsArePast
<1>7. ASSUME NEW p \in new, NEW q \in observed, SameChain(p, q) \/ SameChain(q, p)
      PROVE  p.at # q.at
  <2>1. SameChain(p, q)
    BY <1>7 DEF SameChain
  <2>. QED
    BY <1>2, <1>3, <1>4, <1>5, <2>1, NewPointDistinct
<1>8. ASSUME NEW e \in charged \ Replaced(new)
      PROVE  Adjacent(e)
  <2>1. /\ e \in [left : observed, right : observed] /\ Earlier(e.left, e.right)
        /\ \A r \in observed : ~ (Earlier(e.left, r) /\ Earlier(r, e.right))
    BY ConsecutiveFacts DEF ChargedAreNeighbours
  <2>2. ASSUME NEW p \in new, Earlier(e.left, p), Earlier(p, e.right)
        PROVE  FALSE
    <3>1. CASE e \in edges
      BY <2>2, <3>1, SplitEdgeReplaced
    <3>2. CASE e \notin edges
      <4>1. e.right.at < now - Retain
        BY <3>2 DEF EdgeInv, PrunedArePast
      <4>. QED
        BY <1>2, <1>3, <1>4, <2>1, <2>2, <4>1 DEF Earlier
    <3>. QED
      BY <3>1, <3>2
  <2>. QED
    BY <2>1, <2>2
<1>9. ASSUME NEW e \in Incoming(new)
      PROVE  Adjacent(e)
  <2>1. /\ e.right \in new /\ e.left \in Before(e.right) /\ e.left \in points
        /\ Earlier(e.left, e.right) /\ e = [left |-> e.left, right |-> e.right]
    BY IncomingFacts
  <2>2. ASSUME NEW r \in seen, Earlier(e.left, r), Earlier(r, e.right)
        PROVE  FALSE
    <3>1. CASE r \in points
      BY <1>3, <1>4, <1>6, <2>1, <2>2, <3>1, BeforeFacts DEF Earlier
    <3>2. CASE r \in observed \ points
      BY <1>4, <1>5, <1>6, <2>1, <2>2, <3>2 DEF Earlier
    <3>3. CASE r \in new
      BY <1>3, <2>1, <2>2, <3>3, NewPointUnique DEF Earlier
    <3>. QED
      BY <3>1, <3>2, <3>3
  <2>. QED
    BY <1>6, <2>1, <2>2
<1>10. ASSUME NEW e \in Outgoing(new)
       PROVE  Adjacent(e)
  <2>1. /\ e.left \in new /\ e.right \in After(e.left) /\ e.right \in points
        /\ Earlier(e.left, e.right) /\ e = [left |-> e.left, right |-> e.right]
    BY OutgoingFacts
  <2>2. ASSUME NEW r \in seen, Earlier(e.left, r), Earlier(r, e.right)
        PROVE  FALSE
    <3>1. CASE r \in points
      <4>1. SameChain(r, e.left) /\ e.left.at < r.at /\ r.at < e.right.at
        BY <2>2 DEF Earlier, SameChain
      <4>2. e.left.at \in Int /\ r.at \in Int /\ e.right.at \in Int /\ e.left \in PointType
        BY <1>3, <1>4, <1>6, <2>1, <3>1
      <4>3. r.at >= e.right.at
        BY <2>1, <3>1, <4>1, <4>2, AfterFacts
      <4>. QED
        BY <4>1, <4>2, <4>3
    <3>2. CASE r \in observed \ points
      BY <1>2, <1>3, <1>4, <1>5, <2>1, <2>2, <3>2 DEF Earlier
    <3>3. CASE r \in new
      BY <1>3, <2>1, <2>2, <3>3, NewPointUnique DEF Earlier
    <3>. QED
      BY <3>1, <3>2, <3>3
  <2>. QED
    BY <1>6, <2>1, <2>2
<1>11. \A e \in charged' : Adjacent(e)
  BY <1>1, <1>8, <1>9, <1>10
<1>12. ASSUME NEW e, Adjacent(e), Integrable(e.left, e.right)
       PROVE  e \in charged'
  <2>. DEFINE l == e.left
              r == e.right
  <2>1. /\ l \in seen /\ r \in seen /\ e = [left |-> l, right |-> r]
        /\ Earlier(l, r) /\ SameChain(r, l)
    BY <1>12 DEF Earlier, SameChain
  <2>2. r.at - l.at <= 2 * Interval
    BY <1>12 DEF Integrable
  <2>3. \A q \in seen : q.at \in Int
    BY <1>3, <1>4
  <2>4. CASE r \in new
    <3>1. l \in observed
      BY <2>1, <2>3, <2>4, NewPointUnique DEF Earlier
    <3>2. l \in points
      BY <1>2, <1>3, <1>5, <2>2, <2>3, <2>4, <3>1
    <3>3. l \in Before(r)
      <4>1. ASSUME NEW q \in points, SameChain(q, r), q.at < r.at
            PROVE  q.at <= l.at
        <5>1. ~ (Earlier(l, q) /\ Earlier(q, r))
          BY <1>6, <1>12
        <5>. QED
          BY <1>6, <2>1, <2>3, <4>1, <5>1 DEF Earlier, SameChain
      <4>. QED
        BY <2>1, <3>2, <4>1 DEF Before, Earlier
    <3>4. e \in Incoming(new)
      BY <2>1, <2>4, <3>2, <3>3 DEF Incoming
    <3>. QED
      BY <1>1, <3>4
  <2>5. CASE l \in new /\ r \in observed
    <3>1. r \in points
      BY <1>2, <1>3, <1>5, <2>1, <2>3, <2>5 DEF Earlier
    <3>2. r \in After(l)
      <4>1. ASSUME NEW q \in points, SameChain(q, l), q.at > l.at
            PROVE  q.at >= r.at
        <5>1. ~ (Earlier(l, q) /\ Earlier(q, r))
          BY <1>6, <1>12
        <5>. QED
          BY <1>6, <2>1, <2>3, <4>1, <5>1 DEF Earlier, SameChain
      <4>. QED
        BY <2>1, <2>3, <3>1, <4>1 DEF After, Earlier
    <3>3. e \in Outgoing(new)
      BY <2>1, <2>5, <3>1, <3>2 DEF Outgoing
    <3>. QED
      BY <1>1, <3>3
  <2>6. CASE l \in observed /\ r \in observed
    <3>1. e \in charged
      BY <1>12, <2>1, <2>6, ConsecutiveFacts DEF ChargedAreNeighbours
    <3>2. SUFFICES ASSUME e \in Replaced(new) PROVE FALSE
      BY <1>1, <3>1
    <3>3. e \in edges /\ r \in points
      BY <1>1, <3>2 DEF EdgeInv, EdgesJoinPoints
    <3>4. PICK f \in fresh : SameChain(r, f.right) /\ r.seq = f.right.seq
      BY <3>2 DEF Replaced, SameEdgeKey
    <3>5. CASE f \in Incoming(new)
      <4>1. f.right \in new /\ SameChain(f.right, r)
        BY <3>4, <3>5, IncomingFacts DEF SameChain
      <4>. QED
        BY <3>3, <3>4, <4>1, NewPointDistinct
    <3>6. CASE f \in Outgoing(new)
      <4>1. /\ f.left \in new /\ f.right \in After(f.left) /\ f.right \in points
            /\ Earlier(f.left, f.right)
        BY <3>6, OutgoingFacts
      <4>2. f.right = r
        BY <3>3, <3>4, <4>1 DEF IdentityInv
      <4>3. SameChain(l, f.left) /\ f.left.at < r.at /\ f.left.at \in Int
        BY <1>3, <2>1, <4>1, <4>2 DEF Earlier, SameChain
      <4>4. f.left.at # l.at
        BY <1>7, <2>6, <4>1, <4>3
      <4>5. ~ (l.at < f.left.at)
        <5>1. ~ (Earlier(l, f.left) /\ Earlier(f.left, r))
          BY <1>12, <4>1
        <5>. QED
          BY <4>1, <4>2, <4>3, <5>1 DEF Earlier
      <4>6. f.left.at < l.at
        BY <2>1, <2>3, <4>3, <4>4, <4>5
      <4>7. l \in points
        BY <1>2, <1>3, <1>5, <2>3, <2>6, <4>1, <4>6
      <4>8. r.at <= l.at
        BY <1>3, <4>1, <4>2, <4>3, <4>6, <4>7, AfterFacts
      <4>. QED
        BY <2>1, <2>3, <4>8 DEF Earlier
    <3>. QED
      BY <3>4, <3>5, <3>6
  <2>. QED
    BY <2>1, <2>4, <2>5, <2>6
<1>. HIDE DEF Adjacent
<1>13. ASSUME NEW e
       PROVE  (e \in Consecutive') <=> Adjacent(e)
  BY <1>1 DEF Consecutive, Adjacent, Earlier, SameChain
<1>. QED
  BY <1>11, <1>12, <1>13 DEF ChargedAreNeighbours, Integrable

\* The rollups charge exactly the time between neighbouring observations that is
\* known; with NeverDoubleCounts, every known instant exactly once.
THEOREM ChargesExactlyKnownTime == Spec => []ChargedAreNeighbours
<1>1. Init => ChargedAreNeighbours
  BY DEF Init, ChargedAreNeighbours, Consecutive
<1>2. TypeOK /\ ChainInv /\ ChargedAreNeighbours /\ [Next]_vars
        => ChargedAreNeighbours'
  <2>. SUFFICES ASSUME TypeOK, ChainInv, ChargedAreNeighbours, [Next]_vars
                PROVE  ChargedAreNeighbours'
    OBVIOUS
  <2>1. CASE UNCHANGED <<observed, charged>>
    BY <2>1 DEF ChargedAreNeighbours, Consecutive, Earlier, SameChain, Integrable
  <2>2. CASE Ingest
    <3>1. PICK s \in taken, backfill \in BOOLEAN :
            /\ Accepted(s)
            /\ IF Duplicate(s) THEN UNCHANGED vars ELSE Record(s, backfill)
      BY <2>2 DEF Ingest
    <3>2. CASE Duplicate(s)
      BY <2>1, <3>1, <3>2 DEF vars
    <3>3. CASE ~ Duplicate(s)
      BY <3>1, <3>3, NeighboursStep DEF ChainInv
    <3>. QED
      BY <3>2, <3>3
  <2>. QED
    BY <2>1, <2>2 DEF Next, Tick, Take, Prune, vars
<1>. QED
  BY <1>1, <1>2, TypeCorrect, ChainCorrect, PTL DEF Spec

-----------------------------------------------------------------------------
(* The live view. *)

LEMMA LiveStep ==
  ASSUME TypeOK, LiveCardsRegistered, [Next]_vars
  PROVE  /\ LiveCardsRegistered'
         /\ DOMAIN snapshot.cards \subseteq DOMAIN snapshot'.cards
<1>1. CASE UNCHANGED <<gpus, snapshot>>
  BY <1>1 DEF LiveCardsRegistered, Known
<1>2. CASE Ingest
  <2>1. PICK s \in taken, backfill \in BOOLEAN :
          IF Duplicate(s) THEN UNCHANGED vars ELSE Record(s, backfill)
    BY <1>2 DEF Ingest
  <2>2. CASE Duplicate(s)
    BY <1>1, <2>1, <2>2 DEF vars, tables
  <2>3. CASE ~ Duplicate(s)
    <3>1. gpus' = Registered(s) /\ snapshot' = Live(s)
      BY <2>1, <2>3 DEF Record
    <3>2. s.at \in Int /\ snapshot.at \in Int
      BY SampleFacts DEF TypeOK, Time
    <3>3. \A g \in DOMAIN gpus : gpus[g].first \in Int
      BY DEF TypeOK, Time
    <3>4. ASSUME NEW g \in DOMAIN gpus
          PROVE  g \in DOMAIN gpus' /\ gpus'[g].first <= gpus[g].first
      BY <3>1, <3>2, <3>3 DEF Registered
    <3>5. ASSUME NEW g \in DOMAIN Reported(s)
          PROVE  g \in DOMAIN gpus' /\ gpus'[g].first <= s.at
      BY <3>1, <3>2, <3>3 DEF Registered
    <3>6. \A g \in DOMAIN gpus' : gpus'[g].first \in Int
      BY <3>1, <3>2, <3>3 DEF Registered
    <3>7. CASE ~ IsLatest(s)
      <4>1. snapshot' = snapshot
        BY <3>1, <3>7 DEF Live
      <4>. QED
        BY <3>2, <3>3, <3>4, <3>6, <4>1 DEF LiveCardsRegistered, Known
    <3>8. CASE IsLatest(s)
      <4>1. /\ snapshot'.at = s.at
            /\ DOMAIN snapshot'.cards = DOMAIN Reported(s) \cup Absent(s)
        BY <3>1, <3>8 DEF Live
      <4>2. snapshot.at < s.at
        BY <3>2, <3>8 DEF IsLatest
      <4>3. ASSUME NEW g \in DOMAIN snapshot'.cards
            PROVE  g \in DOMAIN gpus' /\ gpus'[g].first <= snapshot'.at
        <5>1. CASE g \in DOMAIN Reported(s)
          BY <3>5, <4>1, <5>1
        <5>2. CASE g \in Absent(s)
          <6>1. g \in DOMAIN gpus /\ gpus[g].first <= snapshot.at
            BY <5>2 DEF Absent, LiveCardsRegistered
          <6>. QED
            BY <3>2, <3>3, <3>4, <3>6, <4>1, <4>2, <6>1
        <5>. QED
          BY <4>1, <4>3, <5>1, <5>2
      <4>4. ASSUME NEW g \in DOMAIN snapshot.cards
            PROVE  g \in DOMAIN snapshot'.cards
        <5>1. CASE g \in DOMAIN s.cards
          BY <4>1, <5>1, ReportedFacts
        <5>2. CASE g \notin DOMAIN s.cards /\ s.gpuStatus = "ok"
          BY <3>8, <4>1, <5>2 DEF Absent, Known
        <5>3. CASE g \notin DOMAIN s.cards /\ s.gpuStatus # "ok"
          <6>1. gpus[g].first <= s.at
            BY <3>2, <3>3, <4>2 DEF LiveCardsRegistered, Known
          <6>2. g \in Carried(s)
            BY <5>3, <6>1 DEF Carried, Known
          <6>. QED
            BY <4>1, <6>2, ReportedFacts
        <5>. QED
          BY <5>1, <5>2, <5>3
      <4>. QED
        BY <4>3, <4>4 DEF LiveCardsRegistered, Known
    <3>. QED
      BY <3>7, <3>8
  <2>. QED
    BY <2>2, <2>3
<1>. QED
  BY <1>1, <1>2 DEF Next, Tick, Take, Prune, vars, tables

\* Every card of the live view has its row in gpus, so that no failed inventory
\* can ever abort an ingest.
THEOREM LiveCardsAreRegistered == Spec => []LiveCardsRegistered
<1>1. Init => LiveCardsRegistered
  BY DEF Init, LiveCardsRegistered, Known, NoRows
<1>2. TypeOK /\ LiveCardsRegistered /\ [Next]_vars => LiveCardsRegistered'
  BY LiveStep
<1>. QED
  BY <1>1, <1>2, TypeCorrect, PTL DEF Spec

\* No card is ever dropped from the live view.
THEOREM CardsAreNeverForgotten == Spec => CardsNeverForgotten
<1>1. TypeOK /\ LiveCardsRegistered /\ [Next]_vars
        => [DOMAIN snapshot.cards \subseteq DOMAIN snapshot'.cards]_vars
  BY LiveStep
<1>. QED
  BY <1>1, TypeCorrect, LiveCardsAreRegistered, PTL DEF Spec, CardsNeverForgotten

LEMMA HeardStep ==
  ASSUME TypeOK, HeardIsLive, [Next]_vars
  PROVE  HeardIsLive'
<1>1. CASE UNCHANGED <<receivedAt, snapshot>>
  BY <1>1 DEF HeardIsLive
<1>2. CASE Ingest
  <2>1. PICK s \in taken, backfill \in BOOLEAN :
          IF Duplicate(s) THEN UNCHANGED vars ELSE Record(s, backfill)
    BY <1>2 DEF Ingest
  <2>2. CASE Duplicate(s)
    BY <1>1, <2>1, <2>2 DEF vars, tables
  <2>3. CASE ~ Duplicate(s)
    <3>1. /\ snapshot' = Live(s)
          /\ receivedAt' = IF Heard(s, backfill) THEN now ELSE receivedAt
      BY <2>1, <2>3 DEF Record
    <3>2. /\ s.at \in Int /\ snapshot.at \in Int /\ now \in Int /\ receivedAt \in Int
          /\ Interval \in Int
      BY SampleFacts, RollupAssumption DEF TypeOK, Time
    <3>3. snapshot'.at = IF s.at > snapshot.at THEN s.at ELSE snapshot.at
      BY <3>1 DEF Live, IsLatest
    <3>4. CASE Heard(s, backfill)
      <4>1. receivedAt' = now /\ s.at >= snapshot.at /\ now - s.at <= 2 * Interval
        BY <3>1, <3>4 DEF Heard
      <4>. QED
        BY <3>2, <3>3, <4>1 DEF HeardIsLive
    <3>5. CASE ~ Heard(s, backfill)
      BY <3>1, <3>2, <3>3, <3>5 DEF HeardIsLive
    <3>. QED
      BY <3>4, <3>5
  <2>. QED
    BY <2>2, <2>3
<1>. QED
  BY <1>1, <1>2 DEF Next, Tick, Take, Prune, vars, tables

\* A node shown online shows data at most the display window and two intervals
\* old.
THEOREM OnlineIsFresh == Spec => []OnlineMeansFresh
<1>1. Init => HeardIsLive
  BY DEF Init, HeardIsLive
<1>2. TypeOK /\ HeardIsLive /\ [Next]_vars => HeardIsLive'
  BY HeardStep
<1>3. TypeOK /\ HeardIsLive => OnlineMeansFresh
  <2>. SUFFICES ASSUME TypeOK, HeardIsLive PROVE OnlineMeansFresh
    OBVIOUS
  <2>1. now \in Int /\ receivedAt \in Int /\ snapshot.at \in Int
        /\ Online \in Int /\ Interval \in Int
    BY RollupAssumption, IngestAssumption DEF TypeOK, Time
  <2>. QED
    BY <2>1 DEF HeardIsLive, OnlineMeansFresh
<1>. QED
  BY <1>1, <1>2, <1>3, TypeCorrect, PTL DEF Spec
-----------------------------------------------------------------------------
(* The rollups depend only on what was observed. *)

LEMMA NewPointsFinite ==
  ASSUME TypeOK, NEW s \in taken
  PROVE  IsFiniteSet(NewPoints(s))
<1>. DEFINE D == DOMAIN Reported(s)
            f == [g \in D |-> PointOf(s, g)]
<1>1. IsFiniteSet(D)
  <2>1. IsFiniteSet(GPU)
    BY IngestAssumption
  <2>. QED
    BY <2>1, ReportedFacts, FS_Subset
<1>2. f \in Surjection(D, NewPoints(s))
  BY DEF NewPoints, Surjection
<1>. HIDE DEF f
<1>. QED
  BY <1>1, <1>2, FS_Surjection

LEMMA PairsFinite ==
  ASSUME NEW S, IsFiniteSet(S)
  PROVE  IsFiniteSet([left : S, right : S])
<1>. DEFINE f == [p \in S \X S |-> [left |-> p[1], right |-> p[2]]]
<1>1. IsFiniteSet(S \X S)
  BY FS_Product
<1>2. f \in Surjection(S \X S, [left : S, right : S])
  <2>1. f \in [S \X S -> [left : S, right : S]]
    OBVIOUS
  <2>2. ASSUME NEW e \in [left : S, right : S]
        PROVE  f[<<e.left, e.right>>] = e /\ <<e.left, e.right>> \in S \X S
    OBVIOUS
  <2>. HIDE DEF f
  <2>. QED
    BY <2>1, <2>2 DEF Surjection
<1>. HIDE DEF f
<1>. QED
  BY <1>1, <1>2, FS_Surjection

\* Only finitely many points are ever observed.
FinitelyMany == IsFiniteSet(observed)

LEMMA FinitelyManyStep ==
  ASSUME TypeOK, FinitelyMany, [Next]_vars
  PROVE  FinitelyMany'
<1>1. CASE UNCHANGED observed
  BY <1>1 DEF FinitelyMany
<1>2. CASE Ingest
  <2>1. PICK s \in taken, backfill \in BOOLEAN :
          IF Duplicate(s) THEN UNCHANGED vars ELSE Record(s, backfill)
    BY <1>2 DEF Ingest
  <2>2. CASE Duplicate(s)
    BY <1>1, <2>1, <2>2 DEF vars
  <2>3. CASE ~ Duplicate(s)
    <3>1. observed' = observed \cup NewPoints(s)
      BY <2>1, <2>3 DEF Record
    <3>2. IsFiniteSet(observed) /\ IsFiniteSet(NewPoints(s))
      BY NewPointsFinite DEF FinitelyMany
    <3>3. IsFiniteSet(observed \cup NewPoints(s))
      BY <3>2, FS_Union
    <3>. QED
      BY <3>1, <3>3 DEF FinitelyMany
  <2>. QED
    BY <2>2, <2>3
<1>. QED
  BY <1>1, <1>2 DEF Next, Tick, Take, Prune, vars

\* Charged and neighbouring edges are finitely many, too.
LEMMA EdgesFinite ==
  ASSUME TypeOK, FinitelyMany, ChargedAreNeighbours
  PROVE  /\ IsFiniteSet(charged) /\ charged \in SUBSET EdgeType
         /\ IsFiniteSet(Consecutive) /\ Consecutive \in SUBSET EdgeType
<1>1. IsFiniteSet([left : observed, right : observed])
  BY PairsFinite DEF FinitelyMany
<1>2. Consecutive \in SUBSET [left : observed, right : observed]
  BY DEF Consecutive
<1>3. IsFiniteSet(Consecutive)
  BY <1>1, <1>2, FS_Subset
<1>4. charged \in SUBSET Consecutive
  BY DEF ChargedAreNeighbours
<1>5. IsFiniteSet(charged)
  BY <1>3, <1>4, FS_Subset
<1>. QED
  BY <1>2, <1>3, <1>5 DEF TypeOK, EdgeType

-----------------------------------------------------------------------------
(* Buckets and retention. *)

LEMMA DivisionFacts ==
  ASSUME NEW a \in Int, NEW r \in Nat \ {0}
  PROVE  a \div r \in Int /\ (a \div r) * r <= a /\ a < (a \div r) * r + r
  OBVIOUS

LEMMA TimesIsMonotone ==
  ASSUME NEW n \in Int, NEW d \in Int, NEW r \in Nat, n >= d
  PROVE  n * r >= d * r
  OBVIOUS

LEMMA MultiplesInOrder ==
  ASSUME NEW x \in Int, NEW y \in Int, NEW r \in Nat \ {0}
  PROVE  x * r <= y * r <=> x <= y
<1>1. x <= y => x * r <= y * r
  BY TimesIsMonotone
<1>2. ASSUME y + 1 <= x PROVE ~ (x * r <= y * r)
  <2>1. x * r >= (y + 1) * r /\ y + 1 \in Int
    BY <1>2, TimesIsMonotone
  <2>2. (y + 1) * r = y * r + r /\ y * r \in Int /\ x * r \in Int
    OBVIOUS
  <2>. DEFINE a == x * r
              b == y * r
  <2>3. a >= b + r /\ a \in Int /\ b \in Int
    BY <2>1, <2>2
  <2>. HIDE DEF a, b
  <2>4. ~ (a <= b)
    BY <2>3
  <2>. QED
    BY <2>4 DEF a, b
<1>. QED
  BY <1>1, <1>2

\* An edge reaches back at most two intervals and one bucket.
LEMMA BucketIsNear ==
  ASSUME NEW a \in PointType, NEW b \in PointType, NEW k \in Touched(a, b)
  PROVE  /\ k \in RollupKey /\ k.gpu = a.gpu /\ Integrable(a, b)
         /\ k.bucket > b.at - 2 * Interval - k.res
<1>1. PICK res \in Resolutions :
        /\ k \in [gpu : {a.gpu}, user : Payers(a), res : {res},
                  bucket : Buckets(a, b, res)]
        /\ Integrable(a, b)
  BY DEF Touched
<1>2. k.res = res /\ k.bucket \in Buckets(a, b, res) /\ k.gpu = a.gpu
  BY <1>1
<1>3. res \in Nat \ {0} /\ Interval \in Nat /\ a.at \in Int /\ b.at \in Int
  BY ResolutionType, RollupAssumption DEF PointType, Time
<1>4. PICK n \in (a.at \div res) .. ((b.at - 1) \div res) : k.bucket = n * res
  BY <1>2 DEF Buckets
<1>. DEFINE d == a.at \div res
<1>5. d \in Int /\ (b.at - 1) \div res \in Int /\ a.at < d * res + res
  <2>1. d \in Int /\ a.at < d * res + res
    BY <1>3, DivisionFacts
  <2>2. b.at - 1 \in Int
    BY <1>3
  <2>3. (b.at - 1) \div res \in Int
    BY <1>3, <2>2, DivisionFacts
  <2>. QED
    BY <2>1, <2>3
<1>6. n \in Int /\ n >= d
  BY <1>4, <1>5
<1>. HIDE DEF d
<1>7. n * res >= d * res
  BY <1>3, <1>5, <1>6, TimesIsMonotone
<1>8. n * res \in Int /\ d * res \in Int
  BY <1>3, <1>5, <1>6
<1>9. a.at >= b.at - 2 * Interval
  BY <1>1, <1>3 DEF Integrable
<1>10. k.bucket > b.at - 2 * Interval - k.res
  <2>. DEFINE x == n * res
              y == d * res
  <2>1. x >= y /\ a.at < y + res /\ x \in Int /\ y \in Int
    BY <1>5, <1>7, <1>8
  <2>2. k.bucket = x
    BY <1>4
  <2>. HIDE DEF x, y
  <2>. QED
    BY <1>2, <1>3, <1>9, <2>1, <2>2
<1>. QED
  BY <1>1, <1>2, <1>10, TouchedType

\* Rows that an edge near enough can touch have not expired.
LEMMA RecentRowsAreKept ==
  ASSUME TypeOK, NEW e \in EdgeType, e.right.at >= now - Accept,
         NEW k \in Touched(e.left, e.right)
  PROVE  ~ Expired(k)
<1>1. e.left \in PointType /\ e.right \in PointType /\ e.right.at \in Int
  BY DEF EdgeType, PointType, Time
<1>2. k \in RollupKey /\ k.bucket > e.right.at - 2 * Interval - k.res
  BY <1>1, BucketIsNear
<1>3. k.bucket \in Int /\ (k.res = Minute \/ k.res = Hour)
  BY <1>2 DEF RollupKey, Resolutions
<1>4. /\ Interval \in Nat /\ Minute \in Nat /\ Hour \in Nat /\ Accept \in Nat
      /\ MinuteRetain \in Nat /\ HourRetain \in Nat /\ now \in Nat
  BY RollupAssumption, IngestAssumption DEF TypeOK
<1>5. /\ Accept + 2 * Interval + Minute <= MinuteRetain
      /\ Accept + 2 * Interval + Hour <= HourRetain
  BY RetentionAssumption
<1>6. k.res = Minute => ~ (k.bucket < now - MinuteRetain)
  BY <1>1, <1>2, <1>3, <1>4, <1>5
<1>7. k.res = Hour => ~ (k.bucket < now - HourRetain)
  BY <1>1, <1>2, <1>3, <1>4, <1>5
<1>. QED
  BY <1>6, <1>7 DEF Expired

-----------------------------------------------------------------------------
(* What a snapshot replaces. *)

\* A replaced edge ends where an edge out of a new point ends.
LEMMA ReplacedFacts ==
  ASSUME TypeOK, IdentityInv, EdgeInv, NEW s \in taken, ~ Duplicate(s),
         NEW f \in Replaced(NewPoints(s))
  PROVE  /\ f \in edges /\ f \in charged
         /\ \E g \in Outgoing(NewPoints(s)) : g.right = f.right
<1>1. f \in edges /\ f \in charged /\ f.right \in points
  BY DEF Replaced, EdgeInv, EdgesJoinPoints, ChargedForward
<1>2. PICK g \in Incoming(NewPoints(s)) \cup Outgoing(NewPoints(s)) :
          SameChain(f.right, g.right) /\ f.right.seq = g.right.seq
  BY DEF Replaced, SameEdgeKey
<1>3. g \notin Incoming(NewPoints(s))
  <2>1. SUFFICES ASSUME g \in Incoming(NewPoints(s)) PROVE FALSE
    OBVIOUS
  <2>2. g.right \in NewPoints(s) /\ SameChain(g.right, f.right)
    BY <1>2, <2>1, IncomingFacts DEF SameChain
  <2>. QED
    BY <1>1, <1>2, <2>2, NewPointDistinct
<1>4. g \in Outgoing(NewPoints(s)) /\ g.right \in points
  BY <1>2, <1>3, OutgoingFacts
<1>5. g.right = f.right
  BY <1>1, <1>2, <1>4 DEF IdentityInv
<1>. QED
  BY <1>1, <1>4, <1>5

\* A snapshot brings, and replaces, at most one edge of each kind per card.
LEMMA OneEdgePerCard ==
  ASSUME TypeOK, IdentityInv, EdgeInv, NoDoubleCount, NEW s \in taken, ~ Duplicate(s)
  PROVE  /\ \A e, f \in Incoming(NewPoints(s)) : e.left.gpu = f.left.gpu => e = f
         /\ \A e, f \in Outgoing(NewPoints(s)) : e.left.gpu = f.left.gpu => e = f
         /\ \A e, f \in Replaced(NewPoints(s)) : e.left.gpu = f.left.gpu => e = f
<1>. DEFINE new == NewPoints(s)
<1>1. \A p, q \in new : p.gpu = q.gpu => p = q
  BY NewPointFacts
<1>2. \A p \in new : p \in PointType
  BY NewPointFacts
<1>3. ASSUME NEW e \in Incoming(new), NEW f \in Incoming(new), e.left.gpu = f.left.gpu
      PROVE  e = f
  <2>1. e.right \in new /\ f.right \in new /\ e.right = f.right
    BY <1>1, <1>3, IncomingFacts DEF Earlier, SameChain
  <2>2. e.left = f.left
    BY <1>2, <2>1, IncomingFacts, BeforeFacts
  <2>. QED
    BY <2>1, <2>2, IncomingFacts
<1>4. ASSUME NEW e \in Outgoing(new), NEW f \in Outgoing(new), e.left.gpu = f.left.gpu
      PROVE  e = f
  <2>1. e.left \in new /\ f.left \in new /\ e.left = f.left
    BY <1>1, <1>4, OutgoingFacts
  <2>2. e.right = f.right
    BY <1>2, <2>1, OutgoingFacts, AfterFacts
  <2>. QED
    BY <2>1, <2>2, OutgoingFacts
<1>5. ASSUME NEW e \in Replaced(new), NEW f \in Replaced(new), e.left.gpu = f.left.gpu
      PROVE  e = f
  <2>1. e \in charged /\ f \in charged
    BY ReplacedFacts
  <2>2. Earlier(e.left, e.right) /\ Earlier(f.left, f.right)
    BY <2>1 DEF EdgeInv, ChargedForward
  <2>3. PICK g \in Outgoing(new) : g.right = e.right
    BY ReplacedFacts
  <2>4. PICK h \in Outgoing(new) : h.right = f.right
    BY ReplacedFacts
  <2>5. g.left.gpu = h.left.gpu
    <3>1. g.left.gpu = g.right.gpu /\ h.left.gpu = h.right.gpu
      BY OutgoingFacts DEF Earlier, SameChain
    <3>. QED
      BY <1>5, <2>2, <2>3, <2>4, <3>1 DEF Earlier, SameChain
  <2>6. e.right = f.right
    BY <1>4, <2>3, <2>4, <2>5
  <2>7. /\ e.left.at \in Int /\ e.right.at \in Int
        /\ f.left.at \in Int /\ f.right.at \in Int
    BY <2>1 DEF TypeOK, EdgeType, PointType, Time
  <2>8. ~ Disjoint(e, f)
    BY <2>2, <2>6, <2>7 DEF Disjoint, Earlier
  <2>. QED
    BY <2>1, <2>6, <2>8 DEF NoDoubleCount, SameChain
<1>. QED
  BY <1>3, <1>4, <1>5

\* New edges were not charged before, and none of them is both in and out.
LEMMA NewEdgesAreNew ==
  ASSUME TypeOK, IdentityInv, PrunedPointsArePast, ChargedAreNeighbours,
         NEW s \in taken, ~ Duplicate(s), Accepted(s)
  PROVE  /\ Incoming(NewPoints(s)) \cap charged = {}
         /\ Outgoing(NewPoints(s)) \cap charged = {}
         /\ Incoming(NewPoints(s)) \cap Outgoing(NewPoints(s)) = {}
<1>. DEFINE new == NewPoints(s)
<1>1. \A p \in new : p.at \in Int /\ p.at >= now - Accept
  BY NewPointFacts, SampleFacts DEF Accepted
<1>2. /\ Retain \in Nat /\ Accept \in Nat /\ now \in Nat /\ Accept <= Retain
  BY RollupAssumption, IngestAssumption, RetentionAssumption DEF TypeOK
<1>3. \A p \in new : p \notin points
  BY NewPointDistinct DEF SameChain
<1>4. \A p \in new : p \notin observed
  BY <1>1, <1>2, <1>3 DEF PrunedPointsArePast
<1>5. \A e \in charged : e.left \in observed /\ e.right \in observed
  BY DEF ChargedAreNeighbours, Consecutive
<1>. QED
  BY <1>3, <1>4, <1>5, IncomingFacts, OutgoingFacts

\* The rows that a snapshot writes have not expired.
LEMMA WrittenRowsAreKept ==
  ASSUME TypeOK, IdentityInv, EdgeInv, NEW s \in taken, ~ Duplicate(s), Accepted(s),
         NEW k \in TouchedBy(Incoming(NewPoints(s)) \cup Outgoing(NewPoints(s))
                                \cup Replaced(NewPoints(s)))
  PROVE  ~ Expired(k)
<1>. DEFINE new == NewPoints(s)
<1>1. PICK e \in Incoming(new) \cup Outgoing(new) \cup Replaced(new) :
          k \in Touched(e.left, e.right)
  BY DEF TouchedBy
<1>2. \A p \in new : p.at \in Int /\ p.at >= now - Accept
  BY NewPointFacts, SampleFacts DEF Accepted
<1>3. e \in EdgeType
  BY NewEdgeFacts DEF TypeOK
<1>4. Accept \in Nat /\ now \in Nat
  BY IngestAssumption DEF TypeOK
<1>5. \A g \in Outgoing(new) : g.right.at >= now - Accept
  <2>1. \A g \in Outgoing(new) : /\ g.left.at >= now - Accept /\ g.left.at \in Int
                                 /\ g.right.at \in Int /\ g.left.at < g.right.at
    BY <1>2, OutgoingFacts, NewEdgeFacts DEF Earlier, EdgeType, PointType, Time
  <2>. QED
    BY <1>4, <2>1
<1>6. e.right.at >= now - Accept
  BY <1>1, <1>2, <1>5, IncomingFacts, ReplacedFacts
<1>. QED
  BY <1>1, <1>3, <1>6, RecentRowsAreKept

-----------------------------------------------------------------------------
(* The step of the rollups. *)

LEMMA RowsIngestStep ==
  ASSUME TypeOK, IdentityInv, EdgeInv, PrunedPointsArePast, NoDoubleCount,
         ChargedAreNeighbours, FinitelyMany, RowsAreCharged,
         NEW s \in taken, NEW backfill \in BOOLEAN,
         ~ Duplicate(s), Accepted(s), Record(s, backfill)
  PROVE  RowsAreCharged'
<1>. DEFINE new == NewPoints(s)
            In == Incoming(new)
            Out == Outgoing(new)
            Old == Replaced(new)
<1>1. /\ charged' = (charged \ Old) \cup In \cup Out
      /\ rollups' = Recharged(new) /\ now' = now
  BY DEF Record
<1>2. /\ In \in SUBSET EdgeType /\ Out \in SUBSET EdgeType
      /\ Old \in SUBSET charged /\ charged \in SUBSET EdgeType
  BY NewEdgeFacts, ReplacedFacts DEF TypeOK
<1>3. /\ In \cap charged = {} /\ Out \cap charged = {} /\ In \cap Out = {}
  BY NewEdgesAreNew
<1>4. IsFiniteSet(charged) /\ IsFiniteSet(In) /\ IsFiniteSet(Out) /\ IsFiniteSet(Old)
  <2>1. IsFiniteSet(charged)
    BY EdgesFinite
  <2>2. IsFiniteSet(points \cup new)
    <3>1. points \in SUBSET observed
      BY DEF PrunedPointsArePast
    <3>2. IsFiniteSet(points)
      BY <3>1, FS_Subset DEF FinitelyMany
    <3>. QED
      BY <3>2, NewPointsFinite, FS_Union
  <2>3. IsFiniteSet([left : points \cup new, right : points \cup new])
    BY <2>2, PairsFinite
  <2>4. /\ In \in SUBSET [left : points \cup new, right : points \cup new]
        /\ Out \in SUBSET [left : points \cup new, right : points \cup new]
    BY DEF Incoming, Outgoing
  <2>. HIDE DEF In, Out, Old, new
  <2>. QED
    BY <1>2, <2>1, <2>3, <2>4, FS_Subset
<1>5. /\ \A e, f \in In : e.left.gpu = f.left.gpu => e = f
      /\ \A e, f \in Out : e.left.gpu = f.left.gpu => e = f
      /\ \A e, f \in Old : e.left.gpu = f.left.gpu => e = f
  BY OneEdgePerCard
<1>6. \A k \in TouchedBy(In \cup Out \cup Old) : ~ Expired(k)
  BY WrittenRowsAreKept
<1>7. /\ DOMAIN rollups' = DOMAIN rollups \cup TouchedBy(In \cup Out \cup Old)
      /\ \A k \in DOMAIN rollups' :
            rollups'[k] = Plus(Plus(Minus(RowAt(k), Share(Old, k)), Share(In, k)),
                               Share(Out, k))
  BY <1>1 DEF Recharged
<1>. HIDE DEF In, Out, Old, new
<1>8. ASSUME NEW k
      PROVE  /\ Share(In, k) = Charge(In, k)
             /\ Share(Out, k) = Charge(Out, k)
             /\ Share(Old, k) = Charge(Old, k)
  <2>1. Old \in SUBSET EdgeType
    BY <1>2
  <2>. QED
    BY <1>2, <1>4, <1>5, <2>1, ShareIsCharge
<1>9. ASSUME NEW k
      PROVE  Charge(charged', k) =
               Plus(Plus(Minus(Charge(charged, k), Charge(Old, k)), Charge(In, k)),
                    Charge(Out, k))
  <2>. DEFINE Kept == charged \ Old
  <2>1. /\ Kept \in SUBSET EdgeType /\ IsFiniteSet(Kept)
        /\ Kept \cap In = {} /\ (Kept \cup In) \cap Out = {}
        /\ IsFiniteSet(Kept \cup In) /\ Kept \cup In \in SUBSET EdgeType
    BY <1>2, <1>3, <1>4, FS_Subset, FS_Union
  <2>2. Charge(Kept, k) = Minus(Charge(charged, k), Charge(Old, k))
    BY <1>2, <1>4, ChargeWithout
  <2>. HIDE DEF Kept
  <2>3. Charge(Kept \cup In, k) = Plus(Charge(Kept, k), Charge(In, k))
    BY <1>2, <1>4, <2>1, ChargeUnion
  <2>4. Charge((Kept \cup In) \cup Out, k) = Plus(Charge(Kept \cup In, k), Charge(Out, k))
    BY <1>2, <1>4, <2>1, ChargeUnion
  <2>5. charged' = (Kept \cup In) \cup Out
    BY <1>1 DEF Kept
  <2>. QED
    BY <2>2, <2>3, <2>4, <2>5
<1>10. ASSUME NEW k \in DOMAIN rollups'
       PROVE  rollups'[k] = Charge(charged', k)
  <2>1. RowAt(k) = Charge(charged, k)
    <3>1. CASE k \in DOMAIN rollups
      BY <3>1 DEF RowsAreCharged, RowAt
    <3>2. CASE k \notin DOMAIN rollups
      <4>1. ~ Expired(k)
        BY <1>6, <1>7, <3>2
      <4>2. k \notin TouchedBy(charged)
        BY <3>2, <4>1 DEF RowsAreCharged
      <4>3. \A e \in charged : Contribution(e.left, e.right, k) = ZeroRow
        BY <4>2 DEF TouchedBy, Contribution
      <4>4. Charge(charged, k) = ZeroRow
        BY <1>2, <1>4, <4>3, ChargeNothing
      <4>. QED
        BY <3>2, <4>4 DEF RowAt
    <3>. QED
      BY <3>1, <3>2
  <2>. QED
    BY <1>7, <1>8, <1>9, <2>1
<1>11. ASSUME NEW k \in TouchedBy(charged'), k \notin DOMAIN rollups'
       PROVE  Expired(k)'
  <2>1. k \notin TouchedBy(In \cup Out \cup Old)
    BY <1>7, <1>11
  <2>2. k \in TouchedBy(charged)
    BY <1>1, <1>11, <2>1 DEF TouchedBy
  <2>3. Expired(k)
    BY <1>7, <1>11, <2>2 DEF RowsAreCharged
  <2>. QED
    BY <1>1, <2>3 DEF Expired
<1>12. \A k \in DOMAIN rollups' \cup TouchedBy(charged') :
          IF k \in DOMAIN rollups' THEN rollups'[k] = Charge(charged', k)
          ELSE Expired(k)'
  BY <1>10, <1>11
<1>. QED
  BY <1>12 DEF RowsAreCharged, TouchedBy, Charge, Additions, Expired

LEMMA RowsStep ==
  ASSUME TypeOK, ChainInv, NoDoubleCount, ChargedAreNeighbours, FinitelyMany,
         RowsAreCharged, [Next]_vars
  PROVE  RowsAreCharged'
<1>1. CASE UNCHANGED <<rollups, charged>> /\ now' \in {now, now + 1}
  <2>1. ASSUME NEW k \in TouchedBy(charged), Expired(k)
        PROVE  Expired(k)'
    <3>1. k \in RollupKey
      BY TouchedByType DEF TypeOK
    <3>2. /\ k.bucket \in Int /\ now \in Int /\ MinuteRetain \in Int /\ HourRetain \in Int
      BY <3>1, IngestAssumption DEF RollupKey, TypeOK
    <3>. QED
      BY <1>1, <2>1, <3>2 DEF Expired
  <2>2. TouchedBy(charged)' = TouchedBy(charged)
    BY <1>1 DEF TouchedBy
  <2>3. \A k : Charge(charged, k)' = Charge(charged, k)
    BY <1>1 DEF Charge, Additions
  <2>. QED
    BY <1>1, <2>1, <2>2, <2>3 DEF RowsAreCharged
<1>2. CASE Ingest
  <2>1. PICK s \in taken, backfill \in BOOLEAN :
          /\ Accepted(s)
          /\ IF Duplicate(s) THEN UNCHANGED vars ELSE Record(s, backfill)
    BY <1>2 DEF Ingest
  <2>2. CASE Duplicate(s)
    BY <1>1, <2>1, <2>2 DEF vars, tables
  <2>3. CASE ~ Duplicate(s)
    BY <2>1, <2>3, RowsIngestStep DEF ChainInv
  <2>. QED
    BY <2>2, <2>3
<1>3. CASE Prune
  <2>1. /\ rollups' = Restrict(rollups, KeptKeys) /\ charged' = charged /\ now' = now
        /\ KeptKeys \subseteq DOMAIN rollups
    BY <1>3 DEF Prune, KeptKeys
  <2>2. DOMAIN rollups' = KeptKeys /\ \A k \in KeptKeys : rollups'[k] = rollups[k]
    BY <2>1 DEF Restrict
  <2>3. \A k \in DOMAIN rollups \ KeptKeys : Expired(k)
    <3>. SUFFICES ASSUME NEW k \in DOMAIN rollups \ KeptKeys PROVE Expired(k)
      OBVIOUS
    <3>1. k \in RollupKey
      BY DEF TypeOK
    <3>2. /\ k.bucket \in Int /\ now \in Int /\ MinuteRetain \in Int /\ HourRetain \in Int
      BY <3>1, IngestAssumption DEF RollupKey, TypeOK
    <3>. QED
      BY <3>2 DEF KeptKeys, Expired
  <2>4. \A k : Charge(charged, k)' = Charge(charged, k) /\ (Expired(k)' <=> Expired(k))
    BY <2>1 DEF Charge, Additions, Expired
  <2>5. TouchedBy(charged)' = TouchedBy(charged)
    BY <2>1 DEF TouchedBy
  <2>. QED
    BY <2>1, <2>2, <2>3, <2>4, <2>5 DEF RowsAreCharged
<1>. QED
  BY <1>1, <1>2, <1>3 DEF Next, Tick, Take, vars, tables

\* Neighbours too far apart are charged nothing: the charge is the integral.
LEMMA ChargeIsIntegral ==
  ASSUME TypeOK, FinitelyMany, ChargedAreNeighbours, NEW k
  PROVE  Charge(charged, k) = Integral(k)
<1>. DEFINE Rest == Consecutive \ charged
<1>1. /\ IsFiniteSet(charged) /\ charged \in SUBSET EdgeType
      /\ IsFiniteSet(Consecutive) /\ Consecutive \in SUBSET EdgeType
  BY EdgesFinite
<1>2. /\ Rest \in SUBSET EdgeType /\ IsFiniteSet(Rest)
      /\ charged \cap Rest = {} /\ charged \cup Rest = Consecutive
  BY <1>1, FS_Subset DEF ChargedAreNeighbours
<1>3. \A e \in Rest : Contribution(e.left, e.right, k) = ZeroRow
  BY DEF ChargedAreNeighbours, Contribution, Touched
<1>. HIDE DEF Rest
<1>4. Charge(Consecutive, k) = Plus(Charge(charged, k), ZeroRow)
  BY <1>1, <1>2, <1>3, ChargeUnion, ChargeNothing
<1>5. Charge(charged, k) \in Row
  BY <1>1, ChargeType
<1>6. \A r \in Row : Plus(r, ZeroRow) = r
  BY DEF Plus, ZeroRow, Row
<1>. QED
  BY <1>4, <1>5, <1>6 DEF Integral

\* Every row is what was charged to it, by one of finitely many edges.
THEOREM RowsHoldTheCharges == Spec => [](FinitelyMany /\ RowsAreCharged)
<1>1. Init => FinitelyMany /\ RowsAreCharged
  BY FS_EmptySet DEF Init, FinitelyMany, RowsAreCharged, NoRows, TouchedBy
<1>2. TypeOK /\ FinitelyMany /\ [Next]_vars => FinitelyMany'
  BY FinitelyManyStep
<1>3. TypeOK /\ ChainInv /\ NoDoubleCount /\ ChargedAreNeighbours /\ FinitelyMany
        /\ RowsAreCharged /\ [Next]_vars => RowsAreCharged'
  BY RowsStep
<1>. QED
  BY <1>1, <1>2, <1>3, TypeCorrect, ChainCorrect, NeverDoubleCounts,
     ChargesExactlyKnownTime, PTL DEF Spec

\* The rollups are a function of what was observed alone: every row is the
\* integral over the neighbouring observations, whatever the order, lateness and
\* number of deliveries, and only expired rows are gone.
THEOREM RollupsAreTheIntegral == Spec => []RollupsMatchObservations
<1>1. TypeOK /\ ChargedAreNeighbours /\ FinitelyMany /\ RowsAreCharged
        => RollupsMatchObservations
  <2>. SUFFICES ASSUME TypeOK, ChargedAreNeighbours, FinitelyMany, RowsAreCharged,
                       NEW k \in DOMAIN rollups \cup TouchedBy(Consecutive)
                PROVE  IF k \in DOMAIN rollups THEN rollups[k] = Integral(k)
                       ELSE Expired(k)
    BY DEF RollupsMatchObservations
  <2>1. CASE k \in DOMAIN rollups
    BY <2>1, ChargeIsIntegral DEF RowsAreCharged
  <2>2. CASE k \notin DOMAIN rollups
    <3>1. PICK e \in Consecutive : k \in Touched(e.left, e.right)
      BY <2>2 DEF TouchedBy
    <3>2. Integrable(e.left, e.right)
      BY <3>1 DEF Touched
    <3>3. e \in charged
      BY <3>2 DEF ChargedAreNeighbours
    <3>4. k \in TouchedBy(charged)
      BY <3>1, <3>3 DEF TouchedBy
    <3>. QED
      BY <2>2, <3>4 DEF RowsAreCharged
  <2>. QED
    BY <2>1, <2>2
<1>. QED
  BY <1>1, TypeCorrect, ChargesExactlyKnownTime, RowsHoldTheCharges, PTL
-----------------------------------------------------------------------------
(* The start of a chain. *)

\* A new point is at a time no observation of its chain has, pruned ones included.
LEMMA NewPointApart ==
  ASSUME TypeOK, IdentityInv, PrunedPointsArePast,
         NEW s \in taken, ~ Duplicate(s), Accepted(s),
         NEW p \in NewPoints(s), NEW q \in observed, SameChain(p, q)
  PROVE  p.at # q.at
<1>1. CASE q \in points
  BY <1>1, NewPointDistinct
<1>2. CASE q \notin points
  <2>1. /\ Interval \in Nat /\ {Accept, Retain} \subseteq Nat /\ Accept <= Retain
        /\ now \in Int /\ q.at \in Int /\ p.at \in Int
    BY RollupAssumption, IngestAssumption, RetentionAssumption, NewPointFacts
       DEF TypeOK, PointType, Time
  <2>2. q.at < now - Retain
    BY <1>2 DEF PrunedPointsArePast
  <2>3. p.at >= now - Accept
    BY NewPointFacts DEF Accepted
  <2>. QED
    BY <2>1, <2>2, <2>3
<1>. QED
  BY <1>1, <1>2

\* No observation of its chain is earlier than m.
First(m) == \A r \in observed : ~ Earlier(r, m)

\* Every chain has an earliest observation.
HasEarliest ==
    \A q \in observed : \E m \in observed : SameChain(m, q) /\ m.at <= q.at /\ First(m)

LEMMA EarliestStep ==
  ASSUME TypeOK, IdentityInv, PrunedPointsArePast, HasEarliest,
         NEW s \in taken, NEW backfill, ~ Duplicate(s), Record(s, backfill)
  PROVE  HasEarliest'
<1>. DEFINE new == NewPoints(s)
<1>1. observed' = observed \cup new
  BY DEF Record
<1>2. \A p \in observed \cup new : p.at \in Int
  BY NewPointFacts DEF TypeOK, PointType, Time
<1>3. \A p, q \in new : SameChain(p, q) => p = q
  BY NewPointUnique
<1>. HIDE DEF new
<1>4. ASSUME NEW m, First(m), \A p \in new : ~ Earlier(p, m)
      PROVE  First(m)'
  BY <1>1, <1>4 DEF First, Earlier, SameChain
\* The earliest of what was known of the chain, or a new point before it.
<1>5. ASSUME NEW q \in observed, NEW p \in observed \cup new,
             SameChain(p, q), p \in new \/ p.at = q.at
      PROVE  \E m \in observed' : SameChain(m, p) /\ m.at <= p.at /\ First(m)'
  <2>1. PICK m \in observed : SameChain(m, q) /\ m.at <= q.at /\ First(m)
    BY DEF HasEarliest
  <2>2. SameChain(m, p)
    BY <1>5, <2>1 DEF SameChain
  <2>3. CASE \E n \in new : Earlier(n, m)
    <3>1. PICK n \in new : Earlier(n, m)
      BY <2>3
    <3>2. n.at < m.at /\ SameChain(n, p)
      BY <2>2, <3>1 DEF Earlier, SameChain
    <3>3. ASSUME NEW r \in observed PROVE ~ Earlier(r, n)
      <4>1. ~ Earlier(r, m)
        BY <2>1 DEF First
      <4>. QED
        BY <1>2, <3>1, <4>1 DEF Earlier, SameChain
    <3>4. \A r \in new : ~ Earlier(r, n)
      BY <1>2, <1>3 DEF Earlier
    <3>5. First(n)'
      BY <1>4, <3>3, <3>4 DEF First
    <3>6. n.at <= p.at
      <4>1. CASE p \in new
        BY <1>2, <1>3, <3>2, <4>1
      <4>2. CASE p.at = q.at
        BY <1>2, <2>1, <3>2, <4>2
      <4>. QED
        BY <1>5, <4>1, <4>2
    <3>. QED
      BY <1>1, <3>2, <3>5, <3>6
  <2>4. CASE ~ \E n \in new : Earlier(n, m)
    <3>1. First(m)'
      BY <1>4, <2>1, <2>4
    <3>2. m.at <= p.at
      <4>1. CASE p \in new
        <5>1. ~ Earlier(p, m)
          BY <2>4, <4>1
        <5>. QED
          BY <1>2, <2>2, <5>1 DEF Earlier, SameChain
      <4>2. CASE p.at = q.at
        BY <2>1, <4>2
      <4>. QED
        BY <1>5, <4>1, <4>2
    <3>. QED
      BY <1>1, <2>2, <3>1, <3>2
  <2>. QED
    BY <2>3, <2>4
<1>6. ASSUME NEW p \in new, \A q \in observed : ~ SameChain(p, q)
      PROVE  \E m \in observed' : SameChain(m, p) /\ m.at <= p.at /\ First(m)'
  <2>1. \A r \in observed \cup new : ~ Earlier(r, p)
    BY <1>2, <1>3, <1>6 DEF Earlier, SameChain
  <2>2. First(p)'
    BY <1>4, <2>1 DEF First
  <2>. QED
    BY <1>1, <1>2, <2>2 DEF SameChain
<1>. QED
  <2>. SUFFICES ASSUME NEW p \in observed'
                PROVE  \E m \in observed' : SameChain(m, p) /\ m.at <= p.at /\ First(m)'
    BY DEF HasEarliest, SameChain
  <2>1. CASE p \in observed
    BY <1>5, <2>1 DEF SameChain
  <2>2. CASE p \in new /\ \E q \in observed : SameChain(p, q)
    BY <1>5, <2>2
  <2>3. CASE p \in new /\ ~ \E q \in observed : SameChain(p, q)
    BY <1>6, <2>3
  <2>. QED
    BY <1>1, <2>1, <2>2, <2>3

\* A snapshot moves the start of a chain to an earlier time exactly when it
\* brings the earliest observation.
Precedes(e, s) ==
    {p \in NewPoints(s) : /\ e.kind = "started" /\ SameChain(e, p)
                          /\ Before(p) = {} /\ After(p) # {} /\ p.at < e.at}

Moved(e, s) ==
    IF Precedes(e, s) = {} THEN e
    ELSE [e EXCEPT !.at = (CHOOSE p \in Precedes(e, s) : TRUE).at]

LEMMA BackdatedFacts ==
  ASSUME NEW s
  PROVE  Backdated(NewPoints(s)) = {Moved(e, s) : e \in events}
  BY DEF Backdated, Moved, Precedes

LEMMA MovedFacts ==
  ASSUME TypeOK, NEW s \in taken, NEW e \in events
  PROVE  /\ Moved(e, s).kind = e.kind
         /\ Moved(e, s).gpu = e.gpu /\ Moved(e, s).boot = e.boot
         /\ Precedes(e, s) = {} => Moved(e, s).at = e.at
         /\ \A p \in Precedes(e, s) : Moved(e, s).at = p.at
<1>1. e \in EventType
  BY DEF TypeOK
<1>2. CASE Precedes(e, s) = {}
  BY <1>2 DEF Moved
<1>3. CASE Precedes(e, s) # {}
  <2>. DEFINE c == CHOOSE p \in Precedes(e, s) : TRUE
  <2>1. c \in Precedes(e, s)
    BY <1>3
  <2>2. \A p \in Precedes(e, s) : p = c
    <3>1. \A p \in Precedes(e, s) : p \in NewPoints(s) /\ SameChain(e, p)
      BY DEF Precedes
    <3>2. \A p \in Precedes(e, s) : SameChain(p, c)
      BY <2>1, <3>1 DEF SameChain
    <3>. QED
      BY <2>1, <3>1, <3>2, NewPointUnique
  <2>3. Moved(e, s) = [e EXCEPT !.at = c.at]
    BY <1>3 DEF Moved
  <2>. HIDE DEF c
  <2>. QED
    BY <1>1, <1>3, <2>2, <2>3 DEF EventType
<1>. QED
  BY <1>2, <1>3

\* The two halves of StartIsEarliest.
StartOf(p) == \E e \in events : e.kind = "started" /\ SameChain(e, p) /\ e.at = p.at

LEMMA StartsAreKept ==
  ASSUME TypeOK, IdentityInv, PrunedPointsArePast, HasEarliest, StartIsEarliest,
         NEW s \in taken, NEW backfill,
         ~ Duplicate(s), Accepted(s), Record(s, backfill),
         NEW p \in observed', First(p)', p.at >= now - EventRetain
  PROVE  StartOf(p)'
<1>. DEFINE new == NewPoints(s)
<1>1. /\ observed' = observed \cup new
      /\ events' = Backdated(new) \cup Started(new) \cup Failures(new) \cup Missing(s)
  BY DEF Record
<1>2. \A e \in events : Moved(e, s) \in events'
  BY <1>1, BackdatedFacts
<1>3. \A q \in observed \cup new : q.at \in Int
  BY NewPointFacts DEF TypeOK, PointType, Time
<1>4. now \in Int /\ EventRetain \in Int
  BY IngestAssumption DEF TypeOK
<1>5. \A r \in observed \cup new : ~ Earlier(r, p)
  BY <1>1 DEF First, Earlier, SameChain
<1>6. points \subseteq observed
  BY DEF PrunedPointsArePast
<1>7. ASSUME NEW e \in events, e.kind = "started", SameChain(e, p),
             Moved(e, s).at = p.at
      PROVE  StartOf(p)'
  BY <1>2, <1>7, MovedFacts DEF StartOf, SameChain
<1>8. CASE p \in observed
  <2>1. First(p)
    BY <1>5 DEF First
  <2>2. PICK e \in events : e.kind = "started" /\ SameChain(e, p) /\ e.at = p.at
    BY <1>8, <2>1 DEF StartIsEarliest, First
  <2>3. ASSUME NEW q \in Precedes(e, s) PROVE FALSE
    <3>1. q \in new /\ SameChain(e, q) /\ q.at < e.at
      BY DEF Precedes
    <3>2. Earlier(q, p)
      BY <2>2, <3>1 DEF Earlier, SameChain
    <3>. QED
      BY <1>5, <3>1, <3>2
  <2>4. Moved(e, s).at = p.at
    BY <2>2, <2>3, MovedFacts
  <2>. QED
    BY <1>7, <2>2, <2>4
<1>9. CASE p \in new /\ After(p) = {}
  <2>1. Before(p) = {}
    BY <1>5, <1>6 DEF Before, Earlier
  <2>2. Event("started", p.gpu, p) \in Started(new)
    BY <1>9, <2>1 DEF Started
  <2>3. Event("started", p.gpu, p) \in events'
    BY <1>1, <2>2
  <2>. QED
    BY <2>3 DEF StartOf, Event, SameChain
<1>10. CASE p \in new /\ After(p) # {}
  <2>1. Before(p) = {}
    BY <1>5, <1>6 DEF Before, Earlier
  <2>2. PICK a \in points : SameChain(a, p)
    BY <1>10 DEF After
  <2>3. PICK m \in observed : SameChain(m, a) /\ m.at <= a.at /\ First(m)
    BY <1>6, <2>2 DEF HasEarliest
  <2>4. SameChain(m, p) /\ SameChain(p, m)
    BY <2>2, <2>3 DEF SameChain
  <2>5. p.at # m.at
    BY <1>10, <2>4, NewPointApart
  <2>6. p.at < m.at
    BY <1>3, <1>5, <1>10, <2>4, <2>5 DEF Earlier
  <2>7. m.at >= now - EventRetain
    BY <1>3, <1>4, <1>10, <2>6
  <2>8. PICK e \in events : e.kind = "started" /\ SameChain(e, m) /\ e.at = m.at
    BY <2>3, <2>7 DEF StartIsEarliest, First
  <2>9. SameChain(e, p)
    BY <2>4, <2>8 DEF SameChain
  <2>10. p \in Precedes(e, s)
    BY <1>10, <2>1, <2>6, <2>8, <2>9 DEF Precedes
  <2>. QED
    BY <1>7, <2>8, <2>9, <2>10, MovedFacts
<1>. QED
  BY <1>1, <1>8, <1>9, <1>10

LEMMA StartsAreObserved ==
  ASSUME TypeOK, StartIsEarliest, NEW s \in taken, NEW backfill, Record(s, backfill),
         NEW f \in events', f.kind = "started"
  PROVE  \E p \in observed' : SameChain(f, p) /\ f.at = p.at
<1>. DEFINE new == NewPoints(s)
<1>1. /\ observed' = observed \cup new
      /\ events' = Backdated(new) \cup Started(new) \cup Failures(new) \cup Missing(s)
  BY DEF Record
<1>2. CASE f \in Backdated(new)
  <2>1. PICK e \in events : f = Moved(e, s)
    BY <1>2, BackdatedFacts
  <2>2. e.kind = "started" /\ f.gpu = e.gpu /\ f.boot = e.boot
    BY <2>1, MovedFacts
  <2>3. CASE Precedes(e, s) = {}
    <3>1. f.at = e.at
      BY <2>1, <2>3, MovedFacts
    <3>2. PICK p \in observed : SameChain(e, p) /\ e.at = p.at
      BY <2>2 DEF StartIsEarliest
    <3>. QED
      BY <1>1, <2>2, <3>1, <3>2 DEF SameChain
  <2>4. ASSUME NEW p \in Precedes(e, s)
        PROVE  \E q \in observed' : SameChain(f, q) /\ f.at = q.at
    <3>1. f.at = p.at
      BY <2>1, MovedFacts
    <3>2. p \in new /\ SameChain(e, p)
      BY DEF Precedes
    <3>. QED
      BY <1>1, <2>2, <3>1, <3>2 DEF SameChain
  <2>. QED
    BY <2>3, <2>4
<1>3. CASE f \in Started(new)
  <2>1. PICK p \in new : f = Event("started", p.gpu, p)
    BY <1>3 DEF Started
  <2>. QED
    BY <1>1, <2>1 DEF Event, SameChain
<1>4. f \notin Failures(new) \cup Missing(s)
  BY DEF Failures, Missing, Event
<1>. QED
  BY <1>1, <1>2, <1>3, <1>4

LEMMA StartStep ==
  ASSUME TypeOK, ChainInv, HasEarliest, StartIsEarliest, [Next]_vars
  PROVE  HasEarliest' /\ StartIsEarliest'
<1>1. CASE Ingest
  <2>1. PICK s \in taken, backfill \in BOOLEAN :
          /\ Accepted(s)
          /\ IF Duplicate(s) THEN UNCHANGED vars ELSE Record(s, backfill)
    BY <1>1 DEF Ingest
  <2>2. CASE Duplicate(s)
    BY <2>1, <2>2 DEF vars, tables, HasEarliest, First, StartIsEarliest, Earlier, SameChain
  <2>3. CASE ~ Duplicate(s)
    <3>1. Record(s, backfill) /\ now' = now
      BY <2>1, <2>3 DEF Record
    <3>2. HasEarliest'
      BY <2>3, <3>1, EarliestStep DEF ChainInv
    <3>3. ASSUME NEW p \in observed', First(p)', p.at >= now' - EventRetain
          PROVE  StartOf(p)'
      BY <2>1, <2>3, <3>1, <3>3, StartsAreKept DEF ChainInv
    <3>4. \A f \in events' : f.kind = "started" =>
            \E p \in observed' : SameChain(f, p) /\ f.at = p.at
      BY <3>1, StartsAreObserved
    <3>. QED
      BY <3>2, <3>3, <3>4 DEF StartIsEarliest, StartOf, First, SameChain
  <2>. QED
    BY <2>2, <2>3
<1>2. CASE Tick
  <2>1. now' = now + 1 /\ observed' = observed /\ events' = events
    BY <1>2 DEF Tick, tables
  <2>2. \A p \in observed : p.at >= now' - EventRetain => p.at >= now - EventRetain
    BY <2>1, IngestAssumption DEF TypeOK, PointType, Time
  <2>. QED
    BY <2>1, <2>2 DEF HasEarliest, First, StartIsEarliest, Earlier, SameChain
<1>3. CASE Prune
  BY <1>3 DEF Prune, HasEarliest, First, StartIsEarliest, Earlier, SameChain
<1>4. CASE UNCHANGED <<now, observed, events>>
  BY <1>4 DEF HasEarliest, First, StartIsEarliest, Earlier, SameChain
<1>. QED
  BY <1>1, <1>2, <1>3, <1>4 DEF Next, Take, vars, tables

\* The earliest observation of a card in a start of the agent has its "started"
\* event at exactly that time until events expire, however late it arrives.
THEOREM StartsAreTheEarliest == Spec => []StartIsEarliest
<1>1. Init => HasEarliest /\ StartIsEarliest
  BY DEF Init, HasEarliest, StartIsEarliest
<1>2. TypeOK /\ ChainInv /\ HasEarliest /\ StartIsEarliest /\ [Next]_vars
        => HasEarliest' /\ StartIsEarliest'
  BY StartStep
<1>. QED
  BY <1>1, <1>2, TypeCorrect, ChainCorrect, PTL DEF Spec
-----------------------------------------------------------------------------
(* The live status. *)

\* Nothing observed is newer than the live sample.
NothingNewer == \A p \in observed : p.at <= snapshot.at

\* No two samples are of the same time, in whatever start of the agent.
TimesDiffer == \A s, t \in taken : s.at = t.at => s = t

\* The live sample is recorded, or out of reach of what is still accepted.
LiveRecorded ==
    Known # {} =>
        \E t \in taken :
            /\ t.at = snapshot.at
            /\ \/ [boot |-> t.boot, seq |-> t.seq, at |-> t.at] \in samples
               \/ snapshot.at < now - Retain

LiveInv == NothingNewer /\ TimesDiffer /\ LiveRecorded

LEMMA LiveInvStep ==
  ASSUME TypeOK, LiveInv, [Next]_vars
  PROVE  LiveInv'
<1>0. /\ now \in Int /\ snapshot.at \in Int
      /\ \A s \in taken : s.at \in Int
      /\ \A p \in observed : p.at \in Int
      /\ Retain \in Int
  BY SampleFacts, IngestAssumption DEF TypeOK, PointType, Time
<1>1. CASE Tick
  <2>1. now' = now + 1 /\ UNCHANGED <<taken, samples, snapshot, observed>>
    BY <1>1 DEF Tick, tables
  <2>2. snapshot.at < now - Retain => snapshot.at < now' - Retain
    BY <1>0, <2>1
  <2>. QED
    BY <2>1, <2>2 DEF LiveInv, NothingNewer, TimesDiffer, LiveRecorded, Known
<1>2. CASE Take
  <2>1. PICK boot \in Boot, seq \in Seq, at \in now .. (now + Ahead),
             status \in GPUStatuses, D \in SUBSET GPU :
          \E cards \in [D -> Readings] :
             /\ \A s \in taken : s.at < at
             /\ taken' = taken \cup {[boot |-> boot, seq |-> seq, at |-> at,
                                     gpuStatus |-> status, cards |-> cards]}
    BY <1>2 DEF Take
  <2>2. PICK cards \in [D -> Readings] :
             taken' = taken \cup {[boot |-> boot, seq |-> seq, at |-> at,
                                  gpuStatus |-> status, cards |-> cards]}
    BY <2>1
  <2>. DEFINE n == [boot |-> boot, seq |-> seq, at |-> at,
                    gpuStatus |-> status, cards |-> cards]
  <2>3. at \in Int
    BY <1>0, IngestAssumption
  <2>4. taken' = taken \cup {n} /\ n.at = at
    BY <2>2
  <2>. HIDE DEF n
  <2>5. \A s \in taken : s.at # n.at
    BY <1>0, <2>1, <2>3, <2>4
  <2>6. TimesDiffer'
    BY <2>4, <2>5 DEF LiveInv, TimesDiffer
  <2>7. UNCHANGED <<now, samples, snapshot, observed>>
    BY <1>2 DEF Take, tables
  <2>. QED
    BY <2>4, <2>6, <2>7 DEF LiveInv, NothingNewer, LiveRecorded, Known
<1>3. CASE Ingest
  <2>1. PICK s \in taken, backfill \in BOOLEAN :
          IF Duplicate(s) THEN UNCHANGED vars ELSE Record(s, backfill)
    BY <1>3 DEF Ingest
  <2>2. CASE Duplicate(s)
    BY <2>1, <2>2
       DEF vars, tables, LiveInv, NothingNewer, TimesDiffer, LiveRecorded, Known
  <2>3. CASE ~ Duplicate(s)
    <3>. DEFINE id == [boot |-> s.boot, seq |-> s.seq, at |-> s.at]
    <3>1. /\ observed' = observed \cup NewPoints(s) /\ snapshot' = Live(s)
          /\ samples' = samples \cup {id}
          /\ taken' = taken /\ now' = now
      BY <2>1, <2>3 DEF Record
    <3>2. snapshot'.at = IF s.at > snapshot.at THEN s.at ELSE snapshot.at
      BY <3>1 DEF Live, IsLatest
    <3>3. NothingNewer'
      BY <1>0, <3>1, <3>2, NewPointFacts DEF LiveInv, NothingNewer
    <3>4. LiveRecorded'
      <4>1. CASE s.at > snapshot.at
        BY <1>0, <3>1, <3>2, <4>1 DEF LiveRecorded
      <4>2. CASE ~ s.at > snapshot.at
        <5>1. snapshot' = snapshot
          BY <3>1, <4>2 DEF Live, IsLatest
        <5>. QED
          BY <3>1, <5>1 DEF LiveInv, LiveRecorded, Known
      <4>. QED
        BY <4>1, <4>2
    <3>. QED
      BY <3>1, <3>3, <3>4 DEF LiveInv, TimesDiffer
  <2>. QED
    BY <2>2, <2>3
<1>4. CASE Prune
  <2>1. /\ samples' = {r \in samples : r.at >= now - Retain}
        /\ UNCHANGED <<now, taken, snapshot, observed>>
    BY <1>4 DEF Prune
  <2>2. LiveRecorded'
    <3>1. ASSUME NEW t \in taken, t.at = snapshot.at,
                 [boot |-> t.boot, seq |-> t.seq, at |-> t.at] \in samples,
                 ~ snapshot.at < now - Retain
          PROVE  [boot |-> t.boot, seq |-> t.seq, at |-> t.at] \in samples'
      BY <1>0, <2>1, <3>1
    <3>. QED
      BY <2>1, <3>1 DEF LiveInv, LiveRecorded, Known
  <2>. QED
    BY <2>1, <2>2 DEF LiveInv, NothingNewer, TimesDiffer
<1>5. CASE UNCHANGED vars
  BY <1>5 DEF vars, tables, LiveInv, NothingNewer, TimesDiffer, LiveRecorded, Known
<1>. QED
  BY <1>1, <1>2, <1>3, <1>4, <1>5 DEF Next

\* What the live view says of card g.
SaysOf(g) ==
    LET newest == {p \in observed : p.gpu = g /\ p.at = snapshot.at} IN
    IF snapshot.cards[g] = "not_detected"
    THEN newest = {}
    ELSE \E p \in newest : p.status = snapshot.cards[g]

LEMMA NewestStep ==
  ASSUME TypeOK, LiveInv, LiveIsNewest, NEW s \in taken, NEW backfill,
         ~ Duplicate(s), Accepted(s), Record(s, backfill), NEW g \in Known'
  PROVE  SaysOf(g)'
<1>0. /\ now \in Int /\ snapshot.at \in Int /\ s.at \in Int
      /\ \A p \in observed : p.at \in Int
      /\ {Accept, Retain} \subseteq Int /\ Accept <= Retain
  BY SampleFacts, RollupAssumption, IngestAssumption, RetentionAssumption
     DEF TypeOK, PointType, Time
<1>1. observed' = observed \cup NewPoints(s) /\ snapshot' = Live(s)
  BY DEF Record
<1>2. \A p \in NewPoints(s) : p.at = s.at /\ p.gpu \in DOMAIN Reported(s)
  BY NewPointFacts
<1>3. CASE IsLatest(s)
  <2>1. /\ snapshot'.at = s.at
        /\ snapshot'.cards = [c \in DOMAIN Reported(s) \cup Absent(s) |->
                                IF c \in Absent(s) THEN "not_detected"
                                ELSE Reported(s)[c].status]
    BY <1>1, <1>3 DEF Live
  <2>2. g \in DOMAIN Reported(s) \cup Absent(s)
    BY <2>1 DEF Known
  <2>3. CASE g \in Absent(s)
    <3>1. snapshot'.cards[g] = "not_detected"
      BY <2>1, <2>2, <2>3
    <3>2. g \notin DOMAIN Reported(s)
      BY <2>3, ReportedFacts DEF Absent, Carried
    <3>3. \A p \in observed : p.at # s.at
      BY <1>0, <1>3 DEF LiveInv, NothingNewer, IsLatest
    <3>4. \A p \in observed' : ~ (p.gpu = g /\ p.at = snapshot'.at)
      BY <1>1, <1>2, <2>1, <3>2, <3>3
    <3>. QED
      BY <3>1, <3>4 DEF SaysOf
  <2>4. CASE g \notin Absent(s)
    <3>1. g \in DOMAIN Reported(s) /\ snapshot'.cards[g] = Reported(s)[g].status
      BY <2>1, <2>2, <2>4
    <3>2. Reported(s)[g].status # "not_detected"
      <4>1. CASE g \in DOMAIN s.cards
        <5>1. s \in SampleType
          BY DEF TypeOK
        <5>2. PICK D \in SUBSET GPU : s.cards \in [D -> Readings]
          BY <5>1 DEF SampleType
        <5>3. s.cards[g] \in Readings
          BY <4>1, <5>2
        <5>. QED
          BY <3>1, <4>1, <5>3, ReadingAssumption, ReportedFacts DEF Reported
      <4>2. CASE g \notin DOMAIN s.cards
        BY <3>1, <4>2, ReportedFacts DEF Reported, Unqueried
      <4>. QED
        BY <4>1, <4>2
    <3>3. PointOf(s, g) \in observed'
      BY <1>1, <3>1 DEF NewPoints
    <3>4. /\ PointOf(s, g).gpu = g /\ PointOf(s, g).at = s.at
          /\ PointOf(s, g).status = Reported(s)[g].status
      BY DEF PointOf
    <3>. QED
      BY <2>1, <3>1, <3>2, <3>3, <3>4 DEF SaysOf
  <2>. QED
    BY <2>3, <2>4
<1>4. CASE ~ IsLatest(s)
  <2>1. snapshot' = snapshot
    BY <1>1, <1>4 DEF Live
  <2>2. g \in Known /\ SaysOf(g)
    BY <2>1 DEF Known, LiveIsNewest, SaysOf
  <2>3. s.at # snapshot.at
    <3>1. SUFFICES ASSUME s.at = snapshot.at PROVE FALSE
      OBVIOUS
    <3>2. PICK t \in taken :
            /\ t.at = snapshot.at
            /\ \/ [boot |-> t.boot, seq |-> t.seq, at |-> t.at] \in samples
               \/ snapshot.at < now - Retain
      BY <2>2 DEF LiveInv, LiveRecorded
    <3>3. t = s
      BY <3>1, <3>2 DEF LiveInv, TimesDiffer
    <3>4. [boot |-> s.boot, seq |-> s.seq, at |-> s.at] \notin samples
      BY DEF Duplicate
    <3>5. s.at >= now - Accept
      BY DEF Accepted
    <3>. QED
      BY <1>0, <3>1, <3>2, <3>3, <3>4, <3>5
  <2>4. \A p \in NewPoints(s) : p.at # snapshot'.at
    BY <1>2, <2>1, <2>3
  <2>. QED
    BY <1>1, <2>1, <2>2, <2>4 DEF SaysOf
<1>. QED
  BY <1>3, <1>4

\* The live status of a card is that of its newest observation, and a card is not
\* detected exactly when the newest sample missed it, in whatever order the samples
\* of whatever starts of the agent arrive.
THEOREM LiveStatusIsNewest == Spec => []LiveIsNewest
<1>1. Init => LiveInv /\ LiveIsNewest
  BY DEF Init, LiveInv, NothingNewer, TimesDiffer, LiveRecorded, LiveIsNewest, Known, NoRows
<1>2. TypeOK /\ LiveInv /\ [Next]_vars => LiveInv'
  BY LiveInvStep
<1>3. TypeOK /\ LiveInv /\ LiveIsNewest /\ [Next]_vars => LiveIsNewest'
  <2>. SUFFICES ASSUME TypeOK, LiveInv, LiveIsNewest, [Next]_vars
                PROVE  LiveIsNewest'
    OBVIOUS
  <2>1. CASE UNCHANGED <<snapshot, observed>>
    BY <2>1 DEF LiveIsNewest, Known
  <2>2. CASE Ingest
    <3>1. PICK s \in taken, backfill \in BOOLEAN :
            /\ Accepted(s)
            /\ IF Duplicate(s) THEN UNCHANGED vars ELSE Record(s, backfill)
      BY <2>2 DEF Ingest
    <3>2. CASE Duplicate(s)
      BY <2>1, <3>1, <3>2 DEF vars, tables
    <3>3. CASE ~ Duplicate(s)
      <4>1. \A g \in Known' : SaysOf(g)'
        BY <3>1, <3>3, NewestStep
      <4>. QED
        BY <4>1 DEF LiveIsNewest, SaysOf, Known
    <3>. QED
      BY <3>2, <3>3
  <2>. QED
    BY <2>1, <2>2 DEF Next, Tick, Take, Prune, vars, tables
<1>. QED
  BY <1>1, <1>2, <1>3, TypeCorrect, PTL DEF Spec

-----------------------------------------------------------------------------
(* The loop of contributions. *)

\* The point from which the loop still has to go on.
From(a, s) == [a EXCEPT !.at = s]

Given(a, user, sec) == IF user = NoUser THEN CardShare(a, sec) ELSE UserShare(sec)

\* In closed form, what the inner loop gives from s on.
RestKeys(a, b, width, s) ==
    [gpu : {a.gpu}, user : Payers(a), res : {width}, bucket : Buckets(From(a, s), b, width)]

Rest(a, b, width, s) ==
    IF s >= b.at THEN [k \in {} |-> ZeroRow]
    ELSE [k \in RestKeys(a, b, width, s) |->
             Given(a, k.user, Seconds(From(a, s), b, width, k.bucket))]

\* A range of buckets is the first and those that begin after it.
LEMMA FirstBucket ==
  ASSUME NEW a, NEW b, NEW s \in Int, a.at = s, b.at \in Int, s < b.at, NEW width \in Nat \ {0},
         NEW c, c.at = BucketOf(s, width) + width
  PROVE  /\ b.at <= c.at => Buckets(a, b, width) = {BucketOf(s, width)}
         /\ c.at < b.at => /\ Buckets(a, b, width) = {BucketOf(s, width)} \cup Buckets(c, b, width)
                           /\ \A x \in Buckets(c, b, width) : x \in Int /\ x >= c.at
<1>. DEFINE q == s \div width
            l == (b.at - 1) \div width
            B == q * width
<1>1. q \in Int /\ B <= s /\ s < B + width /\ B \in Int /\ width \in Int /\ width > 0
  BY DivisionFacts
<1>2. l \in Int /\ l * width <= b.at - 1 /\ b.at - 1 < l * width + width /\ l * width \in Int
  <2>. DEFINE h == b.at - 1
  <2>1. h \in Int
    OBVIOUS
  <2>. HIDE DEF h
  <2>2. h \div width \in Int /\ (h \div width) * width <= h
        /\ h < (h \div width) * width + width
    BY <2>1, DivisionFacts
  <2>3. (h \div width) * width \in Int
    BY <2>2
  <2>. QED
    BY <2>2, <2>3 DEF h
<1>3. BucketOf(s, width) = B /\ Buckets(a, b, width) = {n * width : n \in q .. l}
  BY DEF BucketOf, Buckets
<1>4. (q + 1) * width = B + width /\ (l + 1) * width = l * width + width /\ q + 1 \in Int
      /\ l + 1 \in Int /\ (q + 1) * width \in Int /\ (l + 1) * width \in Int
  BY <1>1, <1>2
<1>5. \A x, y \in Int : (x * width <= y * width <=> x <= y) /\ x * width \in Int
  BY MultiplesInOrder
<1>. HIDE DEF q, l, B
<1>6. q <= l
  <2>1. ~ ((l + 1) * width <= q * width)
    BY <1>1, <1>2, <1>4 DEF B
  <2>. QED
    BY <1>1, <1>2, <1>4, <1>5, <2>1
<1>7. ASSUME b.at <= c.at
      PROVE  Buckets(a, b, width) = {BucketOf(s, width)}
  <2>1. ~ ((q + 1) * width <= l * width)
    BY <1>1, <1>2, <1>3, <1>4, <1>7
  <2>2. l = q
    BY <1>1, <1>2, <1>4, <1>5, <1>6, <2>1
  <2>3. q .. l = {q}
    BY <1>1, <2>2
  <2>. QED
    BY <1>3, <2>3 DEF B
<1>8. ASSUME c.at < b.at
      PROVE  /\ Buckets(a, b, width) = {BucketOf(s, width)} \cup Buckets(c, b, width)
             /\ \A x \in Buckets(c, b, width) : x \in Int /\ x >= c.at
  <2>1. c.at = (q + 1) * width /\ c.at \in Int
    BY <1>1, <1>3, <1>4
  <2>2. c.at \div width = q + 1
    <3>. DEFINE d == c.at \div width
    <3>1. d \in Int /\ d * width <= c.at /\ c.at < d * width + width
      BY <2>1, DivisionFacts
    <3>2. (d + 1) * width = d * width + width /\ d + 1 \in Int /\ d * width \in Int
      BY <3>1
    <3>. HIDE DEF d
    <3>3. d <= q + 1
      BY <1>4, <1>5, <2>1, <3>1
    <3>4. ~ ((d + 1) * width <= (q + 1) * width)
      BY <1>4, <2>1, <3>1, <3>2
    <3>5. ~ (d + 1 <= q + 1)
      BY <1>4, <1>5, <3>2, <3>4
    <3>6. d = q + 1
      BY <1>1, <3>1, <3>3, <3>5
    <3>. QED
      BY <3>6 DEF d
  <2>3. Buckets(c, b, width) = {n * width : n \in (q + 1) .. l}
    BY <2>2 DEF Buckets, l
  <2>4. q .. l = {q} \cup ((q + 1) .. l)
    BY <1>1, <1>2, <1>6
  <2>5. Buckets(a, b, width) = {B} \cup Buckets(c, b, width)
    BY <1>3, <2>3, <2>4 DEF B
  <2>6. ASSUME NEW n \in (q + 1) .. l
        PROVE  n * width \in Int /\ n * width >= c.at
    <3>1. n \in Int /\ n >= q + 1
      BY <1>1, <1>2, <2>6
    <3>. QED
      BY <1>4, <1>5, <2>1, <3>1
  <2>. QED
    BY <1>3, <2>3, <2>5, <2>6
<1>. QED
  BY <1>7, <1>8

\* One iteration leaves the rest from its end on.
LEMMA RestStep ==
  ASSUME NEW a \in PointType, NEW b \in PointType, NEW width \in Nat \ {0},
         NEW s \in Int, s < b.at
  PROVE  LET end == PieceEnd(b, width, s)
         IN  /\ end \in Int /\ s < end /\ end <= b.at
             /\ Rest(a, b, width, s)
                  = Appended(Piece(a, width, s, end), Rest(a, b, width, end))
<1>. DEFINE B == BucketOf(s, width)
            end == PieceEnd(b, width, s)
            keys(S) == [gpu : {a.gpu}, user : Payers(a), res : {width}, bucket : S]
            c == From(a, s)
            d == From(a, end)
            row(k) == Given(a, k.user, Seconds(c, b, width, k.bucket))
            piece == Piece(a, width, s, end)
            rest == Rest(a, b, width, end)
<1>1. b.at \in Int /\ B \in Int /\ B <= s /\ s < B + width
  BY DivisionFacts DEF BucketOf, PointType, Time
<1>2. end = IF b.at < B + width THEN b.at ELSE B + width
  BY DEF PieceEnd
<1>3. end \in Int /\ s < end /\ end <= b.at
  BY <1>1, <1>2
<1>4. c.at = s /\ d.at = end
  BY DEF From, PointType
<1>5. piece = [k \in keys({B}) |-> Given(a, k.user, end - s)]
  BY DEF Piece, Given
<1>6. Rest(a, b, width, s) = [k \in keys(Buckets(c, b, width)) |-> row(k)]
  BY <1>1 DEF Rest, RestKeys
<1>7. Appended(piece, rest)
        = [k \in DOMAIN piece \cup DOMAIN rest |->
             IF k \notin DOMAIN rest THEN piece[k]
             ELSE IF k \notin DOMAIN piece THEN rest[k] ELSE Plus(piece[k], rest[k])]
  BY DEF Appended
<1>8. \A k \in keys({B}) : k.bucket = B /\ row(k) = Given(a, k.user, end - s)
  <2>1. Seconds(c, b, width, B) = end - s
    BY <1>1, <1>2, <1>4 DEF Seconds
  <2>. QED
    BY <2>1
<1>9. CASE b.at <= B + width
  <2>1. end = b.at
    BY <1>1, <1>2, <1>9
  <2>2. rest = [k \in {} |-> ZeroRow]
    BY <1>1, <2>1 DEF Rest
  <2>3. Buckets(c, b, width) = {B}
    <3>. DEFINE e == [at |-> B + width]
    <3>1. e.at = B + width
      OBVIOUS
    <3>. HIDE DEF e, c, B
    <3>2. b.at <= e.at
      BY <1>9, <3>1
    <3>. QED
      BY <1>1, <1>4, <3>1, <3>2, FirstBucket DEF B
  <2>4. DOMAIN piece = keys({B}) /\ DOMAIN rest = {}
    BY <1>5, <2>2
  <2>5. Rest(a, b, width, s) = [k \in keys({B}) |-> row(k)]
    BY <1>6, <2>3
  <2>. HIDE DEF keys, row, B, end, c, d, piece, rest
  <2>6. Appended(piece, rest) = [k \in keys({B}) |-> piece[k]]
    BY <1>7, <2>4
  <2>7. \A k \in keys({B}) : piece[k] = row(k)
    BY <1>5, <1>8
  <2>8. Appended(piece, rest) = Rest(a, b, width, s)
    BY <2>5, <2>6, <2>7
  <2>. QED
    BY <1>3, <2>8 DEF end, piece, rest
<1>10. CASE B + width < b.at
  <2>1. end = B + width /\ end < b.at
    BY <1>1, <1>2, <1>10
  <2>2. rest = [k \in keys(Buckets(d, b, width)) |->
                  Given(a, k.user, Seconds(d, b, width, k.bucket))]
    BY <1>1, <1>3, <2>1 DEF Rest, RestKeys
  <2>3. /\ Buckets(c, b, width) = {B} \cup Buckets(d, b, width)
        /\ \A x \in Buckets(d, b, width) : x \in Int /\ x >= end
    <3>. HIDE DEF c, d, B, end
    <3>. QED
      BY <1>1, <1>4, <2>1, FirstBucket DEF B
  <2>4. \A k \in keys(Buckets(d, b, width)) :
          /\ k \notin keys({B})
          /\ row(k) = Given(a, k.user, Seconds(d, b, width, k.bucket))
    <3>. SUFFICES ASSUME NEW k \in keys(Buckets(d, b, width))
                  PROVE  /\ k.bucket # B
                         /\ Seconds(c, b, width, k.bucket) = Seconds(d, b, width, k.bucket)
      OBVIOUS
    <3>1. k.bucket \in Int /\ k.bucket >= end
      BY <2>3
    <3>2. k.bucket # B
      BY <1>1, <1>3, <3>1
    <3>3. Seconds(c, b, width, k.bucket) = Seconds(d, b, width, k.bucket)
      <4>. HIDE DEF c, d, end, B
      <4>. QED
        BY <1>1, <1>3, <1>4, <3>1 DEF Seconds
    <3>. QED
      BY <3>2, <3>3
  <2>5. keys({B} \cup Buckets(d, b, width)) = keys({B}) \cup keys(Buckets(d, b, width))
    OBVIOUS
  <2>6. DOMAIN piece = keys({B}) /\ DOMAIN rest = keys(Buckets(d, b, width))
    BY <1>5, <2>2
  <2>7. Rest(a, b, width, s) = [k \in keys({B}) \cup keys(Buckets(d, b, width)) |-> row(k)]
    BY <1>6, <2>3, <2>5
  <2>. HIDE DEF keys, row, B, end, c, d, piece, rest
  <2>8. \A k \in keys({B}) : k \notin keys(Buckets(d, b, width)) /\ piece[k] = row(k)
    BY <1>5, <1>8, <2>4
  <2>9. \A k \in keys(Buckets(d, b, width)) : rest[k] = row(k)
    BY <2>2, <2>4
  <2>10. Appended(piece, rest) = Rest(a, b, width, s)
    BY <1>7, <2>4, <2>6, <2>7, <2>8, <2>9
  <2>. QED
    BY <1>3, <2>10 DEF end, piece, rest
<1>. QED
  BY <1>1, <1>9, <1>10

\* The inner loop ends, and gives the closed form.
LEMMA PassIsRest ==
  ASSUME NEW a \in PointType, NEW b \in PointType, NEW width \in Nat \ {0}, a.at < b.at
  PROVE  Pass(a, b, width) = Rest(a, b, width, a.at)
<1>. DEFINE D == a.at .. (b.at + width)
            none == [k \in {} |-> ZeroRow]
            end(s) == PieceEnd(b, width, s)
            go(f, s) == IF s >= b.at THEN none
                        ELSE Appended(Piece(a, width, s, end(s)), f[end(s)])
            body(f) == [s \in D |-> go(f, s)]
            r(s) == Rest(a, b, width, s)
            g == [s \in D |-> r(s)]
            from == CHOOSE f : f = body(f)
<1>1. Pass(a, b, width) = from[a.at]
  BY DEF Pass
<1>2. a.at \in Int /\ b.at \in Int /\ a.at \in D
  BY DEF PointType, Time
<1>3. \A s \in D : s \in Int /\ s >= a.at
  BY <1>2
<1>4. \A s \in D : s >= b.at => r(s) = none
  BY DEF Rest
<1>5. ASSUME NEW s \in D, ~ (s >= b.at)
      PROVE  /\ end(s) \in D /\ end(s) >= s + 1
             /\ r(s) = Appended(Piece(a, width, s, end(s)), r(end(s)))
  <2>1. s \in Int /\ s < b.at /\ s >= a.at
    BY <1>2, <1>3, <1>5
  <2>2. /\ end(s) \in Int /\ s < end(s) /\ end(s) <= b.at
        /\ r(s) = Appended(Piece(a, width, s, end(s)), r(end(s)))
    BY <2>1, RestStep
  <2>. HIDE DEF end, r
  <2>. QED
    BY <1>2, <2>1, <2>2
<1>. HIDE DEF r, none, end, D
<1>6. g = body(g)
  <2>1. \A s \in D : g[s] = go(g, s)
    BY <1>4, <1>5
  <2>2. body(g) = [s \in D |-> go(g, s)]
    OBVIOUS
  <2>. HIDE DEF go
  <2>. QED
    BY <2>1, <2>2
<1>7. from = body(from)
  BY <1>6
<1>8. \A s \in D : from[s] = go(from, s)
  <2>. HIDE DEF go, from
  <2>. QED
    BY <1>7
<1>. HIDE DEF from
<1>. DEFINE P == {n \in Nat : \A s \in D : s >= b.at - n => from[s] = r(s)}
<1>9. 0 \in P
  <2>1. ASSUME NEW s \in D, s >= b.at - 0
        PROVE  from[s] = r(s)
    BY <1>2, <1>3, <1>4, <1>8, <2>1
  <2>. QED
    BY <2>1
<1>10. ASSUME NEW n \in Nat, n \in P
       PROVE  n + 1 \in P
  <2>1. ASSUME NEW s \in D, s >= b.at - (n + 1)
        PROVE  from[s] = r(s)
    <3>1. CASE s >= b.at
      BY <1>4, <1>8, <3>1
    <3>2. CASE ~ (s >= b.at)
      <4>1. end(s) \in D /\ end(s) >= b.at - n
        BY <1>2, <1>3, <1>5, <2>1, <3>2
      <4>2. from[end(s)] = r(end(s))
        BY <1>10, <4>1
      <4>. QED
        BY <1>5, <1>8, <3>2, <4>2
    <3>. QED
      BY <3>1, <3>2
  <2>. QED
    BY <2>1
<1>11. \A n \in Nat : n \in P
  <2>. HIDE DEF P
  <2>. QED
    BY <1>9, <1>10, UpTo
<1>12. from[a.at] = r(a.at)
  <2>1. b.at - a.at \in Nat /\ a.at >= b.at - (b.at - a.at)
    BY <1>2
  <2>2. b.at - a.at \in P
    BY <1>11, <2>1
  <2>. QED
    BY <1>2, <2>1, <2>2
<1>. QED
  BY <1>1, <1>12 DEF r

\* The loop over both widths gives the closed form of Rollups.
LEMMA LoopIsClosed ==
  ASSUME NEW a \in PointType, NEW b \in PointType
  PROVE  LoopAgrees(a, b)
<1>. DEFINE keys(width) == [gpu : {a.gpu}, user : Payers(a), res : {width},
                            bucket : Buckets(a, b, width)]
            row(k) == Contribution(a, b, k)
            m == Pass(a, b, Minute)
            h == Pass(a, b, Hour)
<1>1. CASE ~ Integrable(a, b)
  <2>1. Touched(a, b) = {} /\ Loop(a, b) = [k \in {} |-> ZeroRow]
    BY <1>1 DEF Touched, Loop
  <2>2. [k \in {} |-> ZeroRow] = [k \in {} |-> row(k)]
    OBVIOUS
  <2>. QED
    BY <2>1, <2>2 DEF LoopAgrees
<1>2. CASE Integrable(a, b)
  <2>1. a.at \in Int /\ b.at \in Int /\ a.at < b.at /\ [a EXCEPT !.at = a.at] = a
    BY <1>2 DEF Integrable, PointType, Time
  <2>2. Touched(a, b) = keys(Minute) \cup keys(Hour)
    BY <1>2 DEF Touched, Resolutions
  <2>3. ASSUME NEW width \in Resolutions
        PROVE  Pass(a, b, width) = [k \in keys(width) |-> row(k)]
    <3>1. width \in Nat \ {0}
      BY ResolutionType
    <3>2. Pass(a, b, width) = Rest(a, b, width, a.at)
      BY <2>1, <3>1, PassIsRest
    <3>3. Rest(a, b, width, a.at)
            = [k \in keys(width) |-> Given(a, k.user, Seconds(a, b, width, k.bucket))]
      <4>1. From(a, a.at) = a /\ ~ (a.at >= b.at)
        BY <2>1 DEF From
      <4>2. RestKeys(a, b, width, a.at) = keys(width)
        BY <4>1 DEF RestKeys
      <4>. HIDE DEF keys
      <4>. QED
        BY <4>1, <4>2 DEF Rest
    <3>4. \A k \in keys(width) : row(k) = Given(a, k.user, Seconds(a, b, width, k.bucket))
      <4>. SUFFICES ASSUME NEW k \in keys(width)
                    PROVE  row(k) = Given(a, k.user, Seconds(a, b, width, k.bucket))
        OBVIOUS
      <4>1. k \in Touched(a, b) /\ k.res = width
        BY <2>2 DEF Resolutions
      <4>. QED
        BY <4>1 DEF Contribution, Given
    <3>. HIDE DEF keys, row
    <3>. QED
      BY <3>2, <3>3, <3>4
  <2>4. m = [k \in keys(Minute) |-> row(k)] /\ h = [k \in keys(Hour) |-> row(k)]
    BY <2>3 DEF Resolutions
  <2>5. keys(Minute) \cap keys(Hour) = {}
    <3>1. Minute # Hour
      BY RollupAssumption
    <3>. QED
      BY <3>1
  <2>6. Loop(a, b) = Appended(m, h)
    BY <1>2 DEF Loop
  <2>. HIDE DEF keys, row, m, h
  <2>7. Appended(m, h) = [k \in keys(Minute) \cup keys(Hour) |-> row(k)]
    <3>1. DOMAIN m = keys(Minute) /\ DOMAIN h = keys(Hour)
      BY <2>4
    <3>2. Appended(m, h) = [k \in keys(Minute) \cup keys(Hour) |->
             IF k \notin keys(Hour) THEN m[k]
             ELSE IF k \notin keys(Minute) THEN h[k] ELSE Plus(m[k], h[k])]
      BY <3>1 DEF Appended
    <3>3. \A k \in keys(Minute) : k \notin keys(Hour) /\ m[k] = row(k)
      BY <2>4, <2>5
    <3>4. \A k \in keys(Hour) : k \notin keys(Minute) /\ h[k] = row(k)
      BY <2>4, <2>5
    <3>. QED
      BY <3>2, <3>3, <3>4
  <2>. QED
    BY <2>2, <2>6, <2>7 DEF LoopAgrees, row
<1>. QED
  BY <1>1, <1>2

\* The loop of contributions, which cuts an edge at every boundary, gives each row of the
\* closed form once and with all its time, whichever observed points the edge joins.
THEOREM LoopGivesTheRows == Spec => []LoopIsContribution
<1>1. TypeOK => LoopIsContribution
  <2>. SUFFICES ASSUME TypeOK, NEW a \in observed, NEW b \in observed
                PROVE  LoopAgrees(a, b)
    BY DEF LoopIsContribution
  <2>1. a \in PointType /\ b \in PointType
    BY DEF TypeOK
  <2>. QED
    BY <2>1, LoopIsClosed
<1>. QED
  BY <1>1, TypeCorrect, PTL

-----------------------------------------------------------------------------
(* The fields of a sum of rows. *)

Field == {"occupied", "occupancyValid", "attributionValid", "utilValid", "weighted"}

LEMMA FieldOfPlus ==
  ASSUME NEW f \in Field, NEW r \in Row, NEW d \in Row
  PROVE  Plus(r, d)[f] = r[f] + d[f] /\ r[f] \in Int /\ ZeroRow[f] = 0
  BY DEF Field, Plus, Row, ZeroRow

LEMMA SumRowsFacts ==
  ASSUME NEW S, IsFiniteSet(S), NEW F, \A x \in S : F[x] \in Row
  PROVE  /\ SumRows(F, {}) = ZeroRow
         /\ \A T \in SUBSET S :
              /\ SumRows(F, T) \in Row
              /\ \A x \in T : SumRows(F, T) = Plus(F[x], SumRows(F, T \ {x}))
<1>. DEFINE g == RowSums(F, S)
<1>1. IsSum(g, Row, PlusRow, ZeroRow, F, S)
  BY SumRowsIsSum
<1>2. \A T \in SUBSET S : g[T] = SumRows(F, T)
  BY DEF RowSums
<1>. HIDE DEF g
<1>3. g \in [SUBSET S -> Row] /\ g[{}] = ZeroRow
  BY <1>1 DEF IsSum, IsFold
<1>4. ASSUME NEW T \in SUBSET S, NEW x \in T
      PROVE  g[T] = Plus(F[x], g[T \ {x}])
  <2>1. g[T] = PlusRow[F[x]][g[T \ {x}]]
    BY <1>1, SumAny
  <2>2. F[x] \in Row /\ g[T \ {x}] \in Row
    BY <1>3
  <2>. QED
    BY <2>1, <2>2 DEF PlusRow
<1>5. \A T \in SUBSET S : \A x \in T : T \ {x} \in SUBSET S
  OBVIOUS
<1>. QED
  BY <1>2, <1>3, <1>4, <1>5

LEMMA FieldOfSum ==
  ASSUME NEW S, IsFiniteSet(S), NEW F, \A x \in S : F[x] \in Row, NEW f \in Field
  PROVE  SumRows(F, S)[f] = SumFunctionOnSet([x \in S |-> F[x][f]], S)
<1>. DEFINE G == [x \in S |-> F[x][f]]
            s(T) == SumRows(F, T)
            g(T) == SumFunctionOnSet(G, T)
            P == {T \in SUBSET S : s(T)[f] = g(T)}
<1>0. \A x \in S : G[x] = F[x][f]
  OBVIOUS
<1>. HIDE DEF G
<1>6. \A x \in S : G[x] \in Int
  BY <1>0, FieldOfPlus
<1>1. /\ s({}) = ZeroRow
      /\ \A T \in SUBSET S : s(T) \in Row /\ \A x \in T : s(T) = Plus(F[x], s(T \ {x}))
  BY SumRowsFacts
<1>2. /\ SumFunctionOnSet(G, {}) = 0
      /\ \A T \in SUBSET S :
           /\ SumFunctionOnSet(G, T) \in Int
           /\ \A x \in T : SumFunctionOnSet(G, T) = G[x] + SumFunctionOnSet(G, T \ {x})
  BY <1>6, IntSumFacts
<1>. HIDE DEF s, g
<1>3. {} \in P
  <2>1. ZeroRow[f] = 0
    BY ZeroRowType, FieldOfPlus
  <2>. QED
    BY <1>1, <1>2, <2>1 DEF g
<1>4. ASSUME NEW T \in SUBSET S, T # {}, T \ {Pick(T)} \in P
      PROVE  T \in P
  <2>. DEFINE x == Pick(T)
              U == T \ {x}
  <2>1. x \in T /\ U \in SUBSET S
    BY <1>4, PickIn
  <2>2. s(U)[f] = g(U)
    BY <1>4
  <2>3. s(T) = Plus(F[x], s(U)) /\ g(T) = G[x] + g(U) /\ s(U) \in Row /\ F[x] \in Row
        /\ G[x] = F[x][f]
    BY <1>0, <1>1, <1>2, <2>1 DEF g
  <2>. HIDE DEF x, U
  <2>4. s(T)[f] = F[x][f] + s(U)[f]
    BY <2>3, FieldOfPlus
  <2>5. s(T)[f] = g(T)
    BY <2>2, <2>3, <2>4
  <2>. QED
    BY <2>5
<1>5. S \in P
  <2>. HIDE DEF P
  <2>. QED
    BY <1>3, <1>4, SubsetInduction
<1>. QED
  BY <1>5 DEF s, g, G

-----------------------------------------------------------------------------
(* Buckets. *)

\* The buckets an edge meets are those that hold some of its time.
LEMMA BucketsMeet ==
  ASSUME NEW e \in EdgeType, e.left.at < e.right.at, NEW res \in Nat \ {0}, NEW m \in Int
  PROVE  m * res \in Buckets(e.left, e.right, res)
           <=> e.left.at < m * res + res /\ m * res < e.right.at
<1>. DEFINE a == e.left.at
            b == e.right.at - 1
            d == a \div res
            h == b \div res
<1>1. e.left.at \in Int /\ e.right.at \in Int /\ a \in Int /\ b \in Int
  BY DEF EdgeType, PointType, Time
<1>2. /\ d \in Int /\ d * res <= a /\ a < d * res + res
      /\ h \in Int /\ h * res <= b /\ b < h * res + res
  <2>. HIDE DEF a, b
  <2>. QED
    BY <1>1, DivisionFacts
<1>3. Buckets(e.left, e.right, res) = {n * res : n \in d .. h}
  BY DEF Buckets
<1>4. b = e.right.at - 1
  OBVIOUS
<1>5. \A i, j \in Int : i >= j => i * res >= j * res /\ i * res \in Int /\ j * res \in Int
  BY TimesIsMonotone
<1>. HIDE DEF b, d, h
<1>6. ASSUME m * res \in Buckets(e.left, e.right, res)
      PROVE  e.left.at < m * res + res /\ m * res < e.right.at
  <2>1. PICK n \in d .. h : m * res = n * res
    BY <1>3, <1>6
  <2>2. n \in Int /\ n >= d /\ h >= n
    BY <1>2, <2>1
  <2>3. n * res >= d * res /\ h * res >= n * res
        /\ n * res \in Int /\ d * res \in Int /\ h * res \in Int
    BY <1>2, <1>5, <2>2
  <2>. DEFINE x == n * res
              y == d * res
              z == h * res
  <2>4. x >= y /\ z >= x /\ x \in Int /\ y \in Int /\ z \in Int /\ a < y + res /\ z <= b
        /\ m * res = x
    BY <1>2, <2>1, <2>3
  <2>. HIDE DEF x, y, z
  <2>. QED
    BY <1>1, <1>4, <2>4
<1>7. ASSUME a < m * res + res, m * res < e.right.at
      PROVE  m * res \in Buckets(e.left, e.right, res)
  <2>1. m >= d
    <3>1. SUFFICES ASSUME d >= m + 1 PROVE FALSE
      BY <1>2
    <3>2. d * res >= (m + 1) * res /\ m + 1 \in Int
      BY <1>2, <1>5, <3>1
    <3>3. (m + 1) * res = m * res + res
      OBVIOUS
    <3>. DEFINE x == m * res
                y == d * res
    <3>4. y >= x + res /\ y <= a /\ a < x + res /\ x \in Int /\ y \in Int
      BY <1>2, <1>7, <3>2, <3>3
    <3>. HIDE DEF x, y
    <3>. QED
      BY <1>1, <3>4
  <2>2. h >= m
    <3>1. SUFFICES ASSUME m >= h + 1 PROVE FALSE
      BY <1>2
    <3>2. m * res >= (h + 1) * res /\ h + 1 \in Int
      BY <1>2, <1>5, <3>1
    <3>3. (h + 1) * res = h * res + res
      BY <1>2
    <3>. DEFINE x == m * res
                y == h * res
    <3>4. x >= y + res /\ b < y + res /\ x < e.right.at /\ x \in Int /\ y \in Int
      BY <1>2, <1>7, <3>2, <3>3
    <3>. HIDE DEF x, y
    <3>. QED
      BY <1>1, <1>4, <3>4
  <2>3. m \in d .. h
    BY <1>2, <2>1, <2>2
  <2>. QED
    BY <1>3, <2>3
<1>. QED
  BY <1>6, <1>7

LEMMA WithinType ==
  ASSUME NEW e \in EdgeType, NEW lo \in Int, NEW hi \in Int
  PROVE  Within(e, lo, hi) \in Nat
<1>1. e.left.at \in Int /\ e.right.at \in Int
  BY DEF EdgeType, PointType, Time
<1>. QED
  BY <1>1 DEF Within, Greater, Lesser

\* What lies within two adjacent ranges lies within both together.
LEMMA WithinAdds ==
  ASSUME NEW e \in EdgeType, e.left.at < e.right.at,
         NEW lo \in Int, NEW mid \in Int, NEW hi \in Int, lo <= mid, mid <= hi
  PROVE  Within(e, lo, hi) = Within(e, lo, mid) + Within(e, mid, hi)
<1>1. e.left.at \in Int /\ e.right.at \in Int
  BY DEF EdgeType, PointType, Time
<1>. QED
  BY <1>1 DEF Within, Greater, Lesser

\* A larger range holds more, and an empty one nothing.
LEMMA WithinGrows ==
  ASSUME NEW e \in EdgeType, NEW lo \in Int, NEW hi \in Int, NEW from \in Int, NEW to \in Int,
         from <= lo, hi <= to
  PROVE  Within(e, lo, hi) <= Within(e, from, to)
<1>1. e.left.at \in Int /\ e.right.at \in Int
  BY DEF EdgeType, PointType, Time
<1>. QED
  BY <1>1 DEF Within, Greater, Lesser

LEMMA WithinNothing ==
  ASSUME NEW e \in EdgeType, NEW lo \in Int, NEW hi \in Int,
         hi <= lo \/ hi <= e.left.at \/ e.right.at <= lo
  PROVE  Within(e, lo, hi) = 0
<1>1. e.left.at \in Int /\ e.right.at \in Int
  BY DEF EdgeType, PointType, Time
<1>. QED
  BY <1>1 DEF Within, Greater, Lesser

\* What an edge charges to a bucket is what lies within it.
LEMMA SecondsAreWithin ==
  ASSUME NEW e \in EdgeType, e.left.at < e.right.at, NEW res \in Nat \ {0}, NEW b \in Int,
         e.left.at < b + res, b < e.right.at
  PROVE  Seconds(e.left, e.right, res, b) = Within(e, b, b + res)
<1>1. e.left.at \in Int /\ e.right.at \in Int
  BY DEF EdgeType, PointType, Time
<1>. QED
  BY <1>1 DEF Seconds, Within, Greater, Lesser

-----------------------------------------------------------------------------
(* The charge of one edge to the buckets of a range. *)

TouchedIn(e, u, res, lo, hi) ==
    {k \in Touched(e.left, e.right) : k.user = u /\ k.res = res /\ lo <= k.bucket /\ k.bucket < hi}

KeyOf(e, u, res, b) == [gpu |-> e.left.gpu, user |-> u, res |-> res, bucket |-> b]

LEMMA TouchedKeys ==
  ASSUME NEW e \in EdgeType, Integrable(e.left, e.right),
         NEW u \in Payers(e.left), NEW res \in Resolutions
  PROVE  /\ \A b \in Buckets(e.left, e.right, res) : KeyOf(e, u, res, b) \in Touched(e.left, e.right)
         /\ \A k \in Touched(e.left, e.right) :
              k.user = u /\ k.res = res =>
                 \E m \in Int : /\ m * res \in Buckets(e.left, e.right, res)
                                /\ k = KeyOf(e, u, res, m * res)
<1>1. /\ res \in Nat \ {0} /\ e.left.at \in Int /\ e.right.at - 1 \in Int
  BY ResolutionType DEF EdgeType, PointType, Time
<1>2. e.left.at \div res \in Int /\ (e.right.at - 1) \div res \in Int
  BY <1>1, DivisionFacts
<1>3. ASSUME NEW k \in Touched(e.left, e.right), k.user = u, k.res = res
      PROVE  \E m \in Int : /\ m * res \in Buckets(e.left, e.right, res)
                            /\ k = KeyOf(e, u, res, m * res)
  <2>1. PICK r \in Resolutions :
          k \in [gpu : {e.left.gpu}, user : Payers(e.left), res : {r},
                 bucket : Buckets(e.left, e.right, r)]
    BY <1>3 DEF Touched
  <2>2. r = res
    BY <1>3, <2>1
  <2>3. k.bucket \in Buckets(e.left, e.right, res) /\ k = KeyOf(e, u, res, k.bucket)
    BY <1>3, <2>1, <2>2 DEF KeyOf
  <2>4. PICK m \in (e.left.at \div res) .. ((e.right.at - 1) \div res) : k.bucket = m * res
    BY <2>3 DEF Buckets
  <2>. QED
    BY <1>2, <2>3, <2>4
<1>. QED
  BY <1>3 DEF Touched, KeyOf

\* What an edge adds to the rows it touches, w for each unit of time.
Added(e, w) ==
    [k \in Touched(e.left, e.right) |-> w * Seconds(e.left, e.right, k.res, k.bucket)]

\* Bucket by bucket the edge charges its time in the range, and nothing else.
LEMMA EdgeTelescopes ==
  ASSUME NEW e \in EdgeType, Integrable(e.left, e.right), NEW u \in Payers(e.left),
         NEW res \in Resolutions, NEW w \in Int, NEW i \in Int, NEW n \in Nat
  PROVE  /\ IsFiniteSet(TouchedIn(e, u, res, i * res, (i + n) * res))
         /\ SumFunctionOnSet(Added(e, w), TouchedIn(e, u, res, i * res, (i + n) * res))
              = w * Within(e, i * res, (i + n) * res)
<1>. DEFINE F == Added(e, w)
            lo == i * res
            T(j) == TouchedIn(e, u, res, lo, (i + j) * res)
            W(j) == Within(e, lo, (i + j) * res)
            P == {j \in Nat : /\ IsFiniteSet(T(j))
                              /\ SumFunctionOnSet(F, T(j)) = w * W(j)}
<1>1. /\ res \in Nat \ {0} /\ lo \in Int
      /\ e.left.at \in Int /\ e.right.at \in Int /\ e.left.at < e.right.at
      /\ e.left \in PointType /\ e.right \in PointType
  BY ResolutionType DEF EdgeType, PointType, Time, Integrable
<1>2. \A k \in Touched(e.left, e.right) :
        k.bucket \in Int /\ F[k] = w * Seconds(e.left, e.right, k.res, k.bucket) /\ F[k] \in Int
  <2>1. ASSUME NEW k \in Touched(e.left, e.right)
        PROVE  k.bucket \in Int /\ k.res \in Int
    <3>1. k \in RollupKey
      BY <1>1, TouchedType
    <3>. QED
      BY <3>1, ResolutionType DEF RollupKey
  <2>2. ASSUME NEW k \in Touched(e.left, e.right)
        PROVE  Seconds(e.left, e.right, k.res, k.bucket) \in Int
    BY <1>1, <2>1 DEF Seconds
  <2>. QED
    BY <2>1, <2>2 DEF Added
<1>3. 0 \in P
  <2>1. (i + 0) * res = lo
    OBVIOUS
  <2>2. T(0) = {}
    <3>. SUFFICES ASSUME NEW k \in T(0) PROVE FALSE
      OBVIOUS
    <3>1. k.bucket \in Int /\ lo <= k.bucket /\ k.bucket < lo
      BY <1>2, <2>1 DEF TouchedIn
    <3>. HIDE DEF lo
    <3>. QED
      BY <1>1, <3>1
  <2>3. W(0) = 0
    BY <1>1, <2>1, WithinNothing
  <2>4. IsFiniteSet({})
    BY FS_EmptySet
  <2>5. SumFunctionOnSet(F, {}) = 0
    BY <2>4, IntSumFacts
  <2>. HIDE DEF T, W, F
  <2>. QED
    BY <2>2, <2>3, <2>4, <2>5
<1>4. ASSUME NEW j \in Nat, j \in P
      PROVE  j + 1 \in P
  <2>. DEFINE m == i + j
              b == m * res
              key == KeyOf(e, u, res, b)
              meets == e.left.at < b + res /\ b < e.right.at
  <2>1. /\ m \in Int /\ b \in Int /\ lo <= b /\ (i + (j + 1)) * res = b + res
    <3>1. m \in Int /\ m >= i
      OBVIOUS
    <3>2. (m + 1) * res = b + res /\ b \in Int
      BY <1>1, <3>1
    <3>3. b >= lo
      BY <1>1, <3>1, TimesIsMonotone
    <3>4. i + (j + 1) = m + 1
      OBVIOUS
    <3>. QED
      BY <1>1, <3>1, <3>2, <3>3, <3>4
  <2>. DEFINE next == TouchedIn(e, u, res, lo, b + res)
              this == TouchedIn(e, u, res, lo, b)
  <2>2. T(j) = this /\ T(j + 1) = next /\ W(j) = Within(e, lo, b)
        /\ W(j + 1) = Within(e, lo, b + res)
    BY <2>1
  <2>3. meets <=> b \in Buckets(e.left, e.right, res)
    BY <1>1, <2>1, BucketsMeet
  <2>4. ASSUME NEW k \in next \ this
        PROVE  meets /\ k = key
    <3>1. /\ k \in Touched(e.left, e.right) /\ k.user = u /\ k.res = res
          /\ k.bucket < b + res /\ b <= k.bucket
      BY <1>2, <2>1, <2>4 DEF TouchedIn
    <3>2. PICK p \in Int : /\ p * res \in Buckets(e.left, e.right, res)
                           /\ k = KeyOf(e, u, res, p * res)
      BY <3>1, TouchedKeys
    <3>3. k.bucket = p * res
      BY <3>2 DEF KeyOf
    <3>4. p = m
      <4>1. ASSUME p >= m + 1 PROVE FALSE
        <5>1. p * res >= (m + 1) * res /\ (m + 1) * res = b + res
          BY <1>1, <2>1, <4>1, TimesIsMonotone
        <5>2. p * res \in Int
          BY <1>1
        <5>. DEFINE x == p * res
        <5>3. x >= b + res /\ x < b + res /\ x \in Int
          BY <3>1, <3>3, <5>1, <5>2
        <5>. HIDE DEF x, b
        <5>. QED
          BY <1>1, <2>1, <5>3
      <4>2. ASSUME m >= p + 1 PROVE FALSE
        <5>1. b >= (p + 1) * res /\ (p + 1) * res = p * res + res
          BY <1>1, <2>1, <4>2, TimesIsMonotone
        <5>2. p * res \in Int
          BY <1>1
        <5>. DEFINE x == p * res
        <5>3. b >= x + res /\ b <= x /\ x \in Int
          BY <3>1, <3>3, <5>1, <5>2
        <5>. HIDE DEF x, b
        <5>. QED
          BY <1>1, <2>1, <5>3
      <4>. HIDE DEF m
      <4>. QED
        BY <2>1, <4>1, <4>2
    <3>. QED
      BY <2>3, <3>2, <3>4
  <2>5. IsFiniteSet(this) /\ SumFunctionOnSet(F, this) = w * Within(e, lo, b)
    BY <1>4, <2>2
  <2>6. Within(e, lo, b + res) = Within(e, lo, b) + Within(e, b, b + res)
    BY <1>1, <2>1, WithinAdds
  <2>7. Within(e, lo, b) \in Int /\ Within(e, b, b + res) \in Int
    BY <1>1, <2>1, WithinType
  <2>8. this \subseteq next
    BY <1>1, <1>2, <2>1 DEF TouchedIn
  <2>9. CASE meets
    <3>1. key \in next /\ key \notin this
      <4>1. key \in Touched(e.left, e.right)
        BY <2>3, <2>9, TouchedKeys
      <4>2. key.user = u /\ key.res = res /\ key.bucket = b
        BY DEF KeyOf
      <4>. HIDE DEF key, b
      <4>. QED
        BY <1>1, <2>1, <4>1, <4>2 DEF TouchedIn
    <3>2. next = this \cup {key} /\ next \ {key} = this
      BY <2>4, <2>8, <3>1
    <3>3. IsFiniteSet(next)
      BY <2>5, <3>2, FS_AddElement
    <3>4. \A k \in next : F[k] \in Int
      BY <1>2 DEF TouchedIn
    <3>5. F[key] = w * Within(e, b, b + res)
      <4>1. key \in Touched(e.left, e.right) /\ key.bucket = b /\ key.res = res
        BY <3>1 DEF TouchedIn, KeyOf
      <4>2. F[key] = w * Seconds(e.left, e.right, res, b)
        BY <1>2, <4>1
      <4>3. Seconds(e.left, e.right, res, b) = Within(e, b, b + res)
        BY <1>1, <2>1, <2>9, SecondsAreWithin
      <4>. QED
        BY <4>2, <4>3
    <3>. HIDE DEF F, next, this, key
    <3>6. SumFunctionOnSet(F, next) = F[key] + SumFunctionOnSet(F, next \ {key})
      BY <3>1, <3>3, <3>4, IntSumFacts
    <3>7. SumFunctionOnSet(F, next) = w * Within(e, b, b + res) + w * Within(e, lo, b)
      BY <2>5, <3>2, <3>5, <3>6
    <3>8. \A x, y \in Int : w * y + w * x = w * (x + y)
      OBVIOUS
    <3>9. SumFunctionOnSet(F, next) = w * Within(e, lo, b + res)
      BY <2>6, <2>7, <3>7, <3>8
    <3>. QED
      BY <2>2, <3>3, <3>9 DEF next
  <2>10. CASE ~ meets
    <3>1. next = this
      BY <2>4, <2>8, <2>10
    <3>2. Within(e, b, b + res) = 0
      <4>. HIDE DEF b
      <4>. QED
        BY <1>1, <2>1, <2>10, WithinNothing
    <3>3. Within(e, lo, b + res) = Within(e, lo, b)
      BY <2>6, <2>7, <3>2
    <3>. QED
      BY <2>2, <2>5, <3>1, <3>3
  <2>. QED
    BY <2>9, <2>10
<1>5. n \in P
  <2>. HIDE DEF P
  <2>. QED
    BY <1>3, <1>4, UpTo
<1>. QED
  BY <1>5

-----------------------------------------------------------------------------
(* The rows of a range are the time in the range. *)

\* What an edge adds for each unit of time to field f of the rows of the cards in G
\* and user u.
Weight(e, G, u, f) ==
    IF Integrable(e.left, e.right) /\ e.left.gpu \in G /\ u \in Payers(e.left)
    THEN IF u = NoUser THEN CardShare(e.left, 1)[f] ELSE UserShare(1)[f]
    ELSE 0

LEMMA WeightType ==
  ASSUME NEW e \in EdgeType, NEW G, NEW u, NEW f \in Field
  PROVE  Weight(e, G, u, f) \in Int
<1>1. e.left \in PointType
  BY DEF EdgeType
<1>2. CardShare(e.left, 1) \in Row /\ UserShare(1) \in Row
  BY <1>1, CardShareType, UserShareType
<1>. QED
  BY <1>2, FieldOfPlus DEF Weight

\* Both shares are proportional to the time.
LEMMA SharesScale ==
  ASSUME NEW a \in PointType, NEW sec \in Int, NEW f \in Field
  PROVE  /\ CardShare(a, sec)[f] = CardShare(a, 1)[f] * sec
         /\ UserShare(sec)[f] = UserShare(1)[f] * sec
<1>1. Util(a) # NoUtil => Util(a) \in Int
  BY DEF Util, PointType
<1>2. Util(a) # NoUtil => sec * Util(a) = (1 * Util(a)) * sec
  BY <1>1
<1>3. CardShare(a, sec)[f] = CardShare(a, 1)[f] * sec
  <2>1. CASE f = "occupied"
    BY <2>1 DEF CardShare
  <2>2. CASE f = "occupancyValid"
    BY <2>2 DEF CardShare
  <2>3. CASE f = "attributionValid"
    BY <2>3 DEF CardShare
  <2>4. CASE f = "utilValid"
    BY <2>4 DEF CardShare
  <2>5. CASE f = "weighted"
    BY <1>2, <2>5 DEF CardShare
  <2>. QED
    BY <2>1, <2>2, <2>3, <2>4, <2>5 DEF Field
<1>4. UserShare(sec)[f] = UserShare(1)[f] * sec
  <2>1. CASE f = "occupied"
    BY <2>1 DEF UserShare, ZeroRow
  <2>2. CASE f = "occupancyValid"
    BY <2>2 DEF UserShare, ZeroRow
  <2>3. CASE f = "attributionValid"
    BY <2>3 DEF UserShare, ZeroRow
  <2>4. CASE f = "utilValid"
    BY <2>4 DEF UserShare, ZeroRow
  <2>5. CASE f = "weighted"
    BY <2>5 DEF UserShare, ZeroRow
  <2>. QED
    BY <2>1, <2>2, <2>3, <2>4, <2>5 DEF Field
<1>. QED
  BY <1>3, <1>4

LEMMA ContributionField ==
  ASSUME NEW e \in EdgeType, NEW G, NEW u, NEW f \in Field, NEW k, k.gpu \in G, k.user = u
  PROVE  Contribution(e.left, e.right, k)[f] =
           IF k \in Touched(e.left, e.right)
           THEN Weight(e, G, u, f) * Seconds(e.left, e.right, k.res, k.bucket) ELSE 0
<1>1. CASE k \notin Touched(e.left, e.right)
  BY <1>1, ZeroRowType, FieldOfPlus DEF Contribution
<1>2. CASE k \in Touched(e.left, e.right)
  <2>. DEFINE sec == Seconds(e.left, e.right, k.res, k.bucket)
  <2>1. e.left \in PointType /\ e.right \in PointType
    BY DEF EdgeType
  <2>2. k \in RollupKey
    BY <1>2, <2>1, TouchedType
  <2>3. k.res \in Int /\ k.bucket \in Int /\ e.left.at \in Int /\ e.right.at \in Int
    BY <2>1, <2>2, ResolutionType DEF RollupKey, PointType, Time
  <2>4. sec \in Int
    BY <2>3 DEF Seconds
  <2>5. Integrable(e.left, e.right) /\ e.left.gpu \in G /\ u \in Payers(e.left)
    BY <1>2 DEF Touched
  <2>6. Contribution(e.left, e.right, k) = IF u = NoUser THEN CardShare(e.left, sec)
                                           ELSE UserShare(sec)
    BY <1>2 DEF Contribution
  <2>. HIDE DEF sec
  <2>7. /\ CardShare(e.left, sec)[f] = CardShare(e.left, 1)[f] * sec
        /\ UserShare(sec)[f] = UserShare(1)[f] * sec
    BY <2>1, <2>4, SharesScale
  <2>8. Contribution(e.left, e.right, k)[f] = Weight(e, G, u, f) * sec
    BY <2>5, <2>6, <2>7 DEF Weight
  <2>. QED
    BY <1>2, <2>8 DEF sec
<1>. QED
  BY <1>1, <1>2

\* The rows of K: those of the cards in G and the user u, and among the rows that hold
\* charges all in the buckets from i up to i + n.
RowsOfRange(K, G, u, res, i, n) ==
    /\ K \subseteq DOMAIN rollups
    /\ \A k \in K : k.gpu \in G /\ k.user = u /\ k.res = res
    /\ \A k \in TouchedBy(charged) :
          k \in K <=> /\ k.gpu \in G /\ k.user = u /\ k.res = res
                      /\ i * res <= k.bucket /\ k.bucket < (i + n) * res

\* The time an edge adds to field f of the rows of a range.
TimeIn(e, G, u, f, lo, hi) == Weight(e, G, u, f) * Within(e, lo, hi)
Times(G, u, f, lo, hi) == [e \in charged |-> TimeIn(e, G, u, f, lo, hi)]

LEMMA EdgeInRows ==
  ASSUME NEW K, IsFiniteSet(K), NEW G, NEW u, NEW res \in Resolutions, NEW f \in Field,
         NEW i \in Int, NEW n \in Nat, RowsOfRange(K, G, u, res, i, n),
         NEW e \in charged, e \in EdgeType
  PROVE  SumFunctionOnSet([k \in K |-> Contribution(e.left, e.right, k)[f]], K)
           = TimeIn(e, G, u, f, i * res, (i + n) * res)
<1>. DEFINE F == [k \in K |-> Contribution(e.left, e.right, k)[f]]
            w == Weight(e, G, u, f)
            lo == i * res
            hi == (i + n) * res
            T == TouchedIn(e, u, res, lo, hi)
<1>1. e.left \in PointType /\ e.right \in PointType /\ res \in Nat \ {0}
  BY ResolutionType DEF EdgeType
<1>2. \A k \in K : F[k] = Contribution(e.left, e.right, k)[f]
  OBVIOUS
<1>3. \A k \in K : F[k] \in Int
  BY <1>1, <1>2, ContributionType, FieldOfPlus
<1>. HIDE DEF F
<1>4. lo \in Int /\ hi \in Int
  BY <1>1
<1>5. Within(e, lo, hi) \in Int
  BY <1>4, WithinType
<1>6. \A k \in K : F[k] = IF k \in Touched(e.left, e.right)
                          THEN w * Seconds(e.left, e.right, k.res, k.bucket) ELSE 0
  BY <1>2, ContributionField DEF RowsOfRange
<1>. HIDE DEF w, lo, hi, T
<1>7. CASE Integrable(e.left, e.right) /\ e.left.gpu \in G /\ u \in Payers(e.left)
  <2>1. \A k \in Touched(e.left, e.right) : k \in TouchedBy(charged) /\ k.gpu = e.left.gpu
    BY DEF TouchedBy, Touched
  <2>2. T \subseteq K /\ T \subseteq Touched(e.left, e.right)
    BY <1>7, <2>1 DEF RowsOfRange, T, TouchedIn, lo, hi
  <2>3. \A k \in K \ T : k \notin Touched(e.left, e.right)
    BY <2>1 DEF RowsOfRange, T, TouchedIn, lo, hi
  <2>4. \A k \in K \ T : F[k] = 0
    BY <1>6, <2>3
  <2>5. SumFunctionOnSet(F, K) = SumFunctionOnSet(F, T)
    BY <1>3, <2>2, <2>4, IntSumRestrict
  <2>6. w \in Int
    BY WeightType DEF w
  <2>7. /\ IsFiniteSet(T)
        /\ SumFunctionOnSet(Added(e, w), T) = w * Within(e, lo, hi)
    BY <1>7, <2>6, EdgeTelescopes DEF T, lo, hi
  <2>8. \A k \in T : F[k] \in Int /\ F[k] = Added(e, w)[k]
    BY <1>3, <1>6, <2>2 DEF Added
  <2>9. SumFunctionOnSet(F, T) = SumFunctionOnSet(Added(e, w), T)
    BY <2>7, <2>8, IntSumSame
  <2>. QED
    BY <2>5, <2>7, <2>9 DEF F, w, lo, hi, TimeIn
<1>8. CASE ~ (Integrable(e.left, e.right) /\ e.left.gpu \in G /\ u \in Payers(e.left))
  <2>1. \A k \in Touched(e.left, e.right) :
          Integrable(e.left, e.right) /\ k.gpu = e.left.gpu /\ k.user \in Payers(e.left)
    BY DEF Touched
  <2>2. \A k \in K : k \notin Touched(e.left, e.right)
    BY <1>8, <2>1 DEF RowsOfRange
  <2>3. \A k \in K \ {} : F[k] = 0
    BY <1>6, <2>2
  <2>4. {} \in SUBSET K
    OBVIOUS
  <2>5. SumFunctionOnSet(F, K) = SumFunctionOnSet(F, {})
    BY <1>3, <2>3, <2>4, IntSumRestrict
  <2>6. SumFunctionOnSet(F, {}) = 0
    BY <1>3, IntSumFacts
  <2>7. w = 0
    BY <1>8 DEF w, Weight
  <2>8. w * Within(e, lo, hi) = 0
    BY <1>5, <2>7
  <2>. QED
    BY <2>5, <2>6, <2>8 DEF F, w, lo, hi, TimeIn
<1>. QED
  BY <1>7, <1>8

\* The sum over the rows is the sum over the edges.
LEMMA RowsAreTimes ==
  ASSUME TypeOK, RowsAreCharged, IsFiniteSet(charged),
         NEW K, IsFiniteSet(K), NEW G, NEW u, NEW res \in Resolutions, NEW f \in Field,
         NEW i \in Int, NEW n \in Nat, RowsOfRange(K, G, u, res, i, n),
         NEW lo \in Int, NEW hi \in Int, lo = i * res, hi = (i + n) * res
  PROVE  SumRows(rollups, K)[f]
           = SumFunctionOnSet(Times(G, u, f, lo, hi), charged)
<1>. DEFINE F == [k \in K |-> [e \in charged |-> Contribution(e.left, e.right, k)[f]]]
            R == [k \in K |-> rollups[k][f]]
            S == [k \in K |-> SumFunctionOnSet(F[k], charged)]
            C == [e \in charged |-> SumFunctionOnSet([k \in K |-> F[k][e]], K)]
            H == Times(G, u, f, lo, hi)
<1>0. charged \in SUBSET EdgeType /\ \A k \in K : k \in DOMAIN rollups
  BY DEF TypeOK, RowsOfRange
<1>1. \A k \in K : rollups[k] \in Row
  BY <1>0 DEF TypeOK
<1>2. SumRows(rollups, K)[f] = SumFunctionOnSet(R, K)
  BY <1>1, FieldOfSum
<1>3. ASSUME NEW k \in K
      PROVE  R[k] \in Int /\ R[k] = S[k]
  <2>1. R[k] = rollups[k][f] /\ R[k] \in Int
    BY <1>1, FieldOfPlus
  <2>2. rollups[k] = Charge(charged, k)
    BY <1>0 DEF RowsAreCharged
  <2>. DEFINE A == Additions(charged, k)
  <2>3. \A e \in charged : A[e] = Contribution(e.left, e.right, k) /\ A[e] \in Row
    BY <1>0, AdditionsType
  <2>4. Charge(charged, k) = SumRows(A, charged)
    BY DEF Charge
  <2>. HIDE DEF A
  <2>5. SumRows(A, charged)[f] = SumFunctionOnSet([e \in charged |-> A[e][f]], charged)
    BY <2>3, FieldOfSum
  <2>6. [e \in charged |-> A[e][f]] = F[k]
    BY <2>3
  <2>. QED
    BY <2>1, <2>2, <2>4, <2>5, <2>6
<1>4. SumFunctionOnSet(R, K) = SumFunctionOnSet(S, K)
  <2>. HIDE DEF R, S
  <2>. QED
    BY <1>3, IntSumSame
<1>5. F \in [K -> [charged -> Int]]
  <2>1. ASSUME NEW k \in K, NEW e \in charged
        PROVE  Contribution(e.left, e.right, k)[f] \in Int
    <3>1. e.left \in PointType /\ e.right \in PointType
      BY <1>0 DEF EdgeType
    <3>. QED
      BY <3>1, ContributionType, FieldOfPlus
  <2>. QED
    BY <2>1
<1>6. SumFunctionOnSet(S, K) = SumFunctionOnSet(C, charged)
  <2>. HIDE DEF F
  <2>. QED
    BY <1>5, IntSumExchange
<1>7. ASSUME NEW e \in charged
      PROVE  C[e] = H[e] /\ C[e] \in Int
  <2>1. C[e] = SumFunctionOnSet([k \in K |-> Contribution(e.left, e.right, k)[f]], K)
    <3>1. [k \in K |-> F[k][e]] = [k \in K |-> Contribution(e.left, e.right, k)[f]]
      OBVIOUS
    <3>. QED
      BY <3>1
  <2>2. C[e] = TimeIn(e, G, u, f, i * res, (i + n) * res)
    BY <1>0, <2>1, EdgeInRows
  <2>3. H[e] = TimeIn(e, G, u, f, lo, hi)
    BY DEF Times
  <2>4. TimeIn(e, G, u, f, lo, hi) \in Int
    BY <1>0, WeightType, WithinType DEF TimeIn
  <2>. HIDE DEF C, H
  <2>. QED
    BY <2>2, <2>3, <2>4
<1>8. SumFunctionOnSet(C, charged) = SumFunctionOnSet(H, charged)
  <2>. HIDE DEF C, H
  <2>. QED
    BY <1>7, IntSumSame
<1>. QED
  BY <1>2, <1>4, <1>6, <1>8

-----------------------------------------------------------------------------
(* The rows are finitely many. *)

LEMMA BucketsFinite ==
  ASSUME NEW e \in EdgeType, NEW res \in Resolutions
  PROVE  IsFiniteSet(Buckets(e.left, e.right, res))
<1>. DEFINE I == (e.left.at \div res) .. ((e.right.at - 1) \div res)
            f == [n \in I |-> n * res]
<1>1. /\ res \in Nat \ {0} /\ e.left.at \in Int /\ e.right.at - 1 \in Int
  BY ResolutionType DEF EdgeType, PointType, Time
<1>2. e.left.at \div res \in Int /\ (e.right.at - 1) \div res \in Int
  BY <1>1, DivisionFacts
<1>3. IsFiniteSet(I)
  BY <1>2, FS_Interval
<1>4. f \in Surjection(I, Buckets(e.left, e.right, res))
  BY DEF Buckets, Surjection
<1>. HIDE DEF f, I
<1>. QED
  BY <1>3, <1>4, FS_Surjection

LEMMA TouchedFinite ==
  ASSUME NEW e \in EdgeType
  PROVE  IsFiniteSet(Touched(e.left, e.right))
<1>. DEFINE P == Payers(e.left)
            Keys(res) == [gpu : {e.left.gpu}, user : P, res : {res},
                          bucket : Buckets(e.left, e.right, res)]
<1>1. IsFiniteSet(P)
  <2>1. IsFiniteSet(User \cup {NoUser})
    BY QueryAssumption, FS_AddElement
  <2>2. e.left.owners \subseteq User \cup {NoUser}
    BY DEF EdgeType, PointType
  <2>3. P \subseteq User \cup {NoUser}
    BY <2>2 DEF Payers, Users
  <2>. QED
    BY <2>1, <2>3, FS_Subset
<1>. HIDE DEF P
<1>2. ASSUME NEW res \in Resolutions
      PROVE  IsFiniteSet(Keys(res))
  <2>. DEFINE B == Buckets(e.left, e.right, res)
              f == [x \in P \X B |->
                      [gpu |-> e.left.gpu, user |-> x[1], res |-> res, bucket |-> x[2]]]
  <2>1. IsFiniteSet(B)
    BY BucketsFinite
  <2>. HIDE DEF B
  <2>2. IsFiniteSet(P \X B)
    BY <1>1, <2>1, FS_Product
  <2>3. f \in Surjection(P \X B, Keys(res))
    <3>1. f \in [P \X B -> Keys(res)]
      BY DEF B
    <3>2. ASSUME NEW k \in Keys(res)
          PROVE  <<k.user, k.bucket>> \in P \X B /\ f[<<k.user, k.bucket>>] = k
      BY DEF B
    <3>. HIDE DEF f
    <3>. QED
      BY <3>1, <3>2 DEF Surjection
  <2>. HIDE DEF f
  <2>. QED
    BY <2>2, <2>3, FS_Surjection
<1>3. Touched(e.left, e.right) \subseteq Keys(Minute) \cup Keys(Hour)
  BY DEF Touched, Resolutions, P
<1>. HIDE DEF Keys
<1>4. IsFiniteSet(Keys(Minute)) /\ IsFiniteSet(Keys(Hour))
  BY <1>2 DEF Resolutions
<1>5. IsFiniteSet(Keys(Minute) \cup Keys(Hour))
  BY <1>4, FS_Union
<1>. QED
  BY <1>3, <1>5, FS_Subset

LEMMA TouchedByFinite ==
  ASSUME NEW E \in SUBSET EdgeType, IsFiniteSet(E)
  PROVE  IsFiniteSet(TouchedBy(E))
<1>. DEFINE f == [e \in E |-> Touched(e.left, e.right)]
            S == {Touched(e.left, e.right) : e \in E}
<1>1. f \in Surjection(E, S)
  BY DEF Surjection
<1>2. IsFiniteSet(S)
  <2>. HIDE DEF f, S
  <2>. QED
    BY <1>1, FS_Surjection
<1>3. \A T \in S : IsFiniteSet(T)
  BY TouchedFinite
<1>. HIDE DEF S
<1>4. IsFiniteSet(UNION S)
  BY <1>2, <1>3, FS_UNION
<1>. QED
  BY <1>4 DEF S, TouchedBy

RowsFinite == IsFiniteSet(DOMAIN rollups)

LEMMA RowsFiniteStep ==
  ASSUME TypeOK, ChainInv, ChargedAreNeighbours, FinitelyMany,
         ChargedAreNeighbours', FinitelyMany', RowsFinite, [Next]_vars
  PROVE  RowsFinite'
<1>1. CASE UNCHANGED rollups
  BY <1>1 DEF RowsFinite
<1>2. CASE Ingest
  <2>1. PICK s \in taken, backfill \in BOOLEAN :
          IF Duplicate(s) THEN UNCHANGED vars ELSE Record(s, backfill)
    BY <1>2 DEF Ingest
  <2>2. CASE Duplicate(s)
    BY <1>1, <2>1, <2>2 DEF vars, tables
  <2>3. CASE ~ Duplicate(s)
    <3>. DEFINE new == NewPoints(s)
                E == Incoming(new) \cup Outgoing(new) \cup Replaced(new)
    <3>1. /\ rollups' = Recharged(new)
          /\ charged' = (charged \ Replaced(new)) \cup Incoming(new) \cup Outgoing(new)
          /\ edges' = (edges \ Replaced(new)) \cup Incoming(new) \cup Outgoing(new)
      BY <2>1, <2>3 DEF Record
    <3>2. IsFiniteSet(charged')
      <4>1. IsFiniteSet(observed')
        BY DEF FinitelyMany
      <4>2. IsFiniteSet([left : observed', right : observed'])
        BY <4>1, PairsFinite
      <4>3. charged' \subseteq [left : observed', right : observed']
        BY DEF ChargedAreNeighbours, Consecutive
      <4>. QED
        BY <4>2, <4>3, FS_Subset
    <3>3. IsFiniteSet(Incoming(new) \cup Outgoing(new))
      BY <3>1, <3>2, FS_Subset
    <3>4. IsFiniteSet(Replaced(new))
      <4>1. Replaced(new) \subseteq charged
        BY DEF ChainInv, EdgeInv, ChargedForward, Replaced
      <4>. QED
        BY <4>1, EdgesFinite, FS_Subset
    <3>5. E \in SUBSET EdgeType /\ IsFiniteSet(E)
      <4>1. E \in SUBSET EdgeType
        BY NewEdgeFacts DEF TypeOK
      <4>. QED
        BY <3>3, <3>4, <4>1, FS_Union
    <3>6. DOMAIN rollups' = DOMAIN rollups \cup TouchedBy(E)
      BY <3>1 DEF Recharged
    <3>. HIDE DEF E
    <3>. QED
      BY <3>5, <3>6, TouchedByFinite, FS_Union DEF RowsFinite
  <2>. QED
    BY <2>2, <2>3
<1>3. CASE Prune
  <2>1. rollups' = Restrict(rollups, KeptKeys)
    BY <1>3 DEF Prune
  <2>2. DOMAIN rollups' \subseteq DOMAIN rollups
    BY <2>1 DEF Restrict, KeptKeys
  <2>. QED
    BY <2>2, FS_Subset DEF RowsFinite
<1>. QED
  BY <1>1, <1>2, <1>3 DEF Next, Tick, Take, vars, tables

-----------------------------------------------------------------------------
(* What the retention job has removed of the rows. *)

Kept(res) == IF res = Minute THEN MinuteRetain ELSE HourRetain

\* All rows with a charge are there from some bucket on, which was out of the
\* retention of their resolution at the latest now.
ReachBack(cut) ==
    /\ \A res \in Resolutions : cut[res] <= now - Kept(res)
    /\ \A k \in TouchedBy(charged) : k \in DOMAIN rollups <=> k.bucket >= cut[k.res]

RowsReachBack == \E cut \in [Resolutions -> Int] : ReachBack(cut)

LEMMA KeptType ==
  /\ \A res \in Resolutions : Kept(res) \in Nat
  /\ \A k \in RollupKey : Expired(k) <=> k.bucket < now - Kept(k.res)
<1>1. MinuteRetain \in Nat /\ HourRetain \in Nat
  BY IngestAssumption
<1>2. Minute # Hour
  BY RollupAssumption
<1>. QED
  BY <1>1, <1>2 DEF Kept, Expired, RollupKey, Resolutions

LEMMA ReachBackStep ==
  ASSUME TypeOK, ChainInv, RowsReachBack, [Next]_vars
  PROVE  RowsReachBack'
<1>1. PICK cut \in [Resolutions -> Int] : ReachBack(cut)
  BY DEF RowsReachBack
<1>2. /\ now \in Int /\ now' \in Int /\ now <= now'
      /\ \A res \in Resolutions : Kept(res) \in Int /\ cut[res] \in Int
      /\ \A k \in TouchedBy(charged) \cup DOMAIN rollups :
            k \in RollupKey /\ k.bucket \in Int /\ k.res \in Resolutions
  <2>1. now \in Int /\ now' \in {now, now + 1}
    BY DEF TypeOK, Next, Tick, Take, Ingest, Record, Prune, vars
  <2>2. TouchedBy(charged) \cup DOMAIN rollups \subseteq RollupKey
    BY TouchedByType DEF TypeOK
  <2>. QED
    BY <2>1, <2>2, KeptType DEF RollupKey
<1>3. CASE UNCHANGED <<rollups, charged>>
  <2>1. TouchedBy(charged)' = TouchedBy(charged)
    BY <1>3 DEF TouchedBy
  <2>2. \A res \in Resolutions : cut[res] <= now' - Kept(res)
    BY <1>1, <1>2 DEF ReachBack
  <2>3. ReachBack(cut)'
    BY <1>1, <1>3, <2>1, <2>2 DEF ReachBack, Kept
  <2>. QED
    BY <2>3 DEF RowsReachBack
<1>4. CASE Ingest
  <2>1. PICK s \in taken, backfill \in BOOLEAN :
          /\ Accepted(s)
          /\ IF Duplicate(s) THEN UNCHANGED vars ELSE Record(s, backfill)
    BY <1>4 DEF Ingest
  <2>2. CASE Duplicate(s)
    BY <1>3, <2>1, <2>2 DEF vars, tables
  <2>3. CASE ~ Duplicate(s)
    <3>. DEFINE new == NewPoints(s)
                E == Incoming(new) \cup Outgoing(new) \cup Replaced(new)
    <3>1. /\ rollups' = Recharged(new) /\ now' = now
          /\ charged' = (charged \ Replaced(new)) \cup Incoming(new) \cup Outgoing(new)
      BY <2>1, <2>3 DEF Record
    <3>2. DOMAIN rollups' = DOMAIN rollups \cup TouchedBy(E)
      BY <3>1 DEF Recharged
    <3>3. \A k \in TouchedBy(E) : k \in RollupKey /\ ~ Expired(k)
      <4>1. E \in SUBSET EdgeType
        BY NewEdgeFacts DEF TypeOK
      <4>2. TouchedBy(E) \subseteq RollupKey
        BY <4>1, TouchedByType
      <4>3. \A k \in TouchedBy(E) : ~ Expired(k)
        BY <2>1, <2>3, WrittenRowsAreKept DEF ChainInv
      <4>. QED
        BY <4>2, <4>3
    <3>4. ASSUME NEW k \in TouchedBy(E)
          PROVE  k.bucket >= cut[k.res]
      <4>1. k \in RollupKey /\ ~ (k.bucket < now - Kept(k.res))
        BY <3>3, KeptType
      <4>2. k.bucket \in Int /\ k.res \in Resolutions
        BY <4>1 DEF RollupKey
      <4>. QED
        BY <1>1, <1>2, <4>1, <4>2 DEF ReachBack
    <3>5. \A k \in TouchedBy(charged)' : k \in TouchedBy(charged) \cup TouchedBy(E)
      BY <3>1 DEF TouchedBy
    <3>6. \A k \in TouchedBy(charged)' : k \in DOMAIN rollups' <=> k.bucket >= cut[k.res]
      BY <1>1, <3>2, <3>4, <3>5 DEF ReachBack
    <3>7. \A res \in Resolutions : cut[res] <= now' - Kept(res)
      BY <1>1, <3>1 DEF ReachBack
    <3>8. ReachBack(cut)'
      BY <3>6, <3>7 DEF ReachBack, Kept
    <3>. QED
      BY <3>8 DEF RowsReachBack
  <2>. QED
    BY <2>2, <2>3
<1>5. CASE Prune
  <2>0. PICK later \in [Resolutions -> Int] :
          \A res \in Resolutions : later[res] = Greater(cut[res], now - Kept(res))
    <3>. DEFINE c == [res \in Resolutions |-> Greater(cut[res], now - Kept(res))]
    <3>1. c \in [Resolutions -> Int]
      BY <1>2 DEF Greater
    <3>. QED
      BY <3>1
  <2>1. /\ rollups' = Restrict(rollups, KeptKeys) /\ charged' = charged /\ now' = now
    BY <1>5 DEF Prune
  <2>2. DOMAIN rollups' = KeptKeys
    BY <2>1 DEF Restrict
  <2>3. TouchedBy(charged)' = TouchedBy(charged)
    BY <2>1 DEF TouchedBy
  <2>4. \A res \in Resolutions : later[res] <= now' - Kept(res)
    BY <1>1, <1>2, <2>0, <2>1 DEF ReachBack, Greater
  <2>5. ASSUME NEW k \in TouchedBy(charged)
        PROVE  k \in KeptKeys <=> k.bucket >= later[k.res]
    <3>1. k \in KeptKeys <=> k \in DOMAIN rollups /\ k.bucket >= now - Kept(k.res)
      <4>1. Minute # Hour /\ k.res \in {Minute, Hour}
        BY <1>2, RollupAssumption DEF Resolutions
      <4>. QED
        BY <4>1 DEF KeptKeys, Kept
    <3>2. k \in DOMAIN rollups <=> k.bucket >= cut[k.res]
      BY <1>1 DEF ReachBack
    <3>. QED
      BY <1>2, <2>0, <3>1, <3>2 DEF Greater
  <2>6. ReachBack(later)'
    BY <2>1, <2>2, <2>3, <2>4, <2>5 DEF ReachBack, Kept
  <2>. QED
    BY <2>6 DEF RowsReachBack
<1>. QED
  BY <1>3, <1>4, <1>5 DEF Next, Tick, Take, vars, tables

-----------------------------------------------------------------------------
(* When cards and samples were seen. *)

\* No card was observed before it was first seen.
FirstSeen ==
    \A p \in observed : p.gpu \in DOMAIN gpus /\ gpus[p.gpu].first <= p.at

LEMMA FirstSeenStep ==
  ASSUME TypeOK, FirstSeen, [Next]_vars
  PROVE  FirstSeen'
<1>1. CASE UNCHANGED <<gpus, observed>>
  BY <1>1 DEF FirstSeen
<1>2. CASE Ingest
  <2>1. PICK s \in taken, backfill \in BOOLEAN :
          IF Duplicate(s) THEN UNCHANGED vars ELSE Record(s, backfill)
    BY <1>2 DEF Ingest
  <2>2. CASE Duplicate(s)
    BY <1>1, <2>1, <2>2 DEF vars, tables
  <2>3. CASE ~ Duplicate(s)
    <3>1. gpus' = Registered(s) /\ observed' = observed \cup NewPoints(s)
      BY <2>1, <2>3 DEF Record
    <3>2. s.at \in Int /\ \A g \in DOMAIN gpus : gpus[g].first \in Int
      BY SampleFacts DEF TypeOK, Time
    <3>3. DOMAIN gpus' = DOMAIN gpus \cup DOMAIN Reported(s)
      BY <3>1 DEF Registered
    <3>4. \A g \in DOMAIN gpus : gpus'[g].first <= gpus[g].first
      BY <3>1, <3>2 DEF Registered
    <3>5. \A g \in DOMAIN Reported(s) : gpus'[g].first <= s.at
      BY <3>1, <3>2 DEF Registered
    <3>6. \A g \in DOMAIN gpus' : gpus'[g].first \in Int
      BY <3>1, <3>2 DEF Registered
    <3>7. \A p \in observed : p.at \in Int
      BY DEF TypeOK, PointType, Time
    <3>8. ASSUME NEW p \in observed
          PROVE  p.gpu \in DOMAIN gpus' /\ gpus'[p.gpu].first <= p.at
      BY <3>2, <3>3, <3>4, <3>6, <3>7 DEF FirstSeen
    <3>9. ASSUME NEW p \in NewPoints(s)
          PROVE  p.gpu \in DOMAIN gpus' /\ gpus'[p.gpu].first <= p.at
      BY <3>3, <3>5, NewPointFacts
    <3>. QED
      BY <3>1, <3>8, <3>9 DEF FirstSeen
  <2>. QED
    BY <2>2, <2>3
<1>. QED
  BY <1>1, <1>2 DEF Next, Tick, Take, Prune, vars, tables

\* What was observed was sampled, at most Ahead of the hub's clock and by one start
\* of the agent after the other.
SampledInOrder ==
    /\ \A p \in observed : \E s \in taken : s.boot = p.boot /\ s.at = p.at
    /\ \A s \in taken : s.at <= now + Ahead
    /\ \A s, t \in taken : s.boot < t.boot => s.at < t.at

LEMMA SampledInOrderStep ==
  ASSUME TypeOK, SampledInOrder, [Next]_vars
  PROVE  SampledInOrder'
<1>0. /\ now \in Int /\ Ahead \in Int
      /\ \A s \in taken : s.at \in Int /\ s.boot \in Int
  BY SampleFacts, IngestAssumption DEF TypeOK, Boot
<1>1. CASE Tick
  <2>1. now' = now + 1 /\ UNCHANGED <<taken, observed>>
    BY <1>1 DEF Tick
  <2>. QED
    BY <1>0, <2>1 DEF SampledInOrder
<1>2. CASE Take
  <2>1. PICK boot \in Boot, seq \in Seq, at \in now .. (now + Ahead),
             status \in GPUStatuses, D \in SUBSET GPU :
          \E cards \in [D -> Readings] :
             /\ FreshIdentity(boot, seq)
             /\ \A s \in taken : s.at < at
             /\ taken' = taken \cup {[boot |-> boot, seq |-> seq, at |-> at,
                                     gpuStatus |-> status, cards |-> cards]}
    BY <1>2 DEF Take
  <2>2. PICK cards \in [D -> Readings] :
             taken' = taken \cup {[boot |-> boot, seq |-> seq, at |-> at,
                                  gpuStatus |-> status, cards |-> cards]}
    BY <2>1
  <2>. DEFINE n == [boot |-> boot, seq |-> seq, at |-> at,
                    gpuStatus |-> status, cards |-> cards]
  <2>3. n.at \in Int /\ n.at <= now + Ahead /\ n.boot \in Int
    BY <1>0 DEF Boot
  <2>4. \A s \in taken : s.boot <= n.boot /\ s.at < n.at
    BY <2>1 DEF FreshIdentity
  <2>5. taken' = taken \cup {n} /\ now' = now /\ observed' = observed
    BY <1>2, <2>2 DEF Take
  <2>. HIDE DEF n
  <2>. QED
    BY <1>0, <2>3, <2>4, <2>5 DEF SampledInOrder
<1>3. CASE Ingest
  <2>1. PICK s \in taken, backfill \in BOOLEAN :
          IF Duplicate(s) THEN UNCHANGED vars ELSE Record(s, backfill)
    BY <1>3 DEF Ingest
  <2>2. CASE Duplicate(s)
    BY <2>1, <2>2 DEF vars, SampledInOrder
  <2>3. CASE ~ Duplicate(s)
    <3>1. taken' = taken /\ now' = now /\ observed' = observed \cup NewPoints(s)
      BY <2>1, <2>3 DEF Record
    <3>. QED
      BY <3>1, NewPointFacts DEF SampledInOrder
  <2>. QED
    BY <2>2, <2>3
<1>4. CASE UNCHANGED <<now, taken, observed>>
  BY <1>4 DEF SampledInOrder
<1>. QED
  BY <1>1, <1>2, <1>3, <1>4 DEF Next, Prune, vars

\* What the answers rest on, beside the invariants of HubIngest.
AnswersInv == RowsFinite /\ RowsReachBack /\ FirstSeen /\ SampledInOrder

\* The rows are finitely many and reach back as far as they are kept, and no card
\* was observed before it was first seen or ahead of the clock.
THEOREM AnswersHaveGround == Spec => []AnswersInv
<1>1. Init => AnswersInv
  <2>. SUFFICES ASSUME Init PROVE AnswersInv
    OBVIOUS
  <2>1. RowsFinite
    BY FS_EmptySet DEF Init, RowsFinite, NoRows
  <2>2. RowsReachBack
    <3>. DEFINE cut == [res \in Resolutions |-> now - Kept(res)]
    <3>1. now \in Int
      BY IngestAssumption DEF Init
    <3>2. cut \in [Resolutions -> Int] /\ \A res \in Resolutions : cut[res] <= now - Kept(res)
      BY <3>1, KeptType
    <3>3. TouchedBy(charged) = {}
      BY DEF Init, TouchedBy
    <3>. HIDE DEF cut
    <3>4. ReachBack(cut)
      BY <3>2, <3>3 DEF ReachBack
    <3>. QED
      BY <3>2, <3>4 DEF RowsReachBack
  <2>3. FirstSeen /\ SampledInOrder
    BY DEF Init, FirstSeen, SampledInOrder
  <2>. QED
    BY <2>1, <2>2, <2>3 DEF AnswersInv
<1>2. TypeOK /\ ChainInv /\ ChargedAreNeighbours /\ FinitelyMany /\ ChargedAreNeighbours'
        /\ FinitelyMany' /\ AnswersInv /\ [Next]_vars => AnswersInv'
  BY RowsFiniteStep, ReachBackStep, FirstSeenStep, SampledInOrderStep DEF AnswersInv
<1>. QED
  BY <1>1, <1>2, TypeCorrect, ChainCorrect, ChargesExactlyKnownTime, RowsHoldTheCharges,
     PTL DEF Spec

-----------------------------------------------------------------------------
(* The rows of a range, as far as they are kept. *)

Facts ==
    /\ TypeOK /\ ChainInv /\ NoDoubleCount /\ ChargedAreNeighbours
    /\ FinitelyMany /\ RowsAreCharged /\ AnswersInv

LEMMA FactsHold == Spec => []Facts
  BY TypeCorrect, ChainCorrect, NeverDoubleCounts, ChargesExactlyKnownTime,
     RowsHoldTheCharges, AnswersHaveGround, PTL DEF Facts

\* The first multiple that is not smaller.
LEMMA CeilingFacts ==
  ASSUME NEW a \in Int, NEW r \in Nat \ {0}
  PROVE  \E c \in Int : a <= c * r /\ c * r < a + r /\ \A j \in Int : a <= j * r <=> c <= j
<1>. DEFINE c == (a + r - 1) \div r
<1>1. c \in Int /\ c * r <= a + r - 1 /\ a + r - 1 < c * r + r
  <2>1. a + r - 1 \in Int
    OBVIOUS
  <2>. QED
    BY <2>1, DivisionFacts
<1>. HIDE DEF c
<1>2. c * r \in Int /\ (c - 1) * r \in Int /\ (c - 1) * r = c * r - r /\ c - 1 \in Int
  BY <1>1
<1>3. a <= c * r /\ c * r < a + r /\ (c - 1) * r < a
  <2>. DEFINE x == c * r
              y == (c - 1) * r
  <2>1. x \in Int /\ y = x - r /\ x <= a + r - 1 /\ a + r - 1 < x + r
    BY <1>1, <1>2
  <2>. HIDE DEF x, y
  <2>2. a <= x /\ x < a + r /\ y < a
    BY <2>1
  <2>. QED
    BY <2>2 DEF x, y
<1>4. ASSUME NEW j \in Int
      PROVE  a <= j * r <=> c <= j
  <2>1. c <= j <=> c * r <= j * r
    BY <1>1, MultiplesInOrder
  <2>2. j <= c - 1 <=> j * r <= (c - 1) * r
    BY <1>2, MultiplesInOrder
  <2>3. c <= j \/ j <= c - 1
    BY <1>1
  <2>4. j * r \in Int
    OBVIOUS
  <2>. QED
    BY <1>1, <1>2, <1>3, <2>1, <2>2, <2>3, <2>4
<1>. QED
  BY <1>1, <1>3, <1>4

\* The buckets of rows start at multiples of their width.
LEMMA BucketsAreMultiples ==
  ASSUME TypeOK, NEW k \in TouchedBy(charged)
  PROVE  k.res \in Resolutions /\ k.gpu \in GPU /\ \E j \in Int : k.bucket = j * k.res
<1>1. PICK e \in charged : k \in Touched(e.left, e.right)
  BY DEF TouchedBy
<1>2. e.left \in PointType /\ e.right \in PointType /\ e.left.at \in Int /\ e.right.at - 1 \in Int
  BY DEF TypeOK, EdgeType, PointType, Time
<1>3. k \in RollupKey
  BY <1>1, <1>2, TouchedType
<1>4. PICK res \in Resolutions : k.res = res /\ k.bucket \in Buckets(e.left, e.right, res)
  BY <1>1 DEF Touched
<1>5. res \in Nat \ {0}
  BY ResolutionType
<1>6. e.left.at \div res \in Int /\ (e.right.at - 1) \div res \in Int
  BY <1>2, <1>5, DivisionFacts
<1>7. PICK n \in (e.left.at \div res) .. ((e.right.at - 1) \div res) : k.bucket = n * res
  BY <1>4 DEF Buckets
<1>. QED
  BY <1>3, <1>4, <1>6, <1>7 DEF RollupKey

RangeRows(G, u, res, from, to) ==
    {k \in DOMAIN rollups : /\ k.gpu \in G /\ k.user = u /\ k.res = res
                            /\ k.bucket >= from /\ k.bucket < to}

\* Every range of buckets has its rows from some bucket on, which is not the first
\* only if that one was out of retention, and never more than one bucket too late.
LEMMA RangeStart ==
  ASSUME Facts, NEW res \in Resolutions, NEW m \in Int, NEW n \in Int, m <= n
  PROVE  \E i \in m .. n :
            /\ \/ i = m
               \/ m * res < now - Kept(res) /\ i * res < now - Kept(res) + res
            /\ \A G, u : RowsOfRange(RangeRows(G, u, res, m * res, n * res), G, u, res, i, n - i)
<1>1. PICK cut \in [Resolutions -> Int] : ReachBack(cut)
  BY DEF Facts, AnswersInv, RowsReachBack
<1>2. /\ res \in Nat \ {0} /\ cut[res] \in Int /\ now - Kept(res) \in Int
      /\ cut[res] <= now - Kept(res)
  BY <1>1, ResolutionType, KeptType DEF ReachBack, Facts, TypeOK
<1>3. PICK c \in Int : /\ cut[res] <= c * res /\ c * res < cut[res] + res
                       /\ \A j \in Int : cut[res] <= j * res <=> c <= j
  BY <1>2, CeilingFacts
<1>. DEFINE i == IF c <= m THEN m ELSE IF c <= n THEN c ELSE n
<1>4. i \in m .. n /\ i \in Int /\ n - i \in Nat /\ i + (n - i) = n
  OBVIOUS
<1>5. ASSUME i # m
      PROVE  m * res < now - Kept(res) /\ i * res < now - Kept(res) + res
  <2>1. ~ (c <= m) /\ i <= c
    BY <1>5
  <2>2. ~ (cut[res] <= m * res)
    BY <1>3, <2>1
  <2>3. i * res <= c * res
    BY <1>2, <1>4, <2>1, MultiplesInOrder
  <2>4. m * res \in Int /\ i * res \in Int /\ c * res \in Int
    BY <1>2, <1>4
  <2>. HIDE DEF i
  <2>5. m * res < now - Kept(res)
    BY <1>2, <2>2, <2>4
  <2>6. i * res < now - Kept(res) + res
    BY <1>2, <1>3, <2>3, <2>4
  <2>. QED
    BY <2>5, <2>6
<1>6. ASSUME NEW G, NEW u
      PROVE  RowsOfRange(RangeRows(G, u, res, m * res, n * res), G, u, res, i, n - i)
  <2>. DEFINE K == RangeRows(G, u, res, m * res, n * res)
  <2>1. ASSUME NEW k \in TouchedBy(charged), k.res = res
        PROVE  k.bucket >= cut[res] /\ k.bucket >= m * res /\ k.bucket < n * res
                 <=> i * res <= k.bucket /\ k.bucket < n * res
    <3>1. PICK j \in Int : k.bucket = j * res
      BY <2>1, BucketsAreMultiples DEF Facts
    <3>2. /\ k.bucket >= cut[res] <=> c <= j
          /\ k.bucket >= m * res <=> m <= j
          /\ i * res <= k.bucket <=> i <= j
      <4>1. m * res <= j * res <=> m <= j
        BY <1>2, MultiplesInOrder
      <4>2. i * res <= j * res <=> i <= j
        BY <1>2, <1>4, MultiplesInOrder
      <4>3. j * res \in Int /\ m * res \in Int
        BY <1>2
      <4>. HIDE DEF i
      <4>. QED
        BY <1>2, <1>3, <3>1, <4>1, <4>2, <4>3
    <3>3. k.bucket < n * res <=> j < n
      <4>1. n * res <= j * res <=> n <= j
        BY <1>2, MultiplesInOrder
      <4>2. n * res \in Int /\ j * res \in Int
        BY <1>2
      <4>. QED
        BY <3>1, <4>1, <4>2
    <3>. QED
      BY <3>2, <3>3
  <2>. HIDE DEF i
  <2>2. \A k \in K : k \in DOMAIN rollups /\ k.gpu \in G /\ k.user = u /\ k.res = res
    BY DEF RangeRows
  <2>3. ASSUME NEW k \in TouchedBy(charged)
        PROVE  k \in K <=> /\ k.gpu \in G /\ k.user = u /\ k.res = res
                           /\ i * res <= k.bucket /\ k.bucket < (i + (n - i)) * res
    <3>1. k \in DOMAIN rollups <=> k.bucket >= cut[k.res]
      BY <1>1 DEF ReachBack
    <3>2. k \in K <=> /\ k \in DOMAIN rollups /\ k.gpu \in G /\ k.user = u /\ k.res = res
                      /\ k.bucket >= m * res /\ k.bucket < n * res
      BY DEF RangeRows
    <3>. QED
      BY <1>4, <2>1, <3>1, <3>2
  <2>. HIDE DEF K
  <2>. QED
    BY <2>2, <2>3 DEF RowsOfRange, K
<1>. HIDE DEF i
<1>. QED
  BY <1>4, <1>5, <1>6

\* What those rows add up to.
LEMMA RangeSum ==
  ASSUME Facts, NEW res \in Resolutions, NEW i \in Int, NEW d \in Nat,
         NEW G, NEW u, NEW f \in Field,
         NEW from \in Int, NEW to \in Int, NEW lo \in Int,
         lo = i * res, to = (i + d) * res,
         RowsOfRange(RangeRows(G, u, res, from, to), G, u, res, i, d)
  PROVE  SumRows(rollups, RangeRows(G, u, res, from, to))[f]
           = SumFunctionOnSet(Times(G, u, f, lo, to), charged)
<1>. DEFINE K == RangeRows(G, u, res, from, to)
<1>1. IsFiniteSet(K)
  <2>1. K \subseteq DOMAIN rollups
    BY DEF RangeRows
  <2>. QED
    BY <2>1, FS_Subset DEF Facts, AnswersInv, RowsFinite
<1>2. IsFiniteSet(charged) /\ TypeOK /\ RowsAreCharged
  BY EdgesFinite DEF Facts
<1>3. RowsOfRange(K, G, u, res, i, d)
  OBVIOUS
<1>. HIDE DEF K
<1>4. SumRows(rollups, K)[f] = SumFunctionOnSet(Times(G, u, f, lo, to), charged)
  BY <1>1, <1>2, <1>3, RowsAreTimes
<1>. QED
  BY <1>4 DEF K

\* The rows of a range hold the time from some instant of it on.
LEMMA RangeIsTime ==
  ASSUME Facts, NEW res \in Resolutions, NEW m \in Int, NEW n \in Int, m <= n,
         NEW from \in Int, NEW to \in Int, from = m * res, to = n * res
  PROVE  \E lo \in Int :
            /\ from <= lo /\ lo <= to
            /\ lo = from \/ (from < now - Kept(res) /\ lo < now - Kept(res) + res)
            /\ \A G, u : \A f \in Field :
                  SumRows(rollups, RangeRows(G, u, res, from, to))[f]
                    = SumFunctionOnSet(Times(G, u, f, lo, to), charged)
<1>1. PICK i \in m .. n :
            /\ \/ i = m
               \/ m * res < now - Kept(res) /\ i * res < now - Kept(res) + res
            /\ \A G, u : RowsOfRange(RangeRows(G, u, res, m * res, n * res), G, u, res, i, n - i)
  BY RangeStart
<1>. DEFINE lo == i * res
<1>2. i \in Int /\ m <= i /\ i <= n /\ res \in Nat \ {0}
  BY <1>1, ResolutionType
<1>3. lo \in Int /\ from <= lo /\ lo <= to
  BY <1>2, MultiplesInOrder
<1>4. lo = from \/ (from < now - Kept(res) /\ lo < now - Kept(res) + res)
  BY <1>1
<1>5. ASSUME NEW G, NEW u, NEW f \in Field
      PROVE  SumRows(rollups, RangeRows(G, u, res, from, to))[f]
                    = SumFunctionOnSet(Times(G, u, f, lo, to), charged)
  <2>. DEFINE d == n - i
  <2>1. RowsOfRange(RangeRows(G, u, res, from, to), G, u, res, i, d)
    BY <1>1
  <2>2. lo = i * res /\ d \in Nat /\ i + d = n
    BY <1>2
  <2>. HIDE DEF lo, d
  <2>3. to = (i + d) * res
    BY <2>2
  <2>. QED
    BY <1>2, <1>3, <2>1, <2>2, <2>3, RangeSum
<1>. QED
  BY <1>3, <1>4, <1>5

-----------------------------------------------------------------------------
(* The range of a request. *)

LEMMA RequestFacts ==
  ASSUME TypeOK, NEW r \in Requests
  PROVE  LET q == QueryRange(r[1], r[2])
             since == Since(r[1], r[2])
             until == Until(r[2])
         IN  /\ since \in Int /\ until \in Int
             /\ q.res \in Resolutions
             /\ \E m, n \in Int : m <= n /\ q.from = m * q.res /\ q.to = n * q.res
             /\ q.from \in Int /\ q.to \in Int /\ q.from <= since /\ until <= q.to
             /\ now - Kept(q.res) <= since \/ since + q.res = until
<1>. DEFINE q == QueryRange(r[1], r[2])
            since == Since(r[1], r[2])
            until == Until(r[2])
            res == Resolution(since, until)
            m == since \div res
            n == (until + res - 1) \div res
<1>1. /\ now \in Int /\ Day \in Int /\ HourRetain \in Int /\ MinuteRetain \in Int
      /\ Hour \in Nat \ {0} /\ Minute \in Nat \ {0} /\ Minute # Hour
  BY QueryAssumption, IngestAssumption, RollupAssumption DEF TypeOK
<1>2. r[1] \in Int /\ r[2] \in Int
  BY <1>1 DEF Requests, Bounds
<1>3. until \in Int
  BY <1>1, <1>2 DEF Until
<1>. HIDE DEF until
<1>4. /\ since \in Int /\ since < until
      /\ now - HourRetain <= since \/ since = until - Hour
  BY <1>1, <1>2, <1>3 DEF Since, Greater, until
<1>. HIDE DEF since
<1>5. /\ res \in Resolutions /\ res \in Nat \ {0}
      /\ res = Minute => now - MinuteRetain <= since
  BY <1>1, <1>3, <1>4 DEF Resolution, Resolutions
<1>6. q = [from |-> m * res, to |-> n * res, res |-> res]
  BY DEF QueryRange, BucketOf, since, until
<1>. HIDE DEF q
<1>7. m \in Int /\ m * res <= since /\ m * res \in Int
  BY <1>4, <1>5, DivisionFacts
<1>8. n \in Int /\ until <= n * res /\ n * res \in Int
  <2>1. until + res - 1 \in Int
    BY <1>3, <1>5
  <2>2. n \in Int /\ until + res - 1 < n * res + res
    BY <1>5, <2>1, DivisionFacts
  <2>3. n * res \in Int
    BY <1>5, <2>2
  <2>. HIDE DEF n
  <2>. QED
    BY <1>3, <1>5, <2>2, <2>3
<1>. HIDE DEF m, n, res
<1>9. m <= n
  BY <1>3, <1>4, <1>5, <1>7, <1>8, MultiplesInOrder
<1>10. now - Kept(res) <= since \/ since + res = until
  BY <1>1, <1>3, <1>4, <1>5 DEF Kept, Resolutions
<1>11. q.res = res /\ q.from = m * res /\ q.to = n * res
  BY <1>6
<1>. QED
  BY <1>3, <1>4, <1>5, <1>7, <1>8, <1>9, <1>10, <1>11 DEF q, since, until

\* What is added up for a request is the time from some instant of its range on, the
\* same for all cards and users.
LEMMA AnswerIsTime ==
  ASSUME Facts, NEW r \in Requests, NEW q, q = QueryRange(r[1], r[2])
  PROVE  \E lo \in Int :
            /\ q.from <= lo /\ lo <= q.to
            /\ lo = q.from \/ lo < now - Kept(q.res) + q.res
            /\ \A g, u : \A f \in Field :
                  Summed(g, u, q)[f]
                    = SumFunctionOnSet(Times({g}, u, f, lo, q.to), charged)
<1>1. q.res \in Resolutions
  BY RequestFacts DEF Facts
<1>2. PICK m \in Int, n \in Int : m <= n /\ q.from = m * q.res /\ q.to = n * q.res
  BY RequestFacts DEF Facts
<1>. DEFINE from == q.from
            to == q.to
            res == q.res
<1>3. /\ res \in Resolutions /\ m <= n /\ from = m * res /\ to = n * res
      /\ from \in Int /\ to \in Int
  BY <1>1, <1>2, RequestFacts DEF Facts
<1>. HIDE DEF from, to, res
<1>4. PICK lo \in Int :
            /\ from <= lo /\ lo <= to
            /\ lo = from \/ (from < now - Kept(res) /\ lo < now - Kept(res) + res)
            /\ \A G, u : \A f \in Field :
                  SumRows(rollups, RangeRows(G, u, res, from, to))[f]
                    = SumFunctionOnSet(Times(G, u, f, lo, to), charged)
  BY <1>3, RangeIsTime
<1>5. ASSUME NEW g, NEW u, NEW f \in Field
      PROVE  Summed(g, u, q)[f] = SumFunctionOnSet(Times({g}, u, f, lo, q.to), charged)
  <2>1. RowsOf(g, u, q) = RangeRows({g}, u, res, from, to)
    BY DEF RowsOf, InRange, RangeRows, res, from, to
  <2>. QED
    BY <1>4, <2>1 DEF Summed, to
<1>6. q.from <= lo /\ lo <= q.to /\ (lo = q.from \/ lo < now - Kept(q.res) + q.res)
  BY <1>4 DEF res, from, to
<1>. QED
  BY <1>5, <1>6

-----------------------------------------------------------------------------
(* Statistics are complete. *)

LEMMA UsesAreCharged ==
  ASSUME Facts, NEW g, NEW u \in User \cup {NoUser}
  PROVE  /\ IsFiniteSet(charged) /\ charged \in SUBSET EdgeType
         /\ Uses(g, u) \in SUBSET charged /\ IsFiniteSet(Uses(g, u))
         /\ \A e \in charged :
              Weight(e, {g}, u, "occupied") = IF e \in Uses(g, u) THEN 1 ELSE 0
<1>1. IsFiniteSet(charged) /\ charged \in SUBSET EdgeType
  BY EdgesFinite DEF Facts
<1>2. Uses(g, u) \in SUBSET charged
  BY DEF Uses
<1>3. IsFiniteSet(Uses(g, u))
  BY <1>1, <1>2, FS_Subset
<1>4. ASSUME NEW e \in charged
      PROVE  Weight(e, {g}, u, "occupied") = IF e \in Uses(g, u) THEN 1 ELSE 0
  <2>1. CardShare(e.left, 1)["occupied"] = IF ProcessValid(e.left) /\ Occupied(e.left) THEN 1 ELSE 0
    BY DEF CardShare
  <2>2. UserShare(1)["occupied"] = 1
    BY DEF UserShare, ZeroRow
  <2>3. NoUser \notin User
    BY RollupAssumption
  <2>4. CASE u = NoUser
    BY <2>1, <2>4 DEF Weight, Uses, Payers
  <2>5. CASE u # NoUser
    <3>1. u \in Payers(e.left) <=> ProcessValid(e.left) /\ u \in Users(e.left)
      BY <2>5 DEF Payers
    <3>2. u \in Users(e.left) => Occupied(e.left)
      BY DEF Users, Occupied
    <3>. QED
      BY <2>2, <2>5, <3>1, <3>2 DEF Weight, Uses
  <2>. QED
    BY <2>4, <2>5
<1>. QED
  BY <1>1, <1>2, <1>3, <1>4

LEMMA TotalFacts ==
  ASSUME NEW E \in SUBSET EdgeType, IsFiniteSet(E), NEW lo \in Int, NEW hi \in Int
  PROVE  /\ Total(E, lo, hi) \in Nat
         /\ \A from, to \in Int :
              (\A e \in E : Within(e, from, to) <= Within(e, lo, hi))
                 => Total(E, from, to) <= Total(E, lo, hi)
<1>. DEFINE F(a, b) == [e \in E |-> Within(e, a, b)]
<1>1. \A a, b \in Int : \A e \in E : F(a, b)[e] = Within(e, a, b) /\ F(a, b)[e] \in Nat
  BY WithinType
<1>2. \A a, b : Total(E, a, b) = SumFunctionOnSet(F(a, b), E)
  BY DEF Total
<1>. HIDE DEF F
<1>3. Total(E, lo, hi) \in Nat
  <2>. DEFINE H == F(lo, hi)
  <2>1. \A e \in E : H[e] \in Nat
    BY <1>1
  <2>. HIDE DEF H
  <2>2. SumFunctionOnSet(H, E) \in Nat
    BY <2>1, NatSumAtLeast
  <2>. QED
    BY <1>2, <2>2 DEF H
<1>4. ASSUME NEW from \in Int, NEW to \in Int,
             \A e \in E : Within(e, from, to) <= Within(e, lo, hi)
      PROVE  Total(E, from, to) <= Total(E, lo, hi)
  <2>. DEFINE G == F(from, to)
              H == F(lo, hi)
  <2>1. \A e \in E : G[e] \in Int /\ H[e] \in Int /\ G[e] <= H[e]
    BY <1>1, <1>4
  <2>. HIDE DEF G, H
  <2>2. SumFunctionOnSet(G, E) <= SumFunctionOnSet(H, E)
    BY <2>1, IntSumMonotone
  <2>. QED
    BY <1>2, <2>2 DEF G, H
<1>. QED
  BY <1>3, <1>4

\* The time of edges that weigh one or nothing is the total of those that do weigh.
LEMMA TimesAreTotal ==
  ASSUME IsFiniteSet(charged), charged \in SUBSET EdgeType,
         NEW G, NEW u, NEW f, NEW lo \in Int, NEW hi \in Int, NEW E \in SUBSET charged,
         \A e \in charged : Weight(e, G, u, f) = IF e \in E THEN 1 ELSE 0
  PROVE  SumFunctionOnSet(Times(G, u, f, lo, hi), charged) = Total(E, lo, hi)
<1>. DEFINE T == Times(G, u, f, lo, hi)
            W == [e \in E |-> Within(e, lo, hi)]
<1>1. \A e \in charged : Within(e, lo, hi) \in Int
  BY WithinType
<1>2. \A e \in charged : T[e] = Weight(e, G, u, f) * Within(e, lo, hi)
  BY DEF Times, TimeIn
<1>3. \A e \in charged : T[e] = (IF e \in E THEN Within(e, lo, hi) ELSE 0) /\ T[e] \in Int
  BY <1>1, <1>2
<1>4. \A e \in E : W[e] = Within(e, lo, hi)
  OBVIOUS
<1>. HIDE DEF T, W
<1>5. SumFunctionOnSet(T, charged) = SumFunctionOnSet(T, E)
  <2>1. \A e \in charged : T[e] \in Int
    BY <1>3
  <2>2. \A e \in charged \ E : T[e] = 0
    BY <1>3
  <2>. QED
    BY <2>1, <2>2, IntSumRestrict
<1>6. SumFunctionOnSet(T, E) = SumFunctionOnSet(W, E)
  <2>1. \A e \in E : T[e] \in Int /\ T[e] = W[e]
    BY <1>3, <1>4
  <2>2. IsFiniteSet(E)
    BY FS_Subset
  <2>. QED
    BY <2>1, <2>2, IntSumSame
<1>. QED
  BY <1>5, <1>6 DEF Total, T, W

\* Listed or not, what is reported of a card and a user is the total of the time of
\* its use from lo on, or there was no use before the end of the range.
LEMMA UsedIsTotal ==
  ASSUME Facts, NEW g \in GPU, NEW u \in User \cup {NoUser}, NEW q,
         NEW lo \in Int, NEW hi \in Int, q.to = hi,
         Summed(g, u, q)["occupied"]
           = SumFunctionOnSet(Times({g}, u, "occupied", lo, hi), charged)
  PROVE  \/ g \in Listed(q) /\ UsedBy(g, u, q) = Total(Uses(g, u), lo, hi)
         \/ /\ g \notin Listed(q) /\ UsedBy(g, u, q) = 0
            /\ \A e \in Uses(g, u) : e.left.at >= hi
<1>1. CASE g \in Listed(q)
  <2>. DEFINE E == Uses(g, u)
              G == {g}
  <2>1. /\ IsFiniteSet(charged) /\ charged \in SUBSET EdgeType /\ E \in SUBSET charged
        /\ \A e \in charged : Weight(e, G, u, "occupied") = IF e \in E THEN 1 ELSE 0
    BY UsesAreCharged
  <2>2. Summed(g, u, q)["occupied"]
           = SumFunctionOnSet(Times(G, u, "occupied", lo, hi), charged)
    OBVIOUS
  <2>. HIDE DEF E, G
  <2>3. SumFunctionOnSet(Times(G, u, "occupied", lo, hi), charged) = Total(E, lo, hi)
    BY <2>1, TimesAreTotal
  <2>4. UsedBy(g, u, q) = Summed(g, u, q)["occupied"]
    BY <1>1 DEF UsedBy
  <2>. QED
    BY <1>1, <2>2, <2>3, <2>4 DEF E
<1>2. CASE g \notin Listed(q)
  <2>1. UsedBy(g, u, q) = 0
    BY <1>2 DEF UsedBy
  <2>2. ASSUME NEW e \in Uses(g, u)
        PROVE  e.left.at >= hi
    <3>1. e \in charged /\ e.left.gpu = g
      BY DEF Uses
    <3>2. e.left \in observed
      BY <3>1 DEF Facts, ChargedAreNeighbours, Consecutive
    <3>3. g \in DOMAIN gpus /\ gpus[g].first <= e.left.at
      BY <3>1, <3>2 DEF Facts, AnswersInv, FirstSeen
    <3>4. gpus[g].first \in Int /\ e.left.at \in Int
      BY <3>2, <3>3 DEF Facts, TypeOK, PointType, Time
    <3>5. ~ (gpus[g].first < hi)
      BY <1>2, <3>3 DEF Listed
    <3>. QED
      BY <3>3, <3>4, <3>5
  <2>. QED
    BY <1>2, <2>1, <2>2
<1>. QED
  BY <1>1, <1>2

\* The use of a card that is reported, all its users together or one of them, is
\* all that was observed in what was asked, less at most a first bucket that has
\* expired, and nothing from outside of the range that the answer names.
THEOREM StatisticsAreComplete == Spec => []StatsAreComplete
<1>1. Facts => StatsAreComplete
  <2>. SUFFICES ASSUME Facts, NEW g \in GPU, NEW u \in User \cup {NoUser}, NEW r \in Requests
                PROVE  LET q == QueryRange(r[1], r[2])
                           used == UsedBy(g, u, q)
                       IN  /\ used <= Total(Uses(g, u), q.from, q.to)
                           /\ used >= Total(Uses(g, u), Since(r[1], r[2]) + q.res, Until(r[2]))
    BY DEF StatsAreComplete
  <2>. DEFINE q == QueryRange(r[1], r[2])
              since == Since(r[1], r[2])
              until == Until(r[2])
              from == q.from
              to == q.to
              res == q.res
              E == Uses(g, u)
              used == UsedBy(g, u, q)
  <2>1. /\ since \in Int /\ until \in Int /\ from \in Int /\ to \in Int
        /\ res \in Resolutions /\ from <= since /\ until <= to
        /\ (now - Kept(res) <= since \/ since + res = until)
    BY RequestFacts DEF Facts
  <2>2. PICK lo \in Int :
            /\ from <= lo /\ lo <= to
            /\ (lo = from \/ lo < now - Kept(res) + res)
            /\ \A f \in Field : Summed(g, u, q)[f]
                    = SumFunctionOnSet(Times({g}, u, f, lo, to), charged)
    BY AnswerIsTime
  <2>3. E \in SUBSET EdgeType /\ IsFiniteSet(E)
    BY UsesAreCharged
  <2>4. now - Kept(res) \in Int /\ res \in Nat
    BY <2>1, KeptType, ResolutionType DEF Facts, TypeOK
  <2>5. \/ g \in Listed(q) /\ used = Total(E, lo, to)
        \/ g \notin Listed(q) /\ used = 0 /\ \A e \in E : e.left.at >= to
    <3>1. "occupied" \in Field /\ to = q.to
      BY DEF Field
    <3>2. Summed(g, u, q)["occupied"]
            = SumFunctionOnSet(Times({g}, u, "occupied", lo, to), charged)
      BY <2>2, <3>1
    <3>. HIDE DEF q, to
    <3>. QED
      BY <2>1, <2>2, <3>1, <3>2, UsedIsTotal
  <2>. HIDE DEF q, since, until, from, to, res, E, used
  <2>6. ASSUME NEW e \in E
        PROVE  /\ Within(e, lo, to) <= Within(e, from, to)
               /\ Within(e, since + res, until) <= Within(e, lo, to)
    <3>1. e \in EdgeType /\ since + res \in Int
      BY <2>1, <2>3, <2>4
    <3>2. Within(e, lo, to) <= Within(e, from, to)
      BY <2>1, <2>2, <3>1, WithinGrows
    <3>3. CASE lo <= since + res
      <4>1. Within(e, since + res, until) <= Within(e, lo, to)
        BY <2>1, <2>2, <3>1, <3>3, WithinGrows
      <4>. QED
        BY <3>2, <4>1
    <3>4. CASE since + res = until
      <4>1. Within(e, since + res, until) = 0
        BY <2>1, <3>1, <3>4, WithinNothing
      <4>2. Within(e, lo, to) \in Nat
        BY <2>1, <2>2, <3>1, WithinType
      <4>. QED
        BY <3>2, <4>1, <4>2
    <3>5. lo <= since + res \/ since + res = until
      BY <2>1, <2>2, <2>4
    <3>. QED
      BY <3>2, <3>3, <3>4, <3>5
  <2>7. since + res \in Int
    BY <2>1, <2>4
  <2>8. CASE used = Total(E, lo, to)
    <3>1. Total(E, lo, to) <= Total(E, from, to)
      BY <2>1, <2>2, <2>3, <2>6, TotalFacts
    <3>2. Total(E, since + res, until) <= Total(E, lo, to)
      BY <2>1, <2>2, <2>3, <2>6, <2>7, TotalFacts
    <3>3. Total(E, lo, to) \in Nat /\ Total(E, since + res, until) \in Nat
      BY <2>1, <2>2, <2>3, <2>7, TotalFacts
    <3>. QED
      BY <2>8, <3>1, <3>2, <3>3 DEF q, since, until, from, to, res, E, used
  <2>9. CASE used = 0 /\ \A e \in E : e.left.at >= to
    <3>1. Total(E, from, to) \in Nat
      BY <2>1, <2>3, TotalFacts
    <3>. DEFINE W == [e \in E |-> Within(e, since + res, until)]
    <3>2. ASSUME NEW e \in E
          PROVE  W[e] = 0
      <4>1. e.left.at \in Int
        BY <2>3 DEF EdgeType, PointType, Time
      <4>2. until <= e.left.at
        BY <2>1, <2>9, <4>1
      <4>3. Within(e, since + res, until) = 0
        BY <2>1, <2>3, <2>7, <4>2, WithinNothing
      <4>. QED
        BY <4>3
    <3>3. Total(E, since + res, until) = SumFunctionOnSet(W, E)
      BY DEF Total
    <3>. HIDE DEF W
    <3>4. Total(E, since + res, until) = 0
      BY <2>3, <3>2, <3>3, IntSumZero
    <3>. QED
      BY <2>9, <3>1, <3>4 DEF q, since, until, from, to, res, E, used
  <2>. QED
    BY <2>5, <2>8, <2>9
<1>. QED
  BY <1>1, FactsHold, PTL

-----------------------------------------------------------------------------
(* Coverage is a share. *)

LEMMA TotalAdds ==
  ASSUME NEW E \in SUBSET EdgeType, IsFiniteSet(E), NEW x \in E,
         NEW lo \in Int, NEW hi \in Int
  PROVE  Total(E, lo, hi) = Within(x, lo, hi) + Total(E \ {x}, lo, hi)
<1>. DEFINE U == E \ {x}
            W == [e \in E |-> Within(e, lo, hi)]
            V == [e \in U |-> Within(e, lo, hi)]
<1>1. \A e \in E : W[e] = Within(e, lo, hi) /\ W[e] \in Int
  BY WithinType
<1>2. \A e \in U : V[e] = W[e] /\ V[e] \in Int
  BY <1>1
<1>3. Total(E, lo, hi) = SumFunctionOnSet(W, E) /\ Total(U, lo, hi) = SumFunctionOnSet(V, U)
  BY DEF Total
<1>4. IsFiniteSet(U)
  BY FS_Subset
<1>. HIDE DEF W, V
<1>5. SumFunctionOnSet(W, E) = W[x] + SumFunctionOnSet(W, E \ {x})
  <2>1. \A e \in E : W[e] \in Int
    BY <1>1
  <2>2. E \in SUBSET E
    OBVIOUS
  <2>. HIDE DEF U
  <2>. QED
    BY <2>1, <2>2, IntSumStep
<1>6. SumFunctionOnSet(V, U) = SumFunctionOnSet(W, U)
  <2>. HIDE DEF U
  <2>. QED
    BY <1>2, <1>4, IntSumSame
<1>. QED
  BY <1>1, <1>3, <1>5, <1>6

\* Edges that do not overlap fit into a range side by side.
LEMMA DisjointFit ==
  ASSUME NEW S \in SUBSET EdgeType, IsFiniteSet(S),
         \A e \in S : e.left.at < e.right.at,
         \A e, f \in S : e # f => Disjoint(e, f)
  PROVE  \A lo, hi \in Int : lo <= hi => Total(S, lo, hi) <= hi - lo
<1>. DEFINE P == {T \in SUBSET S : \A lo, hi \in Int : lo <= hi => Total(T, lo, hi) <= hi - lo}
<1>0. \A T \in SUBSET S : IsFiniteSet(T) /\ T \in SUBSET EdgeType
  BY FS_Subset
<1>1. {} \in P
  <2>1. ASSUME NEW lo \in Int, NEW hi \in Int
        PROVE  Total({}, lo, hi) = 0
    <3>. DEFINE W == [e \in {} |-> Within(e, lo, hi)]
    <3>1. Total({}, lo, hi) = SumFunctionOnSet(W, {})
      BY DEF Total
    <3>. HIDE DEF W
    <3>2. SumFunctionOnSet(W, {}) = 0
      BY FS_EmptySet, IntSumZero
    <3>. QED
      BY <3>1, <3>2
  <2>. QED
    BY <2>1
<1>2. ASSUME NEW T \in SUBSET S, T # {}, T \ {Pick(T)} \in P
      PROVE  T \in P
  <2>. DEFINE x == Pick(T)
              U == T \ {x}
  <2>1. x \in T /\ U \in SUBSET S /\ U \in P
    BY <1>2, PickIn
  <2>. HIDE DEF x
  <2>2. SUFFICES ASSUME NEW lo \in Int, NEW hi \in Int, lo <= hi
                 PROVE  Total(T, lo, hi) <= hi - lo
    OBVIOUS
  <2>3. \A a, b \in Int : a <= b => Total(U, a, b) <= b - a /\ Total(U, a, b) \in Nat
    BY <1>0, <2>1, TotalFacts
  <2>4. Total(T, lo, hi) = Within(x, lo, hi) + Total(U, lo, hi)
    <3>1. T \in SUBSET EdgeType /\ IsFiniteSet(T)
      BY <1>0
    <3>. HIDE DEF P
    <3>2. Total(T, lo, hi) = Within(x, lo, hi) + Total(T \ {x}, lo, hi)
      BY <2>1, <3>1, TotalAdds
    <3>. QED
      BY <3>2
  <2>5. x \in EdgeType /\ x.left.at < x.right.at /\ x.left.at \in Int /\ x.right.at \in Int
    BY <2>1 DEF EdgeType, PointType, Time
  <2>. DEFINE a == Greater(lo, x.left.at)
              b == Lesser(hi, x.right.at)
  <2>6. a \in Int /\ b \in Int /\ lo <= a /\ b <= hi /\ Within(x, lo, hi) = Greater(0, b - a)
    BY <2>5 DEF Greater, Lesser, Within
  <2>7. CASE b <= a
    <3>1. Within(x, lo, hi) = 0
      BY <2>6, <2>7 DEF Greater
    <3>2. Total(U, lo, hi) <= hi - lo /\ Total(U, lo, hi) \in Nat
      BY <2>2, <2>3
    <3>. HIDE DEF U
    <3>. QED
      BY <2>4, <3>1, <3>2
  <2>8. CASE a < b
    <3>1. Within(x, lo, hi) = b - a
      BY <2>6, <2>8 DEF Greater
    <3>2. ASSUME NEW e \in U
          PROVE  Within(e, lo, hi) = Within(e, lo, a) + Within(e, b, hi)
      <4>1. Disjoint(e, x)
        BY <2>1
      <4>2. e \in EdgeType /\ e.left.at < e.right.at /\ e.left.at \in Int /\ e.right.at \in Int
        BY DEF EdgeType, PointType, Time
      <4>3. Within(e, a, b) = 0
        BY <2>5, <4>1, <4>2 DEF Disjoint, Within, Greater, Lesser
      <4>. HIDE DEF a, b
      <4>4. Within(e, lo, hi) = Within(e, lo, a) + Within(e, a, hi)
        BY <2>6, <2>8, <4>2, WithinAdds
      <4>5. Within(e, a, hi) = Within(e, a, b) + Within(e, b, hi)
        BY <2>6, <2>8, <4>2, WithinAdds
      <4>6. Within(e, b, hi) \in Nat
        BY <2>6, <4>2, WithinType
      <4>. QED
        BY <4>3, <4>4, <4>5, <4>6
    <3>. HIDE DEF a, b
    <3>3. Total(U, lo, hi) = Total(U, lo, a) + Total(U, b, hi)
      <4>. DEFINE H == [e \in U |-> Within(e, lo, hi)]
                  F == [e \in U |-> Within(e, lo, a)]
                  G == [e \in U |-> Within(e, b, hi)]
      <4>1. \A e \in U : F[e] \in Int /\ G[e] \in Int /\ H[e] = F[e] + G[e]
        BY <1>0, <2>1, <2>6, <3>2, WithinType
      <4>2. /\ Total(U, lo, hi) = SumFunctionOnSet(H, U)
            /\ Total(U, lo, a) = SumFunctionOnSet(F, U)
            /\ Total(U, b, hi) = SumFunctionOnSet(G, U)
        BY DEF Total
      <4>. HIDE DEF F, G, H, U
      <4>3. IsFiniteSet(U)
        BY <1>0, <2>1
      <4>4. SumFunctionOnSet(H, U) = SumFunctionOnSet(F, U) + SumFunctionOnSet(G, U)
        BY <4>1, <4>3, IntSumAdd
      <4>. QED
        BY <4>2, <4>4
    <3>4. /\ Total(U, lo, a) <= a - lo /\ Total(U, lo, a) \in Nat
          /\ Total(U, b, hi) <= hi - b /\ Total(U, b, hi) \in Nat
      BY <2>3, <2>6
    <3>. HIDE DEF U
    <3>. QED
      BY <2>4, <2>6, <3>1, <3>3, <3>4
  <2>. QED
    BY <2>6, <2>7, <2>8
<1>3. S \in P
  <2>. HIDE DEF P
  <2>. QED
    BY <1>1, <1>2, SubsetInduction
<1>. QED
  BY <1>3

\* No instant of a card is charged twice, in whatever starts of the agent.
LEMMA ChargedAreDisjoint ==
  ASSUME Facts, NEW e \in charged, NEW f \in charged, e.left.gpu = f.left.gpu, e # f
  PROVE  Disjoint(e, f)
<1>1. /\ Earlier(e.left, e.right) /\ Earlier(f.left, f.right)
      /\ e.left \in observed /\ e.right \in observed
      /\ f.left \in observed /\ f.right \in observed
  BY DEF Facts, ChainInv, EdgeInv, ChargedForward, ChargedAreNeighbours, Consecutive
<1>2. /\ e.left.boot = e.right.boot /\ f.left.boot = f.right.boot
      /\ e.left.gpu = e.right.gpu /\ f.left.gpu = f.right.gpu
  BY <1>1 DEF Earlier, SameChain
<1>3. /\ e.right.boot \in Int /\ f.right.boot \in Int
      /\ e.left.at \in Int /\ e.right.at \in Int /\ f.left.at \in Int /\ f.right.at \in Int
  BY <1>1, IngestAssumption DEF Facts, TypeOK, PointType, Time, Boot
<1>4. CASE e.right.boot = f.right.boot
  BY <1>2, <1>4 DEF Facts, NoDoubleCount, SameChain
<1>5. ASSUME NEW p \in observed, NEW r \in observed, p.boot < r.boot
      PROVE  p.at < r.at
  BY <1>5 DEF Facts, AnswersInv, SampledInOrder
<1>6. CASE e.right.boot < f.right.boot
  <2>1. e.right.at < f.left.at
    BY <1>1, <1>2, <1>5, <1>6
  <2>. QED
    BY <1>3, <2>1 DEF Disjoint
<1>7. CASE f.right.boot < e.right.boot
  <2>1. f.right.at < e.left.at
    BY <1>1, <1>2, <1>5, <1>7
  <2>. QED
    BY <1>3, <2>1 DEF Disjoint
<1>. QED
  BY <1>3, <1>4, <1>6, <1>7

\* The charged time of a card in which its processes could be listed.
Watched(g) == {e \in charged : /\ Integrable(e.left, e.right) /\ e.left.gpu = g
                               /\ ProcessValid(e.left)}

LEMMA WatchedFacts ==
  ASSUME Facts, NEW g
  PROVE  /\ IsFiniteSet(charged) /\ charged \in SUBSET EdgeType
         /\ Watched(g) \in SUBSET charged /\ IsFiniteSet(Watched(g))
         /\ \A e \in charged :
              Weight(e, {g}, NoUser, "occupancyValid") = IF e \in Watched(g) THEN 1 ELSE 0
<1>1. IsFiniteSet(charged) /\ charged \in SUBSET EdgeType
  BY EdgesFinite DEF Facts
<1>2. Watched(g) \in SUBSET charged
  BY DEF Watched
<1>3. IsFiniteSet(Watched(g))
  BY <1>1, <1>2, FS_Subset
<1>4. ASSUME NEW e \in charged
      PROVE  Weight(e, {g}, NoUser, "occupancyValid") = IF e \in Watched(g) THEN 1 ELSE 0
  <2>1. CardShare(e.left, 1)["occupancyValid"] = IF ProcessValid(e.left) THEN 1 ELSE 0
    BY DEF CardShare
  <2>. QED
    BY <2>1 DEF Weight, Watched, Payers
<1>. QED
  BY <1>1, <1>2, <1>3, <1>4

\* No card is observed for longer than it was expected to be since it was first
\* seen, but for the time by which the agent's clock may run ahead.
THEOREM CoverageIsShare == Spec => []CoverageIsAShare
<1>1. Facts => CoverageIsAShare
  <2>. SUFFICES ASSUME Facts, NEW r \in Requests, NEW q, q = QueryRange(r[1], r[2]),
                       NEW g \in Listed(q)
                PROVE  Observed(g, q) <= Expected(g, q) + Ahead
    BY DEF CoverageIsAShare, Ranges
  <2>. DEFINE E == Watched(g)
              G == {g}
              from == q.from
              to == q.to
              first == gpus[g].first
              left == Greater(from, first)
              right == Lesser(to, now + Ahead)
  <2>1. from \in Int /\ to \in Int /\ g \in DOMAIN gpus
    BY RequestFacts DEF Facts, Listed
  <2>2. PICK lo \in Int :
            /\ from <= lo
            /\ \A f \in Field : Summed(g, NoUser, q)[f]
                    = SumFunctionOnSet(Times(G, NoUser, f, lo, to), charged)
    BY AnswerIsTime
  <2>3. now \in Int /\ Ahead \in Nat /\ first \in Int
    BY <2>1, IngestAssumption DEF Facts, TypeOK, Time
  <2>4. /\ IsFiniteSet(charged) /\ charged \in SUBSET EdgeType
        /\ E \in SUBSET charged /\ IsFiniteSet(E) /\ E \in SUBSET EdgeType
        /\ \A e \in charged : Weight(e, G, NoUser, "occupancyValid") = IF e \in E THEN 1 ELSE 0
    BY WatchedFacts
  <2>5. Observed(g, q) = SumFunctionOnSet(Times(G, NoUser, "occupancyValid", lo, to), charged)
    <3>1. "occupancyValid" \in Field
      BY DEF Field
    <3>. QED
      BY <2>2, <3>1 DEF Observed
  <2>. HIDE DEF G
  <2>6. Observed(g, q) = Total(E, lo, to)
    <3>. HIDE DEF E, to
    <3>. QED
      BY <2>1, <2>4, <2>5, TimesAreTotal
  <2>7. ASSUME NEW e \in E
        PROVE  /\ e.left.at \in Int /\ e.right.at \in Int /\ e.left.at < e.right.at
               /\ first <= e.left.at /\ e.right.at <= now + Ahead
    <3>1. e \in charged /\ e.left.gpu = g /\ Integrable(e.left, e.right)
      BY DEF Watched
    <3>2. e.left \in observed /\ e.right \in observed
      BY <3>1 DEF Facts, ChargedAreNeighbours, Consecutive
    <3>3. e.left.at \in Int /\ e.right.at \in Int /\ e.left.at < e.right.at
      BY <3>1, <3>2 DEF Facts, TypeOK, PointType, Time, Integrable
    <3>4. first <= e.left.at
      BY <3>1, <3>2 DEF Facts, AnswersInv, FirstSeen
    <3>5. e.right.at <= now + Ahead
      BY <3>2 DEF Facts, AnswersInv, SampledInOrder
    <3>. QED
      BY <3>3, <3>4, <3>5
  <2>8. \A e, f \in E : e # f => Disjoint(e, f)
    BY ChargedAreDisjoint DEF Watched
  <2>9. left \in Int /\ right \in Int
    BY <2>1, <2>3 DEF Greater, Lesser
  <2>10. ASSUME NEW e \in E
         PROVE  Within(e, lo, to) <= Within(e, left, right)
    BY <2>1, <2>2, <2>3, <2>7 DEF Within, Greater, Lesser
  <2>11. Greater(0, right - left) <= Expected(g, q) + Ahead
    BY <2>1, <2>3 DEF Expected, Greater, Lesser
  <2>12. Expected(g, q) \in Nat
    BY <2>1, <2>3 DEF Expected, Greater, Lesser
  <2>. HIDE DEF E, from, to, first, left, right
  <2>13. Total(E, lo, to) <= Total(E, left, right) /\ Total(E, left, right) \in Nat
         /\ Total(E, lo, to) \in Nat
    BY <2>1, <2>4, <2>9, <2>10, TotalFacts
  <2>14. Total(E, left, right) <= Greater(0, right - left)
    <3>0. \A a, b \in Int : a <= b => Total(E, a, b) <= b - a
      BY <2>4, <2>7, <2>8, DisjointFit
    <3>1. CASE left <= right
      <4>1. Total(E, left, right) <= right - left
        BY <2>9, <3>0, <3>1
      <4>. QED
        BY <2>9, <3>1, <4>1 DEF Greater
    <3>2. CASE right < left
      <4>1. \A e \in E : Within(e, left, right) <= Within(e, left, left)
        BY <2>4, <2>9, <3>2, WithinGrows
      <4>2. Total(E, left, right) <= Total(E, left, left) /\ Total(E, left, left) \in Nat
        BY <2>4, <2>9, <4>1, TotalFacts
      <4>3. Total(E, left, left) <= left - left
        BY <2>9, <3>0
      <4>. QED
        BY <2>9, <2>13, <3>2, <4>2, <4>3 DEF Greater
    <3>. QED
      BY <2>9, <3>1, <3>2
  <2>15. Greater(0, right - left) \in Int
    BY <2>9 DEF Greater
  <2>. QED
    BY <2>3, <2>6, <2>11, <2>12, <2>13, <2>14, <2>15
<1>. QED
  BY <1>1, FactsHold, PTL

-----------------------------------------------------------------------------
(* Use that no user's hours hold is not counted as attributed. *)

\* What an edge adds to the hours of users makes up for the use that it attributes.
LEMMA UsersMakeUp ==
  ASSUME NEW e \in EdgeType, NEW g, NEW lo \in Int, NEW hi \in Int, NEW C,
         C = [u \in User |-> TimeIn(e, {g}, u, "occupied", lo, hi)]
  PROVE  /\ SumFunctionOnSet(C, User) \in Nat
         /\ TimeIn(e, {g}, NoUser, "occupied", lo, hi)
              + TimeIn(e, {g}, NoUser, "attributionValid", lo, hi)
            <= SumFunctionOnSet(C, User) + TimeIn(e, {g}, NoUser, "occupancyValid", lo, hi)
<1>. DEFINE w == Within(e, lo, hi)
            Time1(f) == TimeIn(e, {g}, NoUser, f, lo, hi)
            p == e.left
            Counts == Integrable(e.left, e.right) /\ p.gpu = g
            sum == SumFunctionOnSet(C, User)
<1>1. w \in Nat
  BY WithinType
<1>2. p.owners \subseteq User \cup {NoUser} /\ NoUser \notin User /\ IsFiniteSet(User)
  BY RollupAssumption, QueryAssumption DEF EdgeType, PointType
<1>3. /\ CardShare(p, 1)["occupied"] = IF ProcessValid(p) /\ Occupied(p) THEN 1 ELSE 0
      /\ CardShare(p, 1)["occupancyValid"] = IF ProcessValid(p) THEN 1 ELSE 0
      /\ CardShare(p, 1)["attributionValid"] = IF UserValid(p) THEN 1 ELSE 0
      /\ UserShare(1)["occupied"] = 1
  BY DEF CardShare, UserShare, ZeroRow
<1>. HIDE DEF w
<1>4. /\ Time1("occupied") = IF Counts /\ ProcessValid(p) /\ Occupied(p) THEN w ELSE 0
      /\ Time1("occupancyValid") = IF Counts /\ ProcessValid(p) THEN w ELSE 0
      /\ Time1("attributionValid") = IF Counts /\ UserValid(p) THEN w ELSE 0
  <2>1. \A f : Weight(e, {g}, NoUser, f) = IF Counts THEN CardShare(p, 1)[f] ELSE 0
    BY DEF Weight, Payers
  <2>2. 1 * w = w /\ 0 * w = 0
    BY <1>1
  <2>3. \A f : Time1(f) = Weight(e, {g}, NoUser, f) * w
    BY DEF TimeIn, w
  <2>. HIDE DEF Time1
  <2>. QED
    BY <1>3, <2>1, <2>2, <2>3
<1>5. ASSUME NEW u \in User
      PROVE  C[u] = IF Counts /\ ProcessValid(p) /\ u \in Users(p) THEN w ELSE 0
  <2>1. Weight(e, {g}, u, "occupied")
          = IF Counts /\ ProcessValid(p) /\ u \in Users(p) THEN 1 ELSE 0
    BY <1>2, <1>3 DEF Weight, Payers
  <2>2. C[u] = Weight(e, {g}, u, "occupied") * w
    BY DEF TimeIn, w
  <2>3. 1 * w = w /\ 0 * w = 0
    BY <1>1
  <2>. QED
    BY <2>1, <2>2, <2>3
<1>6. \A u \in User : C[u] \in Nat
  BY <1>1, <1>5
<1>7. sum \in Nat /\ \A u \in User : C[u] <= sum
  BY <1>2, <1>6, NatSumAtLeast
<1>. HIDE DEF sum
<1>8. CASE Counts /\ UserValid(p) /\ Occupied(p)
  <2>1. PICK u : u \in p.owners
    BY <1>8 DEF Occupied
  <2>2. u \in User /\ u \in Users(p) /\ ProcessValid(p)
    BY <1>2, <1>8, <2>1 DEF UserValid, Users
  <2>3. C[u] = w /\ C[u] <= sum
    BY <1>5, <1>7, <1>8, <2>2
  <2>4. Time1("occupied") = w /\ Time1("attributionValid") = w /\ Time1("occupancyValid") = w
    BY <1>4, <1>8, <2>2
  <2>5. Time1("occupied") + Time1("attributionValid") <= sum + Time1("occupancyValid")
    BY <1>1, <1>7, <2>3, <2>4
  <2>. QED
    BY <1>7, <2>5 DEF sum
<1>9. CASE ~ (Counts /\ UserValid(p) /\ Occupied(p))
  <2>1. UserValid(p) => ProcessValid(p)
    BY DEF UserValid
  <2>2. Time1("occupied") + Time1("attributionValid") <= sum + Time1("occupancyValid")
    BY <1>1, <1>4, <1>7, <1>9, <2>1
  <2>. QED
    BY <1>7, <2>2 DEF sum
<1>. QED
  BY <1>8, <1>9

\* Coverage of users tells what their hours leave out.
THEOREM UnassignedIsNotCovered == Spec => []UnassignedIsUncovered
<1>1. Facts => UnassignedIsUncovered
  <2>. SUFFICES ASSUME Facts, NEW r \in Requests, NEW q, q = QueryRange(r[1], r[2]),
                       NEW g \in Listed(q)
                PROVE  UsedBy(g, NoUser, q)
                         <= SumFunctionOnSet([u \in User |-> UsedBy(g, u, q)], User)
                              + Observed(g, q) - Attributed(g, q)
    BY DEF UnassignedIsUncovered, Ranges
  <2>. DEFINE hours == [u \in User |-> UsedBy(g, u, q)]
              hi == q.to
  <2>1. hi \in Int
    BY RequestFacts DEF Facts
  <2>2. PICK lo \in Int : \A u : \A f \in Field :
            Summed(g, u, q)[f] = SumFunctionOnSet(Times({g}, u, f, lo, hi), charged)
    BY AnswerIsTime
  <2>3. IsFiniteSet(charged) /\ charged \in SUBSET EdgeType /\ IsFiniteSet(User)
    BY EdgesFinite, QueryAssumption DEF Facts
  <2>. DEFINE A == Times({g}, NoUser, "occupied", lo, hi)
              V == Times({g}, NoUser, "occupancyValid", lo, hi)
              B == Times({g}, NoUser, "attributionValid", lo, hi)
              F == [u \in User |-> Times({g}, u, "occupied", lo, hi)]
              R == [u \in User |-> SumFunctionOnSet(F[u], charged)]
              C == [e \in charged |-> SumFunctionOnSet([u \in User |-> F[u][e]], User)]
              L == [e \in charged |-> A[e] + B[e]]
              M == [e \in charged |-> C[e] + V[e]]
  <2>4. /\ UsedBy(g, NoUser, q) = SumFunctionOnSet(A, charged)
        /\ Observed(g, q) = SumFunctionOnSet(V, charged)
        /\ Attributed(g, q) = SumFunctionOnSet(B, charged)
        /\ \A u \in User : hours[u] = R[u]
    <3>1. {"occupied", "occupancyValid", "attributionValid"} \subseteq Field
      BY DEF Field
    <3>2. \A u : UsedBy(g, u, q) = SumFunctionOnSet(Times({g}, u, "occupied", lo, hi), charged)
      BY <2>2, <3>1 DEF UsedBy
    <3>3. \A u \in User : R[u] = SumFunctionOnSet(Times({g}, u, "occupied", lo, hi), charged)
      OBVIOUS
    <3>. QED
      BY <2>2, <3>1, <3>2, <3>3 DEF Observed, Attributed
  <2>5. \A G, u : \A f \in Field : \A e \in charged :
          /\ Times(G, u, f, lo, hi)[e] = TimeIn(e, G, u, f, lo, hi)
          /\ TimeIn(e, G, u, f, lo, hi) \in Int
    BY <2>1, <2>3, WeightType, WithinType DEF Times, TimeIn
  <2>6. F \in [User -> [charged -> Int]]
    <3>1. ASSUME NEW u \in User
          PROVE  Times({g}, u, "occupied", lo, hi) \in [charged -> Int]
      <4>1. "occupied" \in Field
        BY DEF Field
      <4>. QED
        BY <2>5, <4>1 DEF Times
    <3>. QED
      BY <3>1
  <2>7. SumFunctionOnSet(R, User) = SumFunctionOnSet(C, charged)
    <3>. HIDE DEF F
    <3>. QED
      BY <2>3, <2>6, IntSumExchange
  <2>8. ASSUME NEW e \in charged
        PROVE  /\ A[e] \in Int /\ B[e] \in Int /\ V[e] \in Int /\ C[e] \in Int
               /\ A[e] + B[e] <= C[e] + V[e]
    <3>1. /\ A[e] = TimeIn(e, {g}, NoUser, "occupied", lo, hi) /\ A[e] \in Int
          /\ V[e] = TimeIn(e, {g}, NoUser, "occupancyValid", lo, hi) /\ V[e] \in Int
          /\ B[e] = TimeIn(e, {g}, NoUser, "attributionValid", lo, hi) /\ B[e] \in Int
      <4>1. {"occupied", "occupancyValid", "attributionValid"} \subseteq Field
        BY DEF Field
      <4>. QED
        BY <2>5, <4>1
    <3>2. C[e] = SumFunctionOnSet([u \in User |-> TimeIn(e, {g}, u, "occupied", lo, hi)], User)
      <4>1. \A u \in User : F[u][e] = TimeIn(e, {g}, u, "occupied", lo, hi)
        BY DEF Times
      <4>2. [u \in User |-> F[u][e]] = [u \in User |-> TimeIn(e, {g}, u, "occupied", lo, hi)]
        BY <4>1
      <4>. QED
        BY <4>2
    <3>3. e \in EdgeType
      BY <2>3
    <3>. HIDE DEF A, B, V, C, hi
    <3>. DEFINE D == [u \in User |-> TimeIn(e, {g}, u, "occupied", lo, hi)]
    <3>4. /\ SumFunctionOnSet(D, User) \in Nat
          /\ TimeIn(e, {g}, NoUser, "occupied", lo, hi)
               + TimeIn(e, {g}, NoUser, "attributionValid", lo, hi)
             <= SumFunctionOnSet(D, User) + TimeIn(e, {g}, NoUser, "occupancyValid", lo, hi)
      <4>1. D = [u \in User |-> TimeIn(e, {g}, u, "occupied", lo, hi)]
        OBVIOUS
      <4>. HIDE DEF D
      <4>. QED
        BY <2>1, <3>3, <4>1, UsersMakeUp
    <3>. QED
      BY <3>1, <3>2, <3>4
  <2>9. SumFunctionOnSet(hours, User) = SumFunctionOnSet(C, charged)
    <3>1. \A u \in User : R[u] \in Int
      <4>1. \A u \in User : \A e \in charged : F[u][e] \in Int
        BY <2>6
      <4>. HIDE DEF F
      <4>2. \A u \in User : SumFunctionOnSet(F[u], charged) \in Int
        BY <2>3, <4>1, IntSumFacts
      <4>. QED
        BY <4>2
    <3>. HIDE DEF hours, R
    <3>2. SumFunctionOnSet(hours, User) = SumFunctionOnSet(R, User)
      BY <2>3, <2>4, <3>1, IntSumSame
    <3>. QED
      BY <2>7, <3>2
  <2>10. /\ \A e \in charged : L[e] = A[e] + B[e] /\ L[e] \in Int
         /\ \A e \in charged : M[e] = C[e] + V[e] /\ M[e] \in Int
         /\ \A e \in charged : L[e] <= M[e]
    <3>. HIDE DEF A, B, C, V
    <3>. QED
      BY <2>8
  <2>. HIDE DEF hours, hi, A, V, B, F, R, C, L, M
  <2>11. SumFunctionOnSet(L, charged) = SumFunctionOnSet(A, charged) + SumFunctionOnSet(B, charged)
    BY <2>3, <2>8, <2>10, IntSumAdd
  <2>12. SumFunctionOnSet(M, charged) = SumFunctionOnSet(C, charged) + SumFunctionOnSet(V, charged)
    BY <2>3, <2>8, <2>10, IntSumAdd
  <2>13. SumFunctionOnSet(L, charged) <= SumFunctionOnSet(M, charged)
    BY <2>3, <2>10, IntSumMonotone
  <2>14. /\ SumFunctionOnSet(A, charged) \in Int /\ SumFunctionOnSet(B, charged) \in Int
         /\ SumFunctionOnSet(C, charged) \in Int /\ SumFunctionOnSet(V, charged) \in Int
    <3>1. charged \in SUBSET charged
      OBVIOUS
    <3>2. \A e \in charged : A[e] \in Int
      BY <2>8
    <3>3. \A e \in charged : B[e] \in Int
      BY <2>8
    <3>4. \A e \in charged : C[e] \in Int
      BY <2>8
    <3>5. \A e \in charged : V[e] \in Int
      BY <2>8
    <3>. QED
      BY <2>3, <3>1, <3>2, <3>3, <3>4, <3>5, IntSumFacts
  <2>. QED
    BY <2>4, <2>9, <2>11, <2>12, <2>13, <2>14 DEF hours
<1>. QED
  BY <1>1, FactsHold, PTL

-----------------------------------------------------------------------------
(* The trend is complete. *)

LEMMA BucketFacts ==
  ASSUME NEW t \in Int, NEW r \in Nat \ {0}
  PROVE  /\ BucketOf(t, r) \in Int /\ BucketOf(t, r) <= t /\ t < BucketOf(t, r) + r
         /\ \E n \in Int : BucketOf(t, r) = n * r
<1>. DEFINE n == t \div r
            b == BucketOf(t, r)
<1>1. n \in Int /\ b \in Int /\ b <= t /\ t < b + r
  BY DivisionFacts DEF BucketOf
<1>2. b = n * r
  BY DEF BucketOf
<1>. HIDE DEF n
<1>. QED
  BY <1>1, <1>2

\* An instant is in the bucket that starts at the multiple at exactly if it lies
\* within it.
LEMMA InBucket ==
  ASSUME NEW t \in Int, NEW r \in Nat \ {0}, NEW j \in Int, NEW at \in Int, at = j * r
  PROVE  BucketOf(t, r) = at <=> at <= t /\ t < at + r
<1>. DEFINE b == BucketOf(t, r)
<1>1. PICK n \in Int : b = n * r
  BY BucketFacts
<1>2. b \in Int /\ b <= t /\ t < b + r
  BY BucketFacts
<1>. HIDE DEF b
<1>3. ASSUME at <= t, t < at + r
      PROVE  b = at
  <2>1. (n + 1) * r = b + r /\ (j + 1) * r = at + r /\ n + 1 \in Int /\ j + 1 \in Int
    BY <1>1
  <2>2. j <= n
    <3>1. SUFFICES ASSUME n + 1 <= j PROVE FALSE
      OBVIOUS
    <3>2. (n + 1) * r <= j * r
      BY <2>1, <3>1, MultiplesInOrder
    <3>. DEFINE x == (n + 1) * r
                y == j * r
    <3>3. x <= y /\ x = b + r /\ y = at
      BY <2>1, <3>2
    <3>. HIDE DEF x, y
    <3>. QED
      BY <1>2, <1>3, <3>3
  <2>3. n <= j
    <3>1. SUFFICES ASSUME j + 1 <= n PROVE FALSE
      OBVIOUS
    <3>2. (j + 1) * r <= n * r
      BY <2>1, <3>1, MultiplesInOrder
    <3>. DEFINE x == (j + 1) * r
                y == n * r
    <3>3. x <= y /\ x = at + r /\ y = b
      BY <1>1, <2>1, <3>2
    <3>. HIDE DEF x, y
    <3>. QED
      BY <1>2, <1>3, <3>3
  <2>. QED
    BY <1>1, <2>2, <2>3
<1>. QED
  BY <1>2, <1>3 DEF b

\* The remainder is none exactly for multiples.
LEMMA MultipleFacts ==
  ASSUME NEW t \in Int, NEW r \in Nat \ {0}
  PROVE  t % r = 0 <=> \E n \in Int : t = n * r
<1>1. t = (t \div r) * r + (t % r) /\ t \div r \in Int
  OBVIOUS
<1>2. t % r = 0 => t = (t \div r) * r
  BY <1>1
<1>3. ASSUME NEW n \in Int, t = n * r
      PROVE  t % r = 0
  <2>1. BucketOf(t, r) = t
    BY <1>3, InBucket
  <2>2. (t \div r) * r = t
    BY <2>1 DEF BucketOf
  <2>3. t % r \in Int
    OBVIOUS
  <2>. DEFINE x == (t \div r) * r
              y == t % r
  <2>4. t = x + y /\ x = t /\ y \in Int
    BY <1>1, <2>2, <2>3
  <2>. HIDE DEF x, y
  <2>5. y = 0
    BY <2>4
  <2>. QED
    BY <2>5 DEF y
<1>. QED
  BY <1>1, <1>2, <1>3

LEMMA TrendFacts ==
  ASSUME TypeOK
  PROVE  /\ now \in Int /\ TrendTo \in Int /\ TrendFrom \in Int
         /\ {Minute, Quarter, Day} \subseteq Nat \ {0}
         /\ TrendTo <= now /\ now < TrendTo + Minute
         /\ TrendFrom <= TrendTo - Day /\ TrendTo - Day < TrendFrom + Quarter
         /\ \E n \in Int : TrendTo = n * Minute
         /\ \E j \in Int : TrendFrom = j * Quarter
         /\ \E c \in Int : Quarter = c * Minute
         /\ \E d \in Int : Day = d * Minute
         /\ Day + Quarter <= MinuteRetain /\ MinuteRetain \in Nat
<1>1. /\ now \in Int /\ Minute \in Nat \ {0} /\ Quarter \in Nat \ {0} /\ Day \in Nat \ {0}
      /\ Quarter % Minute = 0 /\ Day % Minute = 0 /\ Day + Quarter <= MinuteRetain
      /\ MinuteRetain \in Nat
  BY RollupAssumption, QueryAssumption, IngestAssumption DEF TypeOK
<1>2. TrendTo \in Int /\ TrendTo <= now /\ now < TrendTo + Minute
      /\ \E n \in Int : TrendTo = n * Minute
  BY <1>1, BucketFacts DEF TrendTo
<1>. HIDE DEF TrendTo
<1>3. TrendTo - Day \in Int
  BY <1>1, <1>2
<1>4. /\ TrendFrom \in Int /\ TrendFrom <= TrendTo - Day /\ TrendTo - Day < TrendFrom + Quarter
      /\ \E j \in Int : TrendFrom = j * Quarter
  BY <1>1, <1>3, BucketFacts DEF TrendFrom
<1>5. (\E c \in Int : Quarter = c * Minute) /\ (\E d \in Int : Day = d * Minute)
  <2>1. Quarter \in Int /\ Day \in Int
    BY <1>1
  <2>2. Quarter % Minute = 0 <=> \E c \in Int : Quarter = c * Minute
    BY <1>1, <2>1, MultipleFacts
  <2>3. Day % Minute = 0 <=> \E d \in Int : Day = d * Minute
    BY <1>1, <2>1, MultipleFacts
  <2>. QED
    BY <1>1, <2>2, <2>3
<1>. QED
  BY <1>1, <1>2, <1>4, <1>5

\* The points of the trend are the starts of its quarters.
LEMMA PointFacts ==
  ASSUME TypeOK, NEW at
  PROVE  at \in TrendPoints
           <=> at \in TrendFrom .. TrendTo - 1 /\ \E j \in Int : at = j * Quarter
<1>1. TrendFrom \in Int /\ TrendTo \in Int /\ Quarter \in Nat \ {0}
  BY TrendFacts
<1>2. PICK i \in Int : TrendFrom = i * Quarter
  BY TrendFacts
<1>3. SUFFICES ASSUME NEW t \in TrendFrom .. TrendTo - 1, t = at
               PROVE  (t - TrendFrom) % Quarter = 0 <=> \E j \in Int : t = j * Quarter
  BY DEF TrendPoints
<1>4. t \in Int /\ t - TrendFrom \in Int
  BY <1>1
<1>5. ASSUME NEW n \in Int, t - TrendFrom = n * Quarter
      PROVE  t = (n + i) * Quarter /\ n + i \in Int
  <2>1. (n + i) * Quarter = n * Quarter + i * Quarter /\ n * Quarter \in Int
    BY <1>1
  <2>. QED
    BY <1>1, <1>2, <1>4, <1>5, <2>1
<1>6. ASSUME NEW j \in Int, t = j * Quarter
      PROVE  t - TrendFrom = (j - i) * Quarter /\ j - i \in Int
  <2>1. (j - i) * Quarter = j * Quarter - i * Quarter
    BY <1>1
  <2>. QED
    BY <1>2, <1>6, <2>1
<1>7. (t - TrendFrom) % Quarter = 0 <=> \E n \in Int : t - TrendFrom = n * Quarter
  BY <1>1, <1>4, MultipleFacts
<1>. QED
  BY <1>5, <1>6, <1>7

\* No time of the range is outside of the quarters.
LEMMA TrendCovers ==
  ASSUME TypeOK, NEW e \in EdgeType, Within(e, TrendTo - Day, TrendTo) > 0
  PROVE  \E at \in TrendPoints : Within(e, at, at + Quarter) > 0
<1>. DEFINE t == Greater(e.left.at, TrendTo - Day)
            at == BucketOf(t, Quarter)
<1>1. /\ e.left.at \in Int /\ e.right.at \in Int
      /\ TrendTo \in Int /\ TrendFrom \in Int /\ Day \in Nat /\ Quarter \in Nat \ {0}
      /\ TrendFrom <= TrendTo - Day /\ TrendTo - Day < TrendFrom + Quarter
  BY TrendFacts DEF EdgeType, PointType, Time
<1>2. /\ t \in Int /\ e.left.at <= t /\ TrendTo - Day <= t
      /\ t < e.right.at /\ t < TrendTo
  BY <1>1 DEF Within, Greater, Lesser
<1>. HIDE DEF t
<1>3. at \in Int /\ at <= t /\ t < at + Quarter
  BY <1>1, <1>2, BucketFacts
<1>4. PICK j \in Int : at = j * Quarter
  BY <1>1, <1>2, BucketFacts
<1>. HIDE DEF at
<1>5. PICK i \in Int : TrendFrom = i * Quarter
  BY TrendFacts
<1>6. TrendFrom <= at
  <2>1. SUFFICES ASSUME j + 1 <= i PROVE FALSE
    BY <1>1, <1>4, <1>5, MultiplesInOrder
  <2>2. (j + 1) * Quarter <= i * Quarter
    BY <1>1, <2>1, MultiplesInOrder
  <2>3. (j + 1) * Quarter = at + Quarter
    BY <1>1, <1>4
  <2>4. at + Quarter <= TrendFrom
    BY <1>5, <2>2, <2>3
  <2>. QED
    BY <1>1, <1>2, <1>3, <2>4
<1>7. at \in TrendFrom .. TrendTo - 1
  BY <1>1, <1>2, <1>3, <1>6
<1>8. at \in TrendPoints
  BY <1>4, <1>7, PointFacts
<1>9. Within(e, at, at + Quarter) > 0
  BY <1>1, <1>2, <1>3 DEF Within, Greater, Lesser
<1>. QED
  BY <1>8, <1>9

\* Each point is made of the minutes of its quarter, none of which has expired.
LEMMA TrendIsTime ==
  ASSUME Facts, NEW at \in TrendPoints, NEW hi, hi = Lesser(at + Quarter, TrendTo),
         NEW f \in Field
  PROVE  /\ at \in Int /\ hi \in Int
         /\ SumRows(rollups, TrendRows(at))[f]
              = SumFunctionOnSet(Times(GPU, NoUser, f, at, hi), charged)
<1>1. /\ now \in Int /\ TrendTo \in Int /\ TrendFrom \in Int /\ MinuteRetain \in Nat
      /\ Minute \in Nat \ {0} /\ Quarter \in Nat \ {0} /\ Day \in Nat \ {0}
      /\ TrendTo <= now /\ now < TrendTo + Minute
      /\ TrendFrom <= TrendTo - Day /\ TrendTo - Day < TrendFrom + Quarter
      /\ Day + Quarter <= MinuteRetain
  BY TrendFacts DEF Facts
<1>2. at \in TrendFrom .. TrendTo - 1 /\ at \in Int
  BY <1>1, PointFacts DEF Facts
<1>3. PICK j \in Int : at = j * Quarter
  BY PointFacts DEF Facts
<1>4. PICK c \in Int, d \in Int, n \in Int :
        Quarter = c * Minute /\ Day = d * Minute /\ TrendTo = n * Minute
  BY TrendFacts DEF Facts
<1>5. PICK m \in Int : at = m * Minute
  <2>1. at = (j * c) * Minute /\ j * c \in Int
    BY <1>1, <1>3, <1>4
  <2>. QED
    BY <2>1
<1>6. PICK h \in Int : hi = h * Minute
  <2>1. (m + c) * Minute = at + Quarter /\ m + c \in Int
    BY <1>1, <1>4, <1>5
  <2>. QED
    BY <1>4, <2>1 DEF Lesser
<1>7. hi \in Int /\ at <= hi /\ hi <= at + Quarter /\ hi <= TrendTo
  BY <1>1, <1>2 DEF Lesser
<1>8. m <= h
  BY <1>1, <1>5, <1>6, <1>7, MultiplesInOrder
<1>9. Minute \in Resolutions /\ Kept(Minute) = MinuteRetain
  BY DEF Resolutions, Kept
<1>10. ~ (at < now - MinuteRetain)
  <2>1. PICK i \in Int : TrendFrom = i * Minute
    <3>1. PICK x \in Int : TrendFrom = x * Quarter
      BY TrendFacts DEF Facts
    <3>2. TrendFrom = (x * c) * Minute /\ x * c \in Int
      BY <1>1, <1>4, <3>1
    <3>. QED
      BY <3>2
  <2>. DEFINE before == n - d - c
  <2>2. before \in Int /\ before * Minute = TrendTo - Day - Quarter
    BY <1>1, <1>4
  <2>3. ~ (i <= before)
    <3>1. ~ (TrendFrom <= TrendTo - Day - Quarter)
      BY <1>1
    <3>. HIDE DEF before
    <3>. QED
      BY <1>1, <2>1, <2>2, <3>1, MultiplesInOrder
  <2>. HIDE DEF before
  <2>4. (before + 1) * Minute <= TrendFrom
    BY <1>1, <2>1, <2>2, <2>3, MultiplesInOrder
  <2>5. (before + 1) * Minute = TrendTo - Day - Quarter + Minute
    <3>1. (before + 1) * Minute = before * Minute + Minute
      BY <1>1, <2>2
    <3>. QED
      BY <2>2, <3>1
  <2>6. TrendTo - Day - Quarter + Minute <= TrendFrom
    BY <2>4, <2>5
  <2>. QED
    BY <1>1, <1>2, <2>6
<1>11. PICK lo \in Int :
            /\ at <= lo /\ lo <= hi
            /\ lo = at \/ (at < now - Kept(Minute) /\ lo < now - Kept(Minute) + Minute)
            /\ \A G, u : \A x \in Field :
                  SumRows(rollups, RangeRows(G, u, Minute, at, hi))[x]
                    = SumFunctionOnSet(Times(G, u, x, lo, hi), charged)
  BY <1>2, <1>5, <1>6, <1>7, <1>8, <1>9, RangeIsTime
<1>12. lo = at
  BY <1>9, <1>10, <1>11
<1>13. TrendRows(at) = RangeRows(GPU, NoUser, Minute, at, hi)
  <2>1. ASSUME NEW k \in DOMAIN rollups
        PROVE  k.gpu \in GPU /\ k.bucket \in Int
    BY DEF Facts, TypeOK, RollupKey
  <2>2. ASSUME NEW k \in DOMAIN rollups
        PROVE  k \in TrendRows(at) <=> k \in RangeRows(GPU, NoUser, Minute, at, hi)
    <3>1. k.gpu \in GPU /\ k.bucket \in Int
      BY <2>1
    <3>2. BucketOf(k.bucket, Quarter) = at <=> at <= k.bucket /\ k.bucket < at + Quarter
      BY <1>1, <1>2, <1>3, <3>1, InBucket
    <3>3. (k.bucket >= TrendFrom /\ k.bucket < TrendTo /\ BucketOf(k.bucket, Quarter) = at)
             <=> (k.bucket >= at /\ k.bucket < hi)
      <4>1. hi = IF at + Quarter < TrendTo THEN at + Quarter ELSE TrendTo
        BY DEF Lesser
      <4>2. TrendFrom <= at
        BY <1>2
      <4>. QED
        BY <1>1, <1>2, <3>1, <3>2, <4>1, <4>2
    <3>. QED
      BY <3>1, <3>3 DEF TrendRows, RangeRows
  <2>. QED
    BY <2>2 DEF TrendRows, RangeRows
<1>. QED
  BY <1>2, <1>7, <1>11, <1>12, <1>13

\* What an edge adds to a point of the trend: nothing unless it is utilised in it.
LEMMA TrendWeights ==
  ASSUME Facts, NEW e \in charged
  PROVE  /\ e \in EdgeType /\ (Util(e.left) # NoUtil => Util(e.left) \in Nat)
         /\ Weight(e, GPU, NoUser, "utilValid")
              = IF Integrable(e.left, e.right) /\ Util(e.left) # NoUtil THEN 1 ELSE 0
         /\ Weight(e, GPU, NoUser, "weighted")
              = IF Integrable(e.left, e.right) /\ Util(e.left) # NoUtil
                THEN Util(e.left) ELSE 0
<1>1. e \in EdgeType /\ e.left.gpu \in GPU /\ (Util(e.left) # NoUtil => Util(e.left) \in Nat)
  <2>1. e \in EdgeType
    BY EdgesFinite DEF Facts
  <2>. QED
    BY <2>1 DEF EdgeType, PointType, Util
<1>2. NoUser \in Payers(e.left)
  BY DEF Payers
<1>3. /\ CardShare(e.left, 1).utilValid = IF Util(e.left) # NoUtil THEN 1 ELSE 0
      /\ CardShare(e.left, 1).weighted = IF Util(e.left) # NoUtil THEN Util(e.left) ELSE 0
  BY <1>1 DEF CardShare
<1>. QED
  BY <1>1, <1>2, <1>3 DEF Weight

\* The trend has a point for each quarter of an hour, made of all that was observed in
\* it up to the last full minute, and a quarter without a point is one in which no
\* utilisation was observed (clusterHistory, cluster.go).
THEOREM TrendIsWhole == Spec => []TrendIsComplete
<1>1. Facts => TrendIsComplete
  <2>1. SUFFICES ASSUME Facts PROVE TrendIsComplete
    OBVIOUS
  <2>2. IsFiniteSet(charged) /\ charged \in SUBSET EdgeType /\ TypeOK
    BY <2>1, EdgesFinite DEF Facts
  <2>3. ASSUME NEW e \in Utilised(TrendTo - Day, TrendTo)
        PROVE  \E at \in TrendPoints : Within(e, at, at + Quarter) > 0
    <3>1. e \in EdgeType /\ Within(e, TrendTo - Day, TrendTo) > 0
      BY <2>2 DEF Utilised
    <3>. QED
      BY <2>2, <3>1, TrendCovers
  <2>4. ASSUME NEW at \in TrendPoints, NEW hi, hi = Lesser(at + Quarter, TrendTo)
        PROVE  Trend(at) = [weighted |-> UtilTotal(Utilised(at, hi), at, hi),
                            valid    |-> Total(Utilised(at, hi), at, hi)]
    <3>. DEFINE E == Utilised(at, hi)
                V == Times(GPU, NoUser, "utilValid", at, hi)
                W == Times(GPU, NoUser, "weighted", at, hi)
                T == [e \in E |-> Within(e, at, hi)]
                U == [e \in E |-> Within(e, at, hi) * Util(e.left)]
    <3>1. "utilValid" \in Field /\ "weighted" \in Field
      BY DEF Field
    <3>2. /\ at \in Int /\ hi \in Int
          /\ SumRows(rollups, TrendRows(at)).utilValid = SumFunctionOnSet(V, charged)
          /\ SumRows(rollups, TrendRows(at)).weighted = SumFunctionOnSet(W, charged)
      BY <2>1, <2>4, <3>1, TrendIsTime
    <3>3. ASSUME NEW e \in charged
          PROVE  /\ V[e] \in Int /\ W[e] \in Int
                 /\ e \in E => V[e] = T[e] /\ W[e] = U[e]
                 /\ e \notin E => V[e] = 0 /\ W[e] = 0
      <4>. DEFINE x == Within(e, at, hi)
                  u == Util(e.left)
                  ok == Integrable(e.left, e.right) /\ Util(e.left) # NoUtil
      <4>1. e \in EdgeType /\ (ok => u \in Nat) /\ x \in Nat
        BY <2>1, <3>2, TrendWeights, WithinType
      <4>2. V[e] = (IF ok THEN 1 ELSE 0) * x /\ W[e] = (IF ok THEN u ELSE 0) * x
        BY <2>1, TrendWeights DEF Times, TimeIn
      <4>3. e \in E <=> ok /\ x > 0
        BY DEF Utilised
      <4>4. e \in E => T[e] = x /\ U[e] = x * u
        OBVIOUS
      <4>. HIDE DEF x, u, ok, E, V, W, T, U
      <4>5. CASE ok
        <5>1. V[e] = x /\ W[e] = u * x /\ u * x = x * u /\ u * x \in Int
          BY <4>1, <4>2, <4>5
        <5>2. x = 0 => u * x = 0
          BY <4>1, <4>5
        <5>3. e \notin E => x = 0
          BY <4>1, <4>3, <4>5
        <5>. QED
          BY <4>1, <4>4, <5>1, <5>2, <5>3
      <4>6. CASE ~ ok
        <5>1. V[e] = 0 /\ W[e] = 0
          BY <4>1, <4>2, <4>6
        <5>. QED
          BY <4>3, <4>6, <5>1
      <4>. QED
        BY <4>5, <4>6
    <3>4. E \in SUBSET charged
      BY DEF Utilised
    <3>5. Total(E, at, hi) = SumFunctionOnSet(T, E) /\ UtilTotal(E, at, hi) = SumFunctionOnSet(U, E)
      BY DEF Total, UtilTotal
    <3>6. Trend(at) = [weighted |-> SumFunctionOnSet(W, charged),
                       valid    |-> SumFunctionOnSet(V, charged)]
      BY <3>2 DEF Trend
    <3>. HIDE DEF E, V, W, T, U
    <3>7. IsFiniteSet(E)
      BY <2>2, <3>4, FS_Subset
    <3>8. SumFunctionOnSet(V, charged) = SumFunctionOnSet(T, E)
      <4>1. SumFunctionOnSet(V, charged) = SumFunctionOnSet(V, E)
        BY <2>2, <3>3, <3>4, IntSumRestrict
      <4>2. \A e \in E : V[e] \in Int /\ V[e] = T[e]
        BY <3>3, <3>4
      <4>3. SumFunctionOnSet(V, E) = SumFunctionOnSet(T, E)
        BY <3>7, <4>2, IntSumSame
      <4>. QED
        BY <4>1, <4>3
    <3>9. SumFunctionOnSet(W, charged) = SumFunctionOnSet(U, E)
      <4>1. SumFunctionOnSet(W, charged) = SumFunctionOnSet(W, E)
        BY <2>2, <3>3, <3>4, IntSumRestrict
      <4>2. \A e \in E : W[e] \in Int /\ W[e] = U[e]
        BY <3>3, <3>4
      <4>3. SumFunctionOnSet(W, E) = SumFunctionOnSet(U, E)
        BY <3>7, <4>2, IntSumSame
      <4>. QED
        BY <4>1, <4>3
    <3>. QED
      BY <3>5, <3>6, <3>8, <3>9 DEF E
  <2>. QED
    BY <2>3, <2>4 DEF TrendIsComplete
<1>. QED
  BY <1>1, FactsHold, PTL
=============================================================================
