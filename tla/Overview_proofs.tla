-------------------------- MODULE Overview_proofs --------------------------
(***************************************************************************)
(* Theorems about Overview: what the dashboard counts is what the resource *)
(* page lists, for every list of nodes that polls may bring, every filter  *)
(* left from before and every button.                                      *)
(***************************************************************************)
EXTENDS Overview, FiniteSetTheorems, TLAPS

-----------------------------------------------------------------------------
(* Cards that are counted in parts. *)

\* The element with which a fold goes on.
Pick(T) == CHOOSE x \in T : TRUE

\* Induction over the subsets of a finite set, as a fold goes through it.
LEMMA FoldInduction ==
  ASSUME NEW S, IsFiniteSet(S), NEW P, {} \in P,
         \A T \in SUBSET S : T # {} /\ T \ {Pick(T)} \in P => T \in P
  PROVE  \A T \in SUBSET S : T \in P
<1>. DEFINE Rest == {T \in SUBSET S : T \notin P}
<1>1. SUFFICES ASSUME Rest # {} PROVE FALSE
  OBVIOUS
<1>2. IsWellFoundedOn(StrictSubsetOrdering(S), SUBSET S)
  BY FS_StrictSubsetOrderingWellFounded, FS_FiniteSubsetsOfFinite
<1>3. Rest \subseteq SUBSET S
  OBVIOUS
<1>. HIDE DEF Rest
<1>4. PICK T \in Rest : \A U \in Rest : ~ (<<U, T>> \in StrictSubsetOrdering(S))
  BY <1>1, <1>2, <1>3, WFMin
<1>5. T \in SUBSET S /\ T \notin P
  BY <1>4 DEF Rest
<1>6. T # {} /\ Pick(T) \in T
  BY <1>5 DEF Pick
<1>7. T \ {Pick(T)} \notin P
  BY <1>5, <1>6
<1>8. T \ {Pick(T)} \in Rest
  BY <1>5, <1>7 DEF Rest
<1>9. <<T \ {Pick(T)}, T>> \in StrictSubsetOrdering(S)
  BY <1>5, <1>6 DEF StrictSubsetOrdering
<1>. QED
  BY <1>4, <1>8, <1>9

Together(A, S) == UNION {A[x] : x \in S}

\* Finitely many finite sets without common elements hold as many as they have together.
LEMMA CountedApart ==
  ASSUME NEW S, IsFiniteSet(S), NEW A, \A x \in S : IsFiniteSet(A[x]),
         \A x, y \in S : x # y => A[x] \cap A[y] = {},
         NEW F, \A x \in S : F[x] = Cardinality(A[x])
  PROVE  /\ IsFiniteSet(Together(A, S))
         /\ SumFunctionOnSet(F, S) = Cardinality(Together(A, S))
<1>. DEFINE all(T) == Together(A, T)
            count(T) == Cardinality(all(T))
            less(T) == T \ {Pick(T)}
            body(f) == [T \in SUBSET S |-> IF T = {} THEN 0 ELSE F[Pick(T)] + f[less(T)]]
            sum == CHOOSE f : f = body(f)
            g == [T \in SUBSET S |-> count(T)]
            P == {T \in SUBSET S : IsFiniteSet(all(T))}
            Q == {T \in SUBSET S : sum[T] = count(T)}
<1>1. all({}) = {} /\ IsFiniteSet({}) /\ count({}) = 0
  BY FS_EmptySet DEF Together
<1>2. ASSUME NEW T \in SUBSET S, T # {}
      PROVE  /\ Pick(T) \in S /\ less(T) \in SUBSET S
             /\ all(T) = A[Pick(T)] \cup all(less(T)) /\ A[Pick(T)] \cap all(less(T)) = {}
  <2>1. Pick(T) \in T
    BY <1>2 DEF Pick
  <2>. DEFINE x == Pick(T)
  <2>. HIDE DEF x
  <2>2. x \in T /\ x \in S
    BY <2>1 DEF x
  <2>3. all(T) = A[x] \cup all(T \ {x})
    BY <2>2 DEF Together
  <2>4. A[x] \cap all(T \ {x}) = {}
    BY <2>2 DEF Together
  <2>. QED
    BY <2>2, <2>3, <2>4 DEF x
<1>. HIDE DEF all
<1>3. ASSUME NEW T \in SUBSET S
      PROVE  IsFiniteSet(all(T))
  <2>1. {} \in P
    BY <1>1
  <2>2. ASSUME NEW U \in SUBSET S, U # {}, less(U) \in P
        PROVE  U \in P
    <3>1. IsFiniteSet(A[Pick(U)]) /\ IsFiniteSet(all(less(U)))
      BY <1>2, <2>2
    <3>2. IsFiniteSet(A[Pick(U)] \cup all(less(U)))
      BY <3>1, FS_Union
    <3>. QED
      BY <1>2, <2>2, <3>2
  <2>3. T \in P
    <3>. HIDE DEF P
    <3>. QED
      BY <2>1, <2>2, FoldInduction
  <2>. QED
    BY <2>3
<1>4. ASSUME NEW T \in SUBSET S, T # {}
      PROVE  count(T) = F[Pick(T)] + count(less(T))
  <2>. DEFINE B == A[Pick(T)]
              C == all(less(T))
  <2>1. IsFiniteSet(B) /\ IsFiniteSet(C) /\ all(T) = B \cup C /\ B \cap C = {}
        /\ F[Pick(T)] = Cardinality(B)
    BY <1>2, <1>3, <1>4
  <2>. HIDE DEF B, C
  <2>2. Cardinality(B \cup C) = Cardinality(B) + Cardinality(C) - Cardinality(B \cap C)
    BY <2>1, FS_Union
  <2>3. Cardinality(B) \in Nat /\ Cardinality(C) \in Nat /\ Cardinality(B \cap C) = 0
    BY <2>1, FS_CardinalityType, FS_EmptySet
  <2>4. Cardinality(B \cup C) = Cardinality(B) + Cardinality(C)
    BY <2>2, <2>3
  <2>. QED
    BY <2>1, <2>4 DEF C
<1>5. SumFunctionOnSet(F, S) = sum[S]
  BY DEF SumFunctionOnSet, FoldFunctionOnSet, MapThenFoldSet, Pick
<1>. HIDE DEF count
<1>6. g = body(g)
  <2>1. \A T \in SUBSET S : g[T] = IF T = {} THEN 0 ELSE F[Pick(T)] + g[less(T)]
    BY <1>1, <1>2, <1>4
  <2>. QED
    BY <2>1
<1>7. sum = body(sum)
  <2>. HIDE DEF body, g
  <2>. QED
    BY <1>6
<1>. HIDE DEF sum
<1>8. {} \in Q
  BY <1>1, <1>7
<1>9. ASSUME NEW T \in SUBSET S, T # {}, less(T) \in Q
      PROVE  T \in Q
  <2>1. count(T) = F[Pick(T)] + count(less(T)) /\ less(T) \in SUBSET S
    BY <1>2, <1>4, <1>9
  <2>2. sum[less(T)] = count(less(T))
    BY <1>9
  <2>. HIDE DEF less
  <2>3. body(sum)[T] = F[Pick(T)] + sum[less(T)]
    BY <1>9
  <2>. QED
    BY <1>7, <2>1, <2>2, <2>3
<1>10. S \in Q
  <2>. HIDE DEF Q
  <2>. QED
    BY <1>8, <1>9, FoldInduction
<1>. QED
  BY <1>3, <1>5, <1>10 DEF all, count

-----------------------------------------------------------------------------
(* Lists of nodes and their cards. *)

\* The list is one that a poll brought, or still empty.
LEMMA ListFacts ==
  ASSUME TypeOK
  PROVE  IsList(nodes)
<1>1. IsList({})
  BY FS_EmptySet DEF IsList, NodeList
<1>. QED
  BY <1>1, OverviewAssumption DEF TypeOK

LEMMA CardType ==
  ASSUME NEW list, IsList(list), NEW c \in CardsOf(list)
  PROVE  /\ c.n \in list /\ c.n \in Node /\ c.g \in c.n.gpus /\ c.g \in GPU
         /\ c = [g |-> c.g, n |-> c.n]
<1>1. PICK n \in list : \E g \in n.gpus : c = [g |-> g, n |-> n]
  BY DEF CardsOf
<1>2. n \in Node
  BY DEF IsList, NodeList
<1>. QED
  BY <1>1, <1>2 DEF Node

LEMMA CardIn ==
  ASSUME NEW list, NEW n \in list, NEW g \in n.gpus
  PROVE  [g |-> g, n |-> n] \in CardsOf(list)
  BY DEF CardsOf

\* The card without the rest of its node, which a filter may have cut.
Name(c) == <<c.n.id, c.g>>

Names(C) == {Name(c) : c \in C}

\* Cards of a list are told apart by the id of the node and what they are.
LEMMA NamesCount ==
  ASSUME NEW list, IsList(list), NEW C \in SUBSET CardsOf(list), IsFiniteSet(C)
  PROVE  IsFiniteSet(Names(C)) /\ Cardinality(Names(C)) = Cardinality(C)
<1>. DEFINE f == [c \in C |-> Name(c)]
<1>1. \A c, d \in C : Name(c) = Name(d) => c = d
  <2>. SUFFICES ASSUME NEW c \in C, NEW d \in C, Name(c) = Name(d)
                PROVE  c = d
    OBVIOUS
  <2>1. c.n \in list /\ d.n \in list /\ c = [g |-> c.g, n |-> c.n] /\ d = [g |-> d.g, n |-> d.n]
    BY CardType
  <2>2. c.n.id = d.n.id /\ c.g = d.g
    BY DEF Name
  <2>3. c.n = d.n
    BY <2>1, <2>2 DEF IsList
  <2>. QED
    BY <2>1, <2>2, <2>3
<1>2. f \in Bijection(C, Names(C))
  BY <1>1 DEF Bijection, Injection, Surjection, IsInjective, Names
<1>3. ExistsBijection(C, Names(C))
  BY <1>2 DEF ExistsBijection
<1>. QED
  BY <1>3, FS_Bijection

\* A list has finitely many cards.
LEMMA CardsFinite ==
  ASSUME NEW list, IsList(list), NEW C \in SUBSET CardsOf(list)
  PROVE  IsFiniteSet(C) /\ Cardinality(C) \in Nat
<1>. DEFINE A == [n \in list |-> {[g |-> g, n |-> n] : g \in n.gpus}]
            F == [n \in list |-> Cardinality(A[n])]
<1>1. \A n \in list : IsFiniteSet(A[n])
  <2>. SUFFICES ASSUME NEW n \in list
                PROVE  IsFiniteSet({[g |-> g, n |-> n] : g \in n.gpus})
    OBVIOUS
  <2>1. IsFiniteSet(n.gpus)
    BY DEF IsList
  <2>. DEFINE h == [g \in n.gpus |-> [g |-> g, n |-> n]]
  <2>2. h \in Surjection(n.gpus, {[g |-> g, n |-> n] : g \in n.gpus})
    BY DEF Surjection
  <2>. HIDE DEF h
  <2>. QED
    BY <2>1, <2>2, FS_Surjection
<1>2. \A x, y \in list : x # y => A[x] \cap A[y] = {}
  OBVIOUS
<1>3. \A n \in list : F[n] = Cardinality(A[n])
  OBVIOUS
<1>4. Together(A, list) = CardsOf(list)
  BY DEF CardsOf, Together
<1>5. IsFiniteSet(list)
  BY DEF IsList
<1>. HIDE DEF A, F
<1>6. IsFiniteSet(Together(A, list))
  BY <1>1, <1>2, <1>3, <1>5, CountedApart
<1>. QED
  BY <1>4, <1>6, FS_Subset, FS_CardinalityType

\* The cards that K gives each node of a list, added up.
LEMMA SumOfCards ==
  ASSUME NEW list, IsList(list), NEW K, \A n \in list : K[n] \in SUBSET n.gpus
  PROVE  SumFunctionOnSet([n \in list |-> Cardinality(K[n])], list)
           = Cardinality({c \in CardsOf(list) : c.g \in K[c.n]})
<1>. DEFINE A == [n \in list |-> {[g |-> g, n |-> n] : g \in K[n]}]
            F == [n \in list |-> Cardinality(K[n])]
<1>1. ASSUME NEW n \in list
      PROVE  IsFiniteSet(A[n]) /\ F[n] = Cardinality(A[n])
  <2>1. IsFiniteSet(n.gpus) /\ K[n] \in SUBSET n.gpus
    BY DEF IsList
  <2>2. IsFiniteSet(K[n])
    BY <2>1, FS_Subset
  <2>. DEFINE h == [g \in K[n] |-> [g |-> g, n |-> n]]
  <2>3. h \in Bijection(K[n], A[n])
    BY DEF Bijection, Injection, Surjection, IsInjective
  <2>4. ExistsBijection(K[n], A[n])
    BY <2>3 DEF ExistsBijection
  <2>5. F[n] = Cardinality(K[n])
    OBVIOUS
  <2>. HIDE DEF A, F
  <2>. QED
    BY <2>2, <2>4, <2>5, FS_Bijection
<1>2. \A x, y \in list : x # y => A[x] \cap A[y] = {}
  OBVIOUS
<1>3. Together(A, list) = {c \in CardsOf(list) : c.g \in K[c.n]}
  <2>1. ASSUME NEW c \in Together(A, list)
        PROVE  c \in CardsOf(list) /\ c.g \in K[c.n]
    <3>1. PICK n \in list : c \in A[n]
      BY DEF Together
    <3>2. PICK g \in K[n] : c = [g |-> g, n |-> n]
      BY <3>1
    <3>3. g \in n.gpus
      BY <3>2
    <3>4. [g |-> g, n |-> n] \in CardsOf(list)
      BY <3>3, CardIn
    <3>. QED
      BY <3>2, <3>4
  <2>2. ASSUME NEW c \in CardsOf(list), c.g \in K[c.n]
        PROVE  c \in Together(A, list)
    <3>1. c.n \in list /\ c = [g |-> c.g, n |-> c.n]
      BY CardType
    <3>2. c \in A[c.n]
      BY <2>2, <3>1
    <3>. QED
      BY <3>1, <3>2 DEF Together
  <2>. QED
    BY <2>1, <2>2
<1>4. IsFiniteSet(list)
  BY DEF IsList
<1>. HIDE DEF A, F
<1>5. SumFunctionOnSet(F, list) = Cardinality(Together(A, list))
  <2>1. \A n \in list : IsFiniteSet(A[n])
    BY <1>1
  <2>2. \A n \in list : F[n] = Cardinality(A[n])
    BY <1>1
  <2>. QED
    BY <1>2, <1>4, <2>1, <2>2, CountedApart
<1>. QED
  BY <1>3, <1>5 DEF F

-----------------------------------------------------------------------------
(* What the resource page lists. *)

Placed(n) == filter.nodeId \in {n.id, Any} /\ filter.tag \in n.tags \cup {Any}

Cut(n) == [n EXCEPT !.gpus = {g \in n.gpus : Fits(g, n)}]

LEMMA ListedMeans ==
  /\ Listed \subseteq {Cut(n) : n \in {m \in nodes : Placed(m)}}
  /\ \A n \in nodes : Placed(n) /\ (Cut(n).gpus # {} \/ BareNodeFits(Cut(n))) => Cut(n) \in Listed
  /\ \A l \in Listed : l.gpus # {} \/ BareNodeFits(l)
  BY DEF Listed, Placed, Cut

LEMMA CutType ==
  ASSUME NEW n \in Node
  PROVE  /\ Cut(n) \in Node /\ Cut(n).id = n.id /\ Cut(n).tags = n.tags
         /\ Cut(n).gpus = {g \in n.gpus : Fits(g, n)}
  BY DEF Cut, Node

\* A filtered list is a list, and holds the cards that fit.
LEMMA ListedCount ==
  ASSUME TypeOK
  PROVE  /\ IsList(Listed)
         /\ SumFunctionOnSet([n \in Listed |-> Cardinality(n.gpus)], Listed)
              = Cardinality({c \in CardsOf(nodes) : Placed(c.n) /\ Fits(c.g, c.n)})
<1>. DEFINE placed == {n \in nodes : Placed(n)}
            fit == {c \in CardsOf(nodes) : Placed(c.n) /\ Fits(c.g, c.n)}
            L == Listed
<1>1. IsList(nodes)
  BY ListFacts
<1>2. \A n \in nodes : /\ Cut(n) \in Node /\ Cut(n).id = n.id
                       /\ Cut(n).gpus = {g \in n.gpus : Fits(g, n)} /\ n \in Node
  BY <1>1, CutType DEF IsList, NodeList
<1>3. \A l \in L : \E n \in placed : l = Cut(n)
  BY ListedMeans
<1>4. IsFiniteSet(L)
  <2>1. IsFiniteSet(placed)
    BY <1>1, FS_Subset DEF IsList
  <2>. DEFINE h == [n \in placed |-> Cut(n)]
  <2>2. h \in Surjection(placed, {Cut(n) : n \in placed})
    BY DEF Surjection
  <2>3. IsFiniteSet({Cut(n) : n \in placed})
    <3>. HIDE DEF h, placed
    <3>. QED
      BY <2>1, <2>2, FS_Surjection
  <2>4. L \subseteq {Cut(n) : n \in placed}
    BY <1>3
  <2>. QED
    BY <2>3, <2>4, FS_Subset
<1>5. \A l \in L : IsFiniteSet(l.gpus)
  <2>. SUFFICES ASSUME NEW l \in L
                PROVE  IsFiniteSet(l.gpus)
    OBVIOUS
  <2>1. PICK n \in nodes : l = Cut(n)
    BY <1>3
  <2>2. l.gpus \subseteq n.gpus /\ IsFiniteSet(n.gpus)
    BY <1>1, <1>2, <2>1 DEF IsList
  <2>. QED
    BY <2>2, FS_Subset
<1>6. \A k, l \in L : k.id = l.id => k = l
  <2>. SUFFICES ASSUME NEW k \in L, NEW l \in L, k.id = l.id
                PROVE  k = l
    OBVIOUS
  <2>1. PICK m \in nodes : k = Cut(m)
    BY <1>3
  <2>2. PICK n \in nodes : l = Cut(n)
    BY <1>3
  <2>3. m.id = n.id
    BY <1>2, <2>1, <2>2
  <2>. QED
    BY <1>1, <2>1, <2>2, <2>3 DEF IsList
<1>7. L \in NodeList
  BY <1>2, <1>3 DEF NodeList
<1>8. IsList(L)
  BY <1>4, <1>5, <1>6, <1>7 DEF IsList
<1>9. SumFunctionOnSet([n \in L |-> Cardinality(n.gpus)], L) = Cardinality(CardsOf(L))
  <2>. DEFINE K == [n \in L |-> n.gpus]
  <2>1. \A n \in L : K[n] \in SUBSET n.gpus /\ K[n] = n.gpus
    OBVIOUS
  <2>. HIDE DEF K, L
  <2>2. SumFunctionOnSet([n \in L |-> Cardinality(K[n])], L)
          = Cardinality({c \in CardsOf(L) : c.g \in K[c.n]})
    BY <1>8, <2>1, SumOfCards
  <2>3. {c \in CardsOf(L) : c.g \in K[c.n]} = CardsOf(L)
    BY <1>8, <2>1, CardType
  <2>4. [n \in L |-> Cardinality(K[n])] = [n \in L |-> Cardinality(n.gpus)]
    BY <2>1
  <2>. QED
    BY <2>2, <2>3, <2>4
<1>10. Names(CardsOf(L)) = Names(fit)
  <2>1. ASSUME NEW c \in CardsOf(L)
        PROVE  Name(c) \in Names(fit)
    <3>1. c.n \in L /\ c.g \in c.n.gpus
      BY <1>8, CardType
    <3>2. PICK n \in nodes : c.n = Cut(n) /\ Placed(n)
      BY <1>3, <3>1
    <3>3. c.n.id = n.id /\ c.g \in n.gpus /\ Fits(c.g, n)
      BY <1>2, <3>1, <3>2
    <3>. DEFINE d == [g |-> c.g, n |-> n]
    <3>4. d \in CardsOf(nodes)
      BY <3>3, CardIn
    <3>5. d \in fit /\ Name(d) = Name(c)
      BY <3>2, <3>3, <3>4 DEF Name
    <3>. QED
      BY <3>5 DEF Names
  <2>2. ASSUME NEW c \in fit
        PROVE  Name(c) \in Names(CardsOf(L))
    <3>1. c \in CardsOf(nodes) /\ c.n \in nodes /\ c.g \in c.n.gpus
          /\ Placed(c.n) /\ Fits(c.g, c.n)
      BY <1>1, CardType
    <3>. DEFINE n == c.n
                d == [g |-> c.g, n |-> Cut(n)]
    <3>2. c.g \in Cut(n).gpus /\ Cut(n).id = n.id
      BY <1>2, <3>1
    <3>3. Cut(n) \in L
      BY <3>1, <3>2, ListedMeans
    <3>4. d \in CardsOf(L)
      BY <3>2, <3>3, CardIn
    <3>5. Name(d) = Name(c)
      BY <3>2 DEF Name
    <3>. QED
      BY <3>4, <3>5 DEF Names
  <2>. QED
    BY <2>1, <2>2 DEF Names
<1>11. Cardinality(CardsOf(L)) = Cardinality(fit)
  <2>1. fit \in SUBSET CardsOf(nodes) /\ CardsOf(L) \in SUBSET CardsOf(L)
    OBVIOUS
  <2>. HIDE DEF fit, L
  <2>2. IsFiniteSet(fit) /\ IsFiniteSet(CardsOf(L))
    BY <1>1, <1>8, <2>1, CardsFinite
  <2>. QED
    BY <1>1, <1>8, <1>10, <2>1, <2>2, NamesCount
<1>. QED
  BY <1>8, <1>9, <1>11

-----------------------------------------------------------------------------
(* Cards that are idle. *)

LEMMA BiggestOfTwo ==
  ASSUME NEW m \in Int, NEW n \in Int
  PROVE  Max({m, n}) = IF m >= n THEN m ELSE n
<1>. DEFINE b == IF m >= n THEN m ELSE n
<1>1. b \in {m, n} /\ \A x \in {m, n} : b >= x
  OBVIOUS
<1>2. \A y \in {m, n} : (\A x \in {m, n} : y >= x) => y = b
  OBVIOUS
<1>. QED
  BY <1>1, <1>2 DEF Max

LEMMA CapacityType ==
  ASSUME NEW g \in GPU
  PROVE  CapacityKey(g) \in Nat \cup {Null}
<1>1. CASE Positive(g.memory_total)
  <2>. DEFINE m == (g.memory_total + GiB \div 2) \div GiB
  <2>1. g.memory_total \in Nat
    BY <1>1 DEF Positive, Known, GPU, Metric
  <2>2. m \in Nat
    BY <2>1 DEF GiB
  <2>. HIDE DEF m
  <2>3. Max({1, m}) \in Nat
    BY <2>2, BiggestOfTwo
  <2>. QED
    BY <1>1, <2>3 DEF CapacityKey, m
<1>2. CASE ~ Positive(g.memory_total)
  BY <1>2 DEF CapacityKey
<1>. QED
  BY <1>1, <1>2

\* The dashboard has a state for idle, the badge a word, the filter a predicate: one rule.
LEMMA IdleIsIdle ==
  ASSUME NEW g, NEW n
  PROVE  /\ GPUState(g, n) = "idle" <=> Idle(g, n)
         /\ Badge(g, n) = "idle" <=> Idle(g, n)
         /\ StatusFits("idle", g, n) <=> Idle(g, n)
<1>1. Idle(g, n) => n.online /\ ~ Bad(g) /\ ~ TooHot(g)
  BY DEF Idle, Bad
<1>2. GPUState(g, n) = "idle" <=> Idle(g, n)
  BY <1>1 DEF GPUState
<1>3. Badge(g, n) = "idle" <=> Idle(g, n)
  BY <1>1 DEF Badge
<1>4. StatusFits("idle", g, n) <=> Idle(g, n)
  BY DEF StatusFits
<1>. QED
  BY <1>2, <1>3, <1>4

LEMMA IdleState ==
  ASSUME NEW list
  PROVE  InState(list, {"idle"}) = {c \in CardsOf(list) : Idle(c.g, c.n)}
  BY IdleIsIdle DEF InState

\* The idle cards that the rows of the models share out.
LEMMA IdleByModel ==
  ASSUME NEW list, IsList(list)
  PROVE  SumFunctionOnSet([m \in Models(list) |-> IdleOf(list, m)], Models(list))
           = Cardinality(InState(list, {"idle"}))
<1>. DEFINE idle == InState(list, {"idle"})
            M == Models(list)
            model(c) == [name |-> c.g.name, capacity |-> CapacityKey(c.g)]
            A == [m \in M |-> {c \in idle : c.g.name = m.name /\ CapacityKey(c.g) = m.capacity}]
            F == [m \in M |-> IdleOf(list, m)]
<1>1. idle \in SUBSET CardsOf(list)
  BY DEF InState
<1>2. M = {model(c) : c \in CardsOf(list)}
  BY DEF Models
<1>3. IsFiniteSet(M)
  <2>. DEFINE h == [c \in CardsOf(list) |-> model(c)]
  <2>1. h \in Surjection(CardsOf(list), M)
    BY <1>2 DEF Surjection
  <2>2. IsFiniteSet(CardsOf(list))
    BY CardsFinite
  <2>. HIDE DEF h, M
  <2>. QED
    BY <2>1, <2>2, FS_Surjection
<1>4. ASSUME NEW m \in M
      PROVE  A[m] \in SUBSET idle /\ F[m] = Cardinality(A[m]) /\ IsFiniteSet(A[m])
  <2>1. A[m] \in SUBSET idle
    OBVIOUS
  <2>2. F[m] = Cardinality(A[m])
    BY DEF IdleOf
  <2>. HIDE DEF A, F, idle
  <2>3. IsFiniteSet(A[m])
    BY <1>1, <2>1, CardsFinite
  <2>. QED
    BY <2>1, <2>2, <2>3
<1>5. \A x, y \in M : x # y => A[x] \cap A[y] = {}
  <2>1. \A x \in M : x = [name |-> x.name, capacity |-> x.capacity]
    BY <1>2
  <2>. QED
    BY <2>1
<1>6. Together(A, M) = idle
  <2>1. \A c \in idle : model(c) \in M /\ c \in A[model(c)]
    BY <1>1, <1>2
  <2>2. \A m \in M : A[m] \subseteq idle
    BY <1>4
  <2>. HIDE DEF A, M, idle, model
  <2>. QED
    BY <2>1, <2>2 DEF Together
<1>. HIDE DEF A, F, M
<1>7. SumFunctionOnSet(F, M) = Cardinality(Together(A, M))
  <2>1. \A m \in M : IsFiniteSet(A[m])
    BY <1>4
  <2>2. \A m \in M : F[m] = Cardinality(A[m])
    BY <1>4
  <2>. QED
    BY <1>3, <1>5, <2>1, <2>2, CountedApart
<1>. QED
  BY <1>6, <1>7 DEF F, M

-----------------------------------------------------------------------------
(* The buttons of the dashboard. *)

Query(options) == [f \in Fields |-> IF f \in DOMAIN options THEN options[f] ELSE NoFilter[f]]

LEMMA FieldsAre ==
  Fields = {"nodeId", "tag", "search", "model", "capacity", "status", "free"}
  BY DEF Fields, NoFilter

\* What a button sets, and that it sets the rest to nothing.
LEMMA QueryFacts ==
  /\ \A s : Query([status |-> s]) = [NoFilter EXCEPT !.status = s]
  /\ \A i : Query([nodeId |-> i]) = [NoFilter EXCEPT !.nodeId = i]
  /\ Query(<<>>) = NoFilter
<1>. USE FieldsAre DEF Query, NoFilter
<1>1. ASSUME NEW s
      PROVE  Query([status |-> s]) = [NoFilter EXCEPT !.status = s]
  OBVIOUS
<1>2. ASSUME NEW i
      PROVE  Query([nodeId |-> i]) = [NoFilter EXCEPT !.nodeId = i]
  OBVIOUS
<1>3. Query(<<>>) = NoFilter
  OBVIOUS
<1>. QED
  BY <1>1, <1>2, <1>3

ModelQuery(m) == Query([model |-> m.name, capacity |-> m.capacity, status |-> "idle"])

LEMMA ModelQueryFacts ==
  ASSUME NEW m
  PROVE  LET q == ModelQuery(m)
         IN  /\ q.nodeId = Any /\ q.tag = Any /\ q.search = Any
             /\ q.model = m.name /\ q.capacity = m.capacity /\ q.status = "idle" /\ q.free = 0
<1>. DEFINE o == [model |-> m.name, capacity |-> m.capacity, status |-> "idle"]
            q == ModelQuery(m)
<1>1. /\ DOMAIN o = {"model", "capacity", "status"}
      /\ o["model"] = m.name /\ o["capacity"] = m.capacity /\ o["status"] = "idle"
  OBVIOUS
<1>. HIDE DEF o
<1>2. \A f \in Fields : q[f] = IF f \in DOMAIN o THEN o[f] ELSE NoFilter[f]
  BY DEF ModelQuery, Query, o
<1>. QED
  BY <1>1, <1>2, FieldsAre DEF NoFilter

\* The promise on record is the one of the button that set the filters, for the list
\* that is still there.
PromiseStands ==
    \/ promise = Nothing
    \/ /\ filter = Query([status |-> "idle"])
       /\ promise = [Nothing EXCEPT !.cards = Counts(nodes)["idle"]]
    \/ \E m \in Models(nodes) :
          /\ filter = ModelQuery(m)
          /\ promise = [Nothing EXCEPT !.cards = IdleOf(nodes, m)]
    \/ \E n \in nodes :
          /\ filter = Query([nodeId |-> n.id])
          /\ promise \in {[cards |-> Cardinality(n.gpus), node |-> n.id],
                          [Nothing EXCEPT !.node = n.id]}
    \/ nodes = {} /\ promise = [Nothing EXCEPT !.cards = 0]

LEMMA PromiseStandsStep == PromiseStands /\ [Next]_vars => PromiseStands'
<1>. SUFFICES ASSUME PromiseStands, [Next]_vars
              PROVE  PromiseStands'
  OBVIOUS
<1>1. CASE promise' = Nothing
  BY <1>1 DEF PromiseStands, Nothing
<1>2. CASE AskIdle
  <2>1. filter' = Query([status |-> "idle"]) /\ nodes' = nodes
        /\ promise' = [Nothing EXCEPT !.cards = Counts(nodes)["idle"]]
    BY <1>2 DEF AskIdle, OnQuery, Query
  <2>2. Counts(nodes') = Counts(nodes)
    BY <2>1
  <2>. QED
    BY <2>1, <2>2 DEF PromiseStands, Nothing, ModelQuery, Query, NoFilter, Fields
<1>3. ASSUME NEW m \in Models(nodes), AskModel(m)
      PROVE  PromiseStands'
  <2>1. /\ filter' = ModelQuery(m)
        /\ nodes' = nodes
        /\ promise' = [Nothing EXCEPT !.cards = IdleOf(nodes, m)]
    BY <1>3 DEF AskModel, OnQuery, ModelQuery, Query
  <2>2. m \in Models(nodes') /\ IdleOf(nodes', m) = IdleOf(nodes, m)
    BY <2>1
  <2>. QED
    BY <2>1, <2>2 DEF PromiseStands, Nothing, ModelQuery, Query, NoFilter, Fields
<1>4. ASSUME NEW n \in nodes, AskNode(n)
      PROVE  PromiseStands'
  <2>1. /\ filter' = Query([nodeId |-> n.id]) /\ nodes' = nodes
        /\ promise' = [cards |-> Cardinality(n.gpus), node |-> n.id]
    BY <1>4 DEF AskNode, OnQuery, Query
  <2>. QED
    BY <2>1 DEF PromiseStands, Nothing, ModelQuery, Query, NoFilter, Fields
<1>5. ASSUME NEW i \in Issues(nodes), AskIssue(i)
      PROVE  PromiseStands'
  <2>1. CASE promise' = Nothing
    BY <1>1, <2>1
  <2>2. CASE promise' # Nothing
    <3>1. /\ i.kind # "card"
          /\ filter' = Query([nodeId |-> i.node]) /\ nodes' = nodes
          /\ promise' = [Nothing EXCEPT !.node = i.node]
      BY <1>5, <2>2 DEF AskIssue, OnGPU, OnQuery, Query
    <3>2. PICK n \in nodes : i.node = n.id
      BY <1>5, <3>1 DEF Issues, MissingNodes
    <3>3. /\ n \in nodes' /\ filter' = Query([nodeId |-> n.id])
          /\ promise' = [Nothing EXCEPT !.node = n.id]
      BY <3>1, <3>2
    <3>. QED
      BY <3>3 DEF PromiseStands, Nothing, ModelQuery, Query, NoFilter, Fields
  <2>. QED
    BY <2>1, <2>2
<1>6. CASE AskAll
  BY <1>6 DEF AskAll, PromiseStands, Nothing
<1>7. CASE UNCHANGED vars
  BY <1>7 DEF vars, PromiseStands, Nothing, ModelQuery, Query, NoFilter, Fields
<1>. QED
  BY <1>1, <1>2, <1>3, <1>4, <1>5, <1>6, <1>7
     DEF Next, Refresh, GoTo, Choose, ShowCard, OnGPU, CloseCard

\* What the button says is what is listed.
LEMMA PromiseStandsKept ==
  ASSUME TypeOK, PromiseStands
  PROVE  PromisesKept
<1>. DEFINE fit == {c \in CardsOf(nodes) : Placed(c.n) /\ Fits(c.g, c.n)}
            sum == SumFunctionOnSet([n \in Listed |-> Cardinality(n.gpus)], Listed)
<1>1. IsList(nodes) /\ IsList(Listed) /\ sum = Cardinality(fit)
  BY ListFacts, ListedCount
<1>2. \A n \in nodes : n \in Node /\ n.id \in NodeId /\ n.id # Any
  BY <1>1, OverviewAssumption DEF IsList, NodeList, Node
<1>3. PromisesKept <=> /\ promise.cards # Any => sum = promise.cards
                       /\ promise.node # Any => {n.id : n \in Listed} = {promise.node}
  BY DEF PromisesKept
<1>. HIDE DEF sum
<1>4. CASE promise = Nothing
  BY <1>3, <1>4 DEF Nothing
<1>5. CASE /\ filter = Query([status |-> "idle"])
           /\ promise = [Nothing EXCEPT !.cards = Counts(nodes)["idle"]]
  <2>1. filter = [NoFilter EXCEPT !.status = "idle"]
    BY <1>5, QueryFacts
  <2>2. /\ filter.nodeId = Any /\ filter.tag = Any /\ filter.search = Any /\ filter.model = Any
        /\ filter.capacity = Any /\ filter.status = "idle" /\ filter.free = 0
    BY <2>1 DEF NoFilter
  <2>3. \A c \in CardsOf(nodes) : (Placed(c.n) /\ Fits(c.g, c.n)) <=> Idle(c.g, c.n)
    BY <2>2, IdleIsIdle DEF Placed, Fits
  <2>4. fit = InState(nodes, {"idle"})
    BY <2>3, IdleState
  <2>5. promise.cards = Counts(nodes)["idle"] /\ promise.node = Any
    BY <1>5 DEF Nothing
  <2>6. Counts(nodes)["idle"] = Cardinality(InState(nodes, {"idle"}))
    BY DEF Counts, State
  <2>. QED
    BY <1>1, <1>3, <2>4, <2>5, <2>6
<1>6. ASSUME NEW m \in Models(nodes),
             filter = ModelQuery(m),
             promise = [Nothing EXCEPT !.cards = IdleOf(nodes, m)]
      PROVE  PromisesKept
  <2>2. /\ filter.nodeId = Any /\ filter.tag = Any /\ filter.search = Any
        /\ filter.model = m.name /\ filter.capacity = m.capacity
        /\ filter.status = "idle" /\ filter.free = 0
    BY <1>6, ModelQueryFacts
  <2>3. m.name # Any /\ m.capacity # Any
    <3>1. PICK c \in CardsOf(nodes) : m = [name |-> c.g.name, capacity |-> CapacityKey(c.g)]
      BY DEF Models
    <3>2. c.g \in GPU
      BY <1>1, CardType
    <3>3. c.g.name \in Model /\ CapacityKey(c.g) \in Nat \cup {Null}
      BY <3>2, CapacityType DEF GPU
    <3>. QED
      BY <3>1, <3>3, OverviewAssumption
  <2>4. \A c \in CardsOf(nodes) :
           (Placed(c.n) /\ Fits(c.g, c.n))
             <=> Idle(c.g, c.n) /\ c.g.name = m.name /\ CapacityKey(c.g) = m.capacity
    BY <2>2, <2>3, IdleIsIdle DEF Placed, Fits
  <2>5. fit = {c \in InState(nodes, {"idle"}) :
                 c.g.name = m.name /\ CapacityKey(c.g) = m.capacity}
    BY <2>4, IdleState
  <2>6. promise.cards = IdleOf(nodes, m) /\ promise.node = Any
    BY <1>6 DEF Nothing
  <2>. QED
    BY <1>1, <1>3, <2>5, <2>6 DEF IdleOf
<1>7. ASSUME NEW n \in nodes,
             filter = Query([nodeId |-> n.id]),
             promise \in {[cards |-> Cardinality(n.gpus), node |-> n.id],
                          [Nothing EXCEPT !.node = n.id]}
      PROVE  PromisesKept
  <2>1. filter = [NoFilter EXCEPT !.nodeId = n.id]
    BY <1>7, QueryFacts
  <2>2. /\ filter.nodeId = n.id /\ filter.tag = Any /\ filter.search = Any /\ filter.model = Any
        /\ filter.capacity = Any /\ filter.status = "all" /\ filter.free = 0
    BY <2>1 DEF NoFilter
  <2>3. \A m \in nodes : Placed(m) <=> m = n
    BY <1>1, <1>2, <2>2 DEF Placed, IsList
  <2>4. \A g : Fits(g, n)
    BY <2>2 DEF Fits, StatusFits
  <2>5. Cut(n) = n
    <3>1. {g \in n.gpus : Fits(g, n)} = n.gpus
      BY <2>4
    <3>. QED
      BY <1>2, <3>1 DEF Cut, Node
  <2>6. BareNodeFits(n)
    BY <2>2 DEF BareNodeFits
  <2>7. Listed = {n}
    BY <2>3, <2>5, <2>6, ListedMeans
  <2>8. promise.node = n.id /\ promise.cards \in {Any, Cardinality(n.gpus)}
    BY <1>7 DEF Nothing
  <2>9. sum = Cardinality(n.gpus)
    <3>. DEFINE A == [x \in {n} |-> x.gpus]
                F == [x \in {n} |-> Cardinality(x.gpus)]
    <3>1. (\A x \in {n} : IsFiniteSet(A[x])) /\ (\A x \in {n} : F[x] = Cardinality(A[x]))
          /\ \A x, y \in {n} : x # y => A[x] \cap A[y] = {}
      BY <1>1 DEF IsList
    <3>2. Together(A, {n}) = n.gpus
      BY DEF Together
    <3>3. IsFiniteSet({n})
      BY FS_Singleton
    <3>4. sum = SumFunctionOnSet(F, {n})
      BY <2>7 DEF sum
    <3>. HIDE DEF A, F
    <3>5. SumFunctionOnSet(F, {n}) = Cardinality(Together(A, {n}))
      BY <3>1, <3>3, CountedApart
    <3>. QED
      BY <3>2, <3>4, <3>5
  <2>. QED
    BY <1>3, <2>7, <2>8, <2>9
<1>8. CASE nodes = {} /\ promise = [Nothing EXCEPT !.cards = 0]
  <2>1. fit = {}
    BY <1>8 DEF CardsOf
  <2>2. Cardinality(fit) = 0
    BY <2>1, FS_EmptySet
  <2>3. promise.cards = 0 /\ promise.node = Any
    BY <1>8 DEF Nothing
  <2>. QED
    BY <1>1, <1>3, <2>2, <2>3
<1>. QED
  BY <1>4, <1>5, <1>6, <1>7, <1>8 DEF PromiseStands

-----------------------------------------------------------------------------
(* Types. *)

LEMMA QueryType ==
  /\ Query([status |-> "idle"]) \in Filters
  /\ \A m \in [name : Model, capacity : Nat \cup {Null}] : ModelQuery(m) \in Filters
  /\ \A i \in NodeId : Query([nodeId |-> i]) \in Filters
  /\ Query(<<>>) \in Filters
<1>1. NoFilter \in Filters
  BY DEF NoFilter, Filters
<1>2. [NoFilter EXCEPT !.status = "idle"] \in Filters
  BY DEF NoFilter, Filters
<1>3. \A i \in NodeId : [NoFilter EXCEPT !.nodeId = i] \in Filters
  BY DEF NoFilter, Filters
<1>4. ASSUME NEW m \in [name : Model, capacity : Nat \cup {Null}]
      PROVE  ModelQuery(m) \in Filters
  <2>. DEFINE q == ModelQuery(m)
  <2>1. /\ q.nodeId = Any /\ q.tag = Any /\ q.search = Any
        /\ q.model = m.name /\ q.capacity = m.capacity /\ q.status = "idle" /\ q.free = 0
    BY ModelQueryFacts
  <2>2. q = [f \in Fields |-> q[f]]
    BY DEF ModelQuery, Query
  <2>. HIDE DEF q
  <2>3. q = [nodeId |-> Any, tag |-> Any, search |-> Any, model |-> m.name,
             capacity |-> m.capacity, status |-> "idle", free |-> 0]
    BY <2>1, <2>2, FieldsAre
  <2>4. m.name \in Model /\ m.capacity \in Nat \cup {Null}
    OBVIOUS
  <2>. QED
    BY <2>3, <2>4 DEF Filters, q
<1>. QED
  BY <1>1, <1>2, <1>3, <1>4, QueryFacts

\* A filter that is chosen is of its type, in each of the fields.
LEMMA ChooseType ==
  ASSUME TypeOK, NEW f \in Fields, NEW v \in Options(f)
  PROVE  [filter EXCEPT ![f] = v] \in Filters
<1>1. IsList(nodes) /\ filter \in Filters /\ DOMAIN filter = Fields
  BY ListFacts, FieldsAre DEF TypeOK, Filters
<1>2. \A n \in nodes : n.id \in NodeId /\ n.tags \subseteq Tag
  BY <1>1 DEF IsList, NodeList, Node
<1>3. \A c \in CardsOf(nodes) : c.g.name \in Model /\ CapacityKey(c.g) \in Nat \cup {Null}
  BY <1>1, CardType, CapacityType DEF GPU
<1>4. CASE f = "nodeId"
  BY <1>1, <1>4 DEF Options, Filters
<1>5. CASE f = "tag"
  BY <1>1, <1>2, <1>5 DEF Options, Filters
<1>6. CASE f = "search"
  BY <1>1, <1>2, <1>6 DEF Options, NodeWords, Filters
<1>7. CASE f = "model"
  BY <1>1, <1>3, <1>7 DEF Options, Filters
<1>8. CASE f = "capacity"
  BY <1>1, <1>3, <1>8 DEF Options, Filters
<1>9. CASE f = "status"
  BY <1>1, <1>9 DEF Options, Filters
<1>10. CASE f = "free"
  BY <1>1, <1>10 DEF Options, Filters
<1>. QED
  BY <1>4, <1>5, <1>6, <1>7, <1>8, <1>9, <1>10, FieldsAre

LEMMA TypeStep == TypeOK /\ [Next]_vars => TypeOK'
<1>. SUFFICES ASSUME TypeOK, [Next]_vars
              PROVE  TypeOK'
  OBVIOUS
<1>0. IsList(nodes) /\ NodeList = SUBSET Node
  BY ListFacts DEF NodeList
<1>1. CASE Refresh
  BY <1>1 DEF Refresh, TypeOK, Nothing
<1>2. ASSUME NEW p \in {"dashboard", "overview"}, GoTo(p)
      PROVE  TypeOK'
  BY <1>2 DEF GoTo, TypeOK, Nothing
<1>3. ASSUME NEW f \in Fields, NEW v \in Options(f), Choose(f, v)
      PROVE  TypeOK'
  <2>1. filter' \in Filters
    BY <1>3, ChooseType DEF Choose
  <2>. QED
    BY <1>3, <2>1 DEF Choose, TypeOK, Nothing
<1>4. CASE AskIdle
  <2>1. filter' \in Filters /\ page' = "overview"
    BY <1>4, QueryType DEF AskIdle, OnQuery, Query
  <2>2. Counts(nodes)["idle"] \in Nat
    <3>1. InState(nodes, {"idle"}) \in SUBSET CardsOf(nodes)
      BY DEF InState
    <3>. QED
      BY <1>0, <3>1, CardsFinite DEF Counts, State
  <2>. QED
    BY <1>4, <2>1, <2>2 DEF AskIdle, TypeOK, Nothing
<1>5. ASSUME NEW m \in Models(nodes), AskModel(m)
      PROVE  TypeOK'
  <2>1. m \in [name : Model, capacity : Nat \cup {Null}]
    BY <1>0, CardType, CapacityType DEF Models, GPU
  <2>2. filter' \in Filters /\ page' = "overview"
    BY <1>5, <2>1, QueryType DEF AskModel, OnQuery, ModelQuery, Query
  <2>3. IdleOf(nodes, m) \in Nat
    <3>. DEFINE C == {c \in InState(nodes, {"idle"}) :
                        c.g.name = m.name /\ CapacityKey(c.g) = m.capacity}
    <3>1. C \in SUBSET CardsOf(nodes)
      BY DEF InState
    <3>. HIDE DEF C
    <3>2. Cardinality(C) \in Nat
      BY <1>0, <3>1, CardsFinite
    <3>. QED
      BY <3>2 DEF IdleOf, C
  <2>. QED
    BY <1>5, <2>2, <2>3 DEF AskModel, TypeOK, Nothing
<1>6. ASSUME NEW n \in nodes, AskNode(n)
      PROVE  TypeOK'
  <2>1. n.id \in NodeId /\ IsFiniteSet(n.gpus)
    BY <1>0 DEF IsList, Node
  <2>2. filter' \in Filters /\ page' = "overview"
    BY <1>6, <2>1, QueryType DEF AskNode, OnQuery, Query
  <2>3. Cardinality(n.gpus) \in Nat
    BY <2>1, FS_CardinalityType
  <2>. QED
    BY <1>6, <2>1, <2>2, <2>3 DEF AskNode, TypeOK, Nothing
<1>7. ASSUME NEW i \in Issues(nodes), AskIssue(i)
      PROVE  TypeOK'
  <2>1. i.node \in NodeId
    BY <1>0, CardType DEF Issues, MissingNodes, InState, Node, IsList
  <2>2. CASE i.kind = "card" /\ OnGPU(i.node, i.gpu) /\ UNCHANGED <<page, filter>>
    <3>1. i.gpu \in UUID
      <4>1. \E c \in InState(nodes, {"attention", "unknown"}) : i.gpu = c.g.uuid
        BY <2>2 DEF Issues
      <4>. QED
        BY <1>0, <4>1, CardType DEF InState, GPU
    <3>. QED
      BY <1>7, <2>1, <2>2, <3>1 DEF AskIssue, OnGPU, TypeOK, Nothing
  <2>3. CASE /\ OnQuery([nodeId |-> i.node]) /\ promise' = [Nothing EXCEPT !.node = i.node]
             /\ UNCHANGED selected
    <3>1. filter' \in Filters /\ page' = "overview"
      BY <2>1, <2>3, QueryType DEF OnQuery, Query
    <3>. QED
      BY <1>7, <2>1, <2>3, <3>1 DEF AskIssue, TypeOK, Nothing
  <2>. QED
    BY <1>7, <2>2, <2>3 DEF AskIssue
<1>8. CASE AskAll
  <2>1. filter' \in Filters /\ page' = "overview"
    BY <1>8, QueryType DEF AskAll, OnQuery, Query
  <2>. QED
    BY <1>8, <2>1 DEF AskAll, TypeOK, Nothing
<1>9. ASSUME NEW n \in IF page = "dashboard" THEN nodes ELSE Listed, NEW g \in n.gpus,
             ShowCard(n, g)
      PROVE  TypeOK'
  <2>1. IsList(Listed)
    BY ListedCount
  <2>2. n \in Node
    BY <1>0, <2>1 DEF IsList
  <2>3. n.id \in NodeId /\ g.uuid \in UUID
    BY <2>2 DEF Node, GPU
  <2>. QED
    BY <1>9, <2>3 DEF ShowCard, OnGPU, TypeOK, Nothing
<1>10. CASE CloseCard
  BY <1>10 DEF CloseCard, TypeOK, Nothing
<1>11. CASE UNCHANGED vars
  BY <1>11 DEF vars, TypeOK
<1>. QED
  BY <1>1, <1>2, <1>3, <1>4, <1>5, <1>6, <1>7, <1>8, <1>9, <1>10, <1>11 DEF Next

\* The list, the page, the filters, the dialog and what a button promised keep to their types.
THEOREM TypeCorrect == Spec => []TypeOK
<1>1. Init => TypeOK
  BY DEF Init, TypeOK, NoFilter, Filters, Nothing
<1>. QED
  BY <1>1, TypeStep, PTL DEF Spec

-----------------------------------------------------------------------------
(* What the pages promise each other. *)

\* Whatever filters were left, a button of the dashboard leads to as many cards as it
\* shows, or to the node it names.
THEOREM ButtonsKeepTheirPromise == Spec => []PromisesKept
<1>1. Init => PromiseStands
  BY DEF Init, PromiseStands
<1>2. TypeOK /\ PromiseStands => PromisesKept
  BY PromiseStandsKept
<1>. QED
  BY <1>1, <1>2, TypeCorrect, PromiseStandsStep, PTL DEF Spec

\* The dashboard, the tile, the nodes, the badges and the rows of the models count the
\* same idle cards, all of them idle for the hub.
THEOREM IdleCardsAgree == Spec => []FreeCardsAgree
<1>1. ASSUME TypeOK
      PROVE  FreeCardsAgree
  <2>. DEFINE idle == {c \in CardsOf(nodes) : Idle(c.g, c.n)}
  <2>1. IsList(nodes)
    BY <1>1, ListFacts
  <2>2. InState(nodes, {"idle"}) = idle
    BY IdleState
  <2>3. Counts(nodes)["idle"] = Tiles.free
    BY <2>2 DEF Counts, State, Tiles, Available
  <2>4. SumFunctionOnSet([n \in nodes |-> Cardinality(IdleCards(n))], nodes) = Available
    <3>. DEFINE K == [n \in nodes |-> IdleCards(n)]
    <3>1. \A n \in nodes : K[n] \in SUBSET n.gpus /\ K[n] = IdleCards(n)
      BY DEF IdleCards
    <3>2. [n \in nodes |-> Cardinality(K[n])] = [n \in nodes |-> Cardinality(IdleCards(n))]
      OBVIOUS
    <3>. HIDE DEF K
    <3>3. SumFunctionOnSet([n \in nodes |-> Cardinality(K[n])], nodes)
            = Cardinality({c \in CardsOf(nodes) : c.g \in K[c.n]})
      BY <2>1, <3>1, SumOfCards
    <3>4. \A c \in CardsOf(nodes) : c.g \in K[c.n] <=> Idle(c.g, c.n)
      BY <2>1, <3>1, CardType DEF IdleCards
    <3>5. {c \in CardsOf(nodes) : c.g \in K[c.n]} = idle
      BY <3>4
    <3>. QED
      BY <3>2, <3>3, <3>5 DEF Available
  <2>5. {c \in CardsOf(nodes) : Badge(c.g, c.n) = "idle"} = idle
    BY IdleIsIdle
  <2>6. SumFunctionOnSet([m \in Models(nodes) |-> IdleOf(nodes, m)], Models(nodes)) = Available
    BY <2>1, <2>2, IdleByModel DEF Available
  <2>7. \A c \in InState(nodes, {"idle"}) : HubIdle(c.g) /\ c.n.online
    BY <2>2 DEF Idle, HubIdle
  <2>. QED
    BY <2>3, <2>4, <2>5, <2>6, <2>7 DEF FreeCardsAgree, Available
<1>. QED
  BY <1>1, TypeCorrect, PTL

\* A dashboard without issues means that no page shows a fault, a missing or an offline
\* node or a card of unknown use.
THEOREM AllGoodIsAllGood == Spec => []AllGoodEverywhere
<1>1. ASSUME TypeOK, Issues(nodes) = {}
      PROVE  /\ Tiles.faults = 0 /\ Tiles.online = Cardinality(nodes)
             /\ \A n \in nodes : /\ n.online /\ Cardinality(n.gpus) >= n.expected
                                 /\ UnknownCards(n) = 0
             /\ \A c \in CardsOf(nodes) : Badge(c.g, c.n) \in {"idle", "in use"}
  <2>1. IsList(nodes)
    BY <1>1, ListFacts
  <2>2. \A n \in nodes : n.online
    BY <1>1 DEF Issues
  <2>3. \A n \in nodes : ~ (Absent(n) > 0)
    BY <1>1, <2>2 DEF Issues, MissingNodes
  <2>4. \A c \in CardsOf(nodes) : c \notin InState(nodes, {"attention", "unknown"})
    BY <1>1 DEF Issues
  <2>5. ASSUME NEW c \in CardsOf(nodes)
        PROVE  /\ c.n.online /\ ~ Bad(c.g)
               /\ Idle(c.g, c.n) \/ (c.g.status = "ok" /\ c.g.process_status = "ok")
    <3>1. c.n \in nodes
      BY <2>1, CardType
    <3>2. GPUState(c.g, c.n) \notin {"attention", "unknown"}
      BY <2>4 DEF InState
    <3>. QED
      BY <2>2, <3>1, <3>2 DEF GPUState, Bad
  <2>6. ASSUME NEW n \in nodes
        PROVE  /\ Cardinality(n.gpus) \in Nat /\ Absent(n) = 0
               /\ Cardinality(n.gpus) >= n.expected
    <3>1. n.expected \in Nat /\ IsFiniteSet(n.gpus)
      BY <2>1 DEF IsList, NodeList, Node
    <3>. DEFINE k == Cardinality(n.gpus)
    <3>2. k \in Nat
      BY <3>1, FS_CardinalityType
    <3>. HIDE DEF k
    <3>3. Max({0, n.expected - k}) = IF 0 >= n.expected - k THEN 0 ELSE n.expected - k
      BY <3>1, <3>2, BiggestOfTwo
    <3>4. Absent(n) = Max({0, n.expected - k})
      BY DEF Absent, k
    <3>5. Absent(n) = 0 /\ k >= n.expected
      BY <2>3, <3>1, <3>2, <3>3, <3>4
    <3>. QED
      BY <3>2, <3>5 DEF k
  <2>7. Faults = 0
    <3>1. {c \in CardsOf(nodes) : c.n.online /\ Bad(c.g)} = {}
      BY <2>5
    <3>. QED
      BY <3>1, FS_EmptySet DEF Faults
  <2>8. Missing = 0
    <3>. DEFINE A == [n \in nodes |-> {}]
                F == [n \in nodes |-> IF n.online THEN Absent(n) ELSE 0]
    <3>1. Together(A, nodes) = {}
      BY DEF Together
    <3>2. \A n \in nodes : IsFiniteSet(A[n]) /\ F[n] = Cardinality(A[n])
      BY <2>6, FS_EmptySet
    <3>3. (\A n \in nodes : IsFiniteSet(A[n])) /\ (\A n \in nodes : F[n] = Cardinality(A[n]))
          /\ \A m, n \in nodes : m # n => A[m] \cap A[n] = {}
      BY <3>2
    <3>4. IsFiniteSet(nodes)
      BY <2>1 DEF IsList
    <3>5. Missing = SumFunctionOnSet(F, nodes)
      BY DEF Missing
    <3>. HIDE DEF A, F
    <3>6. SumFunctionOnSet(F, nodes) = Cardinality(Together(A, nodes))
      BY <3>3, <3>4, CountedApart
    <3>. QED
      BY <3>1, <3>5, <3>6, FS_EmptySet
  <2>9. Tiles.faults = 0 /\ Tiles.online = Cardinality(nodes)
    <3>1. {n \in nodes : n.online} = nodes
      BY <2>2
    <3>. QED
      BY <2>7, <2>8, <3>1 DEF Tiles
  <2>10. ASSUME NEW n \in nodes
         PROVE  UnknownCards(n) = 0
    <3>. DEFINE I == IdleCards(n)
                B == BusyCards(n)
    <3>1. \A g \in n.gpus : Idle(g, n) \/ (g.status = "ok" /\ g.process_status = "ok")
      <4>. SUFFICES ASSUME NEW g \in n.gpus
                    PROVE  Idle(g, n) \/ (g.status = "ok" /\ g.process_status = "ok")
        OBVIOUS
      <4>1. [g |-> g, n |-> n] \in CardsOf(nodes)
        BY CardIn
      <4>. QED
        BY <2>5, <4>1
    <3>2. n.gpus = I \cup B /\ I \cap B = {}
      BY <2>2, <3>1 DEF IdleCards, BusyCards
    <3>. HIDE DEF I, B
    <3>3. IsFiniteSet(n.gpus)
      BY <2>1 DEF IsList
    <3>4. IsFiniteSet(I) /\ IsFiniteSet(B)
      BY <3>2, <3>3, FS_Subset
    <3>5. Cardinality(I \cup B) = Cardinality(I) + Cardinality(B) - Cardinality(I \cap B)
      BY <3>4, FS_Union
    <3>6. Cardinality(I) \in Nat /\ Cardinality(B) \in Nat /\ Cardinality(I \cap B) = 0
      BY <3>2, <3>4, FS_CardinalityType, FS_EmptySet
    <3>7. Cardinality(n.gpus) = Cardinality(I) + Cardinality(B)
      BY <3>2, <3>5, <3>6
    <3>. QED
      BY <3>6, <3>7 DEF UnknownCards, I, B
  <2>11. \A c \in CardsOf(nodes) : Badge(c.g, c.n) \in {"idle", "in use"}
    BY <2>5 DEF Badge, Idle
  <2>. QED
    BY <2>2, <2>6, <2>9, <2>10, <2>11
<1>2. TypeOK => AllGoodEverywhere
  BY <1>1 DEF AllGoodEverywhere
<1>. QED
  BY <1>2, TypeCorrect, PTL

=============================================================================
