----------------------------- MODULE FiniteSums -----------------------------
(***************************************************************************)
(* What the proofs need to know of SumFunctionOnSet (Functions.tla): sums  *)
(* over finite sets do not depend on the order in which they are taken,    *)
(* and follow a change of one summand.  Induction over finite sets is by a *)
(* minimal counterexample: strict inclusion is well-founded on them.       *)
(***************************************************************************)
EXTENDS Integers, FiniteSets, Functions, FiniteSetTheorems, TLAPS

Sum(F, S) == SumFunctionOnSet(F, S)

\* A set of finite sets that is not empty has a minimal member.
LEMMA MinimalSet ==
  ASSUME NEW S, IsFiniteSet(S), NEW C \in SUBSET (SUBSET S), C # {}
  PROVE  \E T \in C : \A U \in C : U \subseteq T => U = T
<1>1. C \subseteq FiniteSubsetsOf(S)
  BY FS_FiniteSubsetsOfFinite
<1>2. PICK T \in C : \A U \in C : <<U, T>> \notin StrictSubsetOrdering(S)
  BY <1>1, FS_StrictSubsetOrderingWellFounded, WFMin
<1> QED BY <1>2 DEF StrictSubsetOrdering

-----------------------------------------------------------------------------
(* The fold of Folds.tla as a recursive function.                          *)

Chosen(s) == CHOOSE x \in s : TRUE

\* One unfolding of the fold, from the sums h of smaller sets.
Unfolded(F, S, h) ==
    [s \in SUBSET S |-> IF s = {} THEN 0 ELSE F[Chosen(s)] + h[s \ {Chosen(s)}]]

Folds(F, S, h) == h = Unfolded(F, S, h)

LEMMA SumIsFold ==
  ASSUME NEW F, NEW S
  PROVE  Sum(F, S) = (CHOOSE h : Folds(F, S, h))[S]
  BY DEF Sum, SumFunctionOnSet, FoldFunctionOnSet, MapThenFoldSet, Folds, Unfolded, Chosen

LEMMA ChosenIsMember == ASSUME NEW s, s # {} PROVE Chosen(s) \in s
  BY DEF Chosen

\* Two folds agree where both are defined.
LEMMA FoldUnique ==
  ASSUME NEW F, NEW S, NEW T, IsFiniteSet(S),
         NEW h, NEW k, Folds(F, S, h), Folds(F, T, k),
         NEW s \in SUBSET (S \cap T)
  PROVE  h[s] = k[s]
<1> DEFINE C == {u \in SUBSET (S \cap T) : h[u] # k[u]}
<1>1. SUFFICES ASSUME C # {} PROVE FALSE
  OBVIOUS
<1>2. C \in SUBSET (SUBSET S)
  OBVIOUS
<1>3. PICK u \in C : \A v \in C : v \subseteq u => v = u
  <2> HIDE DEF C
  <2> QED BY <1>1, <1>2, MinimalSet
<1>4. u \in SUBSET S /\ u \in SUBSET T /\ h[u] # k[u]
  OBVIOUS
<1>5. CASE u = {}
  <2>1. h[u] = 0 /\ k[u] = 0
    BY <1>4, <1>5 DEF Folds, Unfolded
  <2> QED BY <1>4, <2>1
<1>6. CASE u # {}
  <2> DEFINE v == u \ {Chosen(u)}
  <2>1. v \subseteq u /\ v # u
    BY <1>6, ChosenIsMember
  <2>2. h[v] = k[v]
    BY <1>3, <1>4, <2>1
  <2>3. h[u] = F[Chosen(u)] + h[v] /\ k[u] = F[Chosen(u)] + k[v]
    BY <1>4, <1>6 DEF Folds, Unfolded
  <2> QED BY <1>4, <2>2, <2>3
<1> QED BY <1>5, <1>6

\* A fold exists for every finite set.
LEMMA FoldExists ==
  ASSUME NEW F, NEW S, IsFiniteSet(S)
  PROVE  \E h : Folds(F, S, h)
<1> DEFINE C == {u \in SUBSET S : ~ \E h : Folds(F, u, h)}
<1>1. SUFFICES ASSUME C # {} PROVE FALSE
  OBVIOUS
<1>2. PICK u \in C : \A v \in C : v \subseteq u => v = u
  <2>1. C \in SUBSET (SUBSET S)
    OBVIOUS
  <2> HIDE DEF C
  <2> QED BY <1>1, <2>1, MinimalSet
<1> DEFINE part(v) == CHOOSE h : Folds(F, v, h)
           whole == [s \in SUBSET u |->
                        IF s = {} THEN 0
                        ELSE F[Chosen(s)] + part(s \ {Chosen(s)})[s \ {Chosen(s)}]]
<1>3. ASSUME NEW v \in SUBSET u, v # u PROVE Folds(F, v, part(v))
  <2>1. v \in SUBSET S /\ v \notin C
    BY <1>2, <1>3
  <2>2. \E h : Folds(F, v, h)
    BY <2>1
  <2> HIDE DEF Folds
  <2> QED BY <2>2
<1> HIDE DEF part
<1>4. ASSUME NEW s \in SUBSET u, s # u PROVE whole[s] = part(s)[s]
  <2>1. Folds(F, s, part(s))
    BY <1>3, <1>4
  <2>2. CASE s = {}
    <3>1. part(s)[s] = 0
      BY <2>1, <2>2 DEF Folds, Unfolded
    <3> QED BY <2>2, <3>1
  <2>3. CASE s # {}
    <3> DEFINE v == s \ {Chosen(s)}
    <3>1. v \in SUBSET s /\ v # s /\ v \in SUBSET u /\ v # u
      BY <2>3, ChosenIsMember
    <3>2. part(s)[s] = F[Chosen(s)] + part(s)[v]
      BY <2>1, <2>3 DEF Folds, Unfolded
    <3>3. Folds(F, v, part(v))
      BY <1>3, <3>1
    <3>4. IsFiniteSet(s)
      BY FS_Subset
    <3>5. part(s)[v] = part(v)[v]
      BY <2>1, <3>1, <3>3, <3>4, FoldUnique
    <3>6. whole[s] = F[Chosen(s)] + part(v)[v]
      BY <2>3
    <3> QED BY <3>2, <3>5, <3>6
  <2> QED BY <2>2, <2>3
<1>5. ASSUME NEW s \in SUBSET u, s # {}
      PROVE  whole[s] = F[Chosen(s)] + whole[s \ {Chosen(s)}]
  <2> DEFINE v == s \ {Chosen(s)}
  <2>1. v \in SUBSET u /\ v # u
    BY <1>5, ChosenIsMember
  <2>2. whole[v] = part(v)[v]
    BY <1>4, <2>1
  <2>3. whole[s] = F[Chosen(s)] + part(v)[v]
    BY <1>5
  <2> QED BY <2>2, <2>3
<1>6. whole[{}] = 0
  OBVIOUS
<1>7. whole = [s \in SUBSET u |-> whole[s]]
  OBVIOUS
<1> HIDE DEF whole
<1>8. Folds(F, u, whole)
  BY <1>5, <1>6, <1>7 DEF Folds, Unfolded
<1> QED BY <1>2, <1>8

-----------------------------------------------------------------------------
(* Sums of integers.                                                       *)

\* F gives every member of S an integer.
Summands(F, S) == IsFiniteSet(S) /\ \A x \in S : F[x] \in Int

LEMMA SummandsSubset ==
  ASSUME NEW F, NEW S, Summands(F, S), NEW T \in SUBSET S
  PROVE  Summands(F, T)
  BY FS_Subset DEF Summands

LEMMA SumEmpty == ASSUME NEW F PROVE Sum(F, {}) = 0
<1>1. PICK h : Folds(F, {}, h)
  BY FS_EmptySet, FoldExists
<1> DEFINE k == CHOOSE g : Folds(F, {}, g)
<1>2. Folds(F, {}, k)
  <2> HIDE DEF Folds
  <2> QED BY <1>1
<1>3. Sum(F, {}) = k[{}]
  BY SumIsFold
<1> HIDE DEF k
<1> QED BY <1>2, <1>3 DEF Folds, Unfolded

\* The sum takes the chosen member first.
LEMMA SumUnfolds ==
  ASSUME NEW F, NEW S, IsFiniteSet(S), S # {}
  PROVE  Sum(F, S) = F[Chosen(S)] + Sum(F, S \ {Chosen(S)})
<1> DEFINE T == S \ {Chosen(S)}
           fold(s) == CHOOSE h : Folds(F, s, h)
<1>1. ASSUME NEW s, IsFiniteSet(s) PROVE Folds(F, s, fold(s))
  <2>1. \E h : Folds(F, s, h)
    BY <1>1, FoldExists
  <2> HIDE DEF Folds
  <2> QED BY <2>1
<1>2. Sum(F, S) = fold(S)[S] /\ Sum(F, T) = fold(T)[T]
  BY SumIsFold
<1>3. IsFiniteSet(T)
  BY FS_RemoveElement
<1>4. Folds(F, S, fold(S)) /\ Folds(F, T, fold(T))
  BY <1>1, <1>3
<1> HIDE DEF fold
<1>5. fold(S)[S] = F[Chosen(S)] + fold(S)[T]
  BY <1>4 DEF Folds, Unfolded
<1>6. fold(S)[T] = fold(T)[T]
  BY <1>4, FoldUnique
<1> QED BY <1>2, <1>5, <1>6

\* What holds of every sum is shown by taking a member out: a set of
\* counterexamples has one none of whose proper subsets is one.
LEMMA Counterexample ==
  ASSUME NEW S, IsFiniteSet(S), NEW C \in SUBSET (SUBSET S), {} \notin C, C # {}
  PROVE  \E T \in C : /\ T # {} /\ Chosen(T) \in T
                      /\ \A x \in T : T \ {x} \notin C
<1>1. PICK T \in C : \A U \in C : U \subseteq T => U = T
  BY MinimalSet
<1>2. T # {} /\ Chosen(T) \in T
  BY ChosenIsMember
<1>3. \A x \in T : T \ {x} # T /\ T \ {x} \subseteq T
  OBVIOUS
<1> QED BY <1>1, <1>2, <1>3

LEMMA SumType ==
  ASSUME NEW F, NEW S, Summands(F, S)
  PROVE  Sum(F, S) \in Int
<1> DEFINE C == {T \in SUBSET S : Sum(F, T) \notin Int}
<1>1. SUFFICES ASSUME C # {} PROVE FALSE
  OBVIOUS
<1>2. IsFiniteSet(S) /\ C \in SUBSET (SUBSET S) /\ {} \notin C
  BY SumEmpty DEF Summands
<1>3. PICK T \in C : /\ T # {} /\ Chosen(T) \in T
                    /\ \A x \in T : T \ {x} \notin C
  <2> HIDE DEF C
  <2> QED BY <1>1, <1>2, Counterexample
<1>4. IsFiniteSet(T)
  BY <1>2, FS_Subset
<1>5. Sum(F, T) = F[Chosen(T)] + Sum(F, T \ {Chosen(T)})
  BY <1>3, <1>4, SumUnfolds
<1> QED BY <1>3, <1>5 DEF Summands

\* Any member may be taken first.
LEMMA SumRemove ==
  ASSUME NEW F, NEW S, Summands(F, S), NEW x \in S
  PROVE  Sum(F, S) = F[x] + Sum(F, S \ {x})
<1> DEFINE C == {T \in SUBSET S : \E y \in T : Sum(F, T) # F[y] + Sum(F, T \ {y})}
<1>1. SUFFICES ASSUME C # {} PROVE FALSE
  OBVIOUS
<1>2. IsFiniteSet(S) /\ C \in SUBSET (SUBSET S) /\ {} \notin C
  BY DEF Summands
<1>3. PICK T \in C : /\ T # {} /\ Chosen(T) \in T
                    /\ \A z \in T : T \ {z} \notin C
  <2> HIDE DEF C
  <2> QED BY <1>1, <1>2, Counterexample
<1> DEFINE c == Chosen(T)
<1>4. PICK y \in T : Sum(F, T) # F[y] + Sum(F, T \ {y})
  BY <1>3
<1>5. ASSUME NEW U \in SUBSET S
      PROVE  IsFiniteSet(U) /\ Sum(F, U) \in Int /\ \A z \in U : F[z] \in Int
  BY SummandsSubset, SumType DEF Summands
<1>6. Sum(F, T) = F[c] + Sum(F, T \ {c})
  BY <1>3, <1>5, SumUnfolds
<1>7. y # c
  BY <1>4, <1>6
<1>8. Sum(F, T \ {c}) = F[y] + Sum(F, (T \ {c}) \ {y})
  BY <1>3, <1>7
<1>9. Sum(F, T \ {y}) = F[c] + Sum(F, (T \ {y}) \ {c})
  <2>1. T \ {y} \in SUBSET S /\ T \ {y} \notin C /\ c \in T \ {y}
    BY <1>3, <1>7
  <2> QED BY <2>1
<1>10. (T \ {c}) \ {y} = (T \ {y}) \ {c}
  OBVIOUS
<1>11. Sum(F, (T \ {c}) \ {y}) \in Int /\ F[c] \in Int /\ F[y] \in Int
  BY <1>3, <1>5
<1> DEFINE rest == Sum(F, (T \ {c}) \ {y})
<1>12. /\ Sum(F, T) = F[c] + (F[y] + rest)
       /\ Sum(F, T \ {y}) = F[c] + rest
  BY <1>6, <1>8, <1>9, <1>10
<1> HIDE DEF c, rest
<1>13. rest \in Int /\ F[c] \in Int /\ F[y] \in Int
  BY <1>11 DEF rest
<1>14. F[y] + Sum(F, T \ {y}) = F[c] + (F[y] + rest)
  BY <1>12, <1>13
<1> QED BY <1>4, <1>12, <1>14

\* Sums of the same summands are the same.
LEMMA SumSame ==
  ASSUME NEW F, NEW G, NEW S, Summands(F, S), \A x \in S : G[x] = F[x]
  PROVE  Sum(G, S) = Sum(F, S)
<1> DEFINE C == {T \in SUBSET S : Sum(G, T) # Sum(F, T)}
<1>1. SUFFICES ASSUME C # {} PROVE FALSE
  OBVIOUS
<1>2. IsFiniteSet(S) /\ C \in SUBSET (SUBSET S) /\ {} \notin C
  BY SumEmpty DEF Summands
<1>3. PICK T \in C : /\ T # {} /\ Chosen(T) \in T
                    /\ \A x \in T : T \ {x} \notin C
  <2> HIDE DEF C
  <2> QED BY <1>1, <1>2, Counterexample
<1>4. IsFiniteSet(T)
  BY <1>2, FS_Subset
<1>5. /\ Sum(F, T) = F[Chosen(T)] + Sum(F, T \ {Chosen(T)})
      /\ Sum(G, T) = G[Chosen(T)] + Sum(G, T \ {Chosen(T)})
  BY <1>3, <1>4, SumUnfolds
<1> QED BY <1>3, <1>5

\* One more member adds its summand.
LEMMA SumAdd ==
  ASSUME NEW F, NEW S, Summands(F, S), NEW x, x \notin S, F[x] \in Int
  PROVE  Sum(F, S \cup {x}) = Sum(F, S) + F[x]
<1> DEFINE T == S \cup {x}
<1>1. Summands(F, T) /\ x \in T
  BY FS_AddElement DEF Summands
<1>2. T \ {x} = S
  OBVIOUS
<1> HIDE DEF T
<1>3. Sum(F, T) = F[x] + Sum(F, T \ {x})
  BY <1>1, SumRemove
<1>4. Sum(F, S) \in Int
  BY SumType
<1>5. Sum(F, T) = F[x] + Sum(F, S)
  BY <1>2, <1>3, Zenon
<1> QED BY <1>4, <1>5 DEF T

\* A sum follows the change of one summand.
LEMMA SumChange ==
  ASSUME NEW F, NEW G, NEW S, Summands(F, S), NEW x \in S, G[x] \in Int,
         \A y \in S : y # x => G[y] = F[y]
  PROVE  Sum(G, S) = Sum(F, S) - F[x] + G[x]
<1> DEFINE T == S \ {x}
<1>1. Summands(F, T) /\ Summands(G, S)
  BY SummandsSubset DEF Summands
<1>2. Sum(G, T) = Sum(F, T)
  BY <1>1, SumSame
<1>3. Sum(F, S) = F[x] + Sum(F, T) /\ Sum(G, S) = G[x] + Sum(G, T)
  BY <1>1, SumRemove
<1>4. Sum(F, T) \in Int /\ F[x] \in Int
  BY <1>1, SumType DEF Summands
<1> QED BY <1>2, <1>3, <1>4

\* Greater summands have the greater sum.
LEMMA SumMonotone ==
  ASSUME NEW F, NEW G, NEW S, Summands(F, S), Summands(G, S),
         \A x \in S : F[x] <= G[x]
  PROVE  Sum(F, S) <= Sum(G, S)
<1> DEFINE C == {T \in SUBSET S : ~(Sum(F, T) <= Sum(G, T))}
<1>1. SUFFICES ASSUME C # {} PROVE FALSE
  OBVIOUS
<1>2. IsFiniteSet(S) /\ C \in SUBSET (SUBSET S) /\ {} \notin C
  BY SumEmpty DEF Summands
<1>3. PICK T \in C : /\ T # {} /\ Chosen(T) \in T
                    /\ \A x \in T : T \ {x} \notin C
  <2> HIDE DEF C
  <2> QED BY <1>1, <1>2, Counterexample
<1> DEFINE c == Chosen(T)
           U == T \ {c}
<1>4. IsFiniteSet(T)
  BY <1>2, FS_Subset
<1>5. Sum(F, T) = F[c] + Sum(F, U) /\ Sum(G, T) = G[c] + Sum(G, U)
  BY <1>3, <1>4, SumUnfolds
<1>6. Sum(F, U) \in Int /\ Sum(G, U) \in Int
  <2>1. Summands(F, U) /\ Summands(G, U)
    BY SummandsSubset
  <2> QED BY <2>1, SumType
<1>7. Sum(F, U) <= Sum(G, U) /\ F[c] <= G[c] /\ F[c] \in Int /\ G[c] \in Int
  BY <1>3 DEF Summands
<1> QED BY <1>3, <1>5, <1>6, <1>7

\* The sum of a constant is that constant for each member.
LEMMA SumConstant ==
  ASSUME NEW F, NEW S, IsFiniteSet(S), NEW n \in Int, \A x \in S : F[x] = n
  PROVE  Sum(F, S) = n * Cardinality(S)
<1> DEFINE C == {T \in SUBSET S : Sum(F, T) # n * Cardinality(T)}
<1>1. SUFFICES ASSUME C # {} PROVE FALSE
  OBVIOUS
<1>2. C \in SUBSET (SUBSET S) /\ {} \notin C
  BY SumEmpty, FS_EmptySet
<1>3. PICK T \in C : /\ T # {} /\ Chosen(T) \in T
                    /\ \A x \in T : T \ {x} \notin C
  <2> HIDE DEF C
  <2> QED BY <1>1, <1>2, Counterexample
<1> DEFINE U == T \ {Chosen(T)}
<1>4. IsFiniteSet(T)
  BY FS_Subset
<1>5. Sum(F, T) = n + Sum(F, U)
  BY <1>3, <1>4, SumUnfolds
<1>6. Sum(F, U) = n * Cardinality(U)
  BY <1>3
<1>7. Cardinality(U) = Cardinality(T) - 1 /\ Cardinality(T) \in Nat
  BY <1>3, <1>4, FS_RemoveElement, FS_CardinalityType
<1>8. n * Cardinality(T) = n + n * Cardinality(U)
  BY <1>7
<1> QED BY <1>3, <1>5, <1>6, <1>8

\* A sum is linear.  (Named, a combination is not taken apart by the arithmetic.)
Linear(m, a, n, b) == m * a + n * b

LEMMA SumScaled ==
  ASSUME NEW F, NEW G, NEW H, NEW S, Summands(F, S), Summands(G, S),
         NEW m \in Int, NEW n \in Int, \A x \in S : H[x] = Linear(m, F[x], n, G[x])
  PROVE  Sum(H, S) = Linear(m, Sum(F, S), n, Sum(G, S))
<1> DEFINE C == {T \in SUBSET S : Sum(H, T) # Linear(m, Sum(F, T), n, Sum(G, T))}
<1>1. SUFFICES ASSUME C # {} PROVE FALSE
  OBVIOUS
<1>2. IsFiniteSet(S) /\ C \in SUBSET (SUBSET S) /\ {} \notin C
  BY SumEmpty DEF Summands, Linear
<1>3. PICK T \in C : /\ T # {} /\ Chosen(T) \in T
                    /\ \A x \in T : T \ {x} \notin C
  <2> HIDE DEF C
  <2> QED BY <1>1, <1>2, Counterexample
<1> DEFINE c == Chosen(T)
           U == T \ {c}
<1>4. IsFiniteSet(T)
  BY <1>2, FS_Subset
<1>5. /\ Sum(F, T) = F[c] + Sum(F, U)
      /\ Sum(G, T) = G[c] + Sum(G, U)
      /\ Sum(H, T) = H[c] + Sum(H, U)
  BY <1>3, <1>4, SumUnfolds
<1>6. Sum(H, U) = m * Sum(F, U) + n * Sum(G, U) /\ H[c] = m * F[c] + n * G[c]
  BY <1>3 DEF Linear
<1>7. Sum(F, U) \in Int /\ Sum(G, U) \in Int /\ F[c] \in Int /\ G[c] \in Int
  <2>1. Summands(F, U) /\ Summands(G, U)
    BY SummandsSubset
  <2> QED BY <1>3, <2>1, SumType DEF Summands
<1>8. ASSUME NEW a \in Int, NEW b \in Int, NEW d \in Int
      PROVE  d * (a + b) = d * a + d * b /\ d * a \in Int /\ d * b \in Int
  BY <1>8
<1> HIDE DEF C, U, c
<1>9. /\ m * (F[c] + Sum(F, U)) = m * F[c] + m * Sum(F, U)
      /\ n * (G[c] + Sum(G, U)) = n * G[c] + n * Sum(G, U)
      /\ {m * F[c], m * Sum(F, U), n * G[c], n * Sum(G, U)} \subseteq Int
  BY <1>7, <1>8
<1>10. Sum(H, T) = m * Sum(F, T) + n * Sum(G, T)
  BY <1>5, <1>6, <1>9
<1> QED BY <1>3, <1>10 DEF C, Linear

\* Summands that are 0 may be left out.
LEMMA SumRestrict ==
  ASSUME NEW F, NEW S, Summands(F, S), NEW T \in SUBSET S, \A x \in S \ T : F[x] = 0
  PROVE  Sum(F, S) = Sum(F, T)
<1> DEFINE C == {U \in SUBSET S : Sum(F, U) # Sum(F, U \cap T)}
<1>1. IsFiniteSet(S) /\ C \in SUBSET (SUBSET S) /\ {} \notin C
  <2>1. {} \cap T = {}
    OBVIOUS
  <2> QED BY <2>1 DEF Summands
<1>2. ASSUME C # {} PROVE FALSE
  <2>1. PICK U \in C : /\ U # {} /\ Chosen(U) \in U
                      /\ \A x \in U : U \ {x} \notin C
    <3> HIDE DEF C
    <3> QED BY <1>1, <1>2, Counterexample
  <2> DEFINE c == Chosen(U)
             V == U \ {c}
  <2>2. IsFiniteSet(U)
    BY <1>1, FS_Subset
  <2>3. Sum(F, U) = F[c] + Sum(F, V)
    BY <2>1, <2>2, SumUnfolds
  <2>4. Sum(F, V) = Sum(F, V \cap T)
    BY <2>1
  <2>5. Sum(F, V \cap T) \in Int /\ c \in S
    <3>1. Summands(F, V \cap T)
      BY SummandsSubset
    <3> QED BY <2>1, <3>1, SumType
  <2>6. CASE c \in T
    <3>1. Summands(F, U \cap T) /\ c \in U \cap T
      BY <2>1, <2>6, SummandsSubset
    <3>2. Sum(F, U \cap T) = F[c] + Sum(F, (U \cap T) \ {c})
      BY <3>1, SumRemove
    <3>3. (U \cap T) \ {c} = V \cap T
      OBVIOUS
    <3>4. Sum(F, U \cap T) = F[c] + Sum(F, V \cap T)
      BY <3>2, <3>3, Zenon
    <3> QED BY <2>3, <2>4, <3>4
  <2>7. CASE c \notin T
    <3>1. U \cap T = V \cap T
      BY <2>7
    <3>2. Sum(F, U \cap T) = Sum(F, V \cap T)
      BY <3>1, Zenon
    <3>3. F[c] = 0
      BY <2>5, <2>7
    <3> QED BY <2>3, <2>4, <2>5, <3>2, <3>3
  <2> QED BY <2>6, <2>7
<1>3. Sum(F, S) = Sum(F, S \cap T)
  BY <1>2
<1>4. S \cap T = T
  OBVIOUS
<1> QED BY <1>3, <1>4, Zenon

\* SumFunction of Functions.tla, over the domain of its argument.
LEMMA SumOfFunction ==
  ASSUME NEW F, NEW S, S = DOMAIN F
  PROVE  SumFunction(F) = Sum(F, S)
  BY DEF SumFunction, Sum
=============================================================================
