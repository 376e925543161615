----------------------------- MODULE DataLemmas -----------------------------
(***************************************************************************)
(* Facts about data that the proofs about the components rest on: what     *)
(* follows by induction on numbers and on finite sets, recursive           *)
(* definitions, sums over a set, and the operators on sequences with which *)
(* the lobby keeps its games and a client its connections.                 *)
(*                                                                         *)
(* Induction is stated with a set of the numbers or sets for which a fact  *)
(* holds, not with a predicate as a parameter.                             *)
(***************************************************************************)
EXTENDS SequencesExt, SequenceTheorems, FiniteSetTheorems, TLAPS

-----------------------------------------------------------------------------
(* Induction, for a set of numbers and for a set of finite sets.           *)

LEMMA NatSet ==
    ASSUME NEW S, 0 \in S, \A n \in Nat : n \in S => n + 1 \in S
    PROVE  Nat \subseteq S
<1> DEFINE R == {ss \in Nat \X Nat : ss[1] < ss[2]}
<1>0. IsWellFoundedOn(R, Nat)
  BY NatLessThanWellFounded DEF OpToRel
<1> SUFFICES ASSUME Nat \ S # {} PROVE FALSE
  OBVIOUS
<1> HIDE DEF R
<1>1. PICK x \in Nat \ S : \A y \in Nat \ S : ~ (<<y, x>> \in R)
  BY <1>0, WFMin, Nat \ S \subseteq Nat
<1>2. x - 1 \in Nat /\ x - 1 < x
  BY <1>1
<1>3. <<x - 1, x>> \in R
  BY <1>1, <1>2 DEF R
<1> QED
  BY <1>1, <1>2, <1>3

\* What holds of the empty set and is kept by an element more holds of S.
LEMMA FiniteInduction ==
    ASSUME NEW S, IsFiniteSet(S), NEW X \in SUBSET SUBSET S,
           {} \in X,
           \A T \in X : \A x \in S \ T : T \cup {x} \in X
    PROVE  S \in X
<1> DEFINE N == {n \in Nat : \A T \in SUBSET S : Cardinality(T) = n => T \in X}
<1>1. 0 \in N
  BY FS_Subset, FS_EmptySet
<1>2. ASSUME NEW n \in Nat, n \in N
      PROVE  n + 1 \in N
  <2> SUFFICES ASSUME NEW T \in SUBSET S, Cardinality(T) = n + 1
               PROVE  T \in X
    BY <1>2
  <2>1. IsFiniteSet(T) /\ T # {}
    BY FS_Subset, FS_EmptySet, <1>2
  <2>2. PICK x \in T : TRUE
    BY <2>1
  <2>3. Cardinality(T \ {x}) = n
    <3>1. Cardinality(T \ {x}) = Cardinality(T) - 1
      BY <2>1, FS_RemoveElement
    <3> QED
      BY <3>1
  <2>4. T \ {x} \in X
    BY <1>2, <2>3
  <2> QED
    BY <2>2, <2>4, T = (T \ {x}) \cup {x}
<1>3. Nat \subseteq N
  <2> HIDE DEF N
  <2> QED
    BY <1>1, <1>2, NatSet
<1>4. Cardinality(S) \in Nat
  BY FS_CardinalityType
<1> QED
  BY <1>3, <1>4

\* A recursive function on 0..N, each of whose values follows from the one before.
IsChain(r, D, a, F, N) ==
    r \in [0..N -> D] /\ r[0] = a /\ \A n \in 1..N : r[n] = F[r[n - 1]]

LEMMA ChainExists ==
    ASSUME NEW D, NEW a \in D, NEW F \in [D -> D], NEW N \in Nat
    PROVE  \E r : IsChain(r, D, a, F, N)
<1> DEFINE chain(n, r) == r[0] = a /\ \A i \in 1..n : r[i] = F[r[i - 1]]
           X == {n \in Nat : \E r \in [0..n -> D] : chain(n, r)}
<1>1. 0 \in X
  <2> DEFINE r == [i \in 0..0 |-> a]
  <2>1. r \in [0..0 -> D] /\ chain(0, r)
    OBVIOUS
  <2> QED
    BY <2>1
<1>2. ASSUME NEW n \in Nat, n \in X
      PROVE  n + 1 \in X
  <2>1. PICK r \in [0..n -> D] : chain(n, r)
    BY <1>2
  <2> DEFINE q == [i \in 0..(n + 1) |-> IF i <= n THEN r[i] ELSE F[r[n]]]
  <2>2. q \in [0..(n + 1) -> D]
    BY <2>1
  <2>3. chain(n + 1, q)
    <3>1. q[0] = a
      BY <2>1
    <3>2. ASSUME NEW i \in 1..(n + 1)
          PROVE  q[i] = F[q[i - 1]]
      <4>1. CASE i <= n
        BY <2>1, <4>1
      <4>2. CASE i = n + 1
        BY <4>2
      <4> QED
        BY <4>1, <4>2
    <3> HIDE DEF q
    <3> QED
      BY <3>1, <3>2
  <2> HIDE DEF q, chain
  <2> QED
    BY <2>2, <2>3
<1>3. N \in X
  <2> HIDE DEF X
  <2> QED
    BY <1>1, <1>2, NatSet
<1> QED
  BY <1>3 DEF IsChain

\* A bounded set of natural numbers has a largest one.
LEMMA MaxOfBounded ==
    ASSUME NEW S \in SUBSET Nat, S # {}, NEW m \in Nat, \A x \in S : x <= m
    PROVE  Max(S) \in S /\ \A x \in S : x <= Max(S)
<1> DEFINE X == {n \in Nat : \A T \in SUBSET Nat : T # {} /\ (\A x \in T : x <= n) =>
                     \E x \in T : \A y \in T : x >= y}
<1>1. 0 \in X
  <2> SUFFICES ASSUME NEW T \in SUBSET Nat, T # {}, \A x \in T : x <= 0
               PROVE  \E x \in T : \A y \in T : x >= y
    OBVIOUS
  <2>1. \A x \in T : x = 0
    OBVIOUS
  <2> QED
    BY <2>1
<1>2. ASSUME NEW n \in Nat, n \in X
      PROVE  n + 1 \in X
  <2> SUFFICES ASSUME NEW T \in SUBSET Nat, T # {}, \A x \in T : x <= n + 1
               PROVE  \E x \in T : \A y \in T : x >= y
    OBVIOUS
  <2>1. CASE n + 1 \in T
    BY <2>1
  <2>2. CASE n + 1 \notin T
    <3>1. \A x \in T : x <= n
      BY <2>2
    <3> QED
      BY <1>2, <3>1
  <2> QED
    BY <2>1, <2>2
<1>3. m \in X
  <2> HIDE DEF X
  <2> QED
    BY <1>1, <1>2, NatSet
<1>4. \E x \in S : \A y \in S : x >= y
  BY <1>3
<1> QED
  BY <1>4 DEF Max

-----------------------------------------------------------------------------
(* Finite sets.                                                            *)

\* The places of one kind: as many for each id as its width.
PlacesOf(kind, Ids, width) == UNION {{<<kind, x, i>> : i \in 1 .. width[x]} : x \in Ids}

LEMMA TableFinite ==
    ASSUME NEW Ids, IsFiniteSet(Ids), NEW kind, NEW width \in [Ids -> Nat]
    PROVE  IsFiniteSet(PlacesOf(kind, Ids, width))
<1> DEFINE Row(x) == {<<kind, x, i>> : i \in 1 .. width[x]}
           Rows   == {Row(x) : x \in Ids}
<1>1. ASSUME NEW x \in Ids
      PROVE  IsFiniteSet(Row(x))
  <2> DEFINE f == [i \in 1 .. width[x] |-> <<kind, x, i>>]
  <2>1. f \in Surjection(1 .. width[x], Row(x))
    BY DEF Surjection
  <2>2. IsFiniteSet(1 .. width[x])
    BY FS_Interval
  <2> HIDE DEF f, Row
  <2> QED
    BY <2>1, <2>2, FS_Surjection
<1>2. IsFiniteSet(Rows)
  <2> DEFINE f == [x \in Ids |-> Row(x)]
  <2> HIDE DEF Row
  <2>1. f \in Surjection(Ids, Rows)
    BY DEF Surjection
  <2> HIDE DEF f, Rows
  <2> QED
    BY <2>1, FS_Surjection
<1> HIDE DEF Row
<1>3. IsFiniteSet(UNION Rows)
  BY <1>1, <1>2, FS_UNION
<1> QED
  BY <1>3 DEF Row, PlacesOf

LEMMA FiveFinite ==
    ASSUME NEW a, NEW b, NEW c, NEW d, NEW e
    PROVE  IsFiniteSet({a, b, c, d, e})
<1>1. IsFiniteSet({a})
  BY FS_Singleton
<1>2. IsFiniteSet({a} \cup {b})
  BY <1>1, FS_AddElement
<1>3. IsFiniteSet(({a} \cup {b}) \cup {c})
  BY <1>2, FS_AddElement
<1>4. IsFiniteSet((({a} \cup {b}) \cup {c}) \cup {d})
  BY <1>3, FS_AddElement
<1>5. IsFiniteSet(((({a} \cup {b}) \cup {c}) \cup {d}) \cup {e})
  BY <1>4, FS_AddElement
<1>6. {a, b, c, d, e} = ((({a} \cup {b}) \cup {c}) \cup {d}) \cup {e}
  OBVIOUS
<1> QED
  BY <1>5, <1>6

-----------------------------------------------------------------------------
(* Sums.                                                                   *)

\* What FoldFunctionOnSet computes.
IsSum(f, S, g) ==
    g = [s \in SUBSET S |->
           IF s = {} THEN 0
           ELSE f[CHOOSE x \in s : TRUE] + g[s \ {CHOOSE x \in s : TRUE}]]

LEMMA SumIsChosen ==
    ASSUME NEW f, NEW S
    PROVE  SumFunctionOnSet(f, S) = (CHOOSE g : IsSum(f, S, g))[S]
BY DEF SumFunctionOnSet, FoldFunctionOnSet, MapThenFoldSet, IsSum

\* It can be computed: by the size of the sets.
LEMMA SumExists ==
    ASSUME NEW f, NEW S, IsFiniteSet(S)
    PROVE  \E g : IsSum(f, S, g)
<1> DEFINE ch(s) == CHOOSE x \in s : TRUE
           D(n) == {s \in SUBSET S : Cardinality(s) <= n}
           body(g, s) == IF s = {} THEN 0 ELSE f[ch(s)] + g[s \ {ch(s)}]
           N == {n \in Nat : \E g : g = [s \in D(n) |-> body(g, s)]}
<1>1. 0 \in N
  <2> DEFINE g == [s \in D(0) |-> 0]
  <2>1. \A s \in D(0) : s = {}
    BY FS_Subset, FS_EmptySet, FS_CardinalityType
  <2>2. g = [s \in D(0) |-> body(g, s)]
    BY <2>1
  <2> QED
    BY <2>2
<1>2. ASSUME NEW n \in Nat, n \in N
      PROVE  n + 1 \in N
  <2>1. PICK g : g = [s \in D(n) |-> body(g, s)]
    BY <1>2
  <2> DEFINE h == [s \in D(n + 1) |-> body(g, s)]
  <2>2. ASSUME NEW s \in D(n + 1), s # {}
        PROVE  s \ {ch(s)} \in D(n) /\ s \ {ch(s)} \in D(n + 1)
    <3>1. IsFiniteSet(s) /\ ch(s) \in s
      BY <2>2, FS_Subset
    <3>2. Cardinality(s \ {ch(s)}) = Cardinality(s) - 1 /\ Cardinality(s) \in Nat
      BY <3>1, FS_RemoveElement, FS_CardinalityType
    <3> QED
      BY <3>2, <2>2
  <2>3. \A s \in D(n) : g[s] = body(g, s)
    BY <2>1
  <2>4. \A s \in D(n) : s \in D(n + 1)
    BY FS_Subset, FS_CardinalityType
  <2>5. \A s \in D(n) : h[s] = g[s]
    BY <2>3, <2>4
  <2>6. \A s \in D(n + 1) : body(h, s) = body(g, s)
    <3> HIDE DEF h, D
    <3> QED
      BY <2>2, <2>5
  <2>7. h = [s \in D(n + 1) |-> body(h, s)]
    <3>1. \A s \in D(n + 1) : h[s] = body(g, s)
      OBVIOUS
    <3>2. h = [s \in D(n + 1) |-> h[s]]
      OBVIOUS
    <3> HIDE DEF h, body, D
    <3> QED
      BY <2>6, <3>1, <3>2
  <2> HIDE DEF h, body, D
  <2> QED
    BY <2>7
<1>3. Cardinality(S) \in N
  <2> HIDE DEF N
  <2> QED
    BY <1>1, <1>2, NatSet, FS_CardinalityType
<1>4. D(Cardinality(S)) = SUBSET S
  BY FS_Subset, FS_CardinalityType
<1>5. PICK g : g = [s \in D(Cardinality(S)) |-> body(g, s)]
  BY <1>3
<1>6. g = [s \in SUBSET S |-> body(g, s)]
  <2> HIDE DEF D, body
  <2> QED
    BY <1>4, <1>5
<1>7. IsSum(f, S, g)
  BY <1>6 DEF IsSum
<1> QED
  BY <1>7

\* Whichever element is taken first.
LEMMA SumStep ==
    ASSUME NEW f, NEW S, IsFiniteSet(S), \A x \in S : f[x] \in Int,
           NEW g, IsSum(f, S, g),
           NEW T \in SUBSET S
    PROVE  /\ g[T] \in Int
           /\ g[{}] = 0
           /\ \A x \in T : g[T] = f[x] + g[T \ {x}]
<1> DEFINE good(U) == g[U] \in Int /\ \A x \in U : g[U] = f[x] + g[U \ {x}]
           N == {n \in Nat : \A U \in SUBSET S : Cardinality(U) <= n => good(U)}
<1>0. g[{}] = 0
  BY DEF IsSum
<1>1. 0 \in N
  <2>1. \A U \in SUBSET S : Cardinality(U) <= 0 => U = {}
    BY FS_Subset, FS_EmptySet, FS_CardinalityType
  <2>2. good({})
    BY <1>0
  <2> QED
    BY <2>1, <2>2
<1>2. ASSUME NEW n \in Nat, n \in N
      PROVE  n + 1 \in N
  <2> SUFFICES ASSUME NEW U \in SUBSET S, Cardinality(U) <= n + 1
               PROVE  good(U)
    OBVIOUS
  <2>0. \A V \in SUBSET S : Cardinality(V) <= n => good(V)
    BY <1>2
  <2> HIDE DEF N
  <2>1. CASE U = {}
    BY <1>0, <2>1
  <2>2. CASE U # {}
    <3>1. IsFiniteSet(U)
      BY FS_Subset
    <3> DEFINE c == CHOOSE x \in U : TRUE
    <3>2. c \in U
      BY <2>2
    <3>3. g[U] = f[c] + g[U \ {c}]
      BY <2>2 DEF IsSum
    <3> HIDE DEF c
    <3>4. ASSUME NEW x \in U
          PROVE  Cardinality(U \ {x}) <= n
      <4>1. Cardinality(U \ {x}) = Cardinality(U) - 1 /\ Cardinality(U) \in Nat
        BY <3>1, FS_RemoveElement, FS_CardinalityType
      <4> QED
        BY <4>1
    <3>5. ASSUME NEW x \in U
          PROVE  good(U \ {x})
      BY <3>4, <2>0
    <3>6. g[U \ {c}] \in Int /\ f[c] \in Int
      BY <3>2, <3>5
    <3>7. ASSUME NEW x \in U, x # c
          PROVE  g[U] = f[x] + g[U \ {x}]
      <4> DEFINE W == (U \ {x}) \ {c}
      <4>1. g[U \ {c}] = f[x] + g[(U \ {c}) \ {x}]
        BY <3>2, <3>5, <3>7
      <4>2. (U \ {c}) \ {x} = W
        OBVIOUS
      <4>3. g[U \ {x}] = f[c] + g[W]
        BY <3>2, <3>5, <3>7
      <4>4. IsFiniteSet(U \ {x}) /\ c \in U \ {x}
        BY <3>1, <3>2, <3>7, FS_Subset
      <4>5. Cardinality(W) = Cardinality(U \ {x}) - 1 /\ Cardinality(U \ {x}) \in Nat
        BY <4>4, FS_RemoveElement, FS_CardinalityType
      <4>6. W \in SUBSET S /\ Cardinality(W) <= n
        BY <3>4, <4>5
      <4> HIDE DEF W
      <4>7. g[W] \in Int
        BY <2>0, <4>6
      <4>8. f[x] \in Int
        OBVIOUS
      <4>9. f[c] + (f[x] + g[W]) = f[x] + (f[c] + g[W])
        BY <3>6, <4>7, <4>8
      <4>10. g[U] = f[c] + (f[x] + g[W])
        BY <3>3, <4>1, <4>2
      <4> QED
        BY <4>3, <4>9, <4>10
    <3>8. g[U] \in Int
      BY <3>3, <3>6
    <3> QED
      BY <3>3, <3>7, <3>8
  <2> QED
    BY <2>1, <2>2
<1>3. Cardinality(T) \in N
  <2>1. Nat \subseteq N
    <3> HIDE DEF N
    <3> QED
      BY <1>1, <1>2, NatSet
  <2> QED
    BY <2>1, FS_Subset, FS_CardinalityType
<1>4. good(T)
  <2>1. Cardinality(T) \in Nat /\ Cardinality(T) <= Cardinality(T)
    BY FS_Subset, FS_CardinalityType
  <2> QED
    BY <1>3, <2>1
<1> QED
  BY <1>0, <1>4

\* The laws of SumFunctionOnSet, in which nothing is left of the order in which
\* its definition takes the elements.
LEMMA SumLaws ==
    ASSUME NEW f, NEW S, IsFiniteSet(S), \A x \in S : f[x] \in Int
    PROVE  /\ SumFunctionOnSet(f, S) \in Int
           /\ SumFunctionOnSet(f, {}) = 0
           /\ \A x \in S : SumFunctionOnSet(f, S) = f[x] + SumFunctionOnSet(f, S \ {x})
<1> DEFINE chosen(T) == CHOOSE g : IsSum(f, T, g)
<1>1. ASSUME NEW T \in SUBSET S
      PROVE  SumFunctionOnSet(f, T) = chosen(T)[T] /\ IsSum(f, T, chosen(T)) /\ IsFiniteSet(T)
  <2>1. IsFiniteSet(T)
    BY FS_Subset
  <2>2. \E g : IsSum(f, T, g)
    BY <2>1, SumExists
  <2> QED
    BY <2>1, <2>2, SumIsChosen
<1> HIDE DEF chosen
<1>2. SumFunctionOnSet(f, S) \in Int
  BY <1>1, SumStep
<1>3. SumFunctionOnSet(f, {}) = 0
  BY <1>1, SumStep
<1>4. ASSUME NEW x \in S
      PROVE  SumFunctionOnSet(f, S) = f[x] + SumFunctionOnSet(f, S \ {x})
  <2> DEFINE V == S \ {x}
             g == chosen(S)
             h == chosen(V)
             X == {U \in SUBSET V : g[U] = h[U]}
  <2>1. IsSum(f, S, g) /\ IsSum(f, V, h) /\ IsFiniteSet(V)
    BY <1>1
  <2> HIDE DEF g, h
  <2>2. {} \in X
    <3>1. g[{}] = 0 /\ h[{}] = 0
      BY <2>1 DEF IsSum
    <3> QED
      BY <3>1
  <2>3. ASSUME NEW U \in X, NEW y \in V \ U
        PROVE  U \cup {y} \in X
    <3>1. g[U \cup {y}] = f[y] + g[(U \cup {y}) \ {y}]
      <4>1. U \cup {y} \in SUBSET S
        OBVIOUS
      <4> QED
        BY <2>1, <4>1, SumStep
    <3>2. h[U \cup {y}] = f[y] + h[(U \cup {y}) \ {y}]
      <4>1. U \cup {y} \in SUBSET V /\ \A z \in V : f[z] \in Int
        OBVIOUS
      <4> QED
        BY <2>1, <4>1, SumStep
    <3>3. (U \cup {y}) \ {y} = U
      OBVIOUS
    <3> QED
      BY <3>1, <3>2, <3>3
  <2>4. V \in X
    <3> HIDE DEF X
    <3>1. X \in SUBSET SUBSET V
      BY DEF X
    <3> QED
      BY <2>1, <2>2, <2>3, <3>1, FiniteInduction
  <2>5. g[S] = f[x] + g[V]
    <3>1. \A y \in S : g[S] = f[y] + g[S \ {y}]
      <4>1. S \in SUBSET S
        OBVIOUS
      <4> HIDE DEF X
      <4> QED
        BY <2>1, <4>1, SumStep
    <3> QED
      BY <3>1
  <2>6. SumFunctionOnSet(f, S) = g[S] /\ SumFunctionOnSet(f, V) = h[V]
    BY <1>1 DEF g, h
  <2> QED
    BY <2>4, <2>5, <2>6
<1> QED
  BY <1>2, <1>3, <1>4

LEMMA SumAdd ==
    ASSUME NEW f, NEW S, IsFiniteSet(S), NEW x, x \notin S, f[x] \in Int,
           \A y \in S : f[y] \in Int
    PROVE  SumFunctionOnSet(f, S \cup {x}) = SumFunctionOnSet(f, S) + f[x]
<1>1. IsFiniteSet(S \cup {x}) /\ \A y \in S \cup {x} : f[y] \in Int
  BY FS_AddElement
<1>2. SumFunctionOnSet(f, S \cup {x}) = f[x] + SumFunctionOnSet(f, (S \cup {x}) \ {x})
  BY <1>1, SumLaws
<1>3. (S \cup {x}) \ {x} = S
  OBVIOUS
<1>4. SumFunctionOnSet(f, S) \in Int
  BY SumLaws
<1>5. f[x] + SumFunctionOnSet(f, S) = SumFunctionOnSet(f, S) + f[x]
  BY <1>4
<1> QED
  BY <1>2, <1>3, <1>5

LEMMA SumAgrees ==
    ASSUME NEW f, NEW h, NEW S, IsFiniteSet(S), \A x \in S : f[x] \in Int /\ h[x] = f[x]
    PROVE  SumFunctionOnSet(h, S) = SumFunctionOnSet(f, S)
<1> DEFINE X == {T \in SUBSET S : SumFunctionOnSet(h, T) = SumFunctionOnSet(f, T)}
<1>1. {} \in X
  BY SumLaws, FS_EmptySet
<1>2. ASSUME NEW T \in X, NEW x \in S \ T
      PROVE  T \cup {x} \in X
  <2>1. IsFiniteSet(T) /\ (\A y \in T : f[y] \in Int /\ h[y] \in Int) /\ x \notin T
        /\ f[x] \in Int /\ h[x] \in Int
    BY FS_Subset
  <2>2. SumFunctionOnSet(f, T \cup {x}) = SumFunctionOnSet(f, T) + f[x]
    BY <2>1, SumAdd
  <2>3. SumFunctionOnSet(h, T \cup {x}) = SumFunctionOnSet(h, T) + h[x]
    BY <2>1, SumAdd
  <2> QED
    BY <2>2, <2>3
<1>3. S \in X
  <2> HIDE DEF X
  <2>1. X \in SUBSET SUBSET S
    BY DEF X
  <2> QED
    BY <1>1, <1>2, <2>1, FiniteInduction
<1> QED
  BY <1>3

\* More summands that are not negative do not make less.
LEMMA SumMonotone ==
    ASSUME NEW f, NEW S, IsFiniteSet(S), \A x \in S : f[x] \in Nat, NEW T \in SUBSET S
    PROVE  /\ SumFunctionOnSet(f, T) \in Nat
           /\ SumFunctionOnSet(f, T) <= SumFunctionOnSet(f, S)
<1> DEFINE sum(U) == SumFunctionOnSet(f, U)
           X == {U \in SUBSET S : sum(U) \in Nat}
           Y == {U \in SUBSET (S \ T) : sum(T) <= sum(T \cup U)}
<1>1. ASSUME NEW U \in SUBSET S, NEW x \in S \ U
      PROVE  sum(U \cup {x}) = sum(U) + f[x] /\ sum(U) \in Int /\ f[x] \in Nat
  <2>1. IsFiniteSet(U) /\ (\A y \in U : f[y] \in Int) /\ x \notin U /\ f[x] \in Int
    BY FS_Subset
  <2>2. sum(U) \in Int
    BY <2>1, SumLaws
  <2> QED
    BY <2>1, <2>2, SumAdd
<1>2. \A U \in SUBSET S : sum(U) \in Int
  <2> TAKE U \in SUBSET S
  <2>1. IsFiniteSet(U) /\ \A y \in U : f[y] \in Int
    BY FS_Subset
  <2> QED
    BY <2>1, SumLaws
<1>3. sum({}) = 0
  BY SumLaws, FS_EmptySet
<1> HIDE DEF sum
<1>4. ASSUME NEW U \in SUBSET S
      PROVE  U \in X
  <2> DEFINE Z == {V \in SUBSET U : sum(V) \in Nat}
  <2>1. {} \in Z
    BY <1>3
  <2>2. ASSUME NEW V \in Z, NEW x \in U \ V
        PROVE  V \cup {x} \in Z
    <3>1. sum(V \cup {x}) = sum(V) + f[x] /\ f[x] \in Nat
      BY <1>1
    <3>2. sum(V) + f[x] \in Nat
      BY <3>1
    <3> QED
      BY <3>1, <3>2
  <2>3. U \in Z
    <3> HIDE DEF Z
    <3>1. Z \in SUBSET SUBSET U /\ IsFiniteSet(U)
      BY FS_Subset DEF Z
    <3> QED
      BY <2>1, <2>2, <3>1, FiniteInduction
  <2> QED
    BY <2>3
<1>5. {} \in Y
  <2>1. T \cup {} = T /\ sum(T) <= sum(T)
    BY <1>2
  <2> QED
    BY <2>1
<1>6. ASSUME NEW U \in Y, NEW x \in (S \ T) \ U
      PROVE  U \cup {x} \in Y
  <2>1. T \cup U \in SUBSET S /\ x \in S \ (T \cup U) /\ T \cup (U \cup {x}) = (T \cup U) \cup {x}
    OBVIOUS
  <2>2. sum(T \cup (U \cup {x})) = sum(T \cup U) + f[x] /\ f[x] \in Nat
    BY <1>1, <2>1
  <2>3. sum(T) \in Int /\ sum(T \cup U) \in Int /\ sum(T) <= sum(T \cup U)
    BY <1>2, <2>1
  <2>4. sum(T) <= sum(T \cup (U \cup {x}))
    BY <2>2, <2>3
  <2> QED
    BY <2>4
<1>7. S \ T \in Y
  <2> HIDE DEF Y
  <2>1. Y \in SUBSET SUBSET (S \ T) /\ IsFiniteSet(S \ T)
    BY FS_Subset DEF Y
  <2> QED
    BY <1>5, <1>6, <2>1, FiniteInduction
<1>8. T \cup (S \ T) = S
  OBVIOUS
<1>9. sum(T) \in Nat /\ sum(T) <= sum(S)
  BY <1>4, <1>7, <1>8
<1> QED
  BY <1>9 DEF sum

LEMMA SumUnion ==
    ASSUME NEW f, NEW S, IsFiniteSet(S), \A x \in S : f[x] \in Int,
           NEW T, IsFiniteSet(T), \A x \in T : f[x] \in Int, S \cap T = {}
    PROVE  SumFunctionOnSet(f, S \cup T) = SumFunctionOnSet(f, S) + SumFunctionOnSet(f, T)
<1> DEFINE sum(U) == SumFunctionOnSet(f, U)
           X == {U \in SUBSET T : sum(S \cup U) = sum(S) + sum(U)}
<1>0. ASSUME NEW U \in SUBSET T
      PROVE  IsFiniteSet(U) /\ IsFiniteSet(S \cup U) /\ \A x \in S \cup U : f[x] \in Int
  <2>1. IsFiniteSet(U)
    BY FS_Subset
  <2> QED
    BY <2>1, FS_Union
<1>1. \A U \in SUBSET T : sum(U) \in Int /\ sum(S \cup U) \in Int
  <2> TAKE U \in SUBSET T
  <2>1. \A x \in U : f[x] \in Int
    OBVIOUS
  <2> QED
    BY <1>0, <2>1, SumLaws
<1>2. sum({}) = 0 /\ sum(S) \in Int
  BY SumLaws, FS_EmptySet
<1>3. {} \in X
  <2>1. sum(S) = sum(S) + 0
    BY <1>2
  <2>2. S \cup {} = S
    OBVIOUS
  <2> QED
    BY <1>2, <2>1, <2>2
<1>4. ASSUME NEW U \in X, NEW x \in T \ U
      PROVE  U \cup {x} \in X
  <2>1. x \notin U /\ x \notin S \cup U /\ f[x] \in Int /\ \A y \in U : f[y] \in Int
    OBVIOUS
  <2>2. sum(U \cup {x}) = sum(U) + f[x]
    BY <1>0, <2>1, SumAdd
  <2>3. sum((S \cup U) \cup {x}) = sum(S \cup U) + f[x]
    BY <1>0, <2>1, SumAdd
  <2>4. S \cup (U \cup {x}) = (S \cup U) \cup {x}
    OBVIOUS
  <2>5. sum(S \cup U) = sum(S) + sum(U) /\ sum(U) \in Int
    BY <1>1
  <2> HIDE DEF sum
  <2>6. (sum(S) + sum(U)) + f[x] = sum(S) + (sum(U) + f[x])
    BY <1>2, <2>1, <2>5
  <2> QED
    BY <2>2, <2>3, <2>4, <2>5, <2>6
<1>5. T \in X
  <2> HIDE DEF X
  <2>1. X \in SUBSET SUBSET T
    BY DEF X
  <2> QED
    BY <1>3, <1>4, <2>1, FiniteInduction
<1> QED
  BY <1>5

\* D falls into parts, one for each p.
IsPartition(part, P, D) ==
    /\ \A p \in P : part[p] \subseteq D
    /\ \A p, q \in P : p # q => part[p] \cap part[q] = {}
    /\ \A d \in D : \E p \in P : d \in part[p]

\* Summing part by part.
LEMMA SumByParts ==
    ASSUME NEW f, NEW D, IsFiniteSet(D), \A d \in D : f[d] \in Int,
           NEW P, IsFiniteSet(P), NEW part, IsPartition(part, P, D),
           NEW F, \A p \in P : F[p] = SumFunctionOnSet(f, part[p])
    PROVE  SumFunctionOnSet(F, P) = SumFunctionOnSet(f, D)
<1> DEFINE of(Q) == UNION {part[p] : p \in Q}
           sum(Q) == SumFunctionOnSet(f, of(Q))
           X == {Q \in SUBSET P : SumFunctionOnSet(F, Q) = sum(Q)}
<1>0. ASSUME NEW U \in SUBSET D
      PROVE  IsFiniteSet(U) /\ (\A d \in U : f[d] \in Int) /\ SumFunctionOnSet(f, U) \in Int
  <2>1. IsFiniteSet(U) /\ \A d \in U : f[d] \in Int
    BY FS_Subset
  <2> QED
    BY <2>1, SumLaws
<1>1. \A p \in P : F[p] \in Int /\ F[p] = sum({p})
  <2> TAKE p \in P
  <2>1. of({p}) = part[p] /\ of({p}) \in SUBSET D
    BY DEF IsPartition
  <2> QED
    BY <1>0, <2>1
<1>2. {} \in X
  <2>1. SumFunctionOnSet(f, {}) = 0 /\ SumFunctionOnSet(F, {}) = 0
    BY <1>1, SumLaws, FS_EmptySet
  <2>2. of({}) = {}
    OBVIOUS
  <2> QED
    BY <2>1, <2>2
<1>3. ASSUME NEW Q \in X, NEW p \in P \ Q
      PROVE  Q \cup {p} \in X
  <2>1. IsFiniteSet(Q) /\ p \notin Q /\ F[p] \in Int /\ \A q \in Q : F[q] \in Int
    BY <1>1, FS_Subset
  <2>2. SumFunctionOnSet(F, Q \cup {p}) = SumFunctionOnSet(F, Q) + F[p]
    BY <2>1, SumAdd
  <2>3. /\ of(Q \cup {p}) = of(Q) \cup of({p})
        /\ of(Q) \cap of({p}) = {}
        /\ of(Q) \in SUBSET D /\ of({p}) \in SUBSET D
    BY DEF IsPartition
  <2> HIDE DEF of
  <2>4. sum(Q \cup {p}) = sum(Q) + sum({p})
    <3> DEFINE V == of(Q)
               W == of({p})
    <3>1. V \in SUBSET D /\ W \in SUBSET D /\ V \cap W = {}
      BY <2>3
    <3> HIDE DEF V, W
    <3>2. IsFiniteSet(V) /\ \A d \in V : f[d] \in Int
      BY <1>0, <3>1
    <3>3. IsFiniteSet(W) /\ \A d \in W : f[d] \in Int
      BY <1>0, <3>1
    <3>4. SumFunctionOnSet(f, V \cup W) = SumFunctionOnSet(f, V) + SumFunctionOnSet(f, W)
      BY ONLY <3>1, <3>2, <3>3, SumUnion
    <3> QED
      BY <2>3, <3>4 DEF V, W
  <2> HIDE DEF sum
  <2>5. SumFunctionOnSet(F, Q) = sum(Q) /\ F[p] = sum({p})
    BY <1>1
  <2> QED
    BY <2>2, <2>4, <2>5
<1>4. P \in X
  <2> HIDE DEF X
  <2>1. X \in SUBSET SUBSET P
    BY DEF X
  <2> QED
    BY <1>2, <1>3, <2>1, FiniteInduction
<1>5. of(P) = D
  BY DEF IsPartition
<1> QED
  BY <1>4, <1>5

\* Counting part by part, k for every element.
LEMMA CountByParts ==
    ASSUME NEW D, IsFiniteSet(D), NEW k \in Int,
           NEW P, IsFiniteSet(P), NEW part, IsPartition(part, P, D),
           NEW F, \A p \in P : F[p] = k * Cardinality(part[p])
    PROVE  SumFunctionOnSet(F, P) = k * Cardinality(D)
<1> DEFINE of(Q) == UNION {part[p] : p \in Q}
           X == {Q \in SUBSET P : SumFunctionOnSet(F, Q) = k * Cardinality(of(Q))}
<1>1. \A Q \in SUBSET P : IsFiniteSet(of(Q)) /\ Cardinality(of(Q)) \in Nat
  <2> TAKE Q \in SUBSET P
  <2>1. of(Q) \subseteq D
    BY DEF IsPartition
  <2>2. IsFiniteSet(of(Q))
    BY <2>1, FS_Subset
  <2> QED
    BY <2>2, FS_CardinalityType
<1>2. \A p \in P : F[p] \in Int /\ F[p] = k * Cardinality(of({p}))
  <2> TAKE p \in P
  <2>1. of({p}) = part[p]
    OBVIOUS
  <2>2. k * Cardinality(of({p})) \in Int
    <3> HIDE DEF of
    <3> QED
      BY <1>1
  <2> QED
    BY <2>1, <2>2
<1>3. {} \in X
  <2>1. SumFunctionOnSet(F, {}) = 0
    BY <1>2, SumLaws, FS_EmptySet
  <2>2. of({}) = {} /\ Cardinality({}) = 0
    BY FS_EmptySet
  <2>3. k * 0 = 0
    OBVIOUS
  <2> QED
    BY <2>1, <2>2, <2>3
<1>4. ASSUME NEW Q \in X, NEW p \in P \ Q
      PROVE  Q \cup {p} \in X
  <2>1. IsFiniteSet(Q) /\ p \notin Q /\ F[p] \in Int /\ \A q \in Q : F[q] \in Int
    BY <1>2, FS_Subset
  <2>2. SumFunctionOnSet(F, Q \cup {p}) = SumFunctionOnSet(F, Q) + F[p]
    BY <2>1, SumAdd
  <2>3. /\ of(Q \cup {p}) = of(Q) \cup of({p})
        /\ of(Q) \cap of({p}) = {}
    BY DEF IsPartition
  <2>4. /\ SumFunctionOnSet(F, Q) = k * Cardinality(of(Q))
        /\ F[p] = k * Cardinality(of({p}))
    BY <1>2
  <2> HIDE DEF of
  <2>5. Cardinality(of(Q \cup {p})) =
            Cardinality(of(Q)) + Cardinality(of({p})) - Cardinality({})
    <3> DEFINE V == of(Q)
               W == of({p})
    <3>1. IsFiniteSet(V) /\ IsFiniteSet(W) /\ V \cap W = {}
      BY <1>1, <2>3
    <3> HIDE DEF V, W
    <3>2. Cardinality(V \cup W) = Cardinality(V) + Cardinality(W) - Cardinality(V \cap W)
      BY ONLY <3>1, FS_Union
    <3> QED
      BY <2>3, <3>1, <3>2 DEF V, W
  <2>6. Cardinality(of(Q \cup {p})) = Cardinality(of(Q)) + Cardinality(of({p}))
    BY <1>1, <2>5, FS_EmptySet
  <2>7. \A m, n \in Nat : k * (m + n) = k * m + k * n
    OBVIOUS
  <2> QED
    BY <1>1, <2>2, <2>4, <2>6, <2>7
<1>5. P \in X
  <2> HIDE DEF X
  <2>1. X \in SUBSET SUBSET P
    BY DEF X
  <2> QED
    BY <1>3, <1>4, <2>1, FiniteInduction
<1>6. of(P) = D
  BY DEF IsPartition
<1> QED
  BY <1>5, <1>6

-----------------------------------------------------------------------------
(* Sequences.                                                              *)

LEMMA SeqOfSubset ==
    ASSUME NEW S, NEW T, S \subseteq T, NEW s \in Seq(S)
    PROVE  s \in Seq(T)
<1>1. \A i \in 1..Len(s) : s[i] \in T
  OBVIOUS
<1>2. Len(s) \in Nat /\ s = [i \in 1..Len(s) |-> s[i]]
  OBVIOUS
<1> QED
  BY <1>1, <1>2

-----------------------------------------------------------------------------
(* Taking an element out of a sequence where it is found first.            *)

LEMMA FirstOfInjective ==
    ASSUME NEW S, NEW s \in Seq(S), IsInjective(s), NEW i \in 1..Len(s)
    PROVE  RemoveFirst(s, s[i]) = RemoveAt(s, i)
<1> DEFINE I == {j \in 1..Len(s) : s[j] = s[i]}
<1>1. I = {i}
  BY DEF IsInjective
<1>2. Min(I) = i
  BY <1>1 DEF Min
<1>3. SelectInSeq(s, LAMBDA v : v = s[i]) = i
  BY <1>1, <1>2 DEF SelectInSeq
<1> QED
  BY <1>3 DEF RemoveFirst

LEMMA RemovedAt ==
    ASSUME NEW S, NEW s \in Seq(S), NEW i \in 1..Len(s)
    PROVE  /\ RemoveAt(s, i) \in Seq(S)
           /\ Len(RemoveAt(s, i)) = Len(s) - 1
           /\ \A j \in 1 .. Len(s) - 1 :
                 RemoveAt(s, i)[j] = IF j < i THEN s[j] ELSE s[j + 1]
<1> DEFINE a == SubSeq(s, 1, i - 1)
           b == SubSeq(s, i + 1, Len(s))
<1>1. a \in Seq(S) /\ Len(a) = i - 1 /\ \A j \in 1 .. i - 1 : a[j] = s[j]
  OBVIOUS
<1>2. b \in Seq(S) /\ Len(b) = Len(s) - i /\ \A j \in 1 .. Len(s) - i : b[j] = s[i + j]
  OBVIOUS
<1>3. RemoveAt(s, i) = a \o b
  BY DEF RemoveAt
<1> HIDE DEF a, b
<1>4. /\ a \o b \in Seq(S)
      /\ Len(a \o b) = Len(a) + Len(b)
      /\ \A j \in 1 .. Len(a) + Len(b) : (a \o b)[j] = IF j <= Len(a) THEN a[j] ELSE b[j - Len(a)]
  BY <1>1, <1>2, ConcatProperties
<1>5. Len(a) + Len(b) = Len(s) - 1 /\ Len(s) \in Nat
  BY <1>1, <1>2
<1>6. ASSUME NEW j \in 1 .. Len(s) - 1
      PROVE  (a \o b)[j] = IF j < i THEN s[j] ELSE s[j + 1]
  <2>1. CASE j < i
    BY <1>1, <1>4, <1>5, <2>1
  <2>2. CASE ~ (j < i)
    <3>1. (a \o b)[j] = b[j - (i - 1)] /\ j - (i - 1) \in 1 .. Len(s) - i
      BY <1>1, <1>4, <1>5, <2>2
    <3> QED
      BY <1>2, <2>2, <3>1
  <2> QED
    BY <2>1, <2>2
<1> QED
  BY <1>3, <1>4, <1>5, <1>6

LEMMA RemovedFirst ==
    ASSUME NEW S, NEW s \in Seq(S), IsInjective(s), NEW e \in Range(s)
    PROVE  /\ RemoveFirst(s, e) \in Seq(S)
           /\ IsInjective(RemoveFirst(s, e))
           /\ Range(RemoveFirst(s, e)) = Range(s) \ {e}
<1>1. PICK i \in 1..Len(s) : e = s[i]
  BY DEF Range
<1> DEFINE t == RemoveFirst(s, e)
<1>2. t = RemoveAt(s, i)
  BY <1>1, FirstOfInjective
<1>3. /\ t \in Seq(S)
      /\ Len(t) = Len(s) - 1
      /\ \A j \in 1 .. Len(s) - 1 : t[j] = IF j < i THEN s[j] ELSE s[j + 1]
  BY <1>2, RemovedAt
<1> HIDE DEF t
<1>4. DOMAIN t = 1 .. Len(s) - 1
  BY <1>3
<1>5. IsInjective(t)
  <2> SUFFICES ASSUME NEW j \in 1 .. Len(s) - 1, NEW k \in 1 .. Len(s) - 1, t[j] = t[k]
               PROVE  j = k
    BY <1>4 DEF IsInjective
  <2>1. \A x, y \in 1 .. Len(s) : s[x] = s[y] => x = y
    BY DEF IsInjective
  <2> DEFINE at(x) == IF x < i THEN x ELSE x + 1
  <2>2. \A x \in 1 .. Len(s) - 1 : at(x) \in 1 .. Len(s)
    OBVIOUS
  <2>3. t[j] = s[at(j)] /\ t[k] = s[at(k)]
    BY <1>3
  <2>4. at(j) = at(k)
    <3> HIDE DEF at
    <3> QED
      BY <2>1, <2>2, <2>3
  <2> QED
    BY <2>4
<1>6. Range(t) = Range(s) \ {e}
  <2>1. ASSUME NEW j \in DOMAIN t
        PROVE  t[j] \in Range(s) \ {e}
    <3> DEFINE k == IF j < i THEN j ELSE j + 1
    <3>1. k \in DOMAIN s /\ k # i /\ t[j] = s[k]
      BY <1>1, <1>3, <1>4
    <3> HIDE DEF k
    <3>2. s[k] # e
      BY <1>1, <3>1 DEF IsInjective
    <3> QED
      BY <3>1, <3>2 DEF Range
  <2>2. ASSUME NEW k \in DOMAIN s, s[k] # e
        PROVE  s[k] \in Range(t)
    <3>1. CASE k < i
      <4>1. k \in DOMAIN t /\ t[k] = s[k]
        BY <1>3, <1>4, <3>1
      <4> QED
        BY <4>1 DEF Range
    <3>2. CASE k > i
      <4>1. k - 1 \in DOMAIN t /\ t[k - 1] = s[k]
        BY <1>3, <1>4, <3>2
      <4> QED
        BY <4>1 DEF Range
    <3> QED
      BY <1>1, <2>2, <3>1, <3>2
  <2> QED
    BY <2>1, <2>2 DEF Range
<1> QED
  BY <1>3, <1>5, <1>6 DEF t

-----------------------------------------------------------------------------
(* What was heard, followed by what waits in a channel.                    *)

\* A message that is sent comes last.
LEMMA StreamGrows ==
    ASSUME NEW S, NEW h \in Seq(S), NEW q \in Seq(S), NEW m \in S
    PROVE  /\ h \o Append(q, m) = Append(h \o q, m)
           /\ h \o q \in Seq(S)
<1>1. Append(q, m) = q \o <<m>> /\ <<m>> \in Seq(S)
  BY AppendIsConcat
<1>2. h \o q \in Seq(S)
  BY ConcatProperties
<1>3. Append(h \o q, m) = (h \o q) \o <<m>>
  BY <1>2, AppendIsConcat
<1>4. (h \o q) \o <<m>> = h \o (q \o <<m>>)
  BY <1>1, ConcatAssociative
<1> QED
  BY <1>1, <1>2, <1>3, <1>4

\* A message that is taken out of the channel and heard stays where it is.
LEMMA StreamMoves ==
    ASSUME NEW S, NEW h \in Seq(S), NEW q \in Seq(S), q # <<>>
    PROVE  Append(h, Head(q)) \o Tail(q) = h \o q
<1>1. Head(q) \in S /\ Tail(q) \in Seq(S) /\ <<Head(q)>> \in Seq(S)
  BY HeadTailProperties
<1>2. q = <<Head(q)>> \o Tail(q)
  <2>1. <<Head(q)>> \o Tail(q) \in Seq(S) /\ Len(<<Head(q)>> \o Tail(q)) = Len(q)
    BY <1>1
  <2>2. ASSUME NEW i \in 1..Len(q)
        PROVE  q[i] = (<<Head(q)>> \o Tail(q))[i]
    BY <1>1
  <2> QED
    BY <2>1, <2>2, SeqEqual
<1>3. Append(h, Head(q)) = h \o <<Head(q)>>
  BY <1>1, AppendIsConcat
<1>4. (h \o <<Head(q)>>) \o Tail(q) = h \o (<<Head(q)>> \o Tail(q))
  BY <1>1, ConcatAssociative
<1> QED
  BY <1>2, <1>3, <1>4

=============================================================================
