------------------------- MODULE HansaScoringProofs -------------------------
(***************************************************************************)
(* What TLAPS proves of the scores of a finished game, for every map,      *)
(* every number of players and every way in which the game went.           *)
(***************************************************************************)
EXTENDS HansaScoring, DataLemmas

-----------------------------------------------------------------------------
(* The search of the map.                                                  *)

\* No city that is present lies next to K and outside of it.
Closed(K, present) == \A x \in K, y \in present : AdjacentCity(x, y) => y \in K

Wider(K, present) == K \cup {y \in present : \E x \in K : AdjacentCity(x, y)}

IsSearch(r, from, present) ==
    r = [n \in 0 .. Cardinality(present) |->
            IF n = 0 THEN from ELSE Wider(r[n - 1], present)]

LEMMA ReachedIsChosen ==
    ASSUME NEW from, NEW present
    PROVE  Reached(from, present)
               = (CHOOSE r : IsSearch(r, from, present))[Cardinality(present)]
BY DEF Reached, IsSearch, Wider

LEMMA SearchExists ==
    ASSUME NEW present, IsFiniteSet(present), NEW from \in SUBSET present
    PROVE  \E r : IsSearch(r, from, present)
<1> DEFINE D == SUBSET present
           F == [K \in D |-> Wider(K, present)]
           N == Cardinality(present)
<1>1. F \in [D -> D] /\ from \in D
  BY DEF Wider
<1>2. N \in Nat
  BY FS_CardinalityType
<1> HIDE DEF D, N, F
<1>3. PICK r : IsChain(r, D, from, F, N)
  BY <1>1, <1>2, ChainExists
<1>4. ASSUME NEW n \in 0..N
      PROVE  r[n] = IF n = 0 THEN from ELSE Wider(r[n - 1], present)
  <2>1. CASE n = 0
    BY <1>3, <2>1 DEF IsChain
  <2>2. CASE n # 0
    <3>1. n \in 1..N /\ n - 1 \in 0..N
      BY <1>2, <2>2
    <3>2. r[n] = F[r[n - 1]] /\ r[n - 1] \in D
      BY <1>3, <3>1 DEF IsChain
    <3> QED
      BY <2>2, <3>2 DEF F
  <2> QED
    BY <2>1, <2>2
<1>5. IsSearch(r, from, present)
  BY <1>3, <1>4 DEF IsSearch, IsChain, N
<1> QED
  BY <1>5

\* A search that goes on adds a city every round, so it has come to its end.
LEMMA SearchIsClosure ==
    ASSUME NEW present, IsFiniteSet(present), NEW from \in SUBSET present
    PROVE  /\ from \subseteq Reached(from, present)
           /\ Reached(from, present) \subseteq present
           /\ Closed(Reached(from, present), present)
           /\ \A K : from \subseteq K /\ Closed(K, present) => Reached(from, present) \subseteq K
<1> DEFINE N == Cardinality(present)
<1>1. PICK r : IsSearch(r, from, present) /\ Reached(from, present) = r[N]
  BY SearchExists, ReachedIsChosen
<1>2. N \in Nat
  BY FS_CardinalityType
<1> HIDE DEF N
<1>3. r[0] = from /\ \A n \in 0..N : n + 1 \in 0..N => r[n + 1] = Wider(r[n], present)
  <2>1. \A n \in 0..N : r[n] = IF n = 0 THEN from ELSE Wider(r[n - 1], present)
    BY <1>1 DEF IsSearch, N
  <2>2. \A n \in 0..N : n + 1 # 0 /\ (n + 1) - 1 = n
    BY <1>2
  <2> QED
    BY <1>2, <2>1, <2>2
<1>4. ASSUME NEW n \in 0..N
      PROVE  /\ from \subseteq r[n] /\ r[n] \subseteq present
             /\ Closed(r[n], present) \/ Cardinality(r[n]) >= n
             /\ \A K : from \subseteq K /\ Closed(K, present) => r[n] \subseteq K
  <2> DEFINE ok(i) == /\ from \subseteq r[i] /\ r[i] \subseteq present
                      /\ Closed(r[i], present) \/ Cardinality(r[i]) >= i
                      /\ \A K : from \subseteq K /\ Closed(K, present) => r[i] \subseteq K
             X == {i \in Nat : i \in 0..N => ok(i)}
  <2>1. 0 \in X
    <3>1. Cardinality(from) \in Nat
      BY FS_Subset, FS_CardinalityType
    <3> QED
      BY <1>3, <3>1
  <2>2. ASSUME NEW i \in Nat, i \in X
        PROVE  i + 1 \in X
    <3> SUFFICES ASSUME i + 1 \in 0..N
                 PROVE  ok(i + 1)
      BY <2>2
    <3>1. i \in 0..N /\ ok(i) /\ r[i + 1] = Wider(r[i], present)
      BY <1>2, <1>3, <2>2
    <3>2. from \subseteq r[i + 1] /\ r[i + 1] \subseteq present
      BY <3>1 DEF Wider
    <3>3. \A K : from \subseteq K /\ Closed(K, present) => r[i + 1] \subseteq K
      BY <3>1 DEF Wider, Closed
    <3>4. CASE Closed(r[i], present)
      <4>1. r[i + 1] = r[i]
        BY <3>1, <3>4 DEF Wider, Closed
      <4> QED
        BY <3>1, <3>2, <3>3, <3>4, <4>1
    <3>5. CASE ~ Closed(r[i], present)
      <4>1. PICK y \in present : y \in r[i + 1] \ r[i]
        BY <3>1, <3>5 DEF Wider, Closed
      <4>2. IsFiniteSet(r[i + 1]) /\ IsFiniteSet(r[i])
        BY <3>1, <3>2, FS_Subset
      <4>3. r[i] \cup {y} \subseteq r[i + 1]
        BY <3>1, <4>1 DEF Wider
      <4>4. Cardinality(r[i] \cup {y}) = Cardinality(r[i]) + 1
        BY <4>1, <4>2, FS_AddElement
      <4>5. Cardinality(r[i] \cup {y}) <= Cardinality(r[i + 1])
        BY <4>2, <4>3, FS_Subset
      <4>6. Cardinality(r[i]) \in Nat /\ Cardinality(r[i + 1]) \in Nat /\ Cardinality(r[i]) >= i
        BY <3>1, <3>5, <4>2, FS_CardinalityType
      <4>7. Cardinality(r[i + 1]) >= i + 1
        BY <4>4, <4>5, <4>6
      <4> QED
        BY <3>2, <3>3, <4>7
    <3> QED
      BY <3>4, <3>5
  <2>3. n \in X
    <3> HIDE DEF X
    <3> QED
      BY <1>2, <2>1, <2>2, NatSet
  <2> QED
    BY <2>3
<1>5. /\ from \subseteq r[N] /\ r[N] \subseteq present
      /\ Closed(r[N], present) \/ Cardinality(r[N]) >= N
      /\ \A K : from \subseteq K /\ Closed(K, present) => r[N] \subseteq K
  BY <1>2, <1>4
<1>6. Closed(r[N], present)
  <2> SUFFICES ASSUME Cardinality(r[N]) >= N
               PROVE  Closed(r[N], present)
    BY <1>5
  <2>1. Cardinality(r[N]) <= N /\ Cardinality(r[N]) \in Nat
    BY <1>5, FS_Subset, FS_CardinalityType DEF N
  <2>2. Cardinality(r[N]) = Cardinality(present)
    BY <1>2, <2>1 DEF N
  <2>3. r[N] = present
    BY <1>5, <2>2, FS_Subset
  <2> QED
    BY <2>3 DEF Closed
<1> QED
  BY <1>1, <1>5, <1>6

LEMMA AdjacentBothWays ==
    ASSUME NEW x \in Cities, NEW y \in Cities, AdjacentCity(x, y)
    PROVE  AdjacentCity(y, x)
<1>1. PICK r \in Routes : {LeftCity[r], RightCity[r]} = {x, y}
  BY DEF AdjacentCity, Neighbours
<1>2. {LeftCity[r], RightCity[r]} = {y, x}
  BY <1>1
<1> QED
  BY <1>2 DEF AdjacentCity, Neighbours

\* What the search reaches from one city is the largest set around it that
\* hangs together.
LEMMA SearchIsComponent ==
    ASSUME NEW present \in SUBSET Cities, NEW c \in present
    PROVE  LET R == Reached({c}, present)
           IN  /\ R \subseteq present /\ c \in R
               /\ Connected(R)
               /\ \A S \in SUBSET present : c \in S /\ Connected(S) => S \subseteq R
<1> DEFINE R == Reached({c}, present)
<1>1. IsFiniteSet(present)
  BY BoardAssumption, FS_Subset
<1>2. /\ c \in R /\ R \subseteq present
      /\ Closed(R, present)
      /\ \A K : c \in K /\ Closed(K, present) => R \subseteq K
  <2>1. {c} \in SUBSET present
    OBVIOUS
  <2>2. \A K : c \in K => {c} \subseteq K
    OBVIOUS
  <2> QED
    BY <1>1, <2>1, <2>2, SearchIsClosure
<1> HIDE DEF R
<1>3. Connected(R)
  <2> SUFFICES ASSUME NEW T \in SUBSET R, T # {}, T # R
               PROVE  \E x \in T, y \in R \ T : AdjacentCity(x, y)
    BY DEF Connected
  <2>1. CASE c \in T
    <3>1. ~ Closed(T, present)
      BY <1>2, <2>1
    <3>2. PICK x \in T, y \in present : AdjacentCity(x, y) /\ y \notin T
      BY <3>1 DEF Closed
    <3>3. y \in R
      BY <1>2, <3>2 DEF Closed
    <3> QED
      BY <3>2, <3>3
  <2>2. CASE c \notin T
    <3>1. c \in R \ T
      BY <1>2, <2>2
    <3>2. ~ Closed(R \ T, present)
      BY <1>2, <3>1
    <3>3. PICK x \in R \ T, y \in present : AdjacentCity(x, y) /\ y \notin R \ T
      BY <3>2 DEF Closed
    <3>4. y \in T
      BY <1>2, <3>3 DEF Closed
    <3>5. AdjacentCity(y, x)
      BY <1>2, <3>3, AdjacentBothWays
    <3> QED
      BY <3>3, <3>4, <3>5
  <2> QED
    BY <2>1, <2>2
<1>4. ASSUME NEW S \in SUBSET present, c \in S, Connected(S)
      PROVE  S \subseteq R
  <2> SUFFICES ASSUME S \cap R # S
               PROVE  FALSE
    OBVIOUS
  <2>1. S \cap R \in SUBSET S /\ S \cap R # {}
    BY <1>2, <1>4
  <2>2. PICK x \in S \cap R, y \in S \ (S \cap R) : AdjacentCity(x, y)
    BY <1>4, <2>1 DEF Connected
  <2> QED
    BY <1>2, <2>2 DEF Closed
<1> QED
  BY <1>2, <1>3, <1>4 DEF R

-----------------------------------------------------------------------------
(* The bonus route.                                                        *)

\* Of no city, nothing is reached.
LEMMA NothingReached ==
    ASSUME NEW present \in SUBSET Cities
    PROVE  Reached({}, present) = {}
<1>1. IsFiniteSet(present)
  BY BoardAssumption, FS_Subset
<1>2. Closed({}, present)
  BY DEF Closed
<1> QED
  BY <1>1, <1>2, SearchIsClosure

LEMMA BonusRouteLinked ==
    ASSUME NEW p \in Players
    PROVE  GetBonusRouteCompleted(board, p) <=>
               \E S \in SUBSET Present(p) :
                   BonusTermini # {} /\ BonusTermini \subseteq S /\ Connected(S)
<1>1. Present(p) \in SUBSET Cities
  BY DEF Present
<1>2. ASSUME GetBonusRouteCompleted(board, p)
      PROVE  \E S \in SUBSET Present(p) :
                 BonusTermini # {} /\ BonusTermini \subseteq S /\ Connected(S)
  <2>1. PICK start \in BonusTermini, end \in BonusTermini :
            start # end /\ end \in Reached({start} \cap Present(p), Present(p))
    BY <1>2 DEF GetBonusRouteCompleted, Present
  <2>2. start \in Present(p)
    <3>1. CASE {start} \cap Present(p) = {}
      BY <1>1, <2>1, <3>1, NothingReached
    <3> QED
      BY <3>1
  <2>3. {start} \cap Present(p) = {start}
    BY <2>2
  <2> DEFINE R == Reached({start}, Present(p))
  <2>4. R \subseteq Present(p) /\ start \in R /\ Connected(R) /\ end \in R
    BY <1>1, <2>1, <2>2, <2>3, SearchIsComponent
  <2>5. BonusTermini \subseteq {start, end}
    <3>1. IsFiniteSet(BonusTermini) /\ Cardinality(BonusTermini) = 2
      BY <2>1, BoardAssumption, FS_Subset, FS_EmptySet
    <3>2. {start, end} \in SUBSET BonusTermini /\ Cardinality({start, end}) = 2
      <4>1. IsFiniteSet({start}) /\ Cardinality({start}) = 1
        BY FS_Singleton
      <4>2. Cardinality({start} \cup {end}) = Cardinality({start}) + 1
        <5>1. end \notin {start}
          BY <2>1
        <5> QED
          BY <4>1, <5>1, FS_AddElement
      <4>3. {start} \cup {end} = {start, end}
        OBVIOUS
      <4> QED
        BY <4>1, <4>2, <4>3
    <3> QED
      BY <3>1, <3>2, FS_Subset
  <2> QED
    BY <2>4, <2>5
<1>3. ASSUME NEW S \in SUBSET Present(p),
             BonusTermini # {}, BonusTermini \subseteq S, Connected(S)
      PROVE  GetBonusRouteCompleted(board, p)
  <2>1. Cardinality(BonusTermini) = 2
    BY <1>3, BoardAssumption, FS_Subset, FS_EmptySet
  <2>2. PICK start \in BonusTermini, end \in BonusTermini : start # end
    <3>1. PICK start \in BonusTermini : TRUE
      BY <1>3
    <3>2. Cardinality({start}) = 1
      BY FS_Singleton
    <3> QED
      BY <2>1, <3>1, <3>2
  <2>3. start \in Present(p) /\ start \in S /\ end \in S
    BY <1>3
  <2>4. {start} \cap Present(p) = {start}
    BY <2>3
  <2>5. end \in Reached({start}, Present(p))
    BY <1>1, <1>3, <2>3, SearchIsComponent
  <2> QED
    BY <2>2, <2>4, <2>5 DEF GetBonusRouteCompleted, Present
<1> QED
  BY <1>2, <1>3

\* The search for the bonus route finds it exactly when it is there, on every
\* map and in every state (GetBonusRouteCompleted).
THEOREM BonusRouteFound == Spec => []BonusRouteLinks
<1>1. BonusRouteLinks
  BY BonusRouteLinked DEF BonusRouteLinks
<1> QED
  BY <1>1, PTL

-----------------------------------------------------------------------------
(* Types.                                                                  *)

ScoreSquares == OfficeSquares \cup CoellenSquares

ScoringTypes ==
    /\ board \in [ScoreSquares -> Pieces \cup {NoPiece}]
    /\ left \in [Players -> [TrackAwards -> Nat]]

LEMMA SquareKinds ==
    /\ \A c \in Cities : \A i \in DOMAIN Offices[c] : <<"office", c, i>> \in OfficeSquares
    /\ \A s \in OfficeSquares : /\ s[2] \in Cities /\ s[3] \in DOMAIN Offices[s[2]]
                                /\ s = <<"office", s[2], s[3]>>
    /\ \A s \in CoellenSquares : /\ s[2] \in Cities /\ s[3] \in DOMAIN Coellen[s[2]]
                                 /\ s = <<"coellen", s[2], s[3]>>
BY DEF OfficeSquares, CoellenSquares

LEMMA OfficeIndices ==
    ASSUME NEW c \in Cities
    PROVE  /\ IsFiniteSet(DOMAIN Offices[c]) /\ DOMAIN Offices[c] \subseteq Nat
           /\ \E n \in Nat : \A i \in DOMAIN Offices[c] : i <= n
           /\ \A i \in DOMAIN Offices[c] : Offices[c][i] \in OfficeType
<1>1. Offices[c] \in Seq(OfficeType)
  BY BoardAssumption
<1>2. Len(Offices[c]) \in Nat /\ DOMAIN Offices[c] = 1..Len(Offices[c])
  BY <1>1
<1>3. IsFiniteSet(1..Len(Offices[c]))
  BY <1>2, FS_Interval
<1> QED
  BY <1>1, <1>2, <1>3

LEMMA PieceFacts ==
    /\ \A p \in Players, h \in Shapes : /\ Piece(p, h) \in Pieces
                                        /\ Piece(p, h).PlayerColor = p
                                        /\ Piece(p, h) # NoPiece
    /\ NoPiece.PlayerColor \notin Players
    /\ \A x \in Pieces : x.PlayerColor \in Players /\ x # NoPiece
BY BoardAssumption DEF Pieces, Piece, NoPiece, NoPlayer, Players

LEMMA ScoringTypesInvariant == Spec => []ScoringTypes
<1>1. Init => ScoringTypes
  BY ScoringAssumption DEF Init, ScoringTypes, ScoreSquares
<1>2. ASSUME ScoringTypes, [Next]_vars
      PROVE  ScoringTypes'
  <2>1. ASSUME NEW p \in Players, NEW s \in Contested, TakeOffice(p, s)
        PROVE  ScoringTypes'
    <3>1. s \in OfficeSquares /\ Offices[s[2]][s[3]].Shape \in Shapes
      BY <2>1, SquareKinds, OfficeIndices DEF TakeOffice, OfficeType
    <3>2. Piece(p, Offices[s[2]][s[3]].Shape) \in Pieces
      BY <3>1, PieceFacts
    <3> QED
      BY <1>2, <2>1, <3>2 DEF TakeOffice, ScoringTypes
  <2>2. ASSUME NEW p \in Players, NEW s \in Contested, TakeCoellen(p, s)
        PROVE  ScoringTypes'
    <3>1. Piece(p, "Disc") \in Pieces
      BY PieceFacts DEF Shapes
    <3> QED
      BY <1>2, <2>2, <3>1 DEF TakeCoellen, ScoringTypes
  <2>3. ASSUME NEW p \in Players, NEW a \in TrackAwards, LevelUp(p, a)
        PROVE  ScoringTypes'
    <3>1. left[p] \in [TrackAwards -> Nat] /\ left[p][a] - 1 \in Nat
      BY <1>2, <2>3 DEF LevelUp, ScoringTypes
    <3>2. [left[p] EXCEPT ![a] = @ - 1] \in [TrackAwards -> Nat]
      BY <3>1
    <3> QED
      BY <1>2, <2>3, <3>2 DEF LevelUp, ScoringTypes
  <2>4. ASSUME CheckStatus
        PROVE  ScoringTypes'
    BY <1>2, <2>4 DEF CheckStatus, ScoringTypes
  <2>5. ASSUME UNCHANGED vars
        PROVE  ScoringTypes'
    BY <1>2, <2>5 DEF vars, ScoringTypes
  <2> QED
    BY <1>2, <2>1, <2>2, <2>3, <2>4, <2>5 DEF Next
<1> QED
  BY <1>1, <1>2, PTL DEF Spec

-----------------------------------------------------------------------------
(* The network score.                                                      *)

LEMMA PresenceType ==
    ASSUME NEW b, NEW p
    PROVE  Presence(b, p) \in [Cities -> Nat]
<1>1. ASSUME NEW c \in Cities
      PROVE  GetPresence(b, c, p) \in Nat
  <2> DEFINE own == {i \in DOMAIN Offices[c] : b[<<"office", c, i>>].PlayerColor = p}
  <2>1. own \in SUBSET DOMAIN Offices[c]
    OBVIOUS
  <2>2. IsFiniteSet(own)
    BY <2>1, OfficeIndices, FS_Subset
  <2>3. Cardinality(own) \in Nat
    BY <2>2, FS_CardinalityType
  <2> QED
    BY <2>3 DEF GetPresence
<1> QED
  BY <1>1 DEF Presence

LEMMA LargestNetwork ==
    ASSUME NEW presence \in [Cities -> Nat]
    PROVE  /\ NetworkScoreOf(presence) = Largest(presence)
           /\ NetworkScoreOf(presence) \in Nat
<1> DEFINE present == {c \in Cities : presence[c] # 0}
           sum(S) == SumFunctionOnSet(presence, S)
           A == {0} \cup {sum(Network(presence, c)) : c \in present}
           B == {sum(S) : S \in {S \in SUBSET present : Connected(S)}}
           m == sum(present)
<1>1. present \in SUBSET Cities /\ IsFiniteSet(present)
  BY BoardAssumption, FS_Subset
<1>2. \A S \in SUBSET present : sum(S) \in Nat /\ sum(S) <= m
  <2>1. \A c \in present : presence[c] \in Nat
    OBVIOUS
  <2> HIDE DEF present
  <2> QED
    BY <1>1, <2>1, SumMonotone
<1>3. \A c \in present : /\ Network(presence, c) \in SUBSET present
                         /\ Connected(Network(presence, c))
                         /\ \A S \in SUBSET present :
                               c \in S /\ Connected(S) => S \subseteq Network(presence, c)
  BY <1>1, SearchIsComponent DEF Network
<1>4. Connected({}) /\ sum({}) = 0
  <2>1. Connected({})
    BY DEF Connected
  <2>2. sum({}) = 0
    BY SumLaws, FS_EmptySet
  <2> QED
    BY <2>1, <2>2
<1>5. m \in Nat
  BY <1>2
<1> HIDE DEF sum, present, m
<1>6. Max(A) \in A /\ \A x \in A : x <= Max(A)
  <2>1. A \in SUBSET Nat /\ A # {} /\ \A x \in A : x <= m
    BY <1>2, <1>3, <1>5
  <2> HIDE DEF A
  <2> QED
    BY <1>5, <2>1, MaxOfBounded
<1>7. Max(B) \in B /\ \A x \in B : x <= Max(B)
  <2>1. B \in SUBSET Nat /\ \A x \in B : x <= m
    BY <1>2
  <2>2. 0 \in B
    BY <1>4
  <2> HIDE DEF B
  <2> QED
    BY <1>5, <2>1, <2>2, MaxOfBounded
<1>8. Max(A) <= Max(B)
  <2>1. Max(A) \in B
    BY <1>3, <1>4, <1>6
  <2> HIDE DEF A, B
  <2> QED
    BY <1>7, <2>1
<1>9. Max(B) <= Max(A)
  <2>1. PICK S \in SUBSET present : Connected(S) /\ Max(B) = sum(S)
    BY <1>7
  <2>2. CASE S = {}
    <3>1. Max(B) \in A
      BY <1>4, <2>1, <2>2
    <3> HIDE DEF A, B
    <3> QED
      BY <1>6, <3>1
  <2>3. CASE S # {}
    <3>1. PICK c \in S : TRUE
      BY <2>3
    <3> DEFINE W == Network(presence, c)
    <3>2. W \in SUBSET present /\ S \in SUBSET W /\ sum(W) \in A
      BY <1>3, <2>1, <3>1
    <3>3. sum(S) <= sum(W)
      <4>1. IsFiniteSet(W) /\ \A x \in W : presence[x] \in Nat
        BY <1>1, <3>2, FS_Subset
      <4> HIDE DEF W
      <4> QED
        BY <3>2, <4>1, SumMonotone DEF sum
    <3>4. sum(W) <= Max(A) /\ sum(S) \in Nat /\ sum(W) \in Nat /\ Max(A) \in Nat
      <4>1. A \subseteq Nat
        BY <1>2, <1>3
      <4> HIDE DEF A, W
      <4> QED
        BY <1>2, <1>6, <3>2, <4>1
    <3> HIDE DEF A, B, W
    <3> QED
      BY <2>1, <3>3, <3>4
  <2> QED
    BY <2>2, <2>3
<1>10. Max(A) \in Nat /\ Max(B) \in Nat
  <2>1. A \subseteq Nat /\ B \subseteq Nat
    BY <1>2, <1>3
  <2> HIDE DEF A, B
  <2> QED
    BY <1>6, <1>7, <2>1
<1>11. Max(A) = Max(B)
  <2> HIDE DEF A, B
  <2> QED
    BY <1>8, <1>9, <1>10
<1> QED
  BY <1>10, <1>11 DEF NetworkScoreOf, Largest, sum, present

\* An office more counts one more in its city.
LEMMA PresenceWithOffice ==
    ASSUME ScoringTypes, NEW p \in Players, NEW s \in OfficeSquares, board[s] = NoPiece
    PROVE  Presence([board EXCEPT ![s] = Piece(p, "Cube")], p)
               = [Presence(board, p) EXCEPT ![s[2]] = @ + 1]
<1> DEFINE b == [board EXCEPT ![s] = Piece(p, "Cube")]
           own(x, c) == {i \in DOMAIN Offices[c] : x[<<"office", c, i>>].PlayerColor = p}
<1>1. DOMAIN board = ScoreSquares /\ s \in ScoreSquares
  BY DEF ScoringTypes, ScoreSquares
<1>2. s[2] \in Cities /\ s[3] \in DOMAIN Offices[s[2]] /\ s = <<"office", s[2], s[3]>>
  BY SquareKinds
<1>3. b[s].PlayerColor = p /\ board[s].PlayerColor # p
  BY <1>1, PieceFacts DEF Shapes
<1>4. ASSUME NEW c \in Cities, NEW i \in DOMAIN Offices[c], <<"office", c, i>> # s
      PROVE  b[<<"office", c, i>>] = board[<<"office", c, i>>]
  BY <1>1, <1>4, SquareKinds DEF ScoreSquares
<1> HIDE DEF b
<1>5. ASSUME NEW c \in Cities, c # s[2]
      PROVE  own(b, c) = own(board, c)
  BY <1>2, <1>4, <1>5
<1>6. /\ own(b, s[2]) = own(board, s[2]) \cup {s[3]}
      /\ s[3] \notin own(board, s[2])
  BY <1>2, <1>3, <1>4
<1>7. IsFiniteSet(own(board, s[2]))
  <2>1. own(board, s[2]) \in SUBSET DOMAIN Offices[s[2]]
    OBVIOUS
  <2> QED
    BY <1>2, <2>1, OfficeIndices, FS_Subset
<1>8. Cardinality(own(b, s[2])) = Cardinality(own(board, s[2])) + 1
  <2> HIDE DEF own
  <2> QED
    BY <1>6, <1>7, FS_AddElement
<1>9. \A c \in Cities : GetPresence(b, c, p) = Cardinality(own(b, c))
                        /\ GetPresence(board, c, p) = Cardinality(own(board, c))
  BY DEF GetPresence
<1>10. \A c \in Cities : GetPresence(b, c, p) =
           IF c = s[2] THEN GetPresence(board, c, p) + 1 ELSE GetPresence(board, c, p)
  <2> HIDE DEF own
  <2> QED
    BY <1>5, <1>8, <1>9
<1> QED
  BY <1>2, <1>10 DEF Presence, b

\* The network score is the largest there is, on every map, in every state, and
\* for every presence a bot may ask about (getNetworkScore).
THEOREM NetworkScoreIsLargest == Spec => []NetworkIsLargest
<1>1. ScoringTypes => NetworkIsLargest
  <2> SUFFICES ASSUME ScoringTypes, NEW p \in Players
               PROVE  /\ GetNetworkScore(board, p) = Largest(Presence(board, p))
                      /\ \A s \in Contested \cap OfficeSquares : board[s] = NoPiece =>
                            GetNetworkScoreIfCity(board, p, s[2])
                                = Largest(Presence([board EXCEPT ![s] = Piece(p, "Cube")], p))
    BY DEF NetworkIsLargest
  <2>1. GetNetworkScore(board, p) = Largest(Presence(board, p))
    BY PresenceType, LargestNetwork DEF GetNetworkScore
  <2>2. ASSUME NEW s \in Contested \cap OfficeSquares, board[s] = NoPiece
        PROVE  GetNetworkScoreIfCity(board, p, s[2])
                   = Largest(Presence([board EXCEPT ![s] = Piece(p, "Cube")], p))
    <3> DEFINE q == Presence([board EXCEPT ![s] = Piece(p, "Cube")], p)
    <3>1. GetNetworkScoreIfCity(board, p, s[2]) = NetworkScoreOf(q)
      BY <2>2, PresenceWithOffice DEF GetNetworkScoreIfCity
    <3>2. q \in [Cities -> Nat]
      BY PresenceType
    <3> HIDE DEF q
    <3>3. NetworkScoreOf(q) = Largest(q)
      BY <3>2, LargestNetwork
    <3> QED
      BY <3>1, <3>3 DEF q
  <2> QED
    BY <2>1, <2>2
<1> QED
  BY <1>1, ScoringTypesInvariant, PTL

-----------------------------------------------------------------------------
(* The places.                                                             *)

\* The players in an order by their totals: the place of each is how many
\* stand behind him.
LEMMA RankingPlaces ==
    ASSUME NEW total \in [Players -> Int], NEW order \in Ranking(total),
           NEW place,
           \A p \in Players : place[p] = NPlayers - CHOOSE i \in DOMAIN order : order[i] = p
    PROVE  /\ {place[p] : p \in Players} = 0 .. NPlayers - 1
           /\ \A p, q \in Players : total[p] > total[q] => place[p] < place[q]
<1> DEFINE at(p) == CHOOSE i \in DOMAIN order : order[i] = p
<1>1. NPlayers \in Nat /\ NPlayers > 0 /\ Players = 0 .. NPlayers - 1
  BY BoardAssumption DEF Players
<1>2. IsFiniteSet(Players) /\ Cardinality(Players) = NPlayers
  BY <1>1, FS_Interval
<1>3. /\ order \in [1 .. NPlayers -> Players] /\ DOMAIN order = 1 .. NPlayers
      /\ \A i, j \in 1 .. NPlayers : i # j => order[i] # order[j]
      /\ \A i, j \in 1 .. NPlayers : i < j => total[order[i]] <= total[order[j]]
  BY <1>2 DEF Ranking, SetToSeqs
<1>4. \A p \in Players : \E i \in 1 .. NPlayers : order[i] = p
  <2>1. order \in Injection(1 .. NPlayers, Players)
    BY <1>3 DEF Injection, IsInjective
  <2>2. IsFiniteSet(1 .. NPlayers) /\ Cardinality(1 .. NPlayers) = NPlayers
    BY <1>1, FS_Interval
  <2>3. order \in Surjection(1 .. NPlayers, Players)
    BY <1>2, <2>1, <2>2, FS_Injection
  <2> QED
    BY <2>3 DEF Surjection
<1>5. \A p \in Players : at(p) \in 1 .. NPlayers /\ order[at(p)] = p
  BY <1>3, <1>4
<1>6. \A p \in Players : place[p] = NPlayers - at(p)
  OBVIOUS
<1>7. \A i \in 1 .. NPlayers : order[i] \in Players /\ at(order[i]) = i
  BY <1>3, <1>5
<1> HIDE DEF at
<1>8. ASSUME NEW n \in 0 .. NPlayers - 1
      PROVE  \E p \in Players : place[p] = n
  <2>1. NPlayers - n \in 1 .. NPlayers
    BY <1>1
  <2>2. order[NPlayers - n] \in Players /\ place[order[NPlayers - n]] = n
    BY <1>1, <1>6, <1>7, <2>1
  <2> QED
    BY <2>2
<1>9. ASSUME NEW p \in Players
      PROVE  place[p] \in 0 .. NPlayers - 1
  <2>1. at(p) \in 1 .. NPlayers /\ place[p] = NPlayers - at(p)
    BY <1>5, <1>6
  <2> QED
    BY <1>1, <2>1
<1>10. ASSUME NEW p \in Players, NEW q \in Players, total[p] > total[q]
       PROVE  place[p] < place[q]
  <2>1. at(p) # at(q)
    BY <1>5, <1>10
  <2>2. ~ at(p) < at(q)
    <3> SUFFICES ASSUME at(p) < at(q)
                 PROVE  FALSE
      OBVIOUS
    <3>1. total[p] <= total[q]
      BY <1>3, <1>5
    <3> QED
      BY <1>10, <3>1
  <2>3. at(p) \in 1 .. NPlayers /\ at(q) \in 1 .. NPlayers
    BY <1>5
  <2>4. place[p] = NPlayers - at(p) /\ place[q] = NPlayers - at(q)
    BY <1>6
  <2> HIDE DEF at
  <2> QED
    BY <1>1, <2>1, <2>2, <2>3, <2>4
<1> QED
  BY <1>8, <1>9, <1>10

-----------------------------------------------------------------------------
(* Who controls a city.                                                    *)

LEMMA ControlOfCity ==
    ASSUME ScoringTypes, NEW c \in Cities
    PROVE  /\ GetControl(board, c) \in Players =>
                /\ GetPresence(board, c, GetControl(board, c)) > 0
                /\ \A q \in Players : GetPresence(board, c, q)
                                        <= GetPresence(board, c, GetControl(board, c))
           /\ (\E p \in Players : GetPresence(board, c, p) > 0) =>
                GetControl(board, c) \in Players
<1> DEFINE D == DOMAIN Offices[c]
           taken    == {i \in D : board[<<"office", c, i>>] # NoPiece}
           owner(i) == board[<<"office", c, i>>].PlayerColor
           size(q)  == GetPresence(board, c, q)
           own(q)   == {i \in D : owner(i) = q}
           winning  == {i \in taken : \A q \in Players : size(q) <= size(owner(i))}
           sizes    == {size(owner(i)) : i \in taken}
<1>1. GetControl(board, c) = IF taken = {} THEN NoPlayer ELSE owner(Max(winning))
  BY DEF GetControl
<1>2. IsFiniteSet(D) /\ D \subseteq Nat /\ \E n \in Nat : \A i \in D : i <= n
  BY OfficeIndices
<1>3. \A q : size(q) = Cardinality(own(q))
  BY DEF GetPresence
<1>4. \A q : own(q) \in SUBSET D
  OBVIOUS
<1>5. ASSUME NEW i \in D
      PROVE  /\ i \in taken => owner(i) \in Players
             /\ i \notin taken => owner(i) \notin Players
  <2>1. <<"office", c, i>> \in ScoreSquares
    BY SquareKinds DEF ScoreSquares
  <2>2. board[<<"office", c, i>>] \in Pieces \cup {NoPiece}
    BY <2>1 DEF ScoringTypes
  <2> QED
    BY <2>2, PieceFacts
<1> HIDE DEF D, owner
<1>6. \A q : /\ size(q) \in Nat /\ size(q) <= Cardinality(D)
             /\ size(q) > 0 <=> own(q) # {}
  <2> HIDE DEF own, size
  <2> SUFFICES ASSUME NEW q
               PROVE  /\ size(q) \in Nat /\ size(q) <= Cardinality(D)
                      /\ size(q) > 0 <=> own(q) # {}
    OBVIOUS
  <2>1. IsFiniteSet(own(q)) /\ Cardinality(own(q)) <= Cardinality(D)
    BY <1>2, <1>4, FS_Subset
  <2>2. Cardinality(own(q)) \in Nat /\ (Cardinality(own(q)) = 0 <=> own(q) = {})
    BY <2>1, FS_CardinalityType, FS_EmptySet
  <2> QED
    BY <1>3, <2>1, <2>2
<1>7. Cardinality(D) \in Nat
  BY <1>2, FS_CardinalityType
<1>8. \A q \in Players : own(q) \subseteq taken
  BY <1>5
<1> HIDE DEF size
<1>9. ASSUME taken # {}
      PROVE  Max(winning) \in winning
  <2>1. sizes \in SUBSET Nat /\ sizes # {} /\ \A x \in sizes : x <= Cardinality(D)
    BY <1>6, <1>9
  <2>2. Max(sizes) \in sizes /\ \A x \in sizes : x <= Max(sizes)
    <3> HIDE DEF sizes
    <3> QED
      BY <1>7, <2>1, MaxOfBounded
  <2>3. PICK i \in taken : size(owner(i)) = Max(sizes)
    BY <2>2
  <2>4. ASSUME NEW q \in Players
        PROVE  size(q) <= size(owner(i))
    <3>1. CASE own(q) = {}
      BY <1>6, <3>1
    <3>2. CASE own(q) # {}
      <4>1. PICK j \in own(q) : j \in taken
        BY <1>8, <3>2
      <4>2. size(q) \in sizes
        BY <4>1
      <4> QED
        BY <2>2, <2>3, <4>2
    <3> QED
      BY <3>1, <3>2
  <2>5. winning # {}
    BY <2>4
  <2>6. winning \in SUBSET Nat /\ \E n \in Nat : \A i_1 \in winning : i_1 <= n
    BY <1>2
  <2> HIDE DEF winning
  <2> QED
    BY <2>5, <2>6, MaxOfBounded
<1>10. CASE taken = {}
  <2>1. GetControl(board, c) \notin Players
    BY <1>1, <1>10, BoardAssumption DEF NoPlayer, Players
  <2>2. \A p \in Players : ~ size(p) > 0
    BY <1>6, <1>8, <1>10
  <2> QED
    BY <2>1, <2>2 DEF size
<1>11. CASE taken # {}
  <2> DEFINE w == Max(winning)
  <2>1. GetControl(board, c) = owner(w) /\ w \in winning
    BY <1>1, <1>9, <1>11
  <2> HIDE DEF w
  <2>2. owner(w) \in Players /\ \A q \in Players : size(q) <= size(owner(w))
    BY <1>5, <2>1
  <2>3. w \in own(owner(w))
    BY <2>1
  <2>4. size(owner(w)) > 0
    BY <1>6, <2>3
  <2> QED
    BY <2>1, <2>2, <2>4 DEF size
<1> QED
  BY <1>10, <1>11

-----------------------------------------------------------------------------
(* The parts of a score.                                                   *)

LEMMA CoellenSpots ==
    /\ IsFiniteSet(CoellenSquares)
    /\ \A s \in CoellenSquares : Coellen[s[2]][s[3]].Points \in Nat
<1>1. IsFiniteSet(CoellenSquares)
  <2> DEFINE width == [c \in Cities |-> Len(Coellen[c])]
  <2>1. /\ width \in [Cities -> Nat] /\ IsFiniteSet(Cities)
        /\ \A c \in Cities : DOMAIN Coellen[c] = 1 .. width[c]
    BY BoardAssumption
  <2> HIDE DEF width
  <2>2. CoellenSquares = PlacesOf("coellen", Cities, width)
    BY <2>1 DEF CoellenSquares, PlacesOf
  <2> QED
    BY <2>1, <2>2, TableFinite
<1>2. ASSUME NEW s \in CoellenSquares
      PROVE  Coellen[s[2]][s[3]].Points \in Nat
  <2>1. Coellen[s[2]] \in Seq(CoellenType) /\ s[3] \in DOMAIN Coellen[s[2]]
    BY SquareKinds, BoardAssumption
  <2>2. Coellen[s[2]][s[3]] \in CoellenType
    BY <2>1
  <2> QED
    BY <2>2 DEF CoellenType
<1> QED
  BY <1>1, <1>2

CoellenPoints == [s \in CoellenSquares |-> Coellen[s[2]][s[3]].Points]

LEMMA CoellenOfPlayer ==
    ASSUME NEW p
    PROVE  /\ CoellenScore(p) = SumFunctionOnSet(CoellenPoints,
                                    {s \in CoellenSquares : board[s].PlayerColor = p})
           /\ CoellenScore(p) \in Int
<1> DEFINE own == {s \in CoellenSquares : board[s].PlayerColor = p}
           f   == [s \in own |-> Coellen[s[2]][s[3]].Points]
<1>1. /\ own \in SUBSET CoellenSquares
      /\ \A s \in own : CoellenPoints[s] \in Int /\ f[s] = CoellenPoints[s]
  BY CoellenSpots DEF CoellenPoints
<1>2. IsFiniteSet(own)
  BY <1>1, CoellenSpots, FS_Subset
<1>3. CoellenScore(p) = SumFunctionOnSet(f, own)
  <2>1. CoellenScore(p) = SumFunctionOnSet(f, DOMAIN f)
    BY DEF CoellenScore, SumFunction
  <2> QED
    BY <2>1
<1> HIDE DEF f, own
<1>4. SumFunctionOnSet(f, own) = SumFunctionOnSet(CoellenPoints, own)
  BY <1>1, <1>2, SumAgrees
<1>5. SumFunctionOnSet(CoellenPoints, own) \in Int
  BY <1>1, <1>2, SumLaws
<1> QED
  BY <1>3, <1>4, <1>5 DEF own

LEMMA TotalType ==
    ASSUME ScoringTypes, NEW game \in [Players -> GamePoints], NEW p \in Players
    PROVE  TotalScore(PlayScore(p, game)) \in Int
<1> DEFINE score == PlayScore(p, game)
<1>1. game[p] \in Int
  <2> HIDE DEF score
  <2>1. game[p] \in GamePoints /\ GamePoints \subseteq Nat
    BY ScoringAssumption
  <2>2. game[p] \in Nat
    BY <2>1
  <2> QED
    BY <2>2
<1>2. BoardScore(p) \in Int
  <2> DEFINE empty == {a \in TrackAwards \ {"Keys"} : left[p][a] = 0}
  <2>1. IsFiniteSet(TrackAwards) /\ empty \in SUBSET TrackAwards
    BY FiveFinite DEF TrackAwards
  <2>2. IsFiniteSet(empty)
    BY <2>1, FS_Subset
  <2>3. Cardinality(empty) \in Nat
    BY <2>2, FS_CardinalityType
  <2> QED
    BY <2>3 DEF BoardScore
<1>3. CoellenScore(p) \in Int
  BY CoellenOfPlayer
<1>4. ControlScore(p) \in Int
  <2> DEFINE own == {c \in Cities : GetControl(board, c) = p}
  <2>1. IsFiniteSet(Cities) /\ own \in SUBSET Cities
    BY BoardAssumption
  <2>2. IsFiniteSet(own)
    BY <2>1, FS_Subset
  <2>3. Cardinality(own) \in Nat
    BY <2>2, FS_CardinalityType
  <2> QED
    BY <2>3 DEF ControlScore
<1>5. NetworkScore(p) \in Int
  <2>1. GetNetworkScore(board, p) \in Nat
    BY PresenceType, LargestNetwork DEF GetNetworkScore
  <2>2. GetKeys(p) \in Nat
    BY DEF GetKeys
  <2> QED
    BY <2>1, <2>2 DEF NetworkScore
<1>6. DOMAIN score = PlayScores /\ \A t \in PlayScores : score[t] \in Int
  BY <1>1, <1>2, <1>3, <1>4, <1>5 DEF PlayScore, PlayScores
<1>7. IsFiniteSet(PlayScores)
  BY FiveFinite DEF PlayScores
<1> HIDE DEF score
<1>8. SumFunctionOnSet(score, PlayScores) \in Int
  BY <1>6, <1>7, SumLaws
<1> QED
  BY <1>6, <1>8 DEF TotalScore, SumFunction, score

\* What the scores of a finished game are, of the board as it stands.
Announced(scores) ==
    /\ {scores[p]["Place"] : p \in Players} = 0 .. NPlayers - 1
    /\ \A p, q \in Players :
        scores[p]["Total"] > scores[q]["Total"] => scores[p]["Place"] < scores[q]["Place"]
    /\ \A p \in Players : /\ scores[p]["Control"] = ControlScore(p)
                          /\ scores[p]["Coellen"] = CoellenScore(p)

LEMMA StatusAnnounces ==
    ASSUME ScoringTypes, CheckStatus
    PROVE  Announced(finalscores') /\ UNCHANGED board
<1>1. PICK game \in [Players -> GamePoints] :
        LET score == [p \in Players |-> PlayScore(p, game)]
            total == [p \in Players |-> TotalScore(score[p])]
        IN  \E order \in Ranking(total) :
                finalscores' = [p \in Players |-> [t \in ScoreTypes |->
                    CASE t = "Total" -> total[p]
                      [] t = "Place" -> NPlayers - CHOOSE i \in DOMAIN order : order[i] = p
                      [] OTHER -> score[p][t]]]
  BY DEF CheckStatus
<1> DEFINE score == [p \in Players |-> PlayScore(p, game)]
           total == [p \in Players |-> TotalScore(score[p])]
<1>2. PICK order \in Ranking(total) :
        finalscores' = [p \in Players |-> [t \in ScoreTypes |->
                    CASE t = "Total" -> total[p]
                      [] t = "Place" -> NPlayers - CHOOSE i \in DOMAIN order : order[i] = p
                      [] OTHER -> score[p][t]]]
  BY <1>1
<1>3. total \in [Players -> Int]
  BY TotalType
<1>4. ASSUME NEW p \in Players
      PROVE  /\ score[p]["Control"] = ControlScore(p)
             /\ score[p]["Coellen"] = CoellenScore(p)
  BY DEF PlayScore, PlayScores
<1> DEFINE place == [p \in Players |-> NPlayers - CHOOSE i \in DOMAIN order : order[i] = p]
<1> HIDE DEF score, total
<1>5. ASSUME NEW p \in Players
      PROVE  /\ finalscores'[p]["Total"] = total[p]
             /\ finalscores'[p]["Place"] = place[p]
             /\ finalscores'[p]["Control"] = score[p]["Control"]
             /\ finalscores'[p]["Coellen"] = score[p]["Coellen"]
  BY <1>2 DEF ScoreTypes, PlayScores
<1>6. \A p \in Players : place[p] = NPlayers - CHOOSE i \in DOMAIN order : order[i] = p
  OBVIOUS
<1> HIDE DEF place
<1>7. /\ {place[p] : p \in Players} = 0 .. NPlayers - 1
      /\ \A p, q \in Players : total[p] > total[q] => place[p] < place[q]
  BY <1>3, <1>6, RankingPlaces
<1>8. {finalscores'[p]["Place"] : p \in Players} = {place[p] : p \in Players}
  BY <1>5
<1>9. UNCHANGED board
  BY DEF CheckStatus
<1> QED
  BY <1>4, <1>5, <1>7, <1>8, <1>9 DEF Announced

\* The conjuncts of PlacesFollowTotals that count what is paid.
LEMMA PaidOnce ==
    ASSUME ScoringTypes, NEW scores, Announced(scores)
    PROVE  /\ SumFunction([p \in Players |-> scores[p]["Control"]])
                = 2 * Cardinality(UNION {Present(p) : p \in Players})
           /\ \A p \in Players :
                scores[p]["Control"] <= 2 * Cardinality({c \in Present(p) :
                    \A q \in Players : GetPresence(board, c, q) <= GetPresence(board, c, p)})
           /\ SumFunction([p \in Players |-> scores[p]["Coellen"]])
                = SumFunctionOnSet([s \in CoellenSquares |-> Coellen[s[2]][s[3]].Points],
                                   {s \in CoellenSquares : board[s] # NoPiece})
<1>1. IsFiniteSet(Players)
  BY BoardAssumption, FS_Interval DEF Players
<1>2. IsFiniteSet(Cities)
  BY BoardAssumption
<1>3. SumFunction([p \in Players |-> scores[p]["Control"]])
        = 2 * Cardinality(UNION {Present(p) : p \in Players})
  <2> DEFINE F == [p \in Players |-> scores[p]["Control"]]
             own == [p \in Players |-> {c \in Cities : GetControl(board, c) = p}]
             paid == UNION {Present(p) : p \in Players}
  <2>1. \A p \in Players : F[p] = 2 * Cardinality(own[p])
    BY DEF Announced, ControlScore
  <2>2. IsPartition(own, Players, paid)
    BY ControlOfCity DEF Present, IsPartition
  <2>3. SumFunction(F) = SumFunctionOnSet(F, Players)
    BY DEF SumFunction
  <2>4. IsFiniteSet(paid)
    <3>1. paid \in SUBSET Cities
      BY DEF Present
    <3> QED
      BY <1>2, <3>1, FS_Subset
  <2> HIDE DEF F, own, paid
  <2>5. SumFunctionOnSet(F, Players) = 2 * Cardinality(paid)
    BY <1>1, <2>1, <2>2, <2>4, CountByParts
  <2> QED
    BY <2>3, <2>5 DEF F, paid
<1>4. ASSUME NEW p \in Players
      PROVE  scores[p]["Control"] <= 2 * Cardinality({c \in Present(p) :
                 \A q \in Players : GetPresence(board, c, q) <= GetPresence(board, c, p)})
  <2> DEFINE own == {c \in Cities : GetControl(board, c) = p}
             max == {c \in Present(p) : \A q \in Players :
                        GetPresence(board, c, q) <= GetPresence(board, c, p)}
  <2>1. own \in SUBSET max
    BY ControlOfCity DEF Present
  <2>2. max \in SUBSET Cities
    BY DEF Present
  <2>3. scores[p]["Control"] = 2 * Cardinality(own)
    BY DEF Announced, ControlScore
  <2> HIDE DEF own, max
  <2>4. IsFiniteSet(max)
    BY <1>2, <2>2, FS_Subset
  <2>5. IsFiniteSet(own) /\ Cardinality(own) <= Cardinality(max)
    BY <2>1, <2>4, FS_Subset
  <2>6. Cardinality(own) \in Nat /\ Cardinality(max) \in Nat
    BY <2>4, <2>5, FS_CardinalityType
  <2>7. scores[p]["Control"] <= 2 * Cardinality(max)
    BY <2>3, <2>5, <2>6
  <2> QED
    BY <2>7 DEF max
<1>5. SumFunction([p \in Players |-> scores[p]["Coellen"]])
        = SumFunctionOnSet(CoellenPoints, {s \in CoellenSquares : board[s] # NoPiece})
  <2> DEFINE F == [p \in Players |-> scores[p]["Coellen"]]
             own == [p \in Players |-> {s \in CoellenSquares : board[s].PlayerColor = p}]
             paid == {s \in CoellenSquares : board[s] # NoPiece}
  <2>1. \A p \in Players : F[p] = SumFunctionOnSet(CoellenPoints, own[p])
    BY CoellenOfPlayer DEF Announced
  <2>2. IsPartition(own, Players, paid)
    <3>1. \A s \in CoellenSquares : board[s] \in Pieces \cup {NoPiece}
      BY DEF ScoringTypes, ScoreSquares
    <3> QED
      BY <3>1, PieceFacts DEF IsPartition
  <2>3. SumFunction(F) = SumFunctionOnSet(F, Players)
    BY DEF SumFunction
  <2>4. IsFiniteSet(paid) /\ \A s \in paid : CoellenPoints[s] \in Int
    <3>1. paid \in SUBSET CoellenSquares
      OBVIOUS
    <3>2. \A s \in CoellenSquares : CoellenPoints[s] \in Int
      BY CoellenSpots DEF CoellenPoints
    <3> HIDE DEF paid
    <3> QED
      BY <3>1, <3>2, CoellenSpots, FS_Subset
  <2> HIDE DEF F, own, paid
  <2>5. SumFunctionOnSet(F, Players) = SumFunctionOnSet(CoellenPoints, paid)
    BY <1>1, <2>1, <2>2, <2>4, SumByParts
  <2> QED
    BY <2>3, <2>5 DEF F, paid
<1> QED
  BY <1>3, <1>4, <1>5 DEF CoellenPoints

\* The places are a ranking by the totals, no city and no Coellen spot is paid
\* for twice or forgotten, and no player is paid for a city in which another has
\* more offices, on every map and however the game went (checkStatus).
THEOREM PlacesRankTotals == Spec => []PlacesFollowTotals
<1>1. Init => PlacesFollowTotals
  BY DEF Init, PlacesFollowTotals, Scored
<1>2. ASSUME ScoringTypes, PlacesFollowTotals, [Next]_vars
      PROVE  PlacesFollowTotals'
  <2>1. ASSUME CheckStatus
        PROVE  PlacesFollowTotals'
    <3> DEFINE scores == finalscores'
    <3>1. Announced(scores) /\ UNCHANGED board
      BY <1>2, <2>1, StatusAnnounces
    <3> HIDE DEF scores
    <3>2. /\ SumFunction([p \in Players |-> scores[p]["Control"]])
                = 2 * Cardinality(UNION {Present(p) : p \in Players})
          /\ \A p \in Players :
                scores[p]["Control"] <= 2 * Cardinality({c \in Present(p) :
                    \A q \in Players : GetPresence(board, c, q) <= GetPresence(board, c, p)})
          /\ SumFunction([p \in Players |-> scores[p]["Coellen"]])
                = SumFunctionOnSet([s \in CoellenSquares |-> Coellen[s[2]][s[3]].Points],
                                   {s \in CoellenSquares : board[s] # NoPiece})
      BY <1>2, <3>1, PaidOnce
    <3>3. \A p : Present(p)' = Present(p)
      BY <3>1 DEF Present
    <3>4. finalscores' = scores /\ board' = board
      BY <3>1 DEF scores
    <3> QED
      BY <3>1, <3>2, <3>3, <3>4 DEF PlacesFollowTotals, Announced
  <2>2. ASSUME UNCHANGED vars
        PROVE  PlacesFollowTotals'
    BY <1>2, <2>2 DEF vars, PlacesFollowTotals, Scored, Present
  <2>3. ASSUME Next, ~ CheckStatus
        PROVE  PlacesFollowTotals'
    <3>1. ~ Scored /\ finalscores' = finalscores
      BY <2>3 DEF Next, TakeOffice, TakeCoellen, LevelUp
    <3> QED
      BY <3>1 DEF PlacesFollowTotals, Scored
  <2> QED
    BY <1>2, <2>1, <2>2, <2>3
<1> QED
  BY <1>1, <1>2, ScoringTypesInvariant, PTL DEF Spec

=============================================================================
