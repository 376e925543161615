----------------------------- MODULE HansaBoard -----------------------------
(***************************************************************************)
(* The board of a game (simple/board.go, city.go, route.go, office.go) and *)
(* the questions the turn engine asks of it.  The map is data in the code  *)
(* (boarddata.go), so it is a parameter here: cities, routes between them, *)
(* the spots of a route, the offices of a city and the Coellen table.      *)
(*                                                                         *)
(* A place on the board is a tuple <<kind, Id, Index>>; kind is the code's *)
(* Location.Type together with its Subindex.  Indices count from 1.        *)
(***************************************************************************)
EXTENDS Integers, Sequences, FiniteSets, FiniteSetsExt

CONSTANTS
    NPlayers,       \* number of player boards left when the game starts
    Cities,         \* ids of the cities
    Routes,         \* ids of the routes
    LeftCity,       \* [Routes -> Cities]
    RightCity,      \* [Routes -> Cities]
    Spots,          \* [Routes -> number of spots]
    Offices,        \* [Cities -> sequence of offices, left to right]
    Coellen,        \* [Cities -> sequence of Coellen spots], <<>> but for one
    Award,          \* [Cities -> Awards]
    BonusTermini    \* the two ends of the bonus route

Shapes == {"Cube", "Disc"}

\* The awards that free a piece of a player's own board; an award is named as
\* in award.go and stands for the track it frees ("Discs" is the Books track).
TrackAwards == {"Discs", "Priviledge", "Bags", "Actions", "Keys"}
Awards == TrackAwards \cup {"Coellen", "None"}

OfficeType  == [Shape : Shapes, Priviledge : Nat, Points : Nat]
CoellenType == [Priviledge : Nat, Points : Nat]

ASSUME BoardAssumption ==
    /\ NPlayers \in Nat \ {0}
    /\ IsFiniteSet(Cities) /\ IsFiniteSet(Routes)
    /\ LeftCity \in [Routes -> Cities] /\ RightCity \in [Routes -> Cities]
    /\ Spots \in [Routes -> Nat \ {0, 1}]
    /\ \A c \in Cities : /\ Offices[c] \in Seq(OfficeType)
                         /\ Coellen[c] \in Seq(CoellenType)
    /\ Award \in [Cities -> Awards]
    /\ BonusTermini \subseteq Cities /\ Cardinality(BonusTermini) \in {0, 2}
    /\ 0 \in Routes

-----------------------------------------------------------------------------
(* Players and pieces.  A player's colour is identified with the index of  *)
(* the player board, which colorToPlayer computes; no colour is -1.        *)

Players  == 0 .. NPlayers - 1
NoPlayer == -1

Piece(p, shape) == [PlayerColor |-> p, Shape |-> shape]
Pieces  == [PlayerColor : Players, Shape : Shapes]
NoPiece == [PlayerColor |-> NoPlayer, Shape |-> "None"]

(* The places of the board.                                                *)

SpotSquares    == UNION {{<<"spot", r, i>> : i \in 1 .. Spots[r]} : r \in Routes}
BumpSquares    == UNION {{<<"bumped", r, i>> : i \in 1 .. Spots[r]} : r \in Routes}
OfficeSquares  == UNION {{<<"office", c, i>> : i \in DOMAIN Offices[c]} : c \in Cities}
CoellenSquares == UNION {{<<"coellen", c, i>> : i \in DOMAIN Coellen[c]} : c \in Cities}
RouteSquares   == SpotSquares \cup BumpSquares
Squares        == RouteSquares \cup OfficeSquares \cup CoellenSquares

NoLocation == <<"none", 0, 0>>

\* The bump zone of a spot: the same Location with Subindex 1.
BumpZone(s) == <<"bumped", s[2], s[3]>>
SpotsOf(r)  == {<<"spot", r, i>> : i \in 1 .. Spots[r]}

-----------------------------------------------------------------------------
(* Moving pieces (table.go, ApplySubaction).  b is a board, a function     *)
(* from Squares to pieces.                                                 *)

\* Mutant of Lift: the waiting piece does not slide back.
LiftAlone(b, s) == [b EXCEPT ![s] = NoPiece]

\* Lifting a piece off its place; a piece waiting in the bump zone of the
\* freed spot slides back onto it.
Lift(b, s) ==
    IF s \in SpotSquares /\ b[BumpZone(s)] # NoPiece
    THEN [b EXCEPT ![s] = b[BumpZone(s)], ![BumpZone(s)] = NoPiece]
    ELSE [b EXCEPT ![s] = NoPiece]

\* Mutant of Drop: the piece that is bumped is lost.
DropOver(b, d, piece) == [b EXCEPT ![d] = piece]

\* Setting a piece down; a piece already on the spot goes to the bump zone.
\* BumpBlocked says when ApplySubaction panics instead.
Drop(b, d, piece) ==
    IF b[d] = NoPiece
    THEN [b EXCEPT ![d] = piece]
    ELSE [b EXCEPT ![d] = piece, ![BumpZone(d)] = b[d]]

BumpBlocked(b, d) == b[d] # NoPiece /\ b[BumpZone(d)] # NoPiece

Shift(b, s, d) == Drop(Lift(b, s), d, b[s])

-----------------------------------------------------------------------------
(* Cities (city.go).                                                       *)

GetPresence(b, c, p) ==
    Cardinality({i \in DOMAIN Offices[c] : b[<<"office", c, i>>].PlayerColor = p})

\* The player with most offices; among equals the one furthest to the right.
GetControl(b, c) ==
    LET taken   == {i \in DOMAIN Offices[c] : b[<<"office", c, i>>] # NoPiece}
        owner(i) == b[<<"office", c, i>>].PlayerColor
        winning == {i \in taken : \A q \in Players :
                        GetPresence(b, c, q) <= GetPresence(b, c, owner(i))}
    IN  IF taken = {} THEN NoPlayer ELSE owner(Max(winning))

CityFilled(b, c) == \A i \in DOMAIN Offices[c] : b[<<"office", c, i>>] # NoPiece
GetFilledCityCount(b) == Cardinality({c \in Cities : CityFilled(b, c)})

(* Routes.                                                                 *)

RouteEmpty(b, r)   == \A s \in SpotsOf(r) : b[s] = NoPiece
RouteFull(b, r, p) == \A s \in SpotsOf(r) : b[s].PlayerColor = p

Neighbours == [x \in Cities |->
    {y \in Cities : \E r \in Routes : {LeftCity[r], RightCity[r]} = {x, y}}]

\* Mutant of AdjacentCity: a route leads from its left city to its right one.
AdjacentRight(x, y) == \E r \in Routes : LeftCity[r] = x /\ RightCity[r] = y

AdjacentCity(x, y) == y \in Neighbours[x]

\* The search from some of the present cities over present cities, frontier by
\* frontier. It only adds cities, so it is over after as many rounds as there
\* are such cities.
Reached(from, present) ==
    LET reached[n \in 0 .. Cardinality(present)] ==
            IF n = 0 THEN from
            ELSE LET old == reached[n - 1]
                 IN  old \cup {y \in present : \E x \in old : AdjacentCity(x, y)}
    IN  reached[Cardinality(present)]

\* Whether cities where p is present link the two ends of the bonus route.
GetBonusRouteCompleted(b, p) ==
    LET present == {c \in Cities : GetPresence(b, c, p) > 0}
    IN  \E start, end \in BonusTermini :
            start # end /\ end \in Reached({start} \cap present, present)

AdjacentRoute(r1, r2) ==
    {LeftCity[r1], RightCity[r1]} \cap {LeftCity[r2], RightCity[r2]} # {}

\* The search of ValidBumps gives up (and panics) past this distance.
MaxBumpDistance == 10

\* The routes at most n steps away from route l.
RoutesWithin[l \in Routes, n \in 0 .. MaxBumpDistance] ==
    IF n = 0 THEN {l}
    ELSE LET near == RoutesWithin[l, n - 1]
         IN  near \cup {r \in Routes : \E o \in near : AdjacentRoute(o, r)}

\* The spots of the routes exactly n steps away.
SpotsAt == [l \in Routes |-> [n \in 1 .. MaxBumpDistance |->
    LET ring == RoutesWithin[l, n] \ RoutesWithin[l, n - 1]
    IN  {s \in SpotSquares : s[2] \in ring}]]

\* Where a bumped piece and its replacements may go: the empty spots of the
\* nearest routes, other than the piece's own, that have one.  Empty when the
\* code panics because the search found none.
ValidBumps(b, l) ==
    LET open(n) == {s \in SpotsAt[l[2]][n] : b[s] = NoPiece}
        reached == {n \in 1 .. MaxBumpDistance : \A m \in 1 .. n - 1 : open(m) = {}}
    IN  UNION {open(n) : n \in reached}

=============================================================================
