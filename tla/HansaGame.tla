------------------------------ MODULE HansaGame ------------------------------
(***************************************************************************)
(* The turn engine of one game: what game.go does from the moment the game *)
(* is running until its end is scored.  Every kind of subaction that       *)
(* handleDoSubaction accepts is an action, and so are handleEndTurn and    *)
(* handleEndBump.  A refused request changes nothing and is no step.       *)
(*                                                                         *)
(* A player's stock and supply have a slot for each of the player's        *)
(* pieces, so the slots are counted per shape and not told apart; the      *)
(* tracks are freed from the left, so a track is the number of pieces on   *)
(* it.                                                                     *)
(***************************************************************************)
EXTENDS HansaBoard

CONSTANTS
    StartTrack,     \* [TrackAwards -> pieces on the track at the start]
    StartCubes,     \* cubes in stock and supply at the start (11)
    FirstSupply,    \* of these in the supply of the first player (5)
    EndScore,       \* a score that ends the game (20)
    EndCities       \* a number of filled cities that ends the game (10)

ASSUME GameAssumption ==
    /\ StartTrack \in [TrackAwards -> Nat]
    /\ StartTrack["Discs"] \in 0 .. 3 /\ StartTrack["Priviledge"] \in 0 .. 3
    /\ StartTrack["Bags"] \in 0 .. 3 /\ StartTrack["Actions"] \in 0 .. 5
    /\ StartCubes \in Nat /\ FirstSupply \in 0 .. StartCubes
    /\ EndScore \in Nat \ {0} /\ EndCities \in Nat \ {0}

\* The game does not begin at its end: a city without offices counts as filled.
ASSUME OpeningAssumption ==
    ~ (GetFilledCityCount([s \in Squares |-> NoPiece]) >= EndCities)

VARIABLES
    board,          \* [Squares -> piece]
    stock,          \* [Players -> [Shapes -> number of pieces]]
    supply,         \* likewise
    tracks,         \* [Players -> [TrackAwards -> pieces not yet freed]]
    scores,         \* [Players -> points]
    bonusroute,     \* the players who have scored the bonus route
    gameend,        \* the game ends after this turn
    turnState,      \* whose turn it is and what that player is doing
    status,         \* "Running" or "Scoring"
    panicked        \* the process has stopped in a panic

vars == <<board, stock, supply, tracks, scores, bonusroute, gameend, turnState,
          status, panicked>>

-----------------------------------------------------------------------------
(* Player boards (playerboard.go); t is one player's tracks.               *)

GetActions(t) ==
    CASE t["Actions"] = 5        -> 2
      [] t["Actions"] \in {3, 4} -> 3
      [] t["Actions"] \in {1, 2} -> 4
      [] OTHER                   -> 5

GetBooks(t)      == 5 - t["Discs"]
GetPriviledge(t) == 4 - t["Priviledge"]
GetBags(t)       == IF t["Bags"] = 0 THEN 100 ELSE 3 + (3 - t["Bags"]) * 2

TrackShape(award) == IF award = "Discs" THEN "Disc" ELSE "Cube"

\* Mutant of CanAward: a level is taken from an empty track.
CanAwardAny(t, award) == award \in TrackAwards

CanAward(t, award) == award \in TrackAwards /\ t[award] > 0

Count(pool) == pool["Cube"] + pool["Disc"]

-----------------------------------------------------------------------------
FreshTurn(p, actions) ==
    [Type |-> "None", Player |-> p, ActionsLeft |-> actions,
     BagsLeft |-> 0, BumpPayingCost |-> 0, BumpingPlayer |-> 0,
     BumpingLocation |-> NoLocation, BumpingMoved |-> FALSE,
     BumpingReplaces |-> 0, MovesLeft |-> 0, ClearingAward |-> "None",
     ClearingRouteId |-> 0, ClearingCanOffice |-> FALSE]

\* Player i starts with FirstSupply + i cubes and a disc in the supply, as far
\* as there are cubes, and the other cubes in stock.
StartSupply(i) == IF FirstSupply + i <= StartCubes THEN FirstSupply + i ELSE StartCubes

Init ==
    /\ board = [s \in Squares |-> NoPiece]
    /\ supply = [i \in Players |-> [s \in Shapes |->
                    IF s = "Disc" THEN 1 ELSE StartSupply(i)]]
    /\ stock  = [i \in Players |-> [s \in Shapes |->
                    IF s = "Disc" THEN 0 ELSE StartCubes - StartSupply(i)]]
    /\ tracks = [i \in Players |-> StartTrack]
    /\ scores = [i \in Players |-> 0]
    /\ bonusroute = {}
    /\ gameend = FALSE
    /\ turnState = FreshTurn(0, 2)
    /\ status = "Running"
    /\ panicked = FALSE

-----------------------------------------------------------------------------
(* What every subaction does last: gameEndIfNecessary.                     *)

EndReached(b, sc) ==
    (\E p \in Players : sc[p] >= EndScore) \/ GetFilledCityCount(b) >= EndCities

\* Mutant of Commit: the actions left are dropped only by the step that reaches
\* the end of the game.
CommitOnce(b, sc, ts) ==
    /\ board' = b
    /\ scores' = sc
    /\ gameend' = (gameend \/ EndReached(b, sc))
    /\ turnState' = IF gameend' /\ ~gameend /\ ts.Type = "None"
                    THEN [ts EXCEPT !.ActionsLeft = 0]
                    ELSE ts
    /\ UNCHANGED <<status, panicked>>

\* Leave board b, scores sc and turn state ts; once the game is ending a
\* player between two actions has none left.
Commit(b, sc, ts) ==
    /\ board' = b
    /\ scores' = sc
    /\ gameend' = (gameend \/ EndReached(b, sc))
    /\ turnState' = IF gameend' /\ ts.Type = "None"
                    THEN [ts EXCEPT !.ActionsLeft = 0]
                    ELSE ts
    /\ UNCHANGED <<status, panicked>>

(* What every subaction checks first: validateSubaction and the preamble   *)
(* of handleDoSubaction.                                                   *)

\* The player whose request is acted on.
Actor == IF turnState.Type = "Bumping" THEN turnState.BumpingPlayer
                                       ELSE turnState.Player

MayAsk(p) == status = "Running" /\ ~panicked /\ p = Actor

MayAct(p) == MayAsk(p) /\ ~(turnState.Type = "None" /\ turnState.ActionsLeft = 0)

\* The player is between two actions, or breaks off a move or bags action, with
\* an action left to begin another one.
MayStart ==
    \/ turnState.Type = "None"
    \/ /\ turnState.Type \in {"Moving", "Bags"}
       /\ turnState.ActionsLeft # 0
       /\ ~gameend

\* Mutant of Started: the broken-off action keeps its counter.
StartedOver == [turnState EXCEPT !.ActionsLeft = @ - 1]

\* The turn state with an action spent and the broken-off one forgotten.
Started ==
    [turnState EXCEPT
        !.ActionsLeft = @ - 1,
        !.MovesLeft = IF turnState.Type = "Moving" THEN 0 ELSE @,
        !.BagsLeft  = IF turnState.Type = "Bags" THEN 0 ELSE @]

Owns(p, s) == board[s].PlayerColor = p

\* Mutant of OnRoutes: the colour of the piece is not checked.
OnRoutesAny(p) == {s \in RouteSquares : board[s] # NoPiece}

\* The pieces p may name as the source of a subaction on the board.
OnRoutes(p) == {s \in RouteSquares : Owns(p, s)}

-----------------------------------------------------------------------------
(* Stock and supply.                                                       *)

BagsTurn(p) ==
    \/ /\ turnState.Type = "Bags"
       /\ Commit(board, scores,
                 [turnState EXCEPT !.BagsLeft = @ - 1,
                                   !.Type = IF turnState.BagsLeft = 1
                                            THEN "None" ELSE @])
    \/ /\ MayStart /\ turnState.Type # "Bags"
       /\ Commit(board, scores,
                 [Started EXCEPT !.Type = "Bags",
                                 !.BagsLeft = GetBags(tracks[p]) - 1])

\* Stock to supply: begin or continue a bags action.
BagPiece(p, shape) ==
    /\ stock[p][shape] > 0
    /\ BagsTurn(p)
    /\ stock' = [stock EXCEPT ![p][shape] = @ - 1]
    /\ supply' = [supply EXCEPT ![p][shape] = @ + 1]
    /\ UNCHANGED <<tracks, bonusroute>>

\* Supply to stock: pay for the bump just made.  With the last piece paid it
\* is up to the bumped player.
PayBump(p, shape) ==
    /\ turnState.Type = "BumpPaying"
    /\ supply[p][shape] > 0
    /\ Commit(board, scores,
              [turnState EXCEPT !.BumpPayingCost = @ - 1,
                                !.Type = IF turnState.BumpPayingCost = 1
                                         THEN "Bumping" ELSE @])
    /\ stock' = [stock EXCEPT ![p][shape] = @ + 1]
    /\ supply' = [supply EXCEPT ![p][shape] = @ - 1]
    /\ UNCHANGED <<tracks, bonusroute>>

\* Supply to an empty spot.
Place(p, shape, d) ==
    /\ supply[p][shape] > 0
    /\ board[d] = NoPiece
    /\ Commit(Drop(board, d, Piece(p, shape)), scores,
              [Started EXCEPT !.Type = "None"])
    /\ supply' = [supply EXCEPT ![p][shape] = @ - 1]
    /\ UNCHANGED <<stock, tracks, bonusroute>>

\* What bumping a piece costs beside the piece that takes its place, and how
\* many pieces its owner may add in replacement.
BumpCost(piece) == IF piece.Shape = "Disc" THEN 2 ELSE 1

\* Mutant of BumpAsked: the piece that takes the place is not counted.
BumpAskedShort(p, shape, d) ==
    /\ supply[p][shape] > 0
    /\ board[d] # NoPiece /\ ~Owns(p, d)
    /\ Count(supply[p]) >= BumpCost(board[d])

BumpAsked(p, shape, d) ==
    /\ supply[p][shape] > 0
    /\ board[d] # NoPiece /\ ~Owns(p, d)
    /\ Count(supply[p]) >= BumpCost(board[d]) + 1

\* Supply to a spot that another player holds.
Bump(p, shape, d) ==
    /\ BumpAsked(p, shape, d)
    /\ ~BumpBlocked(board, d)
    /\ Commit(Drop(board, d, Piece(p, shape)), scores,
              [Started EXCEPT !.Type = "BumpPaying",
                              !.BumpPayingCost = BumpCost(board[d]),
                              !.BumpingPlayer = board[d].PlayerColor,
                              !.BumpingLocation = BumpZone(d),
                              !.BumpingMoved = FALSE,
                              !.BumpingReplaces = BumpCost(board[d])])
    /\ supply' = [supply EXCEPT ![p][shape] = @ - 1]
    /\ UNCHANGED <<stock, tracks, bonusroute>>

-----------------------------------------------------------------------------
(* Answering a bump.                                                       *)

\* d is one of ValidBumps, and so is empty.
Replaced == [turnState EXCEPT !.BumpingReplaces = @ - 1]

ReplaceFromStock(p, shape, d) ==
    /\ turnState.BumpingReplaces # 0
    /\ stock[p][shape] > 0
    /\ Commit(Drop(board, d, Piece(p, shape)), scores, Replaced)
    /\ stock' = [stock EXCEPT ![p][shape] = @ - 1]
    /\ UNCHANGED <<supply, tracks, bonusroute>>

ReplaceFromSupply(p, shape, d) ==
    /\ turnState.BumpingReplaces # 0
    /\ Count(stock[p]) = 0
    /\ supply[p][shape] > 0
    /\ Commit(Drop(board, d, Piece(p, shape)), scores, Replaced)
    /\ supply' = [supply EXCEPT ![p][shape] = @ - 1]
    /\ UNCHANGED <<stock, tracks, bonusroute>>

ReplaceFromBoard(p, s, d) ==
    /\ turnState.BumpingReplaces # 0
    /\ s \in SpotSquares
    /\ Count(stock[p]) = 0 /\ Count(supply[p]) = 0
    /\ Commit(Shift(board, s, d), scores, Replaced)
    /\ UNCHANGED <<stock, supply, tracks, bonusroute>>

\* Mutant of MoveBumped: the move is not remembered.
MoveBumpedAgain(p, s, d) ==
    /\ s \in BumpSquares
    /\ ~turnState.BumpingMoved
    /\ Commit(Shift(board, s, d), scores, turnState)
    /\ UNCHANGED <<stock, supply, tracks, bonusroute>>

\* The code takes a piece from any bump zone for the bumped one.
MoveBumped(p, s, d) ==
    /\ s \in BumpSquares
    /\ ~turnState.BumpingMoved
    /\ Commit(Shift(board, s, d), scores, [turnState EXCEPT !.BumpingMoved = TRUE])
    /\ UNCHANGED <<stock, supply, tracks, bonusroute>>

EndBump(p) ==
    /\ ~panicked
    /\ turnState.Type = "Bumping" /\ turnState.BumpingPlayer = p
    /\ turnState.BumpingMoved
    /\ turnState' = [turnState EXCEPT !.Type = "None", !.BumpingPlayer = 0,
                                      !.BumpingLocation = NoLocation,
                                      !.BumpingMoved = FALSE,
                                      !.BumpingReplaces = 0]
    /\ UNCHANGED <<board, stock, supply, tracks, scores, bonusroute, gameend,
                   status, panicked>>

-----------------------------------------------------------------------------
(* Moving pieces on the board.                                             *)

\* Mutant of MoveTurn: the move action ends one move late.
MoveTurnLate(p, b) ==
    \/ /\ turnState.Type = "Moving"
       /\ Commit(b, scores,
                 [turnState EXCEPT !.MovesLeft = @ - 1,
                                   !.Type = IF turnState.MovesLeft = 0
                                            THEN "None" ELSE @])
    \/ /\ MayStart /\ turnState.Type # "Moving"
       /\ Commit(b, scores,
                 [Started EXCEPT !.Type = "Moving",
                                 !.MovesLeft = GetBooks(tracks[p]) - 1])

MoveTurn(p, b) ==
    \/ /\ turnState.Type = "Moving"
       /\ Commit(b, scores,
                 [turnState EXCEPT !.MovesLeft = @ - 1,
                                   !.Type = IF turnState.MovesLeft = 1
                                            THEN "None" ELSE @])
    \/ /\ MayStart /\ turnState.Type # "Moving"
       /\ Commit(b, scores,
                 [Started EXCEPT !.Type = "Moving",
                                 !.MovesLeft = GetBooks(tracks[p]) - 1])

Move(p, s, d) ==
    /\ board[d] = NoPiece
    /\ MoveTurn(p, Shift(board, s, d))
    /\ UNCHANGED <<stock, supply, tracks, bonusroute>>

-----------------------------------------------------------------------------
(* Clearing a route.                                                       *)

\* Mutant of Cleared: a reward never ends the clearing.
ClearedNever(b, ts) == ts

\* The route's clearing is over once no piece is left on it.
Cleared(b, ts) ==
    IF RouteEmpty(b, ts.ClearingRouteId)
    THEN [ts EXCEPT !.Type = "None", !.ClearingRouteId = 0]
    ELSE ts

\* Mutant of Rewarded: the office is left to be taken after the award.
RewardedTwice(ts) == [ts EXCEPT !.ClearingAward = "None"]

\* The reward of the clearing is taken; whichever it was, no other is left.
Rewarded(ts) == [ts EXCEPT !.ClearingCanOffice = FALSE, !.ClearingAward = "None"]

\* A point for the controller of each end of the route being cleared.
ControlPoints(r) ==
    [q \in Players |-> (IF GetControl(board, LeftCity[r]) = q THEN 1 ELSE 0)
                     + (IF GetControl(board, RightCity[r]) = q THEN 1 ELSE 0)]

\* 7, 4 and 2 points for the first three players who complete the bonus route.
BonusWorth == CASE Cardinality(bonusroute) = 0 -> 7
                [] Cardinality(bonusroute) = 1 -> 4
                [] Cardinality(bonusroute) = 2 -> 2
                [] OTHER                       -> 0

BonusScored(b, p) == /\ p \notin bonusroute /\ BonusWorth > 0
                     /\ GetBonusRouteCompleted(b, p)

\* What taking an office adds to the scores: its points, the bonus route when
\* it is now completed, and the points in extra.
OfficeScores(b, p, o, extra) ==
    [q \in Players |-> scores[q] + extra[q]
        + IF q # p THEN 0
          ELSE o.Points + (IF BonusScored(b, p) THEN BonusWorth ELSE 0)]

OfficeBonus(b, p) ==
    bonusroute' = IF BonusScored(b, p) THEN bonusroute \cup {p} ELSE bonusroute

\* Mutant of OfficeOpen: any open office of the city will do.
OfficeOpenAny(p, s, d) ==
    LET o == Offices[d[2]][d[3]]
    IN  /\ board[d] = NoPiece
        /\ o.Shape = board[s].Shape
        /\ o.Priviledge <= GetPriviledge(tracks[p])

\* Office d is the leftmost open one of its city and takes the piece on s.
OfficeOpen(p, s, d) ==
    LET o == Offices[d[2]][d[3]]
    IN  /\ board[d] = NoPiece
        /\ \A i \in 1 .. d[3] - 1 : board[<<"office", d[2], i>>] # NoPiece
        /\ o.Shape = board[s].Shape
        /\ o.Priviledge <= GetPriviledge(tracks[p])

\* A piece of the route being cleared takes an office at an end of the route.
TakeOffice(p, s, d) ==
    LET r == turnState.ClearingRouteId
        b == Shift(board, s, d)
    IN  /\ OfficeOpen(p, s, d)
        /\ turnState.ClearingCanOffice
        /\ d[2] \in {LeftCity[r], RightCity[r]}
        /\ s[2] = r
        /\ Commit(b, OfficeScores(b, p, Offices[d[2]][d[3]], [q \in Players |-> 0]),
                  Cleared(b, Rewarded(turnState)))
        /\ OfficeBonus(b, p)
        /\ UNCHANGED <<stock, supply, tracks>>

\* Clearing begins with the piece that takes an office.
ClearToOffice(p, s, d) ==
    LET r == s[2]
        b == Shift(board, s, d)
    IN  /\ OfficeOpen(p, s, d)
        /\ RouteFull(board, r, p)
        /\ Commit(b, OfficeScores(b, p, Offices[d[2]][d[3]], ControlPoints(r)),
                  [Rewarded(Started) EXCEPT !.Type = "Clearing",
                                            !.ClearingRouteId = r])
        /\ OfficeBonus(b, p)
        /\ UNCHANGED <<stock, supply, tracks>>

\* A disc of the route being cleared goes to the Coellen table.
TakeCoellen(p, s, d) ==
    LET b == Shift(board, s, d)
    IN  /\ turnState.ClearingAward = "Coellen"
        /\ s[2] = turnState.ClearingRouteId
        /\ board[s].Shape = "Disc"
        /\ board[d] = NoPiece
        /\ Coellen[d[2]][d[3]].Priviledge <= GetPriviledge(tracks[p])
        /\ Commit(b, scores,
                  Cleared(b, Rewarded(turnState)))
        /\ UNCHANGED <<stock, supply, tracks, bonusroute>>

\* The award for clearing the route of s by taking the piece on s to stock.
RouteAward(p, s) ==
    LET left  == Award[LeftCity[s[2]]]
        award == IF left # "None" THEN left ELSE Award[RightCity[s[2]]]
        offered == IF award = "Coellen"
                   THEN \E o \in SpotsOf(s[2]) :
                            board[o].Shape = "Disc" /\ o[3] # s[3]
                   ELSE CanAward(tracks[p], award)
    IN  IF offered THEN award ELSE "None"

\* Clearing begins with a piece taken to stock.
ClearToStock(p, s) ==
    LET r == s[2]
    IN  /\ RouteFull(board, r, p)
        /\ Commit(Lift(board, s), [q \in Players |-> scores[q] + ControlPoints(r)[q]],
                  [Started EXCEPT !.Type = "Clearing", !.ClearingRouteId = r,
                                  !.ClearingCanOffice = TRUE,
                                  !.ClearingAward = RouteAward(p, s)])
        /\ stock' = [stock EXCEPT ![p][board[s].Shape] = @ + 1]
        /\ UNCHANGED <<supply, tracks, bonusroute>>

\* Another piece of the route being cleared is taken to stock.  A track award
\* keeps the clearing open until it is taken.
ClearMore(p, s) ==
    LET b == Lift(board, s)
        ended == /\ RouteEmpty(b, turnState.ClearingRouteId)
                 /\ turnState.ClearingAward \in {"None", "Coellen"}
    IN  /\ s[2] = turnState.ClearingRouteId
        /\ Commit(b, scores,
                  IF ended
                  THEN [turnState EXCEPT !.Type = "None", !.ClearingRouteId = 0,
                                         !.ClearingCanOffice = FALSE]
                  ELSE turnState)
        /\ stock' = [stock EXCEPT ![p][board[s].Shape] = @ + 1]
        /\ UNCHANGED <<supply, tracks, bonusroute>>

\* Mutant of GainedActions: the level gives two actions.
GainedTwice(before, after) == IF GetActions(after) > GetActions(before) THEN 2 ELSE 0

GainedActions(before, after) == IF GetActions(after) > GetActions(before) THEN 1 ELSE 0

\* The award frees the leftmost piece of its track.
LevelUp(p) ==
    LET award == turnState.ClearingAward
        after == [tracks EXCEPT ![p][award] = @ - 1]
        gain  == GainedActions(tracks[p], after[p])
    IN  /\ CanAward(tracks[p], award)
        /\ tracks' = after
        /\ supply' = [supply EXCEPT ![p][TrackShape(award)] = @ + 1]
        /\ Commit(board, scores,
                  Cleared(board, [Rewarded(turnState) EXCEPT !.ActionsLeft = @ + gain]))
        /\ UNCHANGED <<stock, bonusroute>>

-----------------------------------------------------------------------------
(* The end of a turn, of the game, and of the process.                     *)

\* Mutant of MayEndTurn: the turn may end in the middle of anything.
MayEndTurnAnyway(p) == ~panicked /\ turnState.Player = p

MayEndTurn(p) ==
    /\ ~panicked
    /\ turnState.Player = p
    /\ turnState.Type \notin {"Bumping", "Clearing"}

EndTurn(p) ==
    /\ MayEndTurn(p)
    /\ LET next == (p + 1) % NPlayers
       IN  IF gameend
           THEN status' = "Scoring" /\ UNCHANGED turnState
           ELSE turnState' = FreshTurn(next, GetActions(tracks[next]))
                /\ UNCHANGED status
    /\ UNCHANGED <<board, stock, supply, tracks, scores, bonusroute, gameend,
                   panicked>>

Panic == panicked' = TRUE /\ UNCHANGED <<board, stock, supply, tracks, scores,
                                         bonusroute, gameend, turnState, status>>

\* ApplySubaction finds a piece in the bump zone of the spot to be bumped.
BumpPanic(p, shape, d) ==
    BumpAsked(p, shape, d) /\ BumpBlocked(board, d) /\ Panic

\* The player to act names the first virtual office of a city as the source: its
\* index passes as the next one to be created, and the piece there is looked up.
\* It is looked up before the actions left are.
VirtualOfficePanic(p) == MayAsk(p) /\ Panic

\* ValidBumps finds no empty spot on any other route.
NoBumpPanic(p) ==
    /\ \E d \in SpotSquares : board[d] = NoPiece
    /\ ValidBumps(board, turnState.BumpingLocation) = {}
    /\ \/ OnRoutes(p) # {}
       \/ turnState.BumpingReplaces # 0 /\ Count(stock[p]) + Count(supply[p]) > 0
    /\ Panic

-----------------------------------------------------------------------------
(* handleDoSubaction: what p may ask for next depends on the phase of the  *)
(* turn.                                                                   *)

FromPools(p) ==
    \/ \E shape \in Shapes : BagPiece(p, shape) \/ PayBump(p, shape)
    \/ /\ MayStart
       /\ \E shape \in Shapes, d \in SpotSquares :
              \/ Place(p, shape, d)
              \/ Bump(p, shape, d)
              \/ BumpPanic(p, shape, d)

Answer(p) ==
    /\ turnState.Type = "Bumping"
    /\ \/ \E d \in ValidBumps(board, turnState.BumpingLocation) :
              \/ \E shape \in Shapes : \/ ReplaceFromStock(p, shape, d)
                                       \/ ReplaceFromSupply(p, shape, d)
              \/ \E s \in OnRoutes(p) : \/ ReplaceFromBoard(p, s, d)
                                        \/ MoveBumped(p, s, d)
       \/ NoBumpPanic(p)

Clear(p) ==
    \/ /\ turnState.Type = "Clearing"
       /\ \/ \E s \in OnRoutes(p) : \/ \E d \in OfficeSquares : TakeOffice(p, s, d)
                                    \/ \E d \in CoellenSquares : TakeCoellen(p, s, d)
                                    \/ ClearMore(p, s)
          \/ LevelUp(p)
    \/ /\ MayStart
       /\ \E s \in OnRoutes(p) : \/ \E d \in OfficeSquares : ClearToOffice(p, s, d)
                                 \/ ClearToStock(p, s)

Subaction(p) ==
    /\ MayAct(p)
    /\ \/ FromPools(p)
       \/ Answer(p)
       \/ \E s \in OnRoutes(p), d \in SpotSquares : Move(p, s, d)
       \/ Clear(p)

Next == \E p \in Players :
            Subaction(p) \/ EndTurn(p) \/ EndBump(p) \/ VirtualOfficePanic(p)

Spec == Init /\ [][Next]_vars

-----------------------------------------------------------------------------
TurnTypes == {"None", "Bags", "BumpPaying", "Bumping", "Moving", "Clearing"}

TurnStates ==
    [Type : TurnTypes, Player : Players, ActionsLeft : Nat, BagsLeft : Nat,
     BumpPayingCost : Nat, BumpingPlayer : Players,
     BumpingLocation : BumpSquares \cup {NoLocation}, BumpingMoved : BOOLEAN,
     BumpingReplaces : Nat, MovesLeft : Nat, ClearingAward : Awards,
     ClearingRouteId : Routes, ClearingCanOffice : BOOLEAN]

\* The state has the types of simple.Table, simple.TurnState and Game; no
\* counter of the turn state or of a player board ever goes below zero.
TypeOK ==
    /\ board \in [Squares -> Pieces \cup {NoPiece}]
    /\ stock \in [Players -> [Shapes -> Nat]]
    /\ supply \in [Players -> [Shapes -> Nat]]
    /\ tracks \in [Players -> [TrackAwards -> Nat]]
    /\ scores \in [Players -> Nat]
    /\ bonusroute \subseteq Players
    /\ gameend \in BOOLEAN
    /\ turnState \in TurnStates
    /\ status \in {"Running", "Scoring"}
    /\ panicked \in BOOLEAN

-----------------------------------------------------------------------------
(* Pieces.                                                                 *)

OnBoard(p, shape)  == Cardinality({s \in Squares : board[s] = Piece(p, shape)})
OnTracks(t, shape) ==
    IF shape = "Disc" THEN t["Discs"]
    ELSE t["Priviledge"] + t["Bags"] + t["Actions"] + t["Keys"]
StartPieces(shape) ==
    (IF shape = "Disc" THEN 1 ELSE StartCubes) + OnTracks(StartTrack, shape)

\* No chain of places, bumps, replacements, moves, clearings and level ups
\* loses or duplicates a piece: each player's cubes and discs on the board, in
\* stock, in supply and on the tracks always add up to the thirty of the box.
PieceConservation ==
    \A p \in Players, shape \in Shapes :
        OnBoard(p, shape) + stock[p][shape] + supply[p][shape] + OnTracks(tracks[p], shape)
            = StartPieces(shape)

\* A bump zone is only ever used under a piece of somebody else: the full-route
\* checks of clearing look at the spots alone and rely on it.
BumpZonesForeign ==
    \A s \in SpotSquares :
        board[BumpZone(s)] # NoPiece =>
            /\ board[s] # NoPiece
            /\ board[s].PlayerColor # board[BumpZone(s)].PlayerColor

\* Office d is taken properly by a step: it was open and every office left of it
\* taken; the player on turn takes it with a piece of its shape and the
\* priviledge it asks for; and a clearing in progress gives an office at an end
\* of its route.
OfficeTaken(d) ==
    LET p == turnState.Player
        o == Offices[d[2]][d[3]]
    IN  /\ board[d] = NoPiece /\ board'[d] = Piece(p, o.Shape)
        /\ o.Priviledge <= GetPriviledge(tracks[p])
        /\ \A i \in 1 .. d[3] - 1 : board[<<"office", d[2], i>>] # NoPiece
        /\ turnState.Type = "Clearing" =>
               d[2] \in {LeftCity[turnState.ClearingRouteId],
                         RightCity[turnState.ClearingRouteId]}

\* An office changes at most once in a game, when it is taken properly; whoever
\* has taken it keeps it.  (A clearing that begins with the office may take it in
\* any city: that path, game.go 1283-1385, does not look at the route.)
OfficesKept == [][\A d \in OfficeSquares : board'[d] # board[d] => OfficeTaken(d)]_vars

\* A player's pieces are moved by that player alone.  Another player's step
\* leaves the player board, the offices and the Coellen spots as they are, and
\* at most shifts a piece between a spot and its bump zone.
OthersKeepPieces ==
    [][\A q \in Players \ {Actor} :
        /\ stock'[q] = stock[q] /\ supply'[q] = supply[q] /\ tracks'[q] = tracks[q]
        /\ \A s \in OfficeSquares \cup CoellenSquares :
               board[s].PlayerColor = q <=> board'[s].PlayerColor = q
        /\ \A s \in SpotSquares :
               {board[s], board[BumpZone(s)]} \cap [PlayerColor : {q}, Shape : Shapes]
             = {board'[s], board'[BumpZone(s)]} \cap [PlayerColor : {q}, Shape : Shapes]
      ]_vars

-----------------------------------------------------------------------------
(* Bumps.                                                                  *)

\* A bump that was begun can be paid: the supply check of the bump leaves
\* enough behind for every piece still owed.
BumpPayable ==
    turnState.Type = "BumpPaying" =>
        turnState.BumpPayingCost \in 1 .. Count(supply[turnState.Player])

\* Until the bumped player has moved a piece, the piece that was bumped waits
\* in its bump zone, under the piece that took its place: there is something to
\* move, and it cannot be moved twice.
BumpedPieceWaits ==
    turnState.Type \in {"BumpPaying", "Bumping"} /\ ~turnState.BumpingMoved =>
        /\ turnState.BumpingPlayer # turnState.Player
        /\ Owns(turnState.BumpingPlayer, turnState.BumpingLocation)
        /\ Owns(turnState.Player,
                <<"spot", turnState.BumpingLocation[2], turnState.BumpingLocation[3]>>)

-----------------------------------------------------------------------------
(* Turns.                                                                  *)

\* A counter of the turn state counts only in its own phase, and runs out
\* exactly when the phase ends: no step can take it below zero or leave a rest
\* of it to a later action.
CountersInPhase ==
    /\ turnState.BagsLeft > 0 <=> turnState.Type = "Bags"
    /\ turnState.MovesLeft > 0 <=> turnState.Type = "Moving"
    /\ turnState.BumpPayingCost > 0 <=> turnState.Type = "BumpPaying"
    /\ turnState.BumpingReplaces > 0 => turnState.Type \in {"BumpPaying", "Bumping"}

\* Freeing action cubes in mid-turn never gives a player more actions in the
\* turn than the track then allows, the one in progress included.
NoExtraActions ==
    turnState.ActionsLeft + (IF turnState.Type = "None" THEN 0 ELSE 1)
        <= GetActions(tracks[turnState.Player])

\* Once the end of the game is reached the player on turn may only finish the
\* clearing that reached it; no other kind of action is begun or in progress.
GameEndStops ==
    gameend => /\ turnState.Type \in {"None", "Clearing"}
               /\ turnState.Type = "None" => turnState.ActionsLeft = 0

\* A clearing never runs dry: while it lasts there is a piece on its route or an
\* award that its player can take.  (The piece may be somebody else's, see
\* BumpZoneFree: one that was left in a bump zone slides onto the route.)
ClearingNotWedged ==
    turnState.Type = "Clearing" =>
        \/ \E s \in SpotsOf(turnState.ClearingRouteId) : board[s] # NoPiece
        \/ CanAward(tracks[turnState.Player], turnState.ClearingAward)

\* The rewards that the clearing in progress still offers, and those a step takes.
Offered ==
    IF turnState.Type # "Clearing" THEN {}
    ELSE {r \in {"Office"} : turnState.ClearingCanOffice}
             \cup ({turnState.ClearingAward} \ {"None"})

Taken ==
    {r \in {"Office"} : \E s \in OfficeSquares : board'[s] # board[s]}
      \cup {r \in {"Coellen"} : \E s \in CoellenSquares : board'[s] # board[s]}
      \cup {r \in TrackAwards : \E p \in Players : tracks'[p][r] # tracks[p][r]}

\* One clearing gives one reward at most.  What is taken (an office, a Coellen
\* spot, a level of a track) was offered, or is an office that the clearing
\* begins with; afterwards nothing is offered any more, in either of the fields
\* ClearingCanOffice and ClearingAward; and a clearing in progress never offers
\* again what it did not offer before.
OneReward ==
    [][/\ turnState.Type = "Clearing" => Taken \cup Offered' \subseteq Offered
       /\ turnState.Type # "Clearing" /\ Taken # {} =>
              Taken = {"Office"} /\ turnState'.Type = "Clearing"
       /\ Taken # {} => Offered' = {} /\ \E r \in Taken : Taken = {r}
      ]_vars

Turn == INSTANCE HansaTurn WITH
    player <- turnState.Player,
    phase  <- CASE turnState.Type = "BumpPaying" -> "paying"
                [] turnState.Type = "Bumping"    -> "answering"
                [] turnState.Type = "Clearing"   -> "clearing"
                [] OTHER                         -> "open",
    victim <- IF turnState.Type \in {"BumpPaying", "Bumping"}
              THEN turnState.BumpingPlayer ELSE NoPlayer,
    left   <- turnState.ActionsLeft,
    ending <- gameend,
    over   <- status = "Scoring"

\* The engine implements the protocol of turns.
TurnProtocol == Turn!Spec

-----------------------------------------------------------------------------
(* An expectation that the code does not meet.                             *)

\* "This should be illegal" (table.go:108): a bump never finds the bump zone
\* of its spot occupied.
BumpZoneFree ==
    \A p \in Players, shape \in Shapes, d \in SpotSquares :
        MayAct(p) /\ MayStart /\ BumpAsked(p, shape, d) => ~BumpBlocked(board, d)

=============================================================================
