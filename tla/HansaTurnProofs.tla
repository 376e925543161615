--------------------------- MODULE HansaTurnProofs ---------------------------
(***************************************************************************)
(* The pieces and the course of the game, proved of every board, every     *)
(* number of players and every size of the player boards.                  *)
(*                                                                         *)
(* The pieces: under whom one may wait in a bump zone, how the offices are *)
(* taken and kept, that a clearing gives one reward, whose pieces a step   *)
(* may change, and that none is lost and none is made.  The course of the  *)
(* game: the bumped piece stays where its owner can take it; play stops    *)
(* when the end of the game is reached; and the engine implements the      *)
(* protocol of turns, each step of HansaGame being a step of HansaTurn or  *)
(* changing nothing there.                                                 *)
(***************************************************************************)
EXTENDS HansaGameProofs, DataLemmas

-----------------------------------------------------------------------------
(* Every step does one of four things to the board.                        *)

\* The empty places a piece may be shifted to.
OpenTo(p, s) ==
    {d \in Squares : /\ board[d] = NoPiece
                     /\ \/ d \in SpotSquares \cup CoellenSquares
                        \/ d \in OfficeSquares /\ OfficeOpen(p, s, d)}

Set(p)    == \E shape \in Shapes, d \in SpotSquares :
                /\ board[d] = NoPiece \/ (~Owns(p, d) /\ ~BumpBlocked(board, d))
                /\ board' = Drop(board, d, Piece(p, shape))
Shifts(p) == \E s \in OnRoutes(p) : \E d \in OpenTo(p, s) : board' = Shift(board, s, d)
Lifts(p)  == \E s \in OnRoutes(p) : board' = Lift(board, s)

BoardStep(p) == board' = board \/ Set(p) \/ Shifts(p) \/ Lifts(p)

LEMMA ShiftsTo ==
    ASSUME NEW p, NEW s \in OnRoutes(p), NEW d \in OpenTo(p, s),
           board' = Shift(board, s, d)
    PROVE  BoardStep(p)
  BY DEF BoardStep, Shifts

LEMMA PoolsBoard ==
    ASSUME TypeInv, NEW p \in Players, FromPools(p)
    PROVE  BoardStep(p)
<1>1. ASSUME NEW shape \in Shapes, BagPiece(p, shape) \/ PayBump(p, shape)
      PROVE  board' = board
  BY <1>1 DEF BagPiece, PayBump, BagsTurn, Commit
<1>2. ASSUME NEW shape \in Shapes, NEW d \in SpotSquares,
             Place(p, shape, d) \/ Bump(p, shape, d)
      PROVE  Set(p)
  <2>1. board[d] = NoPiece \/ (~Owns(p, d) /\ ~BumpBlocked(board, d))
    BY <1>2 DEF Place, Bump, BumpAsked
  <2>2. board' = Drop(board, d, Piece(p, shape))
    BY <1>2 DEF Place, Bump, Commit
  <2> QED
    BY <2>1, <2>2 DEF Set
<1>3. ASSUME NEW shape \in Shapes, NEW d \in SpotSquares, BumpPanic(p, shape, d)
      PROVE  board' = board
  BY <1>3 DEF BumpPanic, Panic
<1> QED
  BY <1>1, <1>2, <1>3 DEF FromPools, BoardStep

LEMMA AnswerBoard ==
    ASSUME TypeInv, NEW p \in Players, Answer(p)
    PROVE  BoardStep(p)
<1>1. CASE NoBumpPanic(p)
  BY <1>1 DEF NoBumpPanic, Panic, BoardStep
<1>2. ASSUME NEW d \in ValidBumps(board, turnState.BumpingLocation),
             NEW shape \in Shapes,
             ReplaceFromStock(p, shape, d) \/ ReplaceFromSupply(p, shape, d)
      PROVE  Set(p)
  <2>1. d \in SpotSquares /\ board[d] = NoPiece
    BY ValidBumpFacts DEF TypeInv
  <2>2. board' = Drop(board, d, Piece(p, shape))
    BY <1>2 DEF ReplaceFromStock, ReplaceFromSupply, Commit
  <2> QED
    BY <2>1, <2>2 DEF Set
<1>3. ASSUME NEW d \in ValidBumps(board, turnState.BumpingLocation),
             NEW s \in OnRoutes(p), ReplaceFromBoard(p, s, d) \/ MoveBumped(p, s, d)
      PROVE  BoardStep(p)
  <2>1. d \in OpenTo(p, s)
    <3>1. d \in SpotSquares /\ d \in Squares /\ board[d] = NoPiece
      BY ValidBumpFacts DEF TypeInv
    <3> QED
      BY <3>1 DEF OpenTo
  <2>2. board' = Shift(board, s, d)
    BY <1>3 DEF ReplaceFromBoard, MoveBumped, Commit
  <2> QED
    BY <2>1, <2>2, ShiftsTo
<1> QED
  BY <1>1, <1>2, <1>3 DEF Answer, BoardStep

LEMMA ClearBoard ==
    ASSUME TypeInv, NEW p \in Players, Clear(p)
    PROVE  BoardStep(p)
<1>1. ASSUME NEW s \in OnRoutes(p), NEW d \in OfficeSquares,
             TakeOffice(p, s, d) \/ ClearToOffice(p, s, d)
      PROVE  BoardStep(p)
  <2>1. OfficeOpen(p, s, d) /\ board' = Shift(board, s, d)
    BY <1>1 DEF TakeOffice, ClearToOffice, Commit
  <2>2. d \in OpenTo(p, s)
    BY <2>1 DEF OpenTo, OfficeOpen, Squares
  <2> QED
    BY <2>1, <2>2, ShiftsTo
<1>2. ASSUME NEW s \in OnRoutes(p), NEW d \in CoellenSquares, TakeCoellen(p, s, d)
      PROVE  BoardStep(p)
  <2>1. board[d] = NoPiece /\ board' = Shift(board, s, d)
    BY <1>2 DEF TakeCoellen, Commit
  <2>2. d \in OpenTo(p, s)
    BY <2>1 DEF OpenTo, Squares
  <2> QED
    BY <2>1, <2>2, ShiftsTo
<1>3. ASSUME NEW s \in OnRoutes(p), ClearMore(p, s) \/ ClearToStock(p, s)
      PROVE  BoardStep(p)
  BY <1>3 DEF ClearMore, ClearToStock, Commit, BoardStep, Lifts
<1>4. CASE LevelUp(p)
  BY <1>4 DEF LevelUp, Commit, BoardStep
<1> QED
  BY <1>1, <1>2, <1>3, <1>4 DEF Clear

LEMMA NextBoard ==
    ASSUME TypeInv, NEW p \in Players, Subaction(p) \/ EndTurn(p) \/ EndBump(p)
    PROVE  BoardStep(p)
<1>1. CASE EndTurn(p) \/ EndBump(p)
  BY <1>1 DEF EndTurn, EndBump, BoardStep
<1>2. ASSUME NEW s \in OnRoutes(p), NEW d \in SpotSquares, Move(p, s, d)
      PROVE  BoardStep(p)
  <2>1. board[d] = NoPiece /\ board' = Shift(board, s, d)
    BY <1>2 DEF Move, MoveTurn, Commit
  <2>2. d \in OpenTo(p, s)
    BY <2>1 DEF OpenTo, Squares, RouteSquares
  <2> QED
    BY <2>1, <2>2, ShiftsTo
<1> QED
  BY <1>1, <1>2, PoolsBoard, AnswerBoard, ClearBoard DEF Subaction

-----------------------------------------------------------------------------
(* Bump zones.                                                             *)

\* BumpZonesForeign as a property of a board.
Foreign(b) == \A s \in SpotSquares :
    b[BumpZone(s)] # NoPiece =>
        b[s] # NoPiece /\ b[s].PlayerColor # b[BumpZone(s)].PlayerColor

\* What lies where after a lift.
LEMMA LiftAt ==
    ASSUME NEW b \in Boards, NEW s \in RouteSquares, NEW t \in Squares
    PROVE  /\ t # s /\ (s \in SpotSquares => t # BumpZone(s)) => Lift(b, s)[t] = b[t]
           /\ s \in BumpSquares => Lift(b, s)[s] = NoPiece
           /\ s \in SpotSquares => /\ Lift(b, s)[s] = b[BumpZone(s)]
                                   /\ Lift(b, s)[BumpZone(s)] = NoPiece
<1>1. s \in Squares /\ (s \in SpotSquares => BumpZone(s) \in Squares /\ s # BumpZone(s))
  BY SquareFacts DEF Squares, RouteSquares
<1>2. s \in BumpSquares => s \notin SpotSquares
  BY SquareFacts
<1> QED
  BY <1>1, <1>2 DEF Lift, Boards

LEMMA LiftForeign ==
    ASSUME NEW b \in Boards, Foreign(b), NEW s \in RouteSquares
    PROVE  Foreign(Lift(b, s))
<1> SUFFICES ASSUME NEW t \in SpotSquares, Lift(b, s)[BumpZone(t)] # NoPiece
             PROVE  /\ Lift(b, s)[t] # NoPiece
                    /\ Lift(b, s)[t].PlayerColor # Lift(b, s)[BumpZone(t)].PlayerColor
  BY DEF Foreign
<1>1. t \in Squares /\ BumpZone(t) \in Squares /\ BumpZone(t) \in BumpSquares
      /\ t \notin BumpSquares
  BY SquareFacts DEF Squares, RouteSquares
<1>2. BumpZone(t) # s
  BY <1>1, LiftAt
<1>3. t # s
  BY <1>1, LiftAt
<1>4. s \in SpotSquares => BumpZone(t) # BumpZone(s) /\ t # BumpZone(s)
  BY <1>1, <1>3, SquareFacts
<1>5. Lift(b, s)[t] = b[t] /\ Lift(b, s)[BumpZone(t)] = b[BumpZone(t)]
  BY <1>1, <1>2, <1>3, <1>4, LiftAt
<1> QED
  BY <1>5 DEF Foreign

LEMMA DropForeign ==
    ASSUME NEW b \in Boards, Foreign(b), NEW d \in Squares, NEW x \in Pieces,
           d \notin BumpSquares,
           \/ b[d] = NoPiece
           \/ d \in SpotSquares /\ b[d].PlayerColor # x.PlayerColor
    PROVE  Foreign(Drop(b, d, x))
<1> SUFFICES ASSUME NEW t \in SpotSquares, Drop(b, d, x)[BumpZone(t)] # NoPiece
             PROVE  /\ Drop(b, d, x)[t] # NoPiece
                    /\ Drop(b, d, x)[t].PlayerColor # Drop(b, d, x)[BumpZone(t)].PlayerColor
  BY DEF Foreign
<1>1. t \in Squares /\ BumpZone(t) \in Squares /\ BumpZone(t) \in BumpSquares
      /\ t \notin BumpSquares /\ BumpZone(t) # d
  BY SquareFacts DEF Squares, RouteSquares
<1>2. x # NoPiece
  BY DEF Pieces, NoPiece, NoPlayer, Players
<1>3. CASE b[d] = NoPiece
  <2>1. Drop(b, d, x) = [b EXCEPT ![d] = x]
    BY <1>3 DEF Drop
  <2>2. Drop(b, d, x)[BumpZone(t)] = b[BumpZone(t)]
    BY <1>1, <2>1 DEF Boards
  <2>3. b[t] # NoPiece /\ b[t].PlayerColor # b[BumpZone(t)].PlayerColor
    BY <2>2 DEF Foreign
  <2>4. t # d
    BY <1>3, <2>3
  <2>5. Drop(b, d, x)[t] = b[t]
    BY <1>1, <2>1, <2>4 DEF Boards
  <2> QED
    BY <2>2, <2>3, <2>5
<1>4. CASE b[d] # NoPiece
  <2>1. /\ d \in SpotSquares /\ b[d].PlayerColor # x.PlayerColor
        /\ Drop(b, d, x) = [b EXCEPT ![d] = x, ![BumpZone(d)] = b[d]]
        /\ BumpZone(d) \in Squares /\ BumpZone(d) \in BumpSquares
    BY <1>4, SquareFacts DEF Drop, Squares, RouteSquares
  <2>2. CASE t = d
    <3>1. Drop(b, d, x)[t] = x /\ Drop(b, d, x)[BumpZone(t)] = b[d]
      BY <1>1, <2>1, <2>2 DEF Boards
    <3> QED
      BY <1>2, <2>1, <3>1
  <2>3. CASE t # d
    <3>1. BumpZone(t) # BumpZone(d) /\ t # BumpZone(d)
      BY <1>1, <2>1, <2>3, SquareFacts
    <3>2. Drop(b, d, x)[t] = b[t] /\ Drop(b, d, x)[BumpZone(t)] = b[BumpZone(t)]
      BY <1>1, <2>1, <2>3, <3>1 DEF Boards
    <3> QED
      BY <3>2 DEF Foreign
  <2> QED
    BY <2>2, <2>3
<1> QED
  BY <1>3, <1>4

LEMMA OpenFacts ==
    ASSUME TypeOK, Foreign(board), NEW p \in Players, NEW s \in OnRoutes(p),
           NEW d \in OpenTo(p, s)
    PROVE  /\ d \in Squares /\ d \notin BumpSquares /\ d # s
           /\ Lift(board, s)[d] = NoPiece
<1>1. /\ s \in RouteSquares /\ s \in Squares /\ board[s] \in Pieces
      /\ board \in Boards
  BY HeldFacts DEF TypeOK, Boards
<1>2. board[s] # NoPiece
  BY <1>1 DEF Pieces, NoPiece, NoPlayer, Players
<1>3. d \in Squares /\ board[d] = NoPiece /\ d # s
  BY <1>2 DEF OpenTo
<1>4. d \notin BumpSquares
  BY SquareFacts
     DEF OpenTo, SpotSquares, BumpSquares, CoellenSquares, OfficeSquares
<1>5. s \in SpotSquares => d # BumpZone(s)
  BY <1>4, SquareFacts
<1>6. Lift(board, s)[d] = NoPiece
  BY <1>1, <1>3, <1>5, LiftAt
<1> QED
  BY <1>3, <1>4, <1>6

LEMMA BoardStepForeign ==
    ASSUME TypeInv, Foreign(board), NEW p \in Players, BoardStep(p)
    PROVE  Foreign(board')
<1>1. TypeOK /\ board \in Boards
  BY DEF TypeInv, TypeOK, Boards
<1>2. CASE Set(p)
  <2>1. PICK shape \in Shapes, d \in SpotSquares :
            /\ board[d] = NoPiece \/ ~Owns(p, d)
            /\ board' = Drop(board, d, Piece(p, shape))
    BY <1>2 DEF Set
  <2>2. d \in Squares /\ d \notin BumpSquares
    BY SquareFacts DEF Squares, RouteSquares
  <2>3. Piece(p, shape) \in Pieces /\ Piece(p, shape).PlayerColor = p
    BY DEF Piece, Pieces
  <2> QED
    BY <1>1, <2>1, <2>2, <2>3, DropForeign DEF Owns
<1>3. CASE Shifts(p)
  <2>1. PICK s \in OnRoutes(p) : \E d \in OpenTo(p, s) : board' = Shift(board, s, d)
    BY <1>3 DEF Shifts
  <2>2. PICK d \in OpenTo(p, s) : board' = Shift(board, s, d)
    BY <2>1
  <2>3. s \in RouteSquares /\ board[s] \in Pieces
    BY <1>1, HeldFacts
  <2>4. Lift(board, s) \in Boards /\ Foreign(Lift(board, s))
    BY <1>1, <2>3, LiftType, LiftForeign
  <2>5. d \in Squares /\ d \notin BumpSquares /\ Lift(board, s)[d] = NoPiece
    BY <1>1, OpenFacts
  <2> QED
    BY <2>2, <2>3, <2>4, <2>5, DropForeign DEF Shift
<1>4. CASE Lifts(p)
  <2>1. PICK s \in OnRoutes(p) : board' = Lift(board, s)
    BY <1>4 DEF Lifts
  <2>2. s \in RouteSquares
    BY <1>1, HeldFacts
  <2> QED
    BY <1>1, <2>1, <2>2, LiftForeign
<1> QED
  BY <1>2, <1>3, <1>4 DEF BoardStep

ZoneInv == TypeInv /\ Foreign(board)

LEMMA ZoneInit == Init => ZoneInv
<1> SUFFICES ASSUME Init PROVE ZoneInv
  OBVIOUS
<1>1. \A s \in SpotSquares : board[BumpZone(s)] = NoPiece
  BY SquareFacts DEF Init, Squares, RouteSquares
<1> QED
  BY <1>1, InitInv DEF ZoneInv, Foreign

LEMMA ZoneStep == ZoneInv /\ [Next]_vars => ZoneInv'
<1> SUFFICES ASSUME ZoneInv, [Next]_vars PROVE ZoneInv'
  OBVIOUS
<1>1. TypeInv'
  BY StepInv DEF ZoneInv
<1>2. ASSUME NEW p \in Players, Subaction(p) \/ EndTurn(p) \/ EndBump(p)
      PROVE  Foreign(board')
  BY <1>2, NextBoard, BoardStepForeign DEF ZoneInv
<1>3. CASE UNCHANGED vars \/ Panic
  BY <1>1, <1>3 DEF ZoneInv, vars, Panic
<1> QED
  BY <1>1, <1>2, <1>3, NextCases DEF ZoneInv

\* In every game a piece in a bump zone lies under another player's piece: no
\* order of places, moves, bumps and clearings leaves one under an empty spot,
\* where the full-route checks would overlook it.
THEOREM BumpZonesCovered == Spec => []BumpZonesForeign
<1>1. ZoneInv => BumpZonesForeign
  BY DEF ZoneInv, Foreign, BumpZonesForeign
<1> QED
  BY ZoneInit, ZoneStep, <1>1, PTL DEF Spec

-----------------------------------------------------------------------------
(* Rewards: who takes an office, a Coellen spot or a level, and when.      *)

PlacesAside == OfficeSquares \cup CoellenSquares

LEMMA PlaceKinds ==
    /\ \A s \in PlacesAside : s \in Squares /\ s \notin RouteSquares
    /\ \A s \in SpotSquares : s \in Squares /\ BumpZone(s) \in Squares
    /\ OfficeSquares \cap CoellenSquares = {}
  BY SquareFacts DEF Squares, RouteSquares, SpotSquares, BumpSquares, OfficeSquares,
                     CoellenSquares, PlacesAside

LEMMA LiftAside ==
    ASSUME NEW b \in Boards, NEW s \in RouteSquares, NEW o \in PlacesAside
    PROVE  Lift(b, s)[o] = b[o]
<1>1. o \in Squares /\ o \notin RouteSquares
  BY PlaceKinds
<1>2. s \in SpotSquares => BumpZone(s) \in RouteSquares
  BY SquareFacts DEF RouteSquares
<1> QED
  BY <1>1, <1>2, LiftAt

LEMMA DropAside ==
    ASSUME NEW b \in Boards, NEW d \in SpotSquares, NEW x, NEW o \in PlacesAside
    PROVE  Drop(b, d, x)[o] = b[o]
<1>1. o \in Squares /\ o \notin RouteSquares
  BY PlaceKinds
<1>2. d \in RouteSquares /\ BumpZone(d) \in RouteSquares
  BY SquareFacts DEF RouteSquares
<1> QED
  BY <1>1, <1>2 DEF Drop, Boards

LEMMA ShiftAside ==
    ASSUME TypeOK, NEW p \in Players, NEW s \in OnRoutes(p), NEW d \in SpotSquares,
           NEW o \in PlacesAside
    PROVE  Shift(board, s, d)[o] = board[o]
<1>1. s \in RouteSquares /\ board \in Boards
  BY HeldFacts DEF TypeOK, Boards
<1>2. Lift(board, s) \in Boards
  BY <1>1, LiftType
<1> QED
  BY <1>1, <1>2, LiftAside, DropAside DEF Shift

\* A piece that is shifted to a place beside the routes fills that place alone.
LEMMA ShiftFills ==
    ASSUME TypeOK, NEW p \in Players, NEW s \in OnRoutes(p),
           NEW d \in PlacesAside, board[d] = NoPiece, NEW o \in PlacesAside
    PROVE  Shift(board, s, d)[o] = IF o = d THEN board[s] ELSE board[o]
<1>1. s \in RouteSquares /\ board \in Boards /\ d \in Squares /\ o \in Squares
  BY HeldFacts, PlaceKinds DEF TypeOK, Boards
<1>2. Lift(board, s) \in Boards /\ Lift(board, s)[d] = NoPiece
      /\ Lift(board, s)[o] = board[o]
  BY <1>1, LiftType, LiftAside
<1> QED
  BY <1>1, <1>2 DEF Shift, Drop, Boards

\* Nothing that can be a reward changes hands.
SameAside == (\A o \in PlacesAside : board'[o] = board[o]) /\ tracks' = tracks

LEMMA PoolsAside ==
    ASSUME TypeOK, NEW p \in Players, FromPools(p)
    PROVE  SameAside
<1>1. ASSUME NEW shape \in Shapes, BagPiece(p, shape) \/ PayBump(p, shape)
      PROVE  SameAside
  BY <1>1 DEF BagPiece, PayBump, BagsTurn, Commit, SameAside
<1>2. ASSUME NEW shape \in Shapes, NEW d \in SpotSquares,
             Place(p, shape, d) \/ Bump(p, shape, d)
      PROVE  SameAside
  <2>1. board' = Drop(board, d, Piece(p, shape)) /\ tracks' = tracks
    BY <1>2 DEF Place, Bump, Commit
  <2> QED
    BY <2>1, DropAside DEF SameAside, TypeOK, Boards
<1>3. ASSUME NEW shape \in Shapes, NEW d \in SpotSquares, BumpPanic(p, shape, d)
      PROVE  SameAside
  BY <1>3 DEF BumpPanic, Panic, SameAside
<1> QED
  BY <1>1, <1>2, <1>3 DEF FromPools

LEMMA AnswerAside ==
    ASSUME TypeInv, NEW p \in Players, Answer(p)
    PROVE  SameAside
<1>1. CASE NoBumpPanic(p)
  BY <1>1 DEF NoBumpPanic, Panic, SameAside
<1>2. ASSUME NEW d \in ValidBumps(board, turnState.BumpingLocation),
             NEW shape \in Shapes,
             ReplaceFromStock(p, shape, d) \/ ReplaceFromSupply(p, shape, d)
      PROVE  SameAside
  <2>1. d \in SpotSquares
    BY ValidBumpFacts DEF TypeInv
  <2>2. board' = Drop(board, d, Piece(p, shape)) /\ tracks' = tracks
    BY <1>2 DEF ReplaceFromStock, ReplaceFromSupply, Commit
  <2> QED
    BY <2>1, <2>2, DropAside DEF SameAside, TypeInv, TypeOK, Boards
<1>3. ASSUME NEW d \in ValidBumps(board, turnState.BumpingLocation),
             NEW s \in OnRoutes(p), ReplaceFromBoard(p, s, d) \/ MoveBumped(p, s, d)
      PROVE  SameAside
  <2>1. d \in SpotSquares
    BY ValidBumpFacts DEF TypeInv
  <2>2. board' = Shift(board, s, d) /\ tracks' = tracks
    BY <1>3 DEF ReplaceFromBoard, MoveBumped, Commit
  <2> QED
    BY <2>1, <2>2, ShiftAside DEF SameAside, TypeInv
<1> QED
  BY <1>1, <1>2, <1>3 DEF Answer

\* A step takes a reward, or begins a clearing with one, or leaves all that can
\* be a reward alone; of the latter kind only ClearMore is part of a clearing.
LEMMA RewardCases ==
    ASSUME TypeInv, NEW p \in Players, Subaction(p)
    PROVE  \/ SameAside /\ (turnState.Type = "Clearing" =>
                                \E s \in OnRoutes(p) : ClearMore(p, s))
           \/ /\ turnState.Type = "Clearing"
              /\ \/ \E s \in OnRoutes(p), d \in OfficeSquares : TakeOffice(p, s, d)
                 \/ \E s \in OnRoutes(p), d \in CoellenSquares : TakeCoellen(p, s, d)
                 \/ LevelUp(p)
           \/ /\ MayStart
              /\ \E s \in OnRoutes(p), d \in OfficeSquares : ClearToOffice(p, s, d)
<1>1. TypeOK /\ board \in Boards
  BY DEF TypeInv, TypeOK, Boards
<1>2. CASE FromPools(p)
  <2>1. turnState.Type # "Clearing"
    BY <1>2 DEF FromPools, BagPiece, BagsTurn, PayBump, MayStart
  <2> QED
    BY <1>1, <1>2, <2>1, PoolsAside
<1>3. CASE Answer(p)
  BY <1>3, AnswerAside DEF Answer
<1>4. ASSUME NEW s \in OnRoutes(p), NEW d \in SpotSquares, Move(p, s, d)
      PROVE  SameAside /\ turnState.Type # "Clearing"
  <2>1. board' = Shift(board, s, d) /\ tracks' = tracks /\ turnState.Type # "Clearing"
    BY <1>4 DEF Move, MoveTurn, Commit, MayStart
  <2> QED
    BY <1>1, <2>1, ShiftAside DEF SameAside
<1>5. ASSUME NEW s \in OnRoutes(p), ClearMore(p, s) \/ ClearToStock(p, s)
      PROVE  SameAside
  <2>1. board' = Lift(board, s) /\ tracks' = tracks
    BY <1>5 DEF ClearMore, ClearToStock, Commit
  <2> QED
    BY <1>1, <2>1, HeldFacts, LiftAside DEF SameAside
<1>6. CASE Clear(p)
  <2>1. MayStart => turnState.Type # "Clearing"
    BY DEF MayStart
  <2> QED
    BY <1>5, <1>6, <2>1 DEF Clear
<1> QED
  BY <1>2, <1>3, <1>4, <1>6 DEF Subaction

LEMMA NextRewards ==
    ASSUME TypeInv, [Next]_vars
    PROVE  \/ SameAside /\ (turnState.Type = "Clearing" =>
                                \/ turnState' = turnState
                                \/ \E s : ClearMore(turnState.Player, s))
           \/ \E p \in Players : \E s \in OnRoutes(p) :
                  /\ p = turnState.Player
                  /\ \/ /\ turnState.Type = "Clearing"
                        /\ \/ \E d \in OfficeSquares : TakeOffice(p, s, d)
                           \/ \E d \in CoellenSquares : TakeCoellen(p, s, d)
                     \/ /\ turnState.Type # "Clearing"
                        /\ \E d \in OfficeSquares : ClearToOffice(p, s, d)
           \/ turnState.Type = "Clearing" /\ LevelUp(turnState.Player)
<1>1. CASE UNCHANGED vars \/ Panic
  BY <1>1 DEF vars, Panic, SameAside
<1>2. ASSUME NEW p \in Players, EndTurn(p) \/ EndBump(p)
      PROVE  SameAside /\ turnState.Type # "Clearing"
  BY <1>2 DEF EndTurn, MayEndTurn, EndBump, SameAside
<1>3. ASSUME NEW p \in Players, Subaction(p)
      PROVE  turnState.Type = "Clearing" \/ MayStart => p = turnState.Player
  BY <1>3 DEF Subaction, MayAct, MayAsk, Actor, MayStart
<1>4. MayStart => turnState.Type # "Clearing"
  BY DEF MayStart
<1> QED
  BY <1>1, <1>2, <1>3, <1>4, NextCases, RewardCases

(* Offices.                                                                *)

LEMMA OfficeStep ==
    ASSUME TypeInv, NEW p \in Players, p = turnState.Player, NEW s \in OnRoutes(p),
           NEW e \in OfficeSquares, OfficeOpen(p, s, e), board' = Shift(board, s, e),
           NEW d \in OfficeSquares, board'[d] # board[d]
    PROVE  /\ d = e /\ board[d] = NoPiece
           /\ board'[d] = Piece(p, Offices[d[2]][d[3]].Shape)
           /\ Offices[d[2]][d[3]].Priviledge <= GetPriviledge(tracks[p])
           /\ \A i \in 1 .. d[3] - 1 : board[<<"office", d[2], i>>] # NoPiece
<1>1. TypeOK /\ board[e] = NoPiece /\ d \in PlacesAside /\ e \in PlacesAside
  BY DEF TypeInv, OfficeOpen, PlacesAside
<1>2. d = e /\ board'[d] = board[s]
  BY <1>1, ShiftFills
<1>3. board[s] = Piece(p, board[s].Shape)
  BY <1>1, HeldFacts DEF Piece, Pieces
<1> QED
  BY <1>1, <1>2, <1>3 DEF OfficeOpen

LEMMA OfficesStep ==
    TypeInv /\ [Next]_vars => \A d \in OfficeSquares : board'[d] # board[d] => OfficeTaken(d)
<1> SUFFICES ASSUME TypeInv, [Next]_vars, NEW d \in OfficeSquares, board'[d] # board[d]
             PROVE  OfficeTaken(d)
  OBVIOUS
<1>1. ~SameAside
  BY DEF SameAside, PlacesAside
<1>2. ASSUME NEW p \in Players, p = turnState.Player, NEW s \in OnRoutes(p),
             NEW e \in OfficeSquares,
             \/ turnState.Type = "Clearing" /\ TakeOffice(p, s, e)
             \/ turnState.Type # "Clearing" /\ ClearToOffice(p, s, e)
      PROVE  OfficeTaken(d)
  <2>1. OfficeOpen(p, s, e) /\ board' = Shift(board, s, e)
    BY <1>2 DEF TakeOffice, ClearToOffice, Commit
  <2>2. /\ d = e /\ board[d] = NoPiece
        /\ board'[d] = Piece(p, Offices[d[2]][d[3]].Shape)
        /\ Offices[d[2]][d[3]].Priviledge <= GetPriviledge(tracks[p])
        /\ \A i \in 1 .. d[3] - 1 : board[<<"office", d[2], i>>] # NoPiece
    BY <1>2, <2>1, OfficeStep
  <2> QED
    BY <1>2, <2>2 DEF TakeOffice, OfficeTaken
<1>3. ASSUME NEW p \in Players, NEW s \in OnRoutes(p), NEW e \in CoellenSquares,
             TakeCoellen(p, s, e)
      PROVE  FALSE
  <2>1. /\ board' = Shift(board, s, e) /\ board[e] = NoPiece /\ d # e
        /\ d \in PlacesAside /\ e \in PlacesAside
    BY <1>3, PlaceKinds DEF TakeCoellen, Commit, PlacesAside
  <2> QED
    BY <2>1, ShiftFills DEF TypeInv
<1>4. ~LevelUp(turnState.Player)
  BY DEF LevelUp, Commit
<1> QED
  BY <1>1, <1>2, <1>3, <1>4, NextRewards

\* In every game an office is taken once and stays with its taker: only the
\* player on turn gets one, with a piece of the shape and the priviledge that
\* it asks for, as the leftmost open one of its city, and in the middle of a
\* clearing only at an end of the route.
THEOREM OfficesStay == Spec => OfficesKept
  BY InitInv, StepInv, OfficesStep, PTL DEF Spec, OfficesKept

(* One reward for a clearing.                                              *)

\* A turn state left without a reward to take offers none.
LEMMA NothingOffered ==
    ASSUME NEW b, NEW sc, NEW ts \in TurnStates, Commit(b, sc, ts),
           ~ts.ClearingCanOffice, ts.ClearingAward = "None"
    PROVE  Offered' = {}
  BY CommitKeeps DEF Offered

LEMMA ClearedOffers ==
    ASSUME NEW b, NEW sc, NEW ts \in TurnStates, Commit(b, sc, Cleared(b, ts)),
           ~ts.ClearingCanOffice, ts.ClearingAward = "None"
    PROVE  Offered' = {}
<1>1. LET end == Cleared(b, ts)
      IN  end \in TurnStates /\ ~end.ClearingCanOffice /\ end.ClearingAward = "None"
  BY BoardAssumption DEF Cleared, TurnStates, TurnTypes
<1> QED
  BY <1>1, NothingOffered

LEMMA RewardedOffers ==
    ASSUME NEW ts \in TurnStates
    PROVE  /\ Rewarded(ts) \in TurnStates
           /\ ~Rewarded(ts).ClearingCanOffice /\ Rewarded(ts).ClearingAward = "None"
  BY DEF Rewarded, TurnStates, Awards

\* What OneReward asks of a step.
OneRewardStep ==
    /\ turnState.Type = "Clearing" => Taken \cup Offered' \subseteq Offered
    /\ turnState.Type # "Clearing" /\ Taken # {} =>
           Taken = {"Office"} /\ turnState'.Type = "Clearing"
    /\ Taken # {} => Offered' = {} /\ \E r \in Taken : Taken = {r}

\* Nothing is taken, and a clearing goes on as before or is over.
LEMMA NoReward ==
    ASSUME TypeInv, SameAside,
           turnState.Type = "Clearing" => \/ turnState' = turnState
                                          \/ \E s : ClearMore(turnState.Player, s)
    PROVE  OneRewardStep
<1>1. Taken = {}
  BY DEF Taken, SameAside, PlacesAside
<1>2. ASSUME turnState.Type = "Clearing", NEW s, ClearMore(turnState.Player, s)
      PROVE  Offered' \subseteq Offered
  <2> DEFINE b  == Lift(board, s)
             ts == [turnState EXCEPT !.Type = "None", !.ClearingRouteId = 0,
                                     !.ClearingCanOffice = FALSE]
  <2>1. turnState \in TurnStates
    BY DEF TypeInv, TypeOK
  <2>2. ts \in TurnStates /\ ts.Type = "None"
    BY <2>1, BoardAssumption DEF TurnStates, TurnTypes
  <2>3. Commit(b, scores, ts) \/ Commit(b, scores, turnState)
    BY <1>2 DEF ClearMore
  <2> HIDE DEF b, ts
  <2>4. CASE Commit(b, scores, ts)
    <3>1. turnState'.Type = "None"
      BY <2>2, <2>4, CommitKeeps
    <3> QED
      BY <3>1 DEF Offered
  <2>5. CASE Commit(b, scores, turnState)
    BY <2>1, <2>5, CommitKeeps DEF Offered
  <2> QED
    BY <2>3, <2>4, <2>5
<1>3. turnState' = turnState => Offered' = Offered
  BY DEF Offered
<1> QED
  BY <1>1, <1>2, <1>3 DEF OneRewardStep

\* The reward taken is the one that r names, and nothing is offered afterwards.
LEMMA RewardStep ==
    ASSUME NEW r, Taken \subseteq {r}, Offered' = {},
           \/ turnState.Type = "Clearing" /\ r \in Offered
           \/ /\ turnState.Type # "Clearing"
              /\ r = "Office" /\ turnState'.Type = "Clearing"
    PROVE  OneRewardStep
<1>1. CASE Taken = {}
  BY <1>1 DEF OneRewardStep
<1>2. CASE Taken = {r}
  BY <1>2 DEF OneRewardStep
<1> QED
  BY <1>1, <1>2

\* What a shift to a place beside the routes takes.
LEMMA ShiftTakes ==
    ASSUME TypeOK, NEW p \in Players, NEW s \in OnRoutes(p), NEW d \in PlacesAside,
           board[d] = NoPiece, board' = Shift(board, s, d), tracks' = tracks
    PROVE  /\ d \in OfficeSquares => Taken \subseteq {"Office"}
           /\ d \in CoellenSquares => Taken \subseteq {"Coellen"}
<1>1. \A o \in PlacesAside : o # d => board'[o] = board[o]
  BY ShiftFills
<1>2. {r \in TrackAwards : \E q \in Players : tracks'[q][r] # tracks[q][r]} = {}
  OBVIOUS
<1> QED
  BY <1>1, <1>2, PlaceKinds DEF Taken, PlacesAside

LEMMA RewardsStep ==
    TypeInv /\ [Next]_vars => OneRewardStep
<1> SUFFICES ASSUME TypeInv, [Next]_vars PROVE OneRewardStep
  OBVIOUS
<1>1. TypeOK /\ turnState \in TurnStates
  BY DEF TypeInv, TypeOK
<1>2. /\ Rewarded(turnState) \in TurnStates
      /\ ~Rewarded(turnState).ClearingCanOffice
      /\ Rewarded(turnState).ClearingAward = "None"
  BY <1>1, RewardedOffers
<1>3. ASSUME NEW p \in Players, NEW s \in OnRoutes(p), NEW d \in OfficeSquares,
             turnState.Type = "Clearing", TakeOffice(p, s, d)
      PROVE  OneRewardStep
  <2>1. /\ d \in PlacesAside /\ board[d] = NoPiece /\ board' = Shift(board, s, d)
        /\ tracks' = tracks /\ turnState.ClearingCanOffice
    BY <1>3 DEF TakeOffice, OfficeOpen, Commit, PlacesAside
  <2>2. Taken \subseteq {"Office"}
    BY <1>1, <2>1, ShiftTakes
  <2>3. Offered' = {}
    BY <1>2, <1>3, ClearedOffers DEF TakeOffice
  <2>4. "Office" \in Offered
    BY <1>3, <2>1 DEF Offered
  <2> QED
    BY <1>3, <2>2, <2>3, <2>4, RewardStep
<1>4. ASSUME NEW p \in Players, NEW s \in OnRoutes(p), NEW d \in CoellenSquares,
             turnState.Type = "Clearing", TakeCoellen(p, s, d)
      PROVE  OneRewardStep
  <2>1. /\ d \in PlacesAside /\ board[d] = NoPiece /\ board' = Shift(board, s, d)
        /\ tracks' = tracks /\ turnState.ClearingAward = "Coellen"
    BY <1>4 DEF TakeCoellen, Commit, PlacesAside
  <2>2. Taken \subseteq {"Coellen"}
    BY <1>1, <2>1, ShiftTakes
  <2>3. Offered' = {}
    BY <1>2, <1>4, ClearedOffers DEF TakeCoellen
  <2>4. "Coellen" \in Offered
    BY <1>4, <2>1 DEF Offered
  <2> QED
    BY <1>4, <2>2, <2>3, <2>4, RewardStep
<1>5. ASSUME NEW p \in Players, NEW s \in OnRoutes(p), NEW d \in OfficeSquares,
             p = turnState.Player,
             turnState.Type # "Clearing", ClearToOffice(p, s, d)
      PROVE  OneRewardStep
  <2> DEFINE ts == [Rewarded(Started) EXCEPT !.Type = "Clearing",
                                             !.ClearingRouteId = s[2]]
  <2>1. /\ d \in PlacesAside /\ board[d] = NoPiece /\ board' = Shift(board, s, d)
        /\ tracks' = tracks
    BY <1>5 DEF ClearToOffice, OfficeOpen, Commit, PlacesAside
  <2>2. Taken \subseteq {"Office"}
    BY <1>1, <2>1, ShiftTakes
  <2>3. \E b, sc : Commit(b, sc, ts)
    BY <1>5 DEF ClearToOffice
  <2>4. /\ ts.Type = "Clearing" /\ ~ts.ClearingCanOffice
        /\ ts.ClearingAward = "None"
    BY <1>1 DEF Rewarded, Started, TurnStates
  <2>5. turnState' = ts
    BY <2>3, <2>4 DEF Commit
  <2>6. Offered' = {}
    BY <2>4, <2>5 DEF Offered
  <2> QED
    BY <1>5, <2>2, <2>4, <2>5, <2>6, RewardStep
<1>6. ASSUME turnState.Type = "Clearing", LevelUp(turnState.Player)
      PROVE  OneRewardStep
  <2> DEFINE p     == turnState.Player
             award == turnState.ClearingAward
             gain  == GainedActions(tracks[p], tracks'[p])
             more  == [Rewarded(turnState) EXCEPT !.ActionsLeft = @ + gain]
  <2>1. /\ award \in TrackAwards /\ board' = board /\ p \in Players
        /\ tracks' = [tracks EXCEPT ![p][award] = @ - 1]
        /\ \E sc : Commit(board, sc, Cleared(board, more))
    BY <1>1, <1>6 DEF LevelUp, CanAward, Commit, TurnStates
  <2>2. tracks \in [Players -> [TrackAwards -> Nat]]
    BY <1>1 DEF TypeOK
  <2>3. \A q \in Players, r \in TrackAwards : r # award => tracks'[q][r] = tracks[q][r]
    BY <2>1, <2>2
  <2>4. Taken \subseteq {award}
    BY <2>1, <2>3 DEF Taken
  <2>5. award \in Offered
    BY <1>6, <2>1 DEF Offered, TrackAwards
  <2>6. gain \in Nat
    BY DEF GainedActions
  <2> HIDE DEF gain
  <2>7. more \in TurnStates /\ ~more.ClearingCanOffice /\ more.ClearingAward = "None"
    BY <1>2, <2>6 DEF TurnStates
  <2>8. Offered' = {}
    BY <2>1, <2>7, ClearedOffers
  <2> QED
    BY <1>6, <2>4, <2>5, <2>8, RewardStep
<1> QED
  BY <1>3, <1>4, <1>5, <1>6, NoReward, NextRewards

\* In every game one clearing gives one reward at most: what is taken was
\* offered, or is the office that the clearing begins with; then neither
\* ClearingCanOffice nor ClearingAward offers anything, and no later step of
\* the clearing offers it again.
THEOREM RewardsExclude == Spec => OneReward
  BY InitInv, StepInv, RewardsStep, PTL DEF Spec, OneReward, OneRewardStep

-----------------------------------------------------------------------------
(* The pieces of the others.                                               *)

\* The pieces of q on a spot and in its bump zone.
OfPlayer(q)   == [PlayerColor : {q}, Shape : Shapes]
Held(b, q, s) == {b[s], b[BumpZone(s)]} \cap OfPlayer(q)

\* From board b to board c player q keeps the offices and the Coellen spots,
\* and the pieces on each spot taken with its bump zone.
Keeps(b, c, q) ==
    /\ \A s \in PlacesAside :
           b[s].PlayerColor = q <=> c[s].PlayerColor = q
    /\ \A s \in SpotSquares : Held(b, q, s) = Held(c, q, s)

LEMMA KeepsOn ==
    ASSUME NEW a, NEW b, NEW c, NEW q, Keeps(a, b, q), Keeps(b, c, q)
    PROVE  Keeps(a, c, q)
  BY DEF Keeps

LEMMA NotOf ==
    ASSUME NEW q \in Players
    PROVE  /\ NoPiece \notin OfPlayer(q) /\ NoPiece.PlayerColor # q
           /\ \A x : x.PlayerColor # q => x \notin OfPlayer(q)
  BY DEF NoPiece, NoPlayer, Players, OfPlayer

LEMMA LiftKeeps ==
    ASSUME NEW b \in Boards, NEW s \in RouteSquares, NEW q \in Players,
           b[s].PlayerColor # q
    PROVE  Keeps(b, Lift(b, s), q)
<1>1. ASSUME NEW t \in PlacesAside
      PROVE  Lift(b, s)[t] = b[t]
  <2>1. t \in Squares /\ t # s /\ (s \in SpotSquares => t # BumpZone(s))
    BY PlaceKinds, SquareFacts DEF RouteSquares
  <2> QED
    BY <2>1, LiftAt
<1>2. ASSUME NEW t \in SpotSquares PROVE Held(b, q, t) = Held(Lift(b, s), q, t)
  <2>1. /\ t \in Squares /\ BumpZone(t) \in Squares /\ BumpZone(t) \in BumpSquares
        /\ t \notin BumpSquares
    BY PlaceKinds, SquareFacts
  <2>2. CASE t = s
    <3>1. Lift(b, s)[t] = b[BumpZone(t)] /\ Lift(b, s)[BumpZone(t)] = NoPiece
      BY <2>1, <2>2, LiftAt
    <3> QED
      BY <2>2, <3>1, NotOf DEF Held
  <2>3. CASE BumpZone(t) = s
    <3>1. Lift(b, s)[BumpZone(t)] = NoPiece /\ s \notin SpotSquares /\ t # s
      BY <2>1, <2>3, LiftAt, SquareFacts
    <3>2. Lift(b, s)[t] = b[t]
      BY <2>1, <3>1, LiftAt
    <3> QED
      BY <2>3, <3>1, <3>2, NotOf DEF Held
  <2>4. CASE t # s /\ BumpZone(t) # s
    <3>1. s \in SpotSquares => BumpZone(t) # BumpZone(s) /\ t # BumpZone(s)
      BY <2>1, <2>4, SquareFacts
    <3>2. Lift(b, s)[t] = b[t] /\ Lift(b, s)[BumpZone(t)] = b[BumpZone(t)]
      BY <2>1, <2>4, <3>1, LiftAt
    <3> QED
      BY <3>2 DEF Held
  <2> QED
    BY <2>2, <2>3, <2>4
<1> QED
  BY <1>1, <1>2 DEF Keeps

LEMMA DropKeeps ==
    ASSUME NEW b \in Boards, NEW d \in Squares, d \notin BumpSquares, NEW x,
           NEW q \in Players, x.PlayerColor # q,
           b[d] = NoPiece \/ (d \in SpotSquares /\ b[BumpZone(d)] = NoPiece)
    PROVE  Keeps(b, Drop(b, d, x), q)
<1>1. CASE b[d] = NoPiece
  <2>1. \A t \in Squares : Drop(b, d, x)[t] = IF t = d THEN x ELSE b[t]
    BY <1>1 DEF Drop, Boards
  <2>2. ASSUME NEW t \in SpotSquares PROVE Held(b, q, t) = Held(Drop(b, d, x), q, t)
    <3>1. t \in Squares /\ BumpZone(t) \in Squares /\ BumpZone(t) # d
      BY PlaceKinds, SquareFacts
    <3> QED
      BY <1>1, <2>1, <3>1, NotOf DEF Held
  <2>3. ASSUME NEW t \in PlacesAside
        PROVE  b[t].PlayerColor = q <=> Drop(b, d, x)[t].PlayerColor = q
    BY <1>1, <2>1, PlaceKinds, NotOf
  <2> QED
    BY <2>2, <2>3 DEF Keeps
<1>2. CASE b[d] # NoPiece
  <2>1. d \in SpotSquares /\ b[BumpZone(d)] = NoPiece /\ BumpZone(d) \in BumpSquares
        /\ BumpZone(d) \in Squares /\ BumpZone(d) # d
    BY <1>2, PlaceKinds, SquareFacts
  <2>2. \A t \in Squares :
            Drop(b, d, x)[t] = IF t = BumpZone(d) THEN b[d]
                               ELSE IF t = d THEN x ELSE b[t]
    BY <1>2, <2>1 DEF Drop, Boards
  <2>3. ASSUME NEW t \in SpotSquares PROVE Held(b, q, t) = Held(Drop(b, d, x), q, t)
    <3>1. t \in Squares /\ BumpZone(t) \in Squares /\ BumpZone(t) # d
          /\ t # BumpZone(d) /\ (t # d => BumpZone(t) # BumpZone(d))
      BY <2>1, PlaceKinds, SquareFacts
    <3>2. CASE t = d
      <4>1. Drop(b, d, x)[t] = x /\ Drop(b, d, x)[BumpZone(t)] = b[t]
        BY <2>1, <2>2, <3>1, <3>2
      <4>2. b[BumpZone(t)] = NoPiece
        BY <2>1, <3>2
      <4> QED
        BY <4>1, <4>2, NotOf DEF Held
    <3>3. CASE t # d
      <4>1. Drop(b, d, x)[t] = b[t] /\ Drop(b, d, x)[BumpZone(t)] = b[BumpZone(t)]
        BY <2>2, <3>1, <3>3
      <4> QED
        BY <4>1 DEF Held
    <3> QED
      BY <3>2, <3>3
  <2>4. ASSUME NEW t \in PlacesAside
        PROVE  Drop(b, d, x)[t] = b[t]
    <3>1. t \in Squares /\ t # d /\ t # BumpZone(d)
      BY <2>1, PlaceKinds DEF RouteSquares
    <3> QED
      BY <2>2, <3>1
  <2> QED
    BY <2>3, <2>4 DEF Keeps
<1> QED
  BY <1>1, <1>2

LEMMA BoardStepKeeps ==
    ASSUME TypeInv, Foreign(board), NEW p \in Players, BoardStep(p),
           NEW q \in Players \ {p}
    PROVE  Keeps(board, board', q)
<1>1. TypeOK /\ board \in Boards
  BY DEF TypeInv, TypeOK, Boards
<1>2. CASE Set(p)
  <2>1. PICK shape \in Shapes, d \in SpotSquares :
            /\ board[d] = NoPiece \/ ~BumpBlocked(board, d)
            /\ board' = Drop(board, d, Piece(p, shape))
    BY <1>2 DEF Set
  <2>2. d \in Squares /\ d \notin BumpSquares
    BY PlaceKinds, SquareFacts
  <2>3. Piece(p, shape).PlayerColor # q
    BY DEF Piece
  <2>4. board[d] = NoPiece \/ board[BumpZone(d)] = NoPiece
    BY <2>1 DEF BumpBlocked
  <2> QED
    BY <1>1, <2>1, <2>2, <2>3, <2>4, DropKeeps
<1>3. CASE Shifts(p)
  <2>1. PICK s \in OnRoutes(p) : \E d \in OpenTo(p, s) : board' = Shift(board, s, d)
    BY <1>3 DEF Shifts
  <2>2. PICK d \in OpenTo(p, s) : board' = Shift(board, s, d)
    BY <2>1
  <2>3. s \in RouteSquares /\ board[s].PlayerColor # q
    BY <1>1, HeldFacts
  <2>4. Lift(board, s) \in Boards /\ Keeps(board, Lift(board, s), q)
    BY <1>1, <2>3, LiftType, LiftKeeps
  <2>5. d \in Squares /\ d \notin BumpSquares /\ Lift(board, s)[d] = NoPiece
    BY <1>1, OpenFacts
  <2>6. Keeps(Lift(board, s), board', q)
    BY <2>2, <2>3, <2>4, <2>5, DropKeeps DEF Shift
  <2> QED
    BY <2>4, <2>6, KeepsOn
<1>4. CASE Lifts(p)
  <2>1. PICK s \in OnRoutes(p) : board' = Lift(board, s)
    BY <1>4 DEF Lifts
  <2>2. s \in RouteSquares /\ board[s].PlayerColor # q
    BY <1>1, HeldFacts
  <2> QED
    BY <1>1, <2>1, <2>2, LiftKeeps
<1> QED
  BY <1>2, <1>3, <1>4 DEF BoardStep, Keeps

\* The player boards of q are as they were.
Untouched(q) == stock'[q] = stock[q] /\ supply'[q] = supply[q] /\ tracks'[q] = tracks[q]

LEMMA OthersUntouched ==
    ASSUME TypeInv, NEW p \in Players, NEW q \in Players \ {p},
           Subaction(p) \/ EndTurn(p) \/ EndBump(p)
    PROVE  Untouched(q)
<1>1. /\ stock \in [Players -> [Shapes -> Nat]] /\ supply \in [Players -> [Shapes -> Nat]]
      /\ tracks \in [Players -> [TrackAwards -> Nat]]
  BY DEF TypeInv, TypeOK
<1>2. CASE EndTurn(p) \/ EndBump(p)
  BY <1>2 DEF EndTurn, EndBump, Untouched
<1>3. CASE FromPools(p)
  <2>1. ASSUME NEW sh \in Shapes, BagPiece(p, sh)
        PROVE  Untouched(q)
    BY <1>1, <2>1 DEF BagPiece, Untouched
  <2>2. ASSUME NEW sh \in Shapes, PayBump(p, sh)
        PROVE  Untouched(q)
    BY <1>1, <2>2 DEF PayBump, Untouched
  <2>3. ASSUME NEW sh \in Shapes, NEW d \in SpotSquares, Place(p, sh, d)
        PROVE  Untouched(q)
    BY <1>1, <2>3 DEF Place, Untouched
  <2>4. ASSUME NEW sh \in Shapes, NEW d \in SpotSquares, Bump(p, sh, d)
        PROVE  Untouched(q)
    BY <1>1, <2>4 DEF Bump, Untouched
  <2>5. ASSUME NEW sh \in Shapes, NEW d \in SpotSquares, BumpPanic(p, sh, d)
        PROVE  Untouched(q)
    BY <2>5 DEF BumpPanic, Panic, Untouched
  <2> QED
    BY <1>3, <2>1, <2>2, <2>3, <2>4, <2>5 DEF FromPools
<1>4. CASE Answer(p)
  <2>1. ASSUME NEW sh \in Shapes, NEW d, ReplaceFromStock(p, sh, d)
        PROVE  Untouched(q)
    BY <1>1, <2>1 DEF ReplaceFromStock, Untouched
  <2>2. ASSUME NEW sh \in Shapes, NEW d, ReplaceFromSupply(p, sh, d)
        PROVE  Untouched(q)
    BY <1>1, <2>2 DEF ReplaceFromSupply, Untouched
  <2>3. ASSUME NEW s \in OnRoutes(p), NEW d, ReplaceFromBoard(p, s, d)
        PROVE  Untouched(q)
    BY <2>3 DEF ReplaceFromBoard, Untouched
  <2>4. ASSUME NEW s \in OnRoutes(p), NEW d, MoveBumped(p, s, d)
        PROVE  Untouched(q)
    BY <2>4 DEF MoveBumped, Untouched
  <2>5. CASE NoBumpPanic(p)
    BY <2>5 DEF NoBumpPanic, Panic, Untouched
  <2> QED
    BY <1>4, <2>1, <2>2, <2>3, <2>4, <2>5 DEF Answer
<1>5. ASSUME NEW s \in OnRoutes(p), NEW d \in SpotSquares, Move(p, s, d)
      PROVE  Untouched(q)
  BY <1>5 DEF Move, Untouched
<1>6. CASE Clear(p)
  <2>1. ASSUME NEW s \in OnRoutes(p), NEW d, \/ TakeOffice(p, s, d) \/ TakeCoellen(p, s, d)
                                              \/ ClearToOffice(p, s, d)
        PROVE  Untouched(q)
    BY <2>1 DEF TakeOffice, TakeCoellen, ClearToOffice, Untouched
  <2>2. ASSUME NEW s \in OnRoutes(p), ClearMore(p, s) \/ ClearToStock(p, s)
        PROVE  Untouched(q)
    BY <1>1, <2>2 DEF ClearMore, ClearToStock, Untouched
  <2>3. CASE LevelUp(p)
    BY <1>1, <2>3 DEF LevelUp, Untouched
  <2> QED
    BY <1>6, <2>1, <2>2, <2>3 DEF Clear
<1> QED
  BY <1>2, <1>3, <1>4, <1>5, <1>6 DEF Subaction

LEMMA OthersStep ==
    ZoneInv /\ [Next]_vars =>
        \A q \in Players \ {Actor} :
            /\ stock'[q] = stock[q] /\ supply'[q] = supply[q] /\ tracks'[q] = tracks[q]
            /\ \A s \in OfficeSquares \cup CoellenSquares :
                   board[s].PlayerColor = q <=> board'[s].PlayerColor = q
            /\ \A s \in SpotSquares :
                   {board[s], board[BumpZone(s)]} \cap [PlayerColor : {q}, Shape : Shapes]
                 = {board'[s], board'[BumpZone(s)]}
                       \cap [PlayerColor : {q}, Shape : Shapes]
<1>1. ASSUME ZoneInv, [Next]_vars, NEW q \in Players \ {Actor}
      PROVE  Untouched(q) /\ Keeps(board, board', q)
  <2>1. CASE UNCHANGED vars \/ Panic
    BY <2>1 DEF vars, Panic, Untouched, Keeps, Held
  <2>2. ASSUME NEW p \in Players, Subaction(p)
        PROVE  Untouched(q) /\ Keeps(board, board', q)
    <3>1. q \in Players \ {p}
      BY <2>2 DEF Subaction, MayAct, MayAsk, Actor
    <3> QED
      BY <1>1, <2>2, <3>1, OthersUntouched, NextBoard, BoardStepKeeps DEF ZoneInv
  <2>3. ASSUME NEW p \in Players, EndTurn(p) \/ EndBump(p)
        PROVE  Untouched(q) /\ Keeps(board, board', q)
    BY <2>3 DEF EndTurn, EndBump, Untouched, Keeps, Held
  <2> QED
    BY <1>1, <2>1, <2>2, <2>3, NextCases
<1> QED
  BY <1>1 DEF Untouched, Keeps, Held, OfPlayer, PlacesAside

\* In every game a player's pieces are moved by that player alone: nobody
\* else's subaction changes his player board, his offices or his Coellen spots,
\* and at most it shifts his piece between a spot and its bump zone
\* (validateSubaction, ApplySubaction).
THEOREM OthersAreLeft == Spec => OthersKeepPieces
  BY OthersStep, ZoneInit, ZoneStep, PTL DEF Spec, OthersKeepPieces

-----------------------------------------------------------------------------
(* Counting the pieces of a kind on a board.                               *)

LEMMA SquaresFinite == IsFiniteSet(Squares)
<1>1. IsFiniteSet(SpotSquares) /\ IsFiniteSet(BumpSquares)
  <2>1. IsFiniteSet(Routes) /\ Spots \in [Routes -> Nat]
    BY BoardAssumption
  <2>2. /\ SpotSquares = PlacesOf("spot", Routes, Spots)
        /\ BumpSquares = PlacesOf("bumped", Routes, Spots)
    BY DEF SpotSquares, BumpSquares, PlacesOf
  <2> QED
    BY <2>1, <2>2, TableFinite
<1>2. IsFiniteSet(OfficeSquares)
  <2> DEFINE width == [c \in Cities |-> Len(Offices[c])]
  <2>1. /\ width \in [Cities -> Nat] /\ IsFiniteSet(Cities)
        /\ \A c \in Cities : DOMAIN Offices[c] = 1 .. width[c]
    BY BoardAssumption
  <2> HIDE DEF width
  <2>2. OfficeSquares = PlacesOf("office", Cities, width)
    BY <2>1 DEF OfficeSquares, PlacesOf
  <2> QED
    BY <2>1, <2>2, TableFinite
<1>3. IsFiniteSet(CoellenSquares)
  <2> DEFINE width == [c \in Cities |-> Len(Coellen[c])]
  <2>1. /\ width \in [Cities -> Nat] /\ IsFiniteSet(Cities)
        /\ \A c \in Cities : DOMAIN Coellen[c] = 1 .. width[c]
    BY BoardAssumption
  <2> HIDE DEF width
  <2>2. CoellenSquares = PlacesOf("coellen", Cities, width)
    BY <2>1 DEF CoellenSquares, PlacesOf
  <2> QED
    BY <2>1, <2>2, TableFinite
<1>4. IsFiniteSet(RouteSquares)
  BY <1>1, FS_Union DEF RouteSquares
<1>5. IsFiniteSet(RouteSquares \cup OfficeSquares)
  BY <1>2, <1>4, FS_Union
<1> QED
  BY <1>3, <1>5, FS_Union DEF Squares

\* How many places hold x.
Num(b, x) == Cardinality({s \in Squares : b[s] = x})

LEMMA NumType ==
    ASSUME NEW b, NEW x
    PROVE  Num(b, x) \in Nat
<1>1. IsFiniteSet({s \in Squares : b[s] = x})
  BY SquaresFinite, FS_Subset
<1> QED
  BY <1>1, FS_CardinalityType DEF Num

\* What changing one place does to the count.
Put(b, d, v) == [b EXCEPT ![d] = v]

LEMMA NumSet ==
    ASSUME NEW b \in Boards, NEW d \in Squares, NEW v, NEW x
    PROVE  Num(Put(b, d, v), x) = Num(b, x) + (IF v = x THEN 1 ELSE 0)
                                            - (IF b[d] = x THEN 1 ELSE 0)
<1> DEFINE old == {s \in Squares : b[s] = x}
           new == {s \in Squares : Put(b, d, v)[s] = x}
<1>1. IsFiniteSet(old) /\ Cardinality(old) \in Nat
  BY SquaresFinite, FS_Subset, FS_CardinalityType
<1>2. d \in old <=> b[d] = x
  OBVIOUS
<1>3. CASE v = x
  <2>1. new = old \cup {d}
    BY <1>3 DEF Boards, Put
  <2> HIDE DEF old, new
  <2>2. Cardinality(new) = IF d \in old THEN Cardinality(old) ELSE Cardinality(old) + 1
    BY <1>1, <2>1, FS_AddElement
  <2> QED
    BY <1>1, <1>2, <1>3, <2>2 DEF Num, old, new
<1>4. CASE v # x
  <2>1. new = old \ {d}
    BY <1>4 DEF Boards, Put
  <2> HIDE DEF old, new
  <2>2. Cardinality(new) = IF d \in old THEN Cardinality(old) - 1 ELSE Cardinality(old)
    BY <1>1, <2>1, FS_RemoveElement
  <2> QED
    BY <1>1, <1>2, <1>4, <2>2 DEF Num, old, new
<1> QED
  BY <1>3, <1>4

\* A piece that slides back is still there, the one that was lifted is not.
LEMMA NumLift ==
    ASSUME NEW b \in Boards, NEW s \in RouteSquares, NEW x \in Pieces
    PROVE  Num(Lift(b, s), x) = Num(b, x) - (IF b[s] = x THEN 1 ELSE 0)
<1>1. x # NoPiece /\ Num(b, x) \in Nat
  BY NumType DEF Pieces, NoPiece, NoPlayer, Players
<1> s \in Squares
  BY DEF Squares
<1>2. CASE s \in SpotSquares /\ b[BumpZone(s)] # NoPiece
  <2> DEFINE z == BumpZone(s)
             c == Put(b, s, b[z])
  <2>1. z \in Squares /\ z # s
    BY <1>2, SquareFacts DEF Squares, RouteSquares
  <2> HIDE DEF z
  <2>2. c \in Boards /\ c[z] = b[z]
    BY <1>1, <2>1 DEF Boards, Put
  <2>3. Lift(b, s) = Put(c, z, NoPiece)
    BY <1>2 DEF Lift, Put, c, z
  <2>4. Num(c, x) = Num(b, x) + (IF b[z] = x THEN 1 ELSE 0) - (IF b[s] = x THEN 1 ELSE 0)
    BY NumSet
  <2> HIDE DEF c
  <2>5. Num(Put(c, z, NoPiece), x)
            = Num(c, x) + (IF NoPiece = x THEN 1 ELSE 0) - (IF c[z] = x THEN 1 ELSE 0)
    BY <2>1, <2>2, NumSet
  <2> QED
    BY <1>1, <2>2, <2>3, <2>4, <2>5, NumType
<1>3. CASE ~ (s \in SpotSquares /\ b[BumpZone(s)] # NoPiece)
  <2>1. Lift(b, s) = Put(b, s, NoPiece)
    BY <1>3 DEF Lift, Put
  <2>2. Num(Put(b, s, NoPiece), x)
            = Num(b, x) + (IF NoPiece = x THEN 1 ELSE 0) - (IF b[s] = x THEN 1 ELSE 0)
    BY NumSet
  <2> QED
    BY <1>1, <2>1, <2>2
<1> QED
  BY <1>2, <1>3

\* A piece that is bumped is still there, and the one set down is added.
LEMMA NumDrop ==
    ASSUME NEW b \in Boards, NEW d \in Squares, NEW v \in Pieces, NEW x \in Pieces,
           \/ b[d] = NoPiece
           \/ d \in SpotSquares /\ b[BumpZone(d)] = NoPiece
    PROVE  Num(Drop(b, d, v), x) = Num(b, x) + (IF v = x THEN 1 ELSE 0)
<1>1. x # NoPiece /\ Num(b, x) \in Nat
  BY NumType DEF Pieces, NoPiece, NoPlayer, Players
<1>2. Num(Put(b, d, v), x)
          = Num(b, x) + (IF v = x THEN 1 ELSE 0) - (IF b[d] = x THEN 1 ELSE 0)
  BY NumSet
<1>3. CASE b[d] = NoPiece
  <2>1. Drop(b, d, v) = Put(b, d, v)
    BY <1>3 DEF Drop, Put
  <2> QED
    BY <1>1, <1>2, <1>3, <2>1
<1>4. CASE b[d] # NoPiece
  <2> DEFINE z == BumpZone(d)
             c == Put(b, d, v)
  <2>1. z \in Squares /\ z # d /\ b[z] = NoPiece
    BY <1>4, SquareFacts DEF Squares, RouteSquares
  <2> HIDE DEF z
  <2>2. c \in Boards /\ c[z] = NoPiece
    BY <2>1 DEF Boards, Put
  <2>3. Drop(b, d, v) = Put(c, z, b[d])
    BY <1>4 DEF Drop, Put, c, z
  <2>4. Num(c, x) = Num(b, x) + (IF v = x THEN 1 ELSE 0) - (IF b[d] = x THEN 1 ELSE 0)
    BY <1>2
  <2> HIDE DEF c
  <2>5. Num(Put(c, z, b[d]), x)
            = Num(c, x) + (IF b[d] = x THEN 1 ELSE 0) - (IF c[z] = x THEN 1 ELSE 0)
    BY <2>1, <2>2, NumSet
  <2> QED
    BY <1>1, <2>2, <2>3, <2>4, <2>5, NumType
<1> QED
  BY <1>3, <1>4

LEMMA NumShift ==
    ASSUME ZoneInv, NEW p \in Players, NEW s \in OnRoutes(p), NEW d \in OpenTo(p, s),
           NEW x \in Pieces
    PROVE  Num(Shift(board, s, d), x) = Num(board, x)
<1>1. /\ TypeOK /\ Foreign(board) /\ board \in Boards
      /\ s \in RouteSquares /\ board[s] \in Pieces
  BY HeldFacts DEF ZoneInv, TypeInv, TypeOK, Boards
<1>2. Lift(board, s) \in Boards
  BY <1>1, LiftType
<1>3. d \in Squares /\ Lift(board, s)[d] = NoPiece
  BY <1>1, OpenFacts
<1>4. Num(Lift(board, s), x) = Num(board, x) - (IF board[s] = x THEN 1 ELSE 0)
  BY <1>1, NumLift
<1>5. Num(Shift(board, s, d), x)
          = Num(Lift(board, s), x) + (IF board[s] = x THEN 1 ELSE 0)
  BY <1>1, <1>2, <1>3, NumDrop DEF Shift
<1> QED
  BY <1>4, <1>5, NumType

-----------------------------------------------------------------------------
(* One piece more or less in a pool.                                       *)

More(pool, p, shape) == [pool EXCEPT ![p][shape] = @ + 1]
Less(pool, p, shape) == [pool EXCEPT ![p][shape] = @ - 1]

\* n for the pieces of one player and shape, nothing for the others.
For(q, t, p, shape, n) == IF q = p /\ t = shape THEN n ELSE 0

LEMMA PoolAt ==
    ASSUME NEW pool \in Pools, NEW p \in Players, NEW shape \in Shapes,
           NEW q \in Players, NEW t \in Shapes
    PROVE  /\ More(pool, p, shape)[q][t] = pool[q][t] + For(q, t, p, shape, 1)
           /\ Less(pool, p, shape)[q][t] = pool[q][t] + For(q, t, p, shape, -1)
           /\ pool[q][t] = pool[q][t] + For(q, t, p, shape, 0)
  BY DEF Pools, More, Less, For

CountInv == ZoneInv /\ PieceConservation

LEMMA CountTypes ==
    ASSUME CountInv, NEW q \in Players, NEW t \in Shapes
    PROVE  /\ Num(board, Piece(q, t)) \in Nat
           /\ stock[q][t] \in Nat /\ supply[q][t] \in Nat
           /\ OnTracks(tracks[q], t) \in Nat
           /\ Piece(q, t) \in Pieces
<1>1. /\ stock \in [Players -> [Shapes -> Nat]] /\ supply \in [Players -> [Shapes -> Nat]]
      /\ tracks[q] \in [TrackAwards -> Nat]
  BY DEF CountInv, ZoneInv, TypeInv, TypeOK
<1>2. OnTracks(tracks[q], t) \in Nat
  BY <1>1 DEF OnTracks, TrackAwards
<1> QED
  BY <1>1, <1>2, NumType DEF Piece, Pieces

\* A step that moves pieces of one kind between board, stock and supply and
\* takes as many from one as it adds to another.
LEMMA Balanced ==
    ASSUME CountInv, NEW p \in Players, NEW shape \in Shapes,
           NEW nb \in Int, NEW ns \in Int, NEW nu \in Int, nb + ns + nu = 0,
           tracks' = tracks,
           \A x \in Pieces :
               Num(board', x) = Num(board, x) + (IF x = Piece(p, shape) THEN nb ELSE 0),
           \A q \in Players, t \in Shapes :
               /\ stock'[q][t] = stock[q][t] + For(q, t, p, shape, ns)
               /\ supply'[q][t] = supply[q][t] + For(q, t, p, shape, nu)
    PROVE  PieceConservation'
<1> SUFFICES ASSUME NEW q \in Players, NEW t \in Shapes
             PROVE  Num(board', Piece(q, t)) + stock'[q][t] + supply'[q][t]
                      + OnTracks(tracks'[q], t) = StartPieces(t)
  BY DEF PieceConservation, OnBoard, Num
<1>1. Num(board, Piece(q, t)) + stock[q][t] + supply[q][t] + OnTracks(tracks[q], t)
          = StartPieces(t)
  BY DEF CountInv, PieceConservation, OnBoard, Num
<1>2. /\ Num(board, Piece(q, t)) \in Nat
      /\ stock[q][t] \in Nat /\ supply[q][t] \in Nat
      /\ OnTracks(tracks[q], t) \in Nat /\ Piece(q, t) \in Pieces
  BY CountTypes
<1>3. Num(board', Piece(q, t)) = Num(board, Piece(q, t)) + For(q, t, p, shape, nb)
  BY <1>2 DEF Piece, For
<1>4. /\ stock'[q][t] = stock[q][t] + For(q, t, p, shape, ns)
      /\ supply'[q][t] = supply[q][t] + For(q, t, p, shape, nu)
  OBVIOUS
<1>5. /\ For(q, t, p, shape, nb) \in Int /\ For(q, t, p, shape, ns) \in Int
      /\ For(q, t, p, shape, nu) \in Int
      /\ For(q, t, p, shape, nb) + For(q, t, p, shape, ns) + For(q, t, p, shape, nu) = 0
  BY DEF For
<1> QED
  BY <1>1, <1>2, <1>3, <1>4, <1>5

\* A step that only shifts pieces on the board, or none.
LEMMA OnlyShifted ==
    ASSUME CountInv, UNCHANGED <<stock, supply, tracks>>,
           \A x \in Pieces : Num(board', x) = Num(board, x)
    PROVE  PieceConservation'
  BY DEF CountInv, PieceConservation, OnBoard, Num, Piece, Pieces

\* A step that sets a piece of p down on the board.
LEMMA NumPlaced ==
    ASSUME CountInv, NEW p \in Players, NEW shape \in Shapes, NEW d \in Squares,
           board[d] = NoPiece \/ (d \in SpotSquares /\ ~BumpBlocked(board, d)),
           NEW x \in Pieces
    PROVE  Num(Drop(board, d, Piece(p, shape)), x)
               = Num(board, x) + (IF x = Piece(p, shape) THEN 1 ELSE 0)
<1>1. board \in Boards /\ Piece(p, shape) \in Pieces
  BY CountTypes DEF CountInv, ZoneInv, TypeInv, TypeOK, Boards
<1>2. board[d] = NoPiece \/ (d \in SpotSquares /\ board[BumpZone(d)] = NoPiece)
  BY DEF BumpBlocked
<1>3. Num(Drop(board, d, Piece(p, shape)), x)
          = Num(board, x) + (IF Piece(p, shape) = x THEN 1 ELSE 0)
  BY <1>1, <1>2, NumDrop
<1> QED
  BY <1>3

LEMMA CountPools ==
    ASSUME CountInv, NEW p \in Players, FromPools(p)
    PROVE  PieceConservation'
<1>1. stock \in Pools /\ supply \in Pools
  BY DEF CountInv, ZoneInv, TypeInv, TypeOK, Pools
<1>2. ASSUME NEW shape \in Shapes, BagPiece(p, shape)
      PROVE  PieceConservation'
  <2>1. /\ stock' = Less(stock, p, shape) /\ supply' = More(supply, p, shape)
        /\ tracks' = tracks /\ board' = board
    BY <1>2 DEF BagPiece, BagsTurn, Commit, Less, More
  <2>2. \A x \in Pieces :
            Num(board', x) = Num(board, x) + (IF x = Piece(p, shape) THEN 0 ELSE 0)
    BY <2>1, NumType
  <2>3. \A q \in Players, t \in Shapes :
            /\ stock'[q][t] = stock[q][t] + For(q, t, p, shape, -1)
            /\ supply'[q][t] = supply[q][t] + For(q, t, p, shape, 1)
    BY <1>1, <2>1, PoolAt
  <2> QED
    BY <2>1, <2>2, <2>3, Balanced
<1>3. ASSUME NEW shape \in Shapes, PayBump(p, shape)
      PROVE  PieceConservation'
  <2>1. /\ stock' = More(stock, p, shape) /\ supply' = Less(supply, p, shape)
        /\ tracks' = tracks /\ board' = board
    BY <1>3 DEF PayBump, Commit, Less, More
  <2>2. \A x \in Pieces :
            Num(board', x) = Num(board, x) + (IF x = Piece(p, shape) THEN 0 ELSE 0)
    BY <2>1, NumType
  <2>3. \A q \in Players, t \in Shapes :
            /\ stock'[q][t] = stock[q][t] + For(q, t, p, shape, 1)
            /\ supply'[q][t] = supply[q][t] + For(q, t, p, shape, -1)
    BY <1>1, <2>1, PoolAt
  <2> QED
    BY <2>1, <2>2, <2>3, Balanced
<1>4. ASSUME NEW shape \in Shapes, NEW d \in SpotSquares,
             Place(p, shape, d) \/ Bump(p, shape, d)
      PROVE  PieceConservation'
  <2>1. /\ board' = Drop(board, d, Piece(p, shape)) /\ tracks' = tracks
        /\ stock' = stock /\ supply' = Less(supply, p, shape)
        /\ board[d] = NoPiece \/ ~BumpBlocked(board, d)
    BY <1>4 DEF Place, Bump, Commit, Less
  <2>2. d \in Squares
    BY DEF Squares, RouteSquares
  <2>3. \A x \in Pieces :
            Num(board', x) = Num(board, x) + (IF x = Piece(p, shape) THEN 1 ELSE 0)
    BY <2>1, <2>2, NumPlaced
  <2>4. \A q \in Players, t \in Shapes :
            /\ stock'[q][t] = stock[q][t] + For(q, t, p, shape, 0)
            /\ supply'[q][t] = supply[q][t] + For(q, t, p, shape, -1)
    BY <1>1, <2>1, PoolAt
  <2> QED
    BY <2>1, <2>3, <2>4, Balanced
<1>5. CASE Panic
  BY <1>5, OnlyShifted DEF Panic
<1> QED
  BY <1>2, <1>3, <1>4, <1>5 DEF FromPools, BumpPanic

\* Shifting a piece of p from a route to an open place.
LEMMA CountShift ==
    ASSUME CountInv, NEW p \in Players, NEW s \in OnRoutes(p), NEW d \in OpenTo(p, s),
           board' = Shift(board, s, d), UNCHANGED <<stock, supply, tracks>>
    PROVE  PieceConservation'
<1>1. \A x \in Pieces : Num(board', x) = Num(board, x)
  BY NumShift DEF CountInv
<1> QED
  BY <1>1, OnlyShifted

LEMMA CountAnswer ==
    ASSUME CountInv, NEW p \in Players, Answer(p)
    PROVE  PieceConservation'
<1>1. stock \in Pools /\ supply \in Pools /\ TypeOK
  BY DEF CountInv, ZoneInv, TypeInv, TypeOK, Pools
<1>2. CASE NoBumpPanic(p)
  BY <1>2, OnlyShifted DEF NoBumpPanic, Panic
<1>3. ASSUME NEW d \in ValidBumps(board, turnState.BumpingLocation)
      PROVE  /\ d \in SpotSquares /\ d \in Squares /\ board[d] = NoPiece
             /\ \A s : d \in OpenTo(p, s)
  BY <1>1, ValidBumpFacts DEF OpenTo
<1>4. ASSUME NEW d \in ValidBumps(board, turnState.BumpingLocation),
             NEW shape \in Shapes, ReplaceFromStock(p, shape, d)
      PROVE  PieceConservation'
  <2>1. /\ board' = Drop(board, d, Piece(p, shape)) /\ tracks' = tracks
        /\ stock' = Less(stock, p, shape) /\ supply' = supply
    BY <1>4 DEF ReplaceFromStock, Commit, Less
  <2>2. \A x \in Pieces :
            Num(board', x) = Num(board, x) + (IF x = Piece(p, shape) THEN 1 ELSE 0)
    BY <1>3, <2>1, NumPlaced
  <2>3. \A q \in Players, t \in Shapes :
            /\ stock'[q][t] = stock[q][t] + For(q, t, p, shape, -1)
            /\ supply'[q][t] = supply[q][t] + For(q, t, p, shape, 0)
    BY <1>1, <2>1, PoolAt
  <2> QED
    BY <2>1, <2>2, <2>3, Balanced
<1>5. ASSUME NEW d \in ValidBumps(board, turnState.BumpingLocation),
             NEW shape \in Shapes, ReplaceFromSupply(p, shape, d)
      PROVE  PieceConservation'
  <2>1. /\ board' = Drop(board, d, Piece(p, shape)) /\ tracks' = tracks
        /\ stock' = stock /\ supply' = Less(supply, p, shape)
    BY <1>5 DEF ReplaceFromSupply, Commit, Less
  <2>2. \A x \in Pieces :
            Num(board', x) = Num(board, x) + (IF x = Piece(p, shape) THEN 1 ELSE 0)
    BY <1>3, <2>1, NumPlaced
  <2>3. \A q \in Players, t \in Shapes :
            /\ stock'[q][t] = stock[q][t] + For(q, t, p, shape, 0)
            /\ supply'[q][t] = supply[q][t] + For(q, t, p, shape, -1)
    BY <1>1, <2>1, PoolAt
  <2> QED
    BY <2>1, <2>2, <2>3, Balanced
<1>6. ASSUME NEW d \in ValidBumps(board, turnState.BumpingLocation),
             NEW s \in OnRoutes(p), ReplaceFromBoard(p, s, d) \/ MoveBumped(p, s, d)
      PROVE  PieceConservation'
  <2>1. board' = Shift(board, s, d) /\ UNCHANGED <<stock, supply, tracks>>
    BY <1>6 DEF ReplaceFromBoard, MoveBumped, Commit
  <2> QED
    BY <1>3, <2>1, CountShift
<1> QED
  BY <1>2, <1>4, <1>5, <1>6 DEF Answer

\* Taking a piece of a route to stock.
LEMMA CountToStock ==
    ASSUME CountInv, NEW p \in Players, NEW s \in OnRoutes(p),
           board' = Lift(board, s), stock' = More(stock, p, board[s].Shape),
           UNCHANGED <<supply, tracks>>
    PROVE  PieceConservation'
<1>1. /\ stock \in Pools /\ supply \in Pools /\ board \in Boards
      /\ s \in RouteSquares /\ board[s].Shape \in Shapes
      /\ board[s] = Piece(p, board[s].Shape)
  BY HeldFacts DEF CountInv, ZoneInv, TypeInv, TypeOK, Pools, Boards, Pieces, Piece
<1> DEFINE shape == board[s].Shape
<1>2. \A x \in Pieces :
          Num(board', x) = Num(board, x) + (IF x = Piece(p, shape) THEN -1 ELSE 0)
  <2> SUFFICES ASSUME NEW x \in Pieces
               PROVE  Num(board', x)
                        = Num(board, x) + (IF x = Piece(p, shape) THEN -1 ELSE 0)
    OBVIOUS
  <2>1. Num(Lift(board, s), x) = Num(board, x) - (IF board[s] = x THEN 1 ELSE 0)
    BY <1>1, NumLift
  <2>2. Num(board, x) \in Nat
    BY NumType
  <2> QED
    BY <1>1, <2>1, <2>2
<1>3. \A q \in Players, t \in Shapes :
          /\ stock'[q][t] = stock[q][t] + For(q, t, p, shape, 1)
          /\ supply'[q][t] = supply[q][t] + For(q, t, p, shape, 0)
  BY <1>1, PoolAt
<1> HIDE DEF shape
<1>4. shape \in Shapes
  BY <1>1 DEF shape
<1> QED
  BY <1>2, <1>3, <1>4, Balanced

\* A level of a track gives the piece that was on it.
LEMMA CountLevelUp ==
    ASSUME CountInv, NEW p \in Players, LevelUp(p)
    PROVE  PieceConservation'
<1> DEFINE award == turnState.ClearingAward
           shape == TrackShape(award)
<1>1. /\ award \in TrackAwards /\ board' = board /\ stock' = stock
      /\ supply' = More(supply, p, shape) /\ tracks' = [tracks EXCEPT ![p][award] = @ - 1]
  BY DEF LevelUp, CanAward, Commit, More
<1>2. /\ supply \in Pools /\ shape \in Shapes
      /\ tracks \in [Players -> [TrackAwards -> Nat]]
  BY DEF CountInv, ZoneInv, TypeInv, TypeOK, Pools, TrackShape, Shapes
<1> SUFFICES ASSUME NEW q \in Players, NEW t \in Shapes
             PROVE  Num(board', Piece(q, t)) + stock'[q][t] + supply'[q][t]
                      + OnTracks(tracks'[q], t) = StartPieces(t)
  BY DEF PieceConservation, OnBoard, Num
<1>3. Num(board, Piece(q, t)) + stock[q][t] + supply[q][t] + OnTracks(tracks[q], t)
          = StartPieces(t)
  BY DEF CountInv, PieceConservation, OnBoard, Num
<1>4. /\ Num(board, Piece(q, t)) \in Nat
      /\ stock[q][t] \in Nat /\ supply[q][t] \in Nat
      /\ OnTracks(tracks[q], t) \in Nat
  BY CountTypes
<1>5. supply'[q][t] = supply[q][t] + For(q, t, p, shape, 1)
  BY <1>1, <1>2, PoolAt
<1>6. OnTracks(tracks'[q], t) = OnTracks(tracks[q], t) - For(q, t, p, shape, 1)
  <2>1. CASE q # p
    BY <1>1, <1>2, <1>4, <2>1 DEF For
  <2>2. CASE q = p
    <3> DEFINE old == tracks[p]
               new == [old EXCEPT ![award] = @ - 1]
    <3>1. tracks'[q] = new /\ old \in [TrackAwards -> Nat]
      BY <1>1, <1>2, <2>2
    <3>2. \A a \in TrackAwards : new[a] = IF a = award THEN old[a] - 1 ELSE old[a]
      BY <3>1
    <3>3. \A a \in TrackAwards : old[a] \in Nat
      BY <3>1
    <3> HIDE DEF old, new, award
    <3>4. OnTracks(new, t) = OnTracks(old, t) - (IF t = TrackShape(award) THEN 1 ELSE 0)
      BY <1>1, <3>2, <3>3 DEF OnTracks, TrackAwards, TrackShape, Shapes
    <3> QED
      BY <2>2, <3>1, <3>4 DEF For, old
  <2> QED
    BY <2>1, <2>2
<1>7. For(q, t, p, shape, 1) \in Int
  BY DEF For
<1> QED
  BY <1>1, <1>3, <1>4, <1>5, <1>6, <1>7

LEMMA CountClear ==
    ASSUME CountInv, NEW p \in Players, Clear(p)
    PROVE  PieceConservation'
<1>1. ASSUME NEW s \in OnRoutes(p), NEW d \in OfficeSquares,
             TakeOffice(p, s, d) \/ ClearToOffice(p, s, d)
      PROVE  PieceConservation'
  <2>1. /\ OfficeOpen(p, s, d) /\ board' = Shift(board, s, d)
        /\ UNCHANGED <<stock, supply, tracks>>
    BY <1>1 DEF TakeOffice, ClearToOffice, Commit
  <2>2. d \in OpenTo(p, s)
    BY <2>1 DEF OpenTo, OfficeOpen, Squares
  <2> QED
    BY <2>1, <2>2, CountShift
<1>2. ASSUME NEW s \in OnRoutes(p), NEW d \in CoellenSquares, TakeCoellen(p, s, d)
      PROVE  PieceConservation'
  <2>1. /\ board[d] = NoPiece /\ board' = Shift(board, s, d)
        /\ UNCHANGED <<stock, supply, tracks>>
    BY <1>2 DEF TakeCoellen, Commit
  <2>2. d \in OpenTo(p, s)
    BY <2>1 DEF OpenTo, Squares
  <2> QED
    BY <2>1, <2>2, CountShift
<1>3. ASSUME NEW s \in OnRoutes(p), ClearMore(p, s) \/ ClearToStock(p, s)
      PROVE  PieceConservation'
  <2>1. /\ board' = Lift(board, s) /\ stock' = More(stock, p, board[s].Shape)
        /\ UNCHANGED <<supply, tracks>>
    BY <1>3 DEF ClearMore, ClearToStock, Commit, More
  <2> QED
    BY <2>1, CountToStock
<1> QED
  BY <1>1, <1>2, <1>3, CountLevelUp DEF Clear

LEMMA CountSubaction ==
    ASSUME CountInv, NEW p \in Players, Subaction(p)
    PROVE  PieceConservation'
<1>1. ASSUME NEW s \in OnRoutes(p), NEW d \in SpotSquares, Move(p, s, d)
      PROVE  PieceConservation'
  <2>1. /\ board[d] = NoPiece /\ board' = Shift(board, s, d)
        /\ UNCHANGED <<stock, supply, tracks>>
    BY <1>1 DEF Move, MoveTurn, Commit
  <2>2. d \in OpenTo(p, s)
    BY <2>1 DEF OpenTo, Squares, RouteSquares
  <2> QED
    BY <2>1, <2>2, CountShift
<1> QED
  BY <1>1, CountPools, CountAnswer, CountClear DEF Subaction

LEMMA CountAny ==
    ASSUME CountInv, NEW p \in Players, Subaction(p) \/ EndTurn(p) \/ EndBump(p)
    PROVE  PieceConservation'
<1>1. CASE EndTurn(p) \/ EndBump(p)
  BY <1>1, OnlyShifted DEF EndTurn, EndBump
<1> QED
  BY <1>1, CountSubaction

LEMMA CountStep == CountInv /\ [Next]_vars => CountInv'
<1> SUFFICES ASSUME CountInv, [Next]_vars PROVE ZoneInv' /\ PieceConservation'
  BY DEF CountInv
<1>1. ZoneInv'
  BY ZoneStep DEF CountInv
<1>2. CASE UNCHANGED vars \/ Panic
  <2>1. UNCHANGED <<stock, supply, tracks>> /\ board' = board
    BY <1>2 DEF vars, Panic
  <2>2. PieceConservation'
    BY <2>1, OnlyShifted
  <2> QED
    BY <1>1, <2>2
<1>3. ASSUME NEW p \in Players, Subaction(p) \/ EndTurn(p) \/ EndBump(p)
      PROVE  PieceConservation'
  BY <1>3, CountAny
<1> QED
  BY <1>1, <1>2, <1>3, NextCases

LEMMA CountInit == Init => CountInv
<1> SUFFICES ASSUME Init PROVE PieceConservation
  BY ZoneInit DEF CountInv
<1> SUFFICES ASSUME NEW q \in Players, NEW t \in Shapes
             PROVE  OnBoard(q, t) + stock[q][t] + supply[q][t] + OnTracks(tracks[q], t)
                      = StartPieces(t)
  BY DEF PieceConservation
<1>1. OnBoard(q, t) = 0
  <2>1. {s \in Squares : board[s] = Piece(q, t)} = {}
    BY DEF Init, Piece, NoPiece, NoPlayer, Players
  <2> QED
    BY <2>1, FS_EmptySet DEF OnBoard
<1>2. stock[q][t] + supply[q][t] = IF t = "Disc" THEN 1 ELSE StartCubes
  <2>1. StartSupply(q) \in 0 .. StartCubes /\ StartCubes \in Nat
    BY GameAssumption, BoardAssumption DEF StartSupply, Players
  <2> QED
    BY <2>1 DEF Init
<1>3. OnTracks(tracks[q], t) = OnTracks(StartTrack, t) /\ OnTracks(StartTrack, t) \in Nat
  BY GameAssumption DEF Init, OnTracks, TrackAwards
<1>4. stock[q][t] \in Nat /\ supply[q][t] \in Nat
  BY InitInv DEF TypeInv, TypeOK
<1> QED
  BY <1>1, <1>2, <1>3, <1>4, GameAssumption DEF StartPieces

\* In every game the box stays complete: no chain of places, bumps,
\* replacements, moves, clearings and levels loses a piece or makes one
\* (ApplySubaction and the changes of stock, supply and tracks around it).
THEOREM PiecesConserved == Spec => []PieceConservation
<1>1. CountInv => PieceConservation
  BY DEF CountInv
<1> QED
  BY CountInit, CountStep, <1>1, PTL DEF Spec

-----------------------------------------------------------------------------
(* Steps between stock, supply and the spots do not touch the offices.     *)

\* The number of filled cities depends on the offices alone.
SameOffices(b) == \A o \in OfficeSquares : b[o] = board[o]

LEMMA FilledByOffices ==
    ASSUME NEW b, SameOffices(b)
    PROVE  GetFilledCityCount(b) = GetFilledCityCount(board)
<1>1. \A c \in Cities : CityFilled(b, c) <=> CityFilled(board, c)
  BY DEF SameOffices, CityFilled, OfficeSquares
<1>2. {c \in Cities : CityFilled(b, c)} = {c \in Cities : CityFilled(board, c)}
  BY <1>1
<1> QED
  BY <1>2 DEF GetFilledCityCount

-----------------------------------------------------------------------------
(* The end of the game.                                                    *)

\* The game is marked as ending as soon as its end is reached.
Marked == ~gameend => ~EndReached(board, scores)

EndInv == ZoneInv /\ GameEndStops /\ Marked

\* While the game is ending no action is begun, nor anything but a clearing
\* gone on with.
LEMMA NotEnding ==
    ASSUME EndInv, NEW p \in Players, MayAct(p),
           MayStart \/ turnState.Type \notin {"None", "Clearing"}
    PROVE  gameend = FALSE
  BY DEF EndInv, ZoneInv, TypeInv, TypeOK, GameEndStops, MayAct, MayAsk, Actor, MayStart

\* A step that changes neither the scores nor an office does not reach the end.
LEMMA GoesOn ==
    ASSUME gameend = FALSE, Marked, NEW b, NEW ts, Commit(b, scores, ts), SameOffices(b)
    PROVE  GameEndStops' /\ Marked'
<1>1. GetFilledCityCount(b) = GetFilledCityCount(board)
  BY FilledByOffices
<1>2. ~EndReached(b, scores)
  BY <1>1 DEF Marked, EndReached
<1>3. gameend' = FALSE /\ board' = b /\ scores' = scores
  BY <1>2 DEF Commit
<1>4. ~EndReached(board', scores')
  BY <1>2, <1>3
<1>5. Marked'
  BY <1>4 DEF Marked, EndReached
<1> QED
  BY <1>3, <1>5 DEF GameEndStops

\* A step may reach the end when it leaves its player clearing or between two
\* actions.
LEMMA MayReachEnd ==
    ASSUME NEW b, NEW sc, NEW ts \in TurnStates, Commit(b, sc, ts),
           ts.Type \in {"None", "Clearing"}
    PROVE  GameEndStops' /\ Marked'
<1>1. board' = b /\ scores' = sc /\ gameend' = (gameend \/ EndReached(b, sc))
  BY DEF Commit
<1>2. ~gameend' => ~EndReached(board', scores')
  BY <1>1
<1>3. Marked'
  BY <1>2 DEF Marked, EndReached
<1>4. turnState' = IF gameend' /\ ts.Type = "None"
                   THEN [ts EXCEPT !.ActionsLeft = 0]
                   ELSE ts
  BY DEF Commit
<1>5. [ts EXCEPT !.ActionsLeft = 0].Type = ts.Type
      /\ [ts EXCEPT !.ActionsLeft = 0].ActionsLeft = 0
  BY DEF TurnStates
<1>6. GameEndStops'
  BY <1>4, <1>5 DEF GameEndStops
<1> QED
  BY <1>3, <1>6

LEMMA EndPools ==
    ASSUME EndInv, NEW p \in Players, MayAct(p), FromPools(p)
    PROVE  GameEndStops' /\ Marked'
<1>1. /\ TypeOK /\ TypeInv /\ board \in Boards /\ Marked /\ SameOffices(board)
  BY DEF EndInv, ZoneInv, TypeInv, TypeOK, Boards, SameOffices
<1>2. ASSUME NEW shape \in Shapes, BagPiece(p, shape)
      PROVE  GameEndStops' /\ Marked'
  <2>1. MayStart \/ turnState.Type \notin {"None", "Clearing"}
    BY <1>2 DEF BagPiece, BagsTurn
  <2>2. gameend = FALSE
    BY <2>1, NotEnding
  <2>3. PICK ts : Commit(board, scores, ts)
    BY <1>2 DEF BagPiece, BagsTurn
  <2> QED
    BY <1>1, <2>2, <2>3, GoesOn
<1>3. ASSUME NEW shape \in Shapes, PayBump(p, shape)
      PROVE  GameEndStops' /\ Marked'
  <2>1. gameend = FALSE
    BY <1>3, NotEnding DEF PayBump
  <2>2. PICK ts : Commit(board, scores, ts)
    BY <1>3 DEF PayBump
  <2> QED
    BY <1>1, <2>1, <2>2, GoesOn
<1>4. ASSUME MayStart, NEW shape \in Shapes, NEW d \in SpotSquares, Place(p, shape, d)
      PROVE  GameEndStops' /\ Marked'
  <2> DEFINE ts == [Started EXCEPT !.Type = "None"]
  <2>1. ts \in TurnStates /\ ts.Type = "None"
    <3>1. Started \in TurnStates
      BY <1>1, <1>4, StartedType
    <3> QED
      BY <3>1 DEF TurnStates, TurnTypes
  <2>2. Commit(Drop(board, d, Piece(p, shape)), scores, ts)
    BY <1>4 DEF Place
  <2> HIDE DEF ts
  <2> QED
    BY <2>1, <2>2, MayReachEnd
<1>5. ASSUME MayStart, NEW shape \in Shapes, NEW d \in SpotSquares, Bump(p, shape, d)
      PROVE  GameEndStops' /\ Marked'
  <2>1. gameend = FALSE
    BY <1>5, NotEnding
  <2>2. SameOffices(Drop(board, d, Piece(p, shape)))
    BY <1>1, DropAside DEF SameOffices, PlacesAside
  <2>3. PICK ts : Commit(Drop(board, d, Piece(p, shape)), scores, ts)
    BY <1>5 DEF Bump
  <2> QED
    BY <1>1, <2>1, <2>2, <2>3, GoesOn
<1>6. ASSUME Panic
      PROVE  GameEndStops' /\ Marked'
  BY <1>6 DEF Panic, EndInv, GameEndStops, Marked, EndReached
<1> QED
  BY <1>2, <1>3, <1>4, <1>5, <1>6 DEF FromPools, BumpPanic

LEMMA EndAnswer ==
    ASSUME EndInv, NEW p \in Players, MayAct(p), Answer(p)
    PROVE  GameEndStops' /\ Marked'
<1>1. TypeOK /\ board \in Boards /\ Marked
  BY DEF EndInv, ZoneInv, TypeInv, TypeOK, Boards
<1>2. gameend = FALSE
  BY NotEnding DEF Answer
<1>3. CASE NoBumpPanic(p)
  BY <1>3 DEF NoBumpPanic, Panic, EndInv, GameEndStops, Marked, EndReached
<1>4. ASSUME NEW d \in ValidBumps(board, turnState.BumpingLocation),
             NEW shape \in Shapes,
             ReplaceFromStock(p, shape, d) \/ ReplaceFromSupply(p, shape, d)
      PROVE  GameEndStops' /\ Marked'
  <2>1. SameOffices(Drop(board, d, Piece(p, shape)))
    BY <1>1, ValidBumpFacts, DropAside DEF SameOffices, PlacesAside
  <2>2. PICK ts : Commit(Drop(board, d, Piece(p, shape)), scores, ts)
    BY <1>4 DEF ReplaceFromStock, ReplaceFromSupply
  <2> QED
    BY <1>1, <1>2, <2>1, <2>2, GoesOn
<1>5. ASSUME NEW d \in ValidBumps(board, turnState.BumpingLocation),
             NEW s \in OnRoutes(p), ReplaceFromBoard(p, s, d) \/ MoveBumped(p, s, d)
      PROVE  GameEndStops' /\ Marked'
  <2>1. SameOffices(Shift(board, s, d))
    BY <1>1, ValidBumpFacts, ShiftAside DEF SameOffices, PlacesAside
  <2>2. PICK ts : Commit(Shift(board, s, d), scores, ts)
    BY <1>5 DEF ReplaceFromBoard, MoveBumped
  <2> QED
    BY <1>1, <1>2, <2>1, <2>2, GoesOn
<1> QED
  BY <1>3, <1>4, <1>5 DEF Answer

LEMMA EndMove ==
    ASSUME EndInv, NEW p \in Players, MayAct(p), NEW s \in OnRoutes(p),
           NEW d \in SpotSquares, Move(p, s, d)
    PROVE  GameEndStops' /\ Marked'
<1>1. TypeOK /\ Marked
  BY DEF EndInv, ZoneInv, TypeInv
<1>2. MayStart \/ turnState.Type \notin {"None", "Clearing"}
  BY DEF Move, MoveTurn
<1>3. gameend = FALSE
  BY <1>2, NotEnding
<1>4. SameOffices(Shift(board, s, d))
  BY <1>1, ShiftAside DEF SameOffices, PlacesAside
<1>5. PICK ts : Commit(Shift(board, s, d), scores, ts)
  BY DEF Move, MoveTurn
<1> QED
  BY <1>1, <1>3, <1>4, <1>5, GoesOn

\* A clearing goes on or ends.
LEMMA ClearedType ==
    ASSUME NEW b, NEW ts \in TurnStates, ts.Type = "Clearing"
    PROVE  Cleared(b, ts) \in TurnStates /\ Cleared(b, ts).Type \in {"None", "Clearing"}
<1>1. [ts EXCEPT !.Type = "None", !.ClearingRouteId = 0] \in TurnStates
      /\ [ts EXCEPT !.Type = "None", !.ClearingRouteId = 0].Type = "None"
  BY BoardAssumption DEF TurnStates, TurnTypes
<1> QED
  BY <1>1 DEF Cleared

\* What commits a step that leaves its player clearing or between two actions.
QuietStep == \E b, sc : \E ts \in TurnStates :
            ts.Type \in {"None", "Clearing"} /\ Commit(b, sc, ts)

LEMMA ClearQuiet ==
    ASSUME TypeInv, NEW p \in Players, MayAct(p), Clear(p)
    PROVE  QuietStep
<1>1. TypeOK /\ TypeInv /\ turnState \in TurnStates
  BY DEF TypeInv, TypeOK
<1>2. ASSUME turnState.Type = "Clearing"
      PROVE  \A b : /\ Cleared(b, Rewarded(turnState)) \in TurnStates
                    /\ Cleared(b, Rewarded(turnState)).Type \in {"None", "Clearing"}
  <2>1. Rewarded(turnState) \in TurnStates /\ Rewarded(turnState).Type = "Clearing"
    BY <1>1, <1>2 DEF Rewarded, TurnStates, Awards
  <2> QED
    BY <2>1, ClearedType
<1>3. ASSUME turnState.Type = "Clearing", NEW s \in OnRoutes(p),
             \/ \E d \in OfficeSquares : TakeOffice(p, s, d)
             \/ \E d \in CoellenSquares : TakeCoellen(p, s, d)
      PROVE  QuietStep
  <2>1. PICK b, sc : Commit(b, sc, Cleared(b, Rewarded(turnState)))
    BY <1>3 DEF TakeOffice, TakeCoellen
  <2> QED
    BY <1>2, <1>3, <2>1 DEF QuietStep
<1>4. ASSUME turnState.Type = "Clearing", NEW s \in OnRoutes(p), ClearMore(p, s)
      PROVE  QuietStep
  <2> DEFINE new == [turnState EXCEPT !.Type = "None", !.ClearingRouteId = 0,
                                      !.ClearingCanOffice = FALSE]
  <2>1. new \in TurnStates /\ new.Type = "None"
    BY <1>1, BoardAssumption DEF TurnStates, TurnTypes
  <2>2. Commit(Lift(board, s), scores, new) \/ Commit(Lift(board, s), scores, turnState)
    BY <1>4 DEF ClearMore
  <2> HIDE DEF new
  <2> QED
    BY <1>1, <1>4, <2>1, <2>2 DEF QuietStep
<1>5. ASSUME turnState.Type = "Clearing", LevelUp(p)
      PROVE  QuietStep
  <2> DEFINE gain == GainedActions(tracks[p],
                       [tracks EXCEPT ![p][turnState.ClearingAward] = @ - 1][p])
             more == [Rewarded(turnState) EXCEPT !.ActionsLeft = @ + gain]
  <2>1. gain \in Nat
    BY DEF GainedActions
  <2>2. Rewarded(turnState) \in TurnStates /\ Rewarded(turnState).Type = "Clearing"
    BY <1>1, <1>5 DEF Rewarded, TurnStates, Awards
  <2>3. Commit(board, scores, Cleared(board, more))
    BY <1>5 DEF LevelUp
  <2> HIDE DEF gain
  <2>4. more \in TurnStates /\ more.Type = "Clearing"
    BY <2>1, <2>2 DEF TurnStates
  <2> HIDE DEF more
  <2> QED
    BY <2>3, <2>4, ClearedType DEF QuietStep
<1>6. ASSUME MayStart, NEW s \in OnRoutes(p),
             \/ \E d \in OfficeSquares : ClearToOffice(p, s, d)
             \/ ClearToStock(p, s)
      PROVE  QuietStep
  <2>1. Started \in TurnStates /\ s[2] \in Routes
    BY <1>1, <1>6, StartedType, HeldFacts
  <2>2. CASE \E d \in OfficeSquares : ClearToOffice(p, s, d)
    <3> DEFINE ts == [Rewarded(Started) EXCEPT !.Type = "Clearing",
                                               !.ClearingRouteId = s[2]]
    <3>1. Rewarded(Started) \in TurnStates
      BY <2>1 DEF Rewarded, TurnStates, Awards
    <3>2. ts \in TurnStates /\ ts.Type = "Clearing"
      BY <2>1, <3>1 DEF TurnStates, TurnTypes
    <3>3. PICK b, sc : Commit(b, sc, ts)
      BY <2>2 DEF ClearToOffice
    <3> HIDE DEF ts
    <3> QED
      BY <3>2, <3>3 DEF QuietStep
  <2>3. CASE ClearToStock(p, s)
    <3> DEFINE ts == [Started EXCEPT !.Type = "Clearing", !.ClearingRouteId = s[2],
                                     !.ClearingCanOffice = TRUE,
                                     !.ClearingAward = RouteAward(p, s)]
    <3>1. RouteAward(p, s) \in Awards
      BY <2>1, BoardAssumption DEF RouteAward, Awards
    <3>2. ts \in TurnStates /\ ts.Type = "Clearing"
      BY <2>1, <3>1 DEF TurnStates, TurnTypes
    <3>3. PICK b, sc : Commit(b, sc, ts)
      BY <2>3 DEF ClearToStock
    <3> HIDE DEF ts
    <3> QED
      BY <3>2, <3>3 DEF QuietStep
  <2> QED
    BY <1>6, <2>2, <2>3
<1> QED
  BY <1>3, <1>4, <1>5, <1>6 DEF Clear

LEMMA EndClear ==
    ASSUME EndInv, NEW p \in Players, MayAct(p), Clear(p)
    PROVE  GameEndStops' /\ Marked'
<1>1. QuietStep
  BY ClearQuiet DEF EndInv, ZoneInv
<1> QED
  BY <1>1, MayReachEnd DEF QuietStep

LEMMA EndPass ==
    ASSUME EndInv, NEW p \in Players, EndTurn(p) \/ EndBump(p)
    PROVE  GameEndStops' /\ Marked'
<1>1. UNCHANGED <<board, scores, gameend>>
  BY DEF EndTurn, EndBump
<1>2. Marked'
  BY <1>1 DEF EndInv, Marked, EndReached
<1>3. CASE EndTurn(p)
  <2>1. gameend => turnState' = turnState
    BY <1>3 DEF EndTurn
  <2> QED
    BY <1>1, <1>2, <2>1 DEF EndInv, GameEndStops
<1>4. CASE EndBump(p)
  <2>1. ~gameend
    BY <1>4 DEF EndBump, EndInv, GameEndStops
  <2> QED
    BY <1>1, <1>2, <2>1 DEF GameEndStops
<1> QED
  BY <1>2, <1>3, <1>4

LEMMA EndStep == EndInv /\ [Next]_vars => EndInv'
<1> SUFFICES ASSUME EndInv, [Next]_vars PROVE EndInv'
  OBVIOUS
<1>1. ZoneInv'
  BY ZoneStep DEF EndInv
<1>2. ASSUME NEW p \in Players, Subaction(p)
      PROVE  GameEndStops' /\ Marked'
  BY <1>2, EndPools, EndAnswer, EndMove, EndClear DEF Subaction
<1>3. CASE UNCHANGED vars \/ Panic
  BY <1>1, <1>3 DEF EndInv, GameEndStops, Marked, EndReached, vars, Panic
<1> QED
  BY <1>1, <1>2, <1>3, EndPass, NextCases DEF EndInv

LEMMA EndInit == Init => EndInv
<1> SUFFICES ASSUME Init PROVE GameEndStops /\ Marked
  BY ZoneInit DEF EndInv
<1>1. \A q \in Players : ~ (scores[q] >= EndScore)
  BY GameAssumption DEF Init
<1>2. ~ (GetFilledCityCount(board) >= EndCities)
  BY OpeningAssumption DEF Init
<1> QED
  BY <1>1, <1>2 DEF Init, GameEndStops, Marked, EndReached

\* In every game, once a score or the filled cities reach the end, the player on
\* turn may only finish the clearing that reached it (gameEndIfNecessary, and the
\* checks of gameend where an action is begun).
THEOREM NothingAfterTheEnd == Spec => []GameEndStops
<1>1. EndInv => GameEndStops
  BY DEF EndInv
<1> QED
  BY EndInit, EndStep, <1>1, PTL DEF Spec

-----------------------------------------------------------------------------
(* The bumped piece.                                                       *)

\* The spot above a bump zone.
Above(l) == <<"spot", l[2], l[3]>>

LEMMA AboveFacts ==
    ASSUME NEW l \in BumpSquares
    PROVE  /\ Above(l) \in SpotSquares /\ BumpZone(Above(l)) = l
           /\ Above(l) # l /\ l \in Squares /\ Above(l) \in Squares
           /\ l \notin SpotSquares
  BY SquareFacts DEF BumpSquares, SpotSquares, Above, BumpZone, Squares, RouteSquares

InBump == turnState.Type \in {"BumpPaying", "Bumping"}

\* A piece of q waits at l under a piece of p.
Under(b, p, q, l) ==
    /\ l \in BumpSquares /\ p # q
    /\ b[l].PlayerColor = q /\ b[Above(l)].PlayerColor = p

Waits ==
    InBump /\ ~turnState.BumpingMoved =>
        Under(board, turnState.Player, turnState.BumpingPlayer, turnState.BumpingLocation)

WaitInv == ZoneInv /\ Waits

LEMMA QuietWaits ==
    ASSUME QuietStep
    PROVE  Waits'
<1> PICK b, sc : \E ts \in TurnStates :
          ts.Type \in {"None", "Clearing"} /\ Commit(b, sc, ts)
  BY DEF QuietStep
<1>1. PICK ts \in TurnStates : ts.Type \in {"None", "Clearing"} /\ Commit(b, sc, ts)
  OBVIOUS
<1>2. turnState' = ts \/ turnState' = [ts EXCEPT !.ActionsLeft = 0]
  BY <1>1 DEF Commit
<1>3. turnState'.Type = ts.Type
  BY <1>2 DEF TurnStates
<1> QED
  BY <1>1, <1>3 DEF Waits, InBump

LEMMA CommitType ==
    ASSUME NEW b, NEW sc, NEW ts, "Type" \in DOMAIN ts, Commit(b, sc, ts)
    PROVE  turnState'.Type = ts.Type
<1>1. turnState' = ts \/ turnState' = [ts EXCEPT !.ActionsLeft = 0]
  BY DEF Commit
<1> QED
  BY <1>1

\* Bags and moves lie outside of every bump.
LEMMA BagsOrMoves ==
    ASSUME TypeInv, NEW p \in Players, NEW b,
           MayAct(p), BagsTurn(p) \/ MoveTurn(p, b)
    PROVE  Waits'
<1>1. turnState \in TurnStates /\ (MayStart => Started \in TurnStates)
  BY StartedType DEF TypeInv, TypeOK
<1>2. ASSUME BagsTurn(p)
      PROVE  turnState'.Type \in {"None", "Bags"}
  <2> DEFINE on    == [turnState EXCEPT !.BagsLeft = @ - 1,
                                        !.Type = IF turnState.BagsLeft = 1
                                                 THEN "None" ELSE @]
             begun == [Started EXCEPT !.Type = "Bags",
                                      !.BagsLeft = GetBags(tracks[p]) - 1]
  <2>1. turnState.Type = "Bags" => "Type" \in DOMAIN on /\ on.Type \in {"None", "Bags"}
    BY <1>1 DEF TurnStates
  <2>2. MayStart => "Type" \in DOMAIN begun /\ begun.Type = "Bags"
    BY <1>1 DEF TurnStates
  <2>3. \/ turnState.Type = "Bags" /\ Commit(board, scores, on)
        \/ MayStart /\ Commit(board, scores, begun)
    BY <1>2 DEF BagsTurn
  <2> HIDE DEF on, begun
  <2> QED
    BY <2>1, <2>2, <2>3, CommitType
<1>3. ASSUME MoveTurn(p, b)
      PROVE  turnState'.Type \in {"None", "Moving"}
  <2> DEFINE on    == [turnState EXCEPT !.MovesLeft = @ - 1,
                                        !.Type = IF turnState.MovesLeft = 1
                                                 THEN "None" ELSE @]
             begun == [Started EXCEPT !.Type = "Moving",
                                      !.MovesLeft = GetBooks(tracks[p]) - 1]
  <2>1. turnState.Type = "Moving"
          => "Type" \in DOMAIN on /\ on.Type \in {"None", "Moving"}
    BY <1>1 DEF TurnStates
  <2>2. MayStart => "Type" \in DOMAIN begun /\ begun.Type = "Moving"
    BY <1>1 DEF TurnStates
  <2>3. \/ turnState.Type = "Moving" /\ Commit(b, scores, on)
        \/ MayStart /\ Commit(b, scores, begun)
    BY <1>3 DEF MoveTurn
  <2> HIDE DEF on, begun
  <2> QED
    BY <2>1, <2>2, <2>3, CommitType
<1> QED
  BY <1>2, <1>3 DEF Waits, InBump

LEMMA WaitBump ==
    ASSUME WaitInv, NEW p \in Players, MayAct(p), MayStart,
           NEW shape \in Shapes, NEW d \in SpotSquares, Bump(p, shape, d)
    PROVE  Waits'
<1>1. TypeOK /\ TypeInv /\ board \in Boards
  BY DEF WaitInv, ZoneInv, TypeInv, TypeOK, Boards
<1>2. /\ d \in Squares /\ BumpZone(d) \in Squares /\ BumpZone(d) # d
      /\ BumpZone(d) \in BumpSquares /\ Above(BumpZone(d)) = d
  BY SquareFacts DEF Squares, RouteSquares, Above
<1>3. board[d] # NoPiece /\ board[d].PlayerColor # p
  BY DEF Bump, BumpAsked, Owns
<1>4. Started \in TurnStates /\ Started.Player = turnState.Player
  BY <1>1, StartedType
<1>5. turnState.Player = p
  BY DEF MayAct, MayAsk, Actor, MayStart
<1> DEFINE ts == [Started EXCEPT !.Type = "BumpPaying",
                                 !.BumpPayingCost = BumpCost(board[d]),
                                 !.BumpingPlayer = board[d].PlayerColor,
                                 !.BumpingLocation = BumpZone(d),
                                 !.BumpingMoved = FALSE,
                                 !.BumpingReplaces = BumpCost(board[d])]
<1>6. /\ ts.Type = "BumpPaying" /\ ts.Player = p
      /\ ts.BumpingPlayer = board[d].PlayerColor /\ ts.BumpingLocation = BumpZone(d)
  BY <1>4, <1>5 DEF TurnStates
<1>7. Commit(Drop(board, d, Piece(p, shape)), scores, ts)
  BY DEF Bump
<1> HIDE DEF ts
<1>8. turnState' = ts /\ board' = Drop(board, d, Piece(p, shape))
  BY <1>6, <1>7 DEF Commit
<1>9. board' = [board EXCEPT ![d] = Piece(p, shape), ![BumpZone(d)] = board[d]]
  BY <1>3, <1>8 DEF Drop
<1>10. board'[d].PlayerColor = p /\ board'[BumpZone(d)] = board[d]
  BY <1>1, <1>2, <1>9 DEF Boards, Piece
<1> QED
  BY <1>2, <1>3, <1>6, <1>8, <1>10 DEF Waits, Under

\* A step that keeps the bump, and the two pieces of it where they are.
LEMMA WaitOn ==
    ASSUME Waits, InBump, ~turnState.BumpingMoved,
           turnState'.Player = turnState.Player,
           turnState'.BumpingPlayer = turnState.BumpingPlayer,
           turnState'.BumpingLocation = turnState.BumpingLocation,
           Under(board, turnState.Player, turnState.BumpingPlayer,
                 turnState.BumpingLocation)
             => Under(board', turnState.Player, turnState.BumpingPlayer,
                      turnState.BumpingLocation)
    PROVE  Waits'
  BY DEF Waits

LEMMA WaitPay ==
    ASSUME WaitInv, NEW p \in Players, NEW shape \in Shapes, PayBump(p, shape)
    PROVE  Waits'
<1> DEFINE ts == [turnState EXCEPT !.BumpPayingCost = @ - 1,
                                   !.Type = IF turnState.BumpPayingCost = 1
                                            THEN "Bumping" ELSE @]
<1>1. turnState \in TurnStates /\ turnState.Type = "BumpPaying"
  BY DEF WaitInv, ZoneInv, TypeInv, TypeOK, PayBump
<1>2. /\ ts.Type \in {"BumpPaying", "Bumping"} /\ ts.Player = turnState.Player
      /\ ts.BumpingPlayer = turnState.BumpingPlayer
      /\ ts.BumpingLocation = turnState.BumpingLocation
      /\ ts.BumpingMoved = turnState.BumpingMoved
  BY <1>1 DEF TurnStates
<1>3. Commit(board, scores, ts)
  BY DEF PayBump
<1> HIDE DEF ts
<1>4. turnState' = ts /\ board' = board
  BY <1>2, <1>3 DEF Commit
<1> QED
  BY <1>1, <1>2, <1>4 DEF WaitInv, Waits, InBump

\* The answers to a bump use empty spots and the pieces of the bumped player
\* that lie on spots.
LEMMA UnderDrop ==
    ASSUME NEW b \in Boards, NEW p \in Players, NEW q \in Players, NEW l,
           Under(b, p, q, l), NEW d \in SpotSquares, b[d] = NoPiece, NEW x
    PROVE  Under(Drop(b, d, x), p, q, l)
<1>1. /\ l \in Squares /\ Above(l) \in Squares /\ l # d
  BY AboveFacts DEF Under
<1>2. Above(l) # d
  BY DEF Under, NoPiece, NoPlayer, Players
<1> QED
  BY <1>1, <1>2 DEF Under, Drop, Boards

LEMMA UnderLift ==
    ASSUME NEW b \in Boards, NEW p \in Players, NEW q \in Players, NEW l,
           Under(b, p, q, l), NEW s \in SpotSquares, b[s].PlayerColor = q
    PROVE  Under(Lift(b, s), p, q, l)
<1>1. /\ l \in Squares /\ Above(l) \in Squares /\ l # s
      /\ l \in BumpSquares /\ BumpZone(Above(l)) = l
      /\ Above(l) \in SpotSquares /\ Above(l) \notin BumpSquares
  BY AboveFacts, SquareFacts DEF Under
<1>2. Above(l) # s
  BY DEF Under
<1>3. BumpZone(s) # l /\ BumpZone(s) # Above(l) /\ s \in RouteSquares
  BY <1>1, <1>2, SquareFacts DEF RouteSquares
<1>4. Lift(b, s)[l] = b[l] /\ Lift(b, s)[Above(l)] = b[Above(l)]
  BY <1>1, <1>2, <1>3, LiftAt
<1> QED
  BY <1>4 DEF Under

LEMMA WaitAnswer ==
    ASSUME WaitInv, NEW p \in Players, MayAct(p), Answer(p)
    PROVE  Waits'
<1>1. /\ TypeOK /\ TypeInv /\ board \in Boards /\ turnState \in TurnStates
      /\ turnState.Player \in Players /\ Waits
  BY DEF WaitInv, ZoneInv, TypeInv, TypeOK, Boards, TurnStates
<1>2. turnState.Type = "Bumping" /\ turnState.BumpingPlayer = p
  BY DEF Answer, MayAct, MayAsk, Actor
<1>3. CASE NoBumpPanic(p)
  BY <1>1, <1>3 DEF NoBumpPanic, Panic, Waits, InBump
<1>4. ASSUME NEW b, Commit(b, scores, Replaced),
             Under(board, turnState.Player, p, turnState.BumpingLocation)
               => Under(b, turnState.Player, p, turnState.BumpingLocation)
      PROVE  Waits'
  <2>1. /\ Replaced.Type = "Bumping" /\ Replaced.Player = turnState.Player
        /\ Replaced.BumpingPlayer = p
        /\ Replaced.BumpingLocation = turnState.BumpingLocation
        /\ Replaced.BumpingMoved = turnState.BumpingMoved
    BY <1>1, <1>2 DEF Replaced, TurnStates
  <2>2. turnState' = Replaced /\ board' = b
    BY <1>4, <2>1 DEF Commit
  <2>3. CASE turnState.BumpingMoved
    BY <2>1, <2>2, <2>3 DEF Waits
  <2>4. CASE ~turnState.BumpingMoved
    BY <1>1, <1>2, <1>4, <2>1, <2>2, <2>4, WaitOn DEF InBump
  <2> QED
    BY <2>3, <2>4
<1>5. ASSUME NEW d \in ValidBumps(board, turnState.BumpingLocation)
      PROVE  d \in SpotSquares /\ d \in Squares /\ board[d] = NoPiece
  BY <1>1, ValidBumpFacts
<1>6. ASSUME NEW d \in ValidBumps(board, turnState.BumpingLocation),
             NEW shape \in Shapes,
             ReplaceFromStock(p, shape, d) \/ ReplaceFromSupply(p, shape, d)
      PROVE  Waits'
  <2>1. Commit(Drop(board, d, Piece(p, shape)), scores, Replaced)
    BY <1>6 DEF ReplaceFromStock, ReplaceFromSupply
  <2>2. Under(board, turnState.Player, p, turnState.BumpingLocation)
          => Under(Drop(board, d, Piece(p, shape)), turnState.Player, p,
                   turnState.BumpingLocation)
    BY <1>1, <1>5, UnderDrop
  <2> QED
    BY <1>4, <2>1, <2>2
<1>7. ASSUME NEW d \in ValidBumps(board, turnState.BumpingLocation),
             NEW s \in OnRoutes(p), ReplaceFromBoard(p, s, d)
      PROVE  Waits'
  <2>1. Commit(Shift(board, s, d), scores, Replaced) /\ s \in SpotSquares
    BY <1>7 DEF ReplaceFromBoard
  <2>2. board[s].PlayerColor = p /\ s \in RouteSquares /\ board[s] # NoPiece
    BY <1>1, HeldFacts DEF Pieces, NoPiece, NoPlayer, Players
  <2>3. Lift(board, s) \in Boards
    BY <1>1, <2>2, LiftType
  <2>4. Lift(board, s)[d] = NoPiece
    <3>1. d # s /\ d # BumpZone(s)
      BY <1>5, <2>1, <2>2, SquareFacts
    <3> QED
      BY <1>1, <1>5, <2>2, <3>1, LiftAt
  <2>5. Under(board, turnState.Player, p, turnState.BumpingLocation)
          => Under(Lift(board, s), turnState.Player, p, turnState.BumpingLocation)
    BY <1>1, <2>1, <2>2, UnderLift
  <2>6. Under(board, turnState.Player, p, turnState.BumpingLocation)
          => Under(Shift(board, s, d), turnState.Player, p, turnState.BumpingLocation)
    BY <1>1, <1>5, <2>3, <2>4, <2>5, UnderDrop DEF Shift
  <2> QED
    BY <1>4, <2>1, <2>6
<1>8. ASSUME NEW d, NEW s, MoveBumped(p, s, d)
      PROVE  Waits'
  <2> DEFINE ts == [turnState EXCEPT !.BumpingMoved = TRUE]
  <2>1. ts.Type = "Bumping" /\ ts.BumpingMoved
    BY <1>1, <1>2 DEF TurnStates
  <2>2. Commit(Shift(board, s, d), scores, ts)
    BY <1>8 DEF MoveBumped
  <2> HIDE DEF ts
  <2>3. turnState' = ts
    BY <2>1, <2>2 DEF Commit
  <2> QED
    BY <2>1, <2>3 DEF Waits
<1> QED
  BY <1>3, <1>6, <1>7, <1>8 DEF Answer

LEMMA WaitSubaction ==
    ASSUME WaitInv, NEW p \in Players, Subaction(p)
    PROVE  Waits'
<1>1. TypeInv /\ TypeOK /\ MayAct(p)
  BY DEF WaitInv, ZoneInv, TypeInv, Subaction
<1>2. ASSUME NEW shape \in Shapes, BagPiece(p, shape) \/ PayBump(p, shape)
      PROVE  Waits'
  BY <1>1, <1>2, BagsOrMoves, WaitPay DEF BagPiece
<1>3. ASSUME MayStart, NEW shape \in Shapes, NEW d \in SpotSquares, Place(p, shape, d)
      PROVE  Waits'
  <2> DEFINE ts == [Started EXCEPT !.Type = "None"]
  <2>1. ts \in TurnStates /\ ts.Type = "None"
    <3>1. Started \in TurnStates
      BY <1>1, <1>3, StartedType
    <3> QED
      BY <3>1 DEF TurnStates, TurnTypes
  <2>2. Commit(Drop(board, d, Piece(p, shape)), scores, ts)
    BY <1>3 DEF Place
  <2> HIDE DEF ts
  <2> QED
    BY <2>1, <2>2, QuietWaits DEF QuietStep
<1>4. ASSUME MayStart, NEW shape \in Shapes, NEW d \in SpotSquares,
             Bump(p, shape, d) \/ BumpPanic(p, shape, d)
      PROVE  Waits'
  <2>1. CASE Bump(p, shape, d)
    BY <1>1, <1>4, <2>1, WaitBump
  <2>2. CASE BumpPanic(p, shape, d)
    BY <2>2 DEF BumpPanic, Panic, WaitInv, Waits, InBump
  <2> QED
    BY <1>4, <2>1, <2>2
<1>5. CASE FromPools(p)
  BY <1>2, <1>3, <1>4, <1>5 DEF FromPools
<1>6. ASSUME NEW s \in OnRoutes(p), NEW d \in SpotSquares, Move(p, s, d)
      PROVE  Waits'
  BY <1>1, <1>6, BagsOrMoves DEF Move
<1> QED
  BY <1>1, <1>5, <1>6, WaitAnswer, ClearQuiet, QuietWaits DEF Subaction

LEMMA WaitPass ==
    ASSUME WaitInv, NEW p \in Players, EndTurn(p) \/ EndBump(p)
    PROVE  Waits'
<1>1. board' = board /\ turnState \in TurnStates
  BY DEF EndTurn, EndBump, WaitInv, ZoneInv, TypeInv, TypeOK
<1>2. CASE UNCHANGED turnState
  BY <1>1, <1>2 DEF WaitInv, Waits, InBump
<1>3. CASE turnState'.Type = "None"
  BY <1>3 DEF Waits, InBump
<1>4. turnState' = turnState \/ turnState'.Type = "None"
  <2>1. CASE EndTurn(p)
    BY <2>1 DEF EndTurn, FreshTurn
  <2>2. CASE EndBump(p)
    BY <1>1, <2>2 DEF EndBump, TurnStates
  <2> QED
    BY <2>1, <2>2
<1> QED
  BY <1>2, <1>3, <1>4

LEMMA WaitStep == WaitInv /\ [Next]_vars => WaitInv'
<1> SUFFICES ASSUME WaitInv, [Next]_vars PROVE WaitInv'
  OBVIOUS
<1>1. ZoneInv'
  BY ZoneStep DEF WaitInv
<1>2. CASE UNCHANGED vars \/ Panic
  BY <1>1, <1>2 DEF WaitInv, Waits, InBump, vars, Panic
<1> QED
  BY <1>1, <1>2, WaitSubaction, WaitPass, NextCases DEF WaitInv

LEMMA WaitInit == Init => WaitInv
<1> SUFFICES ASSUME Init PROVE Waits
  BY ZoneInit DEF WaitInv
<1> QED
  BY DEF Init, FreshTurn, Waits, InBump

\* In every game the bumped player finds the piece to be moved: whatever is paid
\* and replaced first, it lies in its bump zone under the piece that bumped it
\* until it is moved (handleDoSubaction, ApplySubaction).
THEOREM BumpedPieceFound == Spec => []BumpedPieceWaits
<1>1. WaitInv => BumpedPieceWaits
  BY DEF WaitInv, Waits, InBump, Under, Above, BumpedPieceWaits, Owns
<1> QED
  BY WaitInit, WaitStep, <1>1, PTL DEF Spec

-----------------------------------------------------------------------------
(* The mapping.                                                            *)

Phase(t) ==
    CASE t.Type = "BumpPaying" -> "paying"
      [] t.Type = "Bumping"    -> "answering"
      [] t.Type = "Clearing"   -> "clearing"
      [] OTHER                 -> "open"

Victim(t) == IF t.Type \in {"BumpPaying", "Bumping"} THEN t.BumpingPlayer ELSE NoPlayer

LEMMA PhaseFacts ==
    ASSUME NEW t
    PROVE  /\ t.Type = "BumpPaying" => Phase(t) = "paying" /\ Victim(t) = t.BumpingPlayer
           /\ t.Type = "Bumping" => Phase(t) = "answering" /\ Victim(t) = t.BumpingPlayer
           /\ t.Type = "Clearing" => Phase(t) = "clearing" /\ Victim(t) = NoPlayer
           /\ t.Type \in {"None", "Bags", "Moving"}
                => Phase(t) = "open" /\ Victim(t) = NoPlayer
  BY DEF Phase, Victim

\* The turn of the protocol stays as it is.
Same == /\ turnState'.Player = turnState.Player
        /\ Phase(turnState') = Phase(turnState)
        /\ Victim(turnState') = Victim(turnState)
        /\ turnState'.ActionsLeft = turnState.ActionsLeft
        /\ gameend' = gameend /\ status' = status

LEMMA SameStutters ==
    ASSUME Same
    PROVE  UNCHANGED Turn!vars
  BY DEF Same, Turn!vars, Phase, Victim

\* An action is begun.
Begun ==
    /\ turnState'.Player = turnState.Player
    /\ turnState'.ActionsLeft = turnState.ActionsLeft - 1
    /\ status' = status
    /\ \/ turnState'.Type \in {"None", "Bags", "Moving"} /\ gameend' = gameend
       \/ /\ turnState'.Type = "BumpPaying" /\ gameend' = gameend
          /\ turnState'.BumpingPlayer \in Players
          /\ turnState'.BumpingPlayer # turnState.Player
       \/ turnState'.Type = "Clearing" /\ gameend' \in {gameend, TRUE}

LEMMA BegunSpends ==
    ASSUME TypeOK, NEW p \in Players, MayAct(p), MayStart, Begun
    PROVE  Turn!Spend
<1>1. turnState.Type \in {"None", "Bags", "Moving"}
  BY DEF MayStart
<1>2. turnState.ActionsLeft > 0 /\ status = "Running"
  BY DEF MayStart, MayAct, MayAsk, Actor, TypeOK, TurnStates
<1>3. /\ Phase(turnState) = "open" /\ Victim(turnState) = NoPlayer
  BY <1>1, PhaseFacts
<1>4. CASE turnState'.Type \in {"None", "Bags", "Moving"} /\ gameend' = gameend
  <2>1. Phase(turnState') = "open" /\ Victim(turnState') = NoPlayer
    BY <1>4, PhaseFacts
  <2> QED
    BY <1>2, <1>3, <1>4, <2>1 DEF Begun, Turn!Spend, Phase, Victim
<1>5. CASE /\ turnState'.Type = "BumpPaying" /\ gameend' = gameend
           /\ turnState'.BumpingPlayer \in Players
           /\ turnState'.BumpingPlayer # turnState.Player
  <2>1. Phase(turnState') = "paying" /\ Victim(turnState') = turnState'.BumpingPlayer
    BY <1>5, PhaseFacts
  <2> QED
    BY <1>2, <1>3, <1>5, <2>1 DEF Begun, Turn!Spend, Phase, Victim, Players
<1>6. CASE turnState'.Type = "Clearing" /\ gameend' \in {gameend, TRUE}
  <2>1. Phase(turnState') = "clearing" /\ Victim(turnState') = NoPlayer
    BY <1>6, PhaseFacts
  <2> QED
    BY <1>2, <1>3, <1>6, <2>1 DEF Begun, Turn!Spend, Phase, Victim
<1> QED
  BY <1>4, <1>5, <1>6 DEF Begun

\* A clearing goes on or ends.
Cleans ==
    /\ turnState'.Player = turnState.Player /\ status' = status
    /\ turnState'.Type \in {"None", "Clearing"}
    /\ gameend' \in {gameend, TRUE}
    /\ IF gameend' /\ turnState'.Type = "None"
       THEN turnState'.ActionsLeft = 0
       ELSE turnState'.ActionsLeft \in {turnState.ActionsLeft, turnState.ActionsLeft + 1}

LEMMA CleansSteps ==
    ASSUME turnState.Type = "Clearing", Cleans
    PROVE  Turn!ClearStep
<1>1. Phase(turnState) = "clearing" /\ Victim(turnState) = NoPlayer
  BY PhaseFacts
<1>2. /\ Victim(turnState') = NoPlayer
      /\ turnState'.Type = "None" => Phase(turnState') = "open"
      /\ turnState'.Type = "Clearing" => Phase(turnState') = "clearing"
  BY PhaseFacts DEF Cleans
<1> QED
  BY <1>1, <1>2 DEF Cleans, Turn!ClearStep, Phase, Victim

-----------------------------------------------------------------------------
(* The steps.                                                              *)

TurnInv == WaitInv /\ EndInv

LEMMA TurnTypesHold ==
    ASSUME TurnInv
    PROVE  TypeInv /\ TypeOK /\ turnState \in TurnStates /\ board \in Boards
  BY DEF TurnInv, WaitInv, ZoneInv, TypeInv, TypeOK, Boards

\* A step that changes neither the scores nor an office leaves its turn state
\* as it is.
LEMMA Plainly ==
    ASSUME gameend = FALSE, Marked, NEW b, NEW ts, Commit(b, scores, ts), SameOffices(b)
    PROVE  gameend' = gameend /\ turnState' = ts /\ status' = status
<1>1. GetFilledCityCount(b) = GetFilledCityCount(board)
  BY FilledByOffices
<1>2. ~EndReached(b, scores)
  BY <1>1 DEF Marked, EndReached
<1> QED
  BY <1>2 DEF Commit

\* Bags and moves: an action is begun, or one that was begun goes on.
LEMMA TurnBags ==
    ASSUME TurnInv, NEW p \in Players, MayAct(p), BagsTurn(p)
    PROVE  Same \/ (MayStart /\ Begun)
<1>1. turnState \in TurnStates /\ SameOffices(board) /\ Marked
  BY TurnTypesHold DEF TurnInv, EndInv, SameOffices
<1>2. gameend = FALSE
  BY NotEnding DEF BagsTurn, TurnInv
<1>3. CASE turnState.Type = "Bags" /\ Commit(board, scores,
                 [turnState EXCEPT !.BagsLeft = @ - 1,
                                   !.Type = IF turnState.BagsLeft = 1
                                            THEN "None" ELSE @])
  <2> DEFINE ts == [turnState EXCEPT !.BagsLeft = @ - 1,
                                     !.Type = IF turnState.BagsLeft = 1
                                              THEN "None" ELSE @]
  <2>1. /\ ts.Player = turnState.Player /\ ts.ActionsLeft = turnState.ActionsLeft
        /\ ts.Type \in {"None", "Bags"}
    BY <1>1, <1>3 DEF TurnStates
  <2>2. Commit(board, scores, ts)
    BY <1>3
  <2> HIDE DEF ts
  <2>3. gameend' = gameend /\ turnState' = ts /\ status' = status
    BY <1>1, <1>2, <2>2, Plainly
  <2> QED
    BY <1>3, <2>1, <2>3, PhaseFacts DEF Same
<1>4. CASE MayStart /\ Commit(board, scores,
                 [Started EXCEPT !.Type = "Bags",
                                 !.BagsLeft = GetBags(tracks[p]) - 1])
  <2> DEFINE ts == [Started EXCEPT !.Type = "Bags",
                                   !.BagsLeft = GetBags(tracks[p]) - 1]
  <2>1. /\ Started \in TurnStates /\ Started.Player = turnState.Player
        /\ Started.ActionsLeft = turnState.ActionsLeft - 1
    BY <1>4, TurnTypesHold, StartedType
  <2>2. /\ ts.Player = turnState.Player /\ ts.ActionsLeft = turnState.ActionsLeft - 1
        /\ ts.Type = "Bags"
    BY <2>1 DEF TurnStates
  <2>3. Commit(board, scores, ts)
    BY <1>4
  <2> HIDE DEF ts
  <2>4. gameend' = gameend /\ turnState' = ts /\ status' = status
    BY <1>1, <1>2, <2>3, Plainly
  <2> QED
    BY <1>4, <2>2, <2>4 DEF Begun
<1> QED
  BY <1>3, <1>4 DEF BagsTurn

LEMMA TurnMove ==
    ASSUME TurnInv, NEW p \in Players, MayAct(p), NEW b, SameOffices(b), MoveTurn(p, b)
    PROVE  Same \/ (MayStart /\ Begun)
<1>1. turnState \in TurnStates /\ Marked
  BY TurnTypesHold DEF TurnInv, EndInv
<1>2. gameend = FALSE
  BY NotEnding DEF MoveTurn, TurnInv
<1>3. CASE turnState.Type = "Moving" /\ Commit(b, scores,
                 [turnState EXCEPT !.MovesLeft = @ - 1,
                                   !.Type = IF turnState.MovesLeft = 1
                                            THEN "None" ELSE @])
  <2> DEFINE ts == [turnState EXCEPT !.MovesLeft = @ - 1,
                                     !.Type = IF turnState.MovesLeft = 1
                                              THEN "None" ELSE @]
  <2>1. /\ ts.Player = turnState.Player /\ ts.ActionsLeft = turnState.ActionsLeft
        /\ ts.Type \in {"None", "Moving"}
    BY <1>1, <1>3 DEF TurnStates
  <2>2. Commit(b, scores, ts)
    BY <1>3
  <2> HIDE DEF ts
  <2>3. gameend' = gameend /\ turnState' = ts /\ status' = status
    BY <1>1, <1>2, <2>2, Plainly
  <2> QED
    BY <1>3, <2>1, <2>3, PhaseFacts DEF Same
<1>4. CASE MayStart /\ Commit(b, scores,
                 [Started EXCEPT !.Type = "Moving",
                                 !.MovesLeft = GetBooks(tracks[p]) - 1])
  <2> DEFINE ts == [Started EXCEPT !.Type = "Moving",
                                   !.MovesLeft = GetBooks(tracks[p]) - 1]
  <2>1. /\ Started \in TurnStates /\ Started.Player = turnState.Player
        /\ Started.ActionsLeft = turnState.ActionsLeft - 1
    BY <1>4, TurnTypesHold, StartedType
  <2>2. /\ ts.Player = turnState.Player /\ ts.ActionsLeft = turnState.ActionsLeft - 1
        /\ ts.Type = "Moving"
    BY <2>1 DEF TurnStates
  <2>3. Commit(b, scores, ts)
    BY <1>4
  <2> HIDE DEF ts
  <2>4. gameend' = gameend /\ turnState' = ts /\ status' = status
    BY <1>1, <1>2, <2>3, Plainly
  <2> QED
    BY <1>4, <2>2, <2>4 DEF Begun
<1> QED
  BY <1>3, <1>4 DEF MoveTurn

\* A piece is placed, or another one bumped.
LEMMA TurnPlace ==
    ASSUME TurnInv, NEW p \in Players, MayAct(p), MayStart,
           NEW shape \in Shapes, NEW d \in SpotSquares,
           Place(p, shape, d) \/ Bump(p, shape, d)
    PROVE  Begun
<1> DEFINE b == Drop(board, d, Piece(p, shape))
<1>1. turnState \in TurnStates /\ Marked /\ board \in Boards
  BY TurnTypesHold DEF TurnInv, EndInv
<1>2. gameend = FALSE
  BY NotEnding DEF TurnInv
<1>3. SameOffices(b)
  BY <1>1, DropAside DEF SameOffices, PlacesAside
<1>4. /\ Started \in TurnStates /\ Started.Player = turnState.Player
      /\ Started.ActionsLeft = turnState.ActionsLeft - 1
  BY TurnTypesHold, StartedType
<1> HIDE DEF b
<1>5. CASE Place(p, shape, d)
  <2> DEFINE ts == [Started EXCEPT !.Type = "None"]
  <2>1. /\ ts.Player = turnState.Player /\ ts.ActionsLeft = turnState.ActionsLeft - 1
        /\ ts.Type = "None"
    BY <1>4 DEF TurnStates
  <2>2. Commit(b, scores, ts)
    BY <1>5 DEF Place, b
  <2> HIDE DEF ts
  <2>3. gameend' = gameend /\ turnState' = ts /\ status' = status
    BY <1>1, <1>2, <1>3, <2>2, Plainly
  <2> QED
    BY <2>1, <2>3 DEF Begun
<1>6. CASE Bump(p, shape, d)
  <2> DEFINE ts == [Started EXCEPT !.Type = "BumpPaying",
                                   !.BumpPayingCost = BumpCost(board[d]),
                                   !.BumpingPlayer = board[d].PlayerColor,
                                   !.BumpingLocation = BumpZone(d),
                                   !.BumpingMoved = FALSE,
                                   !.BumpingReplaces = BumpCost(board[d])]
  <2>1. /\ ts.Player = turnState.Player /\ ts.ActionsLeft = turnState.ActionsLeft - 1
        /\ ts.Type = "BumpPaying" /\ ts.BumpingPlayer = board[d].PlayerColor
    BY <1>4 DEF TurnStates
  <2>2. Commit(b, scores, ts)
    BY <1>6 DEF Bump, b
  <2> HIDE DEF ts
  <2>3. gameend' = gameend /\ turnState' = ts /\ status' = status
    BY <1>1, <1>2, <1>3, <2>2, Plainly
  <2>4. board[d].PlayerColor \in Players /\ board[d].PlayerColor # turnState.Player
    <3>1. board[d] \in Pieces /\ board[d].PlayerColor # p
      BY <1>1, <1>6 DEF Bump, BumpAsked, Owns, Boards, Squares, RouteSquares
    <3>2. p = turnState.Player
      BY DEF MayAct, MayAsk, Actor, MayStart
    <3> QED
      BY <3>1, <3>2 DEF Pieces
  <2> QED
    BY <2>1, <2>3, <2>4 DEF Begun
<1> QED
  BY <1>5, <1>6

\* Paying for a bump.
LEMMA TurnPay ==
    ASSUME TurnInv, NEW p \in Players, MayAct(p), NEW shape \in Shapes, PayBump(p, shape)
    PROVE  Same \/ Turn!Paid
<1> DEFINE ts == [turnState EXCEPT !.BumpPayingCost = @ - 1,
                                   !.Type = IF turnState.BumpPayingCost = 1
                                            THEN "Bumping" ELSE @]
<1>1. turnState \in TurnStates /\ Marked /\ SameOffices(board)
      /\ turnState.Type = "BumpPaying"
  BY TurnTypesHold DEF TurnInv, EndInv, SameOffices, PayBump
<1>2. gameend = FALSE
  BY <1>1, NotEnding DEF TurnInv
<1>3. /\ ts.Player = turnState.Player /\ ts.ActionsLeft = turnState.ActionsLeft
      /\ ts.Type \in {"BumpPaying", "Bumping"}
      /\ ts.BumpingPlayer = turnState.BumpingPlayer
  BY <1>1 DEF TurnStates
<1>4. Commit(board, scores, ts)
  BY DEF PayBump
<1> HIDE DEF ts
<1>5. gameend' = gameend /\ turnState' = ts /\ status' = status
  BY <1>1, <1>2, <1>4, Plainly
<1>6. CASE ts.Type = "BumpPaying"
  BY <1>1, <1>3, <1>5, <1>6, PhaseFacts DEF Same
<1>7. CASE ts.Type = "Bumping"
  <2>1. /\ Phase(turnState) = "paying" /\ Phase(turnState') = "answering"
        /\ Victim(turnState') = Victim(turnState)
    BY <1>1, <1>3, <1>5, <1>7, PhaseFacts
  <2> QED
    BY <1>3, <1>5, <2>1 DEF Turn!Paid, Phase, Victim
<1> QED
  BY <1>3, <1>6, <1>7

\* Answering a bump is no step of the protocol.
LEMMA TurnAnswer ==
    ASSUME TurnInv, NEW p \in Players, MayAct(p), Answer(p)
    PROVE  Same
<1>1. /\ turnState \in TurnStates /\ Marked /\ board \in Boards /\ TypeOK
      /\ turnState.Type = "Bumping"
  BY TurnTypesHold DEF TurnInv, EndInv, Answer
<1>2. gameend = FALSE
  BY <1>1, NotEnding DEF TurnInv
<1>3. ASSUME NEW b, SameOffices(b), NEW ts, Commit(b, scores, ts),
             ts.Player = turnState.Player, ts.Type = "Bumping",
             ts.ActionsLeft = turnState.ActionsLeft,
             ts.BumpingPlayer = turnState.BumpingPlayer
      PROVE  Same
  <2>1. gameend' = gameend /\ turnState' = ts /\ status' = status
    BY <1>1, <1>2, <1>3, Plainly
  <2> QED
    BY <1>1, <1>3, <2>1, PhaseFacts DEF Same
<1>4. /\ Replaced.Player = turnState.Player /\ Replaced.Type = "Bumping"
      /\ Replaced.ActionsLeft = turnState.ActionsLeft
      /\ Replaced.BumpingPlayer = turnState.BumpingPlayer
  BY <1>1 DEF Replaced, TurnStates
<1> DEFINE moved == [turnState EXCEPT !.BumpingMoved = TRUE]
<1>5. /\ moved.Player = turnState.Player /\ moved.Type = "Bumping"
      /\ moved.ActionsLeft = turnState.ActionsLeft
      /\ moved.BumpingPlayer = turnState.BumpingPlayer
  BY <1>1 DEF TurnStates
<1>6. ASSUME NEW d \in ValidBumps(board, turnState.BumpingLocation)
      PROVE  d \in SpotSquares
  BY <1>1, ValidBumpFacts
<1>7. CASE NoBumpPanic(p)
  BY <1>7 DEF NoBumpPanic, Panic, Same
<1>8. ASSUME NEW d \in ValidBumps(board, turnState.BumpingLocation),
             NEW shape \in Shapes,
             ReplaceFromStock(p, shape, d) \/ ReplaceFromSupply(p, shape, d)
      PROVE  Same
  <2>1. SameOffices(Drop(board, d, Piece(p, shape)))
    BY <1>1, <1>6, DropAside DEF SameOffices, PlacesAside
  <2>2. Commit(Drop(board, d, Piece(p, shape)), scores, Replaced)
    BY <1>8 DEF ReplaceFromStock, ReplaceFromSupply
  <2> QED
    BY <1>3, <1>4, <2>1, <2>2
<1>9. ASSUME NEW d \in ValidBumps(board, turnState.BumpingLocation),
             NEW s \in OnRoutes(p), ReplaceFromBoard(p, s, d) \/ MoveBumped(p, s, d)
      PROVE  Same
  <2>1. SameOffices(Shift(board, s, d))
    BY <1>1, <1>6, ShiftAside DEF SameOffices, PlacesAside
  <2>2. \/ Commit(Shift(board, s, d), scores, Replaced)
        \/ Commit(Shift(board, s, d), scores, moved)
    BY <1>9 DEF ReplaceFromBoard, MoveBumped
  <2> HIDE DEF moved
  <2> QED
    BY <1>3, <1>4, <1>5, <2>1, <2>2
<1> QED
  BY <1>7, <1>8, <1>9 DEF Answer

\* Clearing a route is begun.
LEMMA TurnClearStart ==
    ASSUME TurnInv, NEW p \in Players, MayAct(p), MayStart, NEW s \in OnRoutes(p),
           \/ \E d \in OfficeSquares : ClearToOffice(p, s, d)
           \/ ClearToStock(p, s)
    PROVE  Begun
<1>1. /\ Started \in TurnStates /\ Started.Player = turnState.Player
      /\ Started.ActionsLeft = turnState.ActionsLeft - 1
      /\ gameend \in BOOLEAN
  BY TurnTypesHold, StartedType DEF TypeOK
<1>2. ASSUME NEW b, NEW sc, NEW ts, Commit(b, sc, ts), ts.Type = "Clearing",
             ts.Player = turnState.Player, ts.ActionsLeft = turnState.ActionsLeft - 1
      PROVE  Begun
  <2>1. turnState' = ts /\ status' = status /\ gameend' = (gameend \/ EndReached(b, sc))
    BY <1>2 DEF Commit
  <2>2. gameend' \in {gameend, TRUE}
    <3>1. EndReached(b, sc) \in BOOLEAN
      BY DEF EndReached
    <3> QED
      BY <1>1, <2>1, <3>1
  <2> QED
    BY <1>2, <2>1, <2>2 DEF Begun
<1>3. CASE \E d \in OfficeSquares : ClearToOffice(p, s, d)
  <2> DEFINE ts == [Rewarded(Started) EXCEPT !.Type = "Clearing",
                                             !.ClearingRouteId = s[2]]
  <2>1. /\ Rewarded(Started) \in TurnStates
        /\ Rewarded(Started).Player = turnState.Player
        /\ Rewarded(Started).ActionsLeft = turnState.ActionsLeft - 1
    BY <1>1 DEF Rewarded, TurnStates, Awards
  <2>2. /\ ts.Type = "Clearing" /\ ts.Player = turnState.Player
        /\ ts.ActionsLeft = turnState.ActionsLeft - 1
    BY <2>1 DEF TurnStates
  <2>3. PICK b, sc : Commit(b, sc, ts)
    BY <1>3 DEF ClearToOffice
  <2> HIDE DEF ts
  <2> QED
    BY <1>2, <2>2, <2>3
<1>4. CASE ClearToStock(p, s)
  <2> DEFINE ts == [Started EXCEPT !.Type = "Clearing", !.ClearingRouteId = s[2],
                                   !.ClearingCanOffice = TRUE,
                                   !.ClearingAward = RouteAward(p, s)]
  <2>1. /\ ts.Type = "Clearing" /\ ts.Player = turnState.Player
        /\ ts.ActionsLeft = turnState.ActionsLeft - 1
    BY <1>1 DEF TurnStates
  <2>2. PICK b, sc : Commit(b, sc, ts)
    BY <1>4 DEF ClearToStock
  <2> HIDE DEF ts
  <2> QED
    BY <1>2, <2>1, <2>2
<1> QED
  BY <1>3, <1>4

\* A clearing that was begun.
LEMMA TurnClearStep ==
    ASSUME TurnInv, NEW p \in Players, MayAct(p), turnState.Type = "Clearing",
           \/ \E s \in OnRoutes(p) : \/ \E d \in OfficeSquares : TakeOffice(p, s, d)
                                     \/ \E d \in CoellenSquares : TakeCoellen(p, s, d)
                                     \/ ClearMore(p, s)
           \/ LevelUp(p)
    PROVE  Cleans
<1>1. turnState \in TurnStates /\ gameend \in BOOLEAN /\ turnState.ActionsLeft \in Nat
  BY TurnTypesHold DEF TypeOK, TurnStates
<1>2. ASSUME NEW b, NEW sc, NEW ts, Commit(b, sc, ts), ts.Type \in {"None", "Clearing"},
             ts.Player = turnState.Player,
             ts.ActionsLeft \in {turnState.ActionsLeft, turnState.ActionsLeft + 1},
             [ts EXCEPT !.ActionsLeft = 0].Type = ts.Type,
             [ts EXCEPT !.ActionsLeft = 0].Player = ts.Player,
             [ts EXCEPT !.ActionsLeft = 0].ActionsLeft = 0
      PROVE  Cleans
  <2>1. /\ turnState' = IF gameend' /\ ts.Type = "None"
                        THEN [ts EXCEPT !.ActionsLeft = 0] ELSE ts
        /\ status' = status /\ gameend' = (gameend \/ EndReached(b, sc))
    BY <1>2 DEF Commit
  <2>2. gameend' \in {gameend, TRUE}
    <3>1. EndReached(b, sc) \in BOOLEAN
      BY DEF EndReached
    <3> QED
      BY <1>1, <2>1, <3>1
  <2>3. /\ turnState' \in {ts, [ts EXCEPT !.ActionsLeft = 0]}
        /\ turnState'.ActionsLeft = ts.ActionsLeft \/ turnState'.ActionsLeft = 0
        /\ turnState'.Type = ts.Type /\ turnState'.Player = ts.Player
    BY <1>2, <2>1
  <2> QED
    BY <1>2, <2>1, <2>2, <2>3 DEF Cleans
<1>3. ASSUME NEW more \in TurnStates, more.Type = "Clearing",
             more.Player = turnState.Player,
             more.ActionsLeft \in {turnState.ActionsLeft, turnState.ActionsLeft + 1},
             NEW b, NEW sc, NEW x, Commit(b, sc, Cleared(x, more))
      PROVE  Cleans
  <2> DEFINE ts == Cleared(x, more)
  <2>1. ts = more \/ ts = [more EXCEPT !.Type = "None", !.ClearingRouteId = 0]
    BY DEF Cleared
  <2>2. /\ ts.Type \in {"None", "Clearing"} /\ ts.Player = more.Player
        /\ ts.ActionsLeft = more.ActionsLeft /\ ts \in TurnStates
    <3> DEFINE done == [more EXCEPT !.Type = "None", !.ClearingRouteId = 0]
    <3>1. done \in TurnStates
      BY Zenon, BoardAssumption DEF TurnStates, TurnTypes
    <3>2. done.Type = "None" /\ done.Player = more.Player /\ done.ActionsLeft = more.ActionsLeft
      BY DEF TurnStates
    <3> HIDE DEF ts, done
    <3> QED
      BY <1>3, <2>1, <3>1, <3>2 DEF done
  <2>3. Commit(b, sc, ts)
    BY <1>3
  <2> HIDE DEF ts
  <2>4. /\ [ts EXCEPT !.ActionsLeft = 0].Type = ts.Type
        /\ [ts EXCEPT !.ActionsLeft = 0].Player = ts.Player
        /\ [ts EXCEPT !.ActionsLeft = 0].ActionsLeft = 0
    BY <2>2 DEF TurnStates
  <2> QED
    BY <1>2, <1>3, <2>2, <2>3, <2>4
<1>4. /\ Rewarded(turnState) \in TurnStates /\ Rewarded(turnState).Type = "Clearing"
      /\ Rewarded(turnState).Player = turnState.Player
      /\ Rewarded(turnState).ActionsLeft = turnState.ActionsLeft
  BY <1>1 DEF Rewarded, TurnStates, Awards
<1>5. ASSUME NEW s \in OnRoutes(p),
             \/ \E d \in OfficeSquares : TakeOffice(p, s, d)
             \/ \E d \in CoellenSquares : TakeCoellen(p, s, d)
      PROVE  Cleans
  <2>1. PICK b, sc : Commit(b, sc, Cleared(b, Rewarded(turnState)))
    BY <1>5 DEF TakeOffice, TakeCoellen
  <2> QED
    BY <1>3, <1>4, <2>1
<1>6. ASSUME NEW s \in OnRoutes(p), ClearMore(p, s)
      PROVE  Cleans
  <2> DEFINE new == [turnState EXCEPT !.Type = "None", !.ClearingRouteId = 0,
                                      !.ClearingCanOffice = FALSE]
  <2>1. /\ new \in TurnStates /\ new.Type = "None" /\ new.Player = turnState.Player
        /\ new.ActionsLeft = turnState.ActionsLeft
    BY <1>1, BoardAssumption DEF TurnStates, TurnTypes
  <2>2. PICK ts \in {new, turnState} : Commit(Lift(board, s), scores, ts)
    BY <1>6 DEF ClearMore
  <2> HIDE DEF new
  <2>3. /\ ts \in TurnStates /\ ts.Type \in {"None", "Clearing"}
        /\ ts.Player = turnState.Player /\ ts.ActionsLeft = turnState.ActionsLeft
    BY <1>1, <2>1, <2>2
  <2>4. /\ [ts EXCEPT !.ActionsLeft = 0].Type = ts.Type
        /\ [ts EXCEPT !.ActionsLeft = 0].Player = ts.Player
        /\ [ts EXCEPT !.ActionsLeft = 0].ActionsLeft = 0
    BY <2>3 DEF TurnStates
  <2> QED
    BY <1>2, <2>2, <2>3, <2>4
<1>7. CASE LevelUp(p)
  <2> DEFINE gain == GainedActions(tracks[p],
                       [tracks EXCEPT ![p][turnState.ClearingAward] = @ - 1][p])
             more == [Rewarded(turnState) EXCEPT !.ActionsLeft = @ + gain]
  <2>1. gain \in {0, 1}
    BY DEF GainedActions
  <2>2. Commit(board, scores, Cleared(board, more))
    BY <1>7 DEF LevelUp
  <2> HIDE DEF gain
  <2>3. /\ more \in TurnStates /\ more.Type = "Clearing"
        /\ more.Player = turnState.Player
        /\ more.ActionsLeft \in {turnState.ActionsLeft, turnState.ActionsLeft + 1}
    BY <1>1, <1>4, <2>1 DEF TurnStates
  <2> HIDE DEF more
  <2> QED
    BY <1>3, <2>2, <2>3
<1> QED
  BY <1>5, <1>6, <1>7

\* Every subaction is a step of the protocol or none.
Protocol == Turn!Next \/ UNCHANGED Turn!vars

LEMMA TurnSubaction ==
    ASSUME TurnInv, NEW p \in Players, Subaction(p)
    PROVE  Protocol
<1>1. TypeOK /\ MayAct(p) /\ board \in Boards
  BY TurnTypesHold DEF Subaction
<1>2. Same => Protocol
  BY SameStutters DEF Protocol
<1>3. MayStart /\ Begun => Protocol
  BY <1>1, BegunSpends DEF Protocol, Turn!Next
<1>4. ASSUME NEW shape \in Shapes, BagPiece(p, shape) \/ PayBump(p, shape)
      PROVE  Protocol
  <2>1. CASE BagPiece(p, shape)
    BY <1>1, <1>2, <1>3, <2>1, TurnBags DEF BagPiece
  <2>2. CASE PayBump(p, shape)
    BY <1>1, <1>2, <2>2, TurnPay DEF Protocol, Turn!Next
  <2> QED
    BY <1>4, <2>1, <2>2
<1>5. ASSUME MayStart, NEW shape \in Shapes, NEW d \in SpotSquares,
             Place(p, shape, d) \/ Bump(p, shape, d)
      PROVE  Protocol
  BY <1>1, <1>3, <1>5, TurnPlace
<1>6. CASE Panic
  BY <1>2, <1>6 DEF Panic, Same
<1>7. CASE FromPools(p)
  BY <1>4, <1>5, <1>6, <1>7 DEF FromPools, BumpPanic
<1>8. CASE Answer(p)
  BY <1>1, <1>2, <1>8, TurnAnswer
<1>9. ASSUME NEW s \in OnRoutes(p), NEW d \in SpotSquares, Move(p, s, d)
      PROVE  Protocol
  <2>1. SameOffices(Shift(board, s, d))
    BY <1>1, ShiftAside DEF SameOffices, PlacesAside
  <2>2. Same \/ (MayStart /\ Begun)
    BY <1>1, <1>9, <2>1, TurnMove DEF Move
  <2> QED
    BY <1>2, <1>3, <2>2
<1>10. CASE Clear(p)
  <2>1. ASSUME turnState.Type = "Clearing",
               \/ \E s \in OnRoutes(p) :
                      \/ \E d \in OfficeSquares : TakeOffice(p, s, d)
                      \/ \E d \in CoellenSquares : TakeCoellen(p, s, d)
                      \/ ClearMore(p, s)
               \/ LevelUp(p)
        PROVE  Protocol
    BY <1>1, <2>1, TurnClearStep, CleansSteps DEF Protocol, Turn!Next
  <2>2. ASSUME MayStart, NEW s \in OnRoutes(p),
               \/ \E d \in OfficeSquares : ClearToOffice(p, s, d)
               \/ ClearToStock(p, s)
        PROVE  Protocol
    BY <1>1, <1>3, <2>2, TurnClearStart
  <2> QED
    BY <1>10, <2>1, <2>2 DEF Clear
<1> QED
  BY <1>7, <1>8, <1>9, <1>10 DEF Subaction

\* The turn passes, or the bumped player is done.
LEMMA TurnPass ==
    ASSUME TurnInv, NEW p \in Players, EndTurn(p) \/ EndBump(p)
    PROVE  Protocol
<1>1. turnState \in TurnStates /\ TypeOK /\ TypeInv /\ GameEndStops
  BY TurnTypesHold DEF TurnInv, EndInv
<1>2. CASE EndBump(p)
  <2>1. /\ turnState'.Type = "None" /\ turnState'.Player = turnState.Player
        /\ turnState'.ActionsLeft = turnState.ActionsLeft
        /\ gameend' = gameend /\ status' = status /\ turnState.Type = "Bumping"
    BY <1>1, <1>2 DEF EndBump, TurnStates
  <2>2. /\ Phase(turnState) = "answering" /\ Phase(turnState') = "open"
        /\ Victim(turnState') = NoPlayer
    BY <2>1, PhaseFacts
  <2>3. Turn!Answered
    BY <2>1, <2>2 DEF Turn!Answered, Turn!Nobody, Phase, Victim, NoPlayer
  <2> QED
    BY <2>3 DEF Protocol, Turn!Next
<1>3. CASE EndTurn(p) /\ gameend
  <2>1. /\ turnState.Type = "None" /\ turnState' = turnState
        /\ gameend' = gameend /\ status' = "Scoring"
    BY <1>1, <1>3 DEF EndTurn, MayEndTurn, GameEndStops
  <2>2. Phase(turnState) = "open"
    BY <2>1, PhaseFacts
  <2>3. Turn!Finish
    BY <1>3, <2>1, <2>2 DEF Turn!Finish, Phase, Victim
  <2> QED
    BY <2>3 DEF Protocol, Turn!Next
<1>4. CASE EndTurn(p) /\ ~gameend
  <2> DEFINE next == (p + 1) % NPlayers
  <2>1. /\ turnState.Player = p /\ turnState.Type \notin {"Bumping", "Clearing"}
        /\ turnState' = FreshTurn(next, GetActions(tracks[next]))
        /\ gameend' = gameend /\ status' = status
    BY <1>4 DEF EndTurn, MayEndTurn
  <2>2. next \in Players
    <3>1. NPlayers \in Nat /\ NPlayers > 0 /\ p + 1 \in Int
      BY BoardAssumption DEF Players
    <3> QED
      BY <3>1 DEF Players
  <2>3. GetActions(tracks[next]) \in 2 .. 5
    <3>1. tracks[next] \in [TrackAwards -> Nat]
      BY <1>1, <2>2 DEF TypeOK
    <3> HIDE DEF next
    <3> QED
      BY <3>1, GetActionsRange
  <2> HIDE DEF next
  <2>4. /\ turnState'.Type = "None" /\ turnState'.Player = next
        /\ turnState'.ActionsLeft \in 2 .. 5
    BY <2>1, <2>3 DEF FreshTurn
  <2>5. /\ Phase(turnState) \in {"open", "paying"} /\ Phase(turnState') = "open"
        /\ Victim(turnState') = NoPlayer
    BY <1>1, <2>1, <2>4, PhaseFacts DEF TurnStates, TurnTypes
  <2>6. turnState'.Player = (turnState.Player + 1) % NPlayers
    BY <2>1, <2>4 DEF next
  <2>7. Turn!Pass
    BY <1>4, <2>1, <2>4, <2>5, <2>6
       DEF Turn!Pass, Turn!Nobody, Phase, Victim, NoPlayer
  <2> QED
    BY <2>7 DEF Protocol, Turn!Next
<1> QED
  BY <1>2, <1>3, <1>4

LEMMA TurnInit == Init => TurnInv /\ Turn!Init
<1>1. Init => TurnInv
  BY WaitInit, EndInit DEF TurnInv
<1>2. Init => Turn!Init
  BY DEF Init, Turn!Init, Turn!Nobody, FreshTurn, NoPlayer
<1> QED
  BY <1>1, <1>2

LEMMA TurnStep == TurnInv /\ [Next]_vars => TurnInv' /\ [Turn!Next]_(Turn!vars)
<1>1. TurnInv /\ [Next]_vars => TurnInv'
  BY WaitStep, EndStep DEF TurnInv
<1>2. TurnInv /\ [Next]_vars => [Turn!Next]_(Turn!vars)
  <2> SUFFICES ASSUME TurnInv, [Next]_vars PROVE Protocol
    BY DEF Protocol
  <2>1. CASE UNCHANGED vars \/ Panic
    <3>1. UNCHANGED <<turnState, gameend, status>>
      BY <2>1 DEF vars, Panic
    <3> QED
      BY <3>1, SameStutters DEF Protocol, Same
  <2> QED
    BY <2>1, TurnSubaction, TurnPass, NextCases
<1> QED
  BY <1>1, <1>2

\* The turn engine implements the protocol of turns: whatever the players ask
\* for, in every game turns go round, actions are spent one at a time, a bump once
\* paid is answered by its victim before the turn goes on (that it is paid first the
\* engine does not ask), and nothing begins after the end (handleDoSubaction,
\* handleEndTurn, handleEndBump).
THEOREM ImplementsTurns == Spec => TurnProtocol
  BY TurnInit, TurnStep, PTL DEF Spec, TurnProtocol, Turn!Spec

=============================================================================
