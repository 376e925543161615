--------------------------- MODULE HansaBotProofs ---------------------------
(***************************************************************************)
(* A game with a bot at the table, proved of every board, every number of  *)
(* players, every size of the player boards and any capacity of the two    *)
(* channels.                                                               *)
(*                                                                         *)
(* Whatever the bot thinks and in whatever order requests, notifications   *)
(* and answers cross, what happens to the game is what the engine allows.  *)
(***************************************************************************)
EXTENDS HansaBot, HansaTurnProofs

-----------------------------------------------------------------------------
(* The places of player boards are not on the board.                       *)

LEMMA SlotFacts ==
    ASSUME NEW l \in BotSlots
    PROVE  /\ l \notin Squares
           /\ l[1] \in {"stock", "supply"} \cup TrackAwards /\ l[2] = Bot
<1>1. l[1] \in {"stock", "supply"} \cup TrackAwards /\ l[2] = Bot
  BY DEF BotSlots, PoolSlots, TrackSlots
<1>2. \A s \in Squares : s[1] \in {"spot", "bumped", "office", "coellen"}
  BY DEF Squares, RouteSquares, SpotSquares, BumpSquares, OfficeSquares, CoellenSquares
<1> QED
  BY <1>1, <1>2 DEF TrackAwards

\* A valid request names a piece that its player has on the board.
LEMMA NamesOwn ==
    ASSUME NEW p, NEW s, Valid(p, s), s.Source \in RouteSquares
    PROVE  s.Source \in OnRoutes(p) /\ board[s.Source] = s.Piece
<1>1. s.Source \in Squares /\ s.Source \notin BotSlots
  BY SlotFacts DEF Squares
<1>2. GameTable[s.Source] = board[s.Source] /\ s.Source \in DOMAIN GameTable
  BY <1>1 DEF GameTable
<1>3. s.Piece.PlayerColor = p /\ board[s.Source] = s.Piece
  BY <1>2 DEF Valid
<1> QED
  BY <1>3 DEF OnRoutes, Owns

-----------------------------------------------------------------------------
(* Every step is one of the engine, or a panic of the bot, or leaves the   *)
(* game as it is.                                                          *)

LEMMA AskedIsSubaction ==
    ASSUME NEW p, NEW s, Valid(p, s), DoSubaction(p, s)
    PROVE  Subaction(p)
<1>1. s.Piece.Shape \in Shapes
  BY DEF Valid
<1>2. s.Source \in RouteSquares => s.Source \in OnRoutes(p)
  BY NamesOwn
<1>3. MayAct(p)
  BY DEF DoSubaction
<1>4. CASE BagPiece(p, s.Piece.Shape) \/ PayBump(p, s.Piece.Shape)
  BY <1>1, <1>3, <1>4 DEF Subaction, FromPools
<1>5. CASE /\ MayStart /\ s.Dest \in SpotSquares
           /\ \/ Place(p, s.Piece.Shape, s.Dest)
              \/ Bump(p, s.Piece.Shape, s.Dest)
              \/ BumpPanic(p, s.Piece.Shape, s.Dest)
  BY <1>1, <1>3, <1>5 DEF Subaction, FromPools
<1>6. CASE /\ turnState.Type = "Bumping"
           /\ \/ NoBumpPanic(p)
              \/ /\ s.Dest \in ValidBumps(board, turnState.BumpingLocation)
                 /\ \/ ReplaceFromStock(p, s.Piece.Shape, s.Dest)
                    \/ ReplaceFromSupply(p, s.Piece.Shape, s.Dest)
                    \/ s.Source \in RouteSquares /\ ReplaceFromBoard(p, s.Source, s.Dest)
                    \/ s.Source \in RouteSquares /\ MoveBumped(p, s.Source, s.Dest)
  BY <1>1, <1>2, <1>3, <1>6 DEF Subaction, Answer
<1>7. CASE /\ s.Source \in RouteSquares
           /\ s.Dest \in SpotSquares /\ Move(p, s.Source, s.Dest)
  BY <1>2, <1>3, <1>7 DEF Subaction
<1>8. CASE /\ s.Source \in RouteSquares
           /\ \/ s.Dest \in OfficeSquares /\ MayStart /\ ClearToOffice(p, s.Source, s.Dest)
              \/ MayStart /\ ClearToStock(p, s.Source)
  BY <1>2, <1>3, <1>8 DEF Subaction, Clear
<1>9. CASE /\ turnState.Type = "Clearing"
           /\ \/ LevelUp(p)
              \/ /\ s.Source \in RouteSquares
                 /\ \/ s.Dest \in OfficeSquares /\ TakeOffice(p, s.Source, s.Dest)
                    \/ s.Dest \in CoellenSquares /\ TakeCoellen(p, s.Source, s.Dest)
                    \/ ClearMore(p, s.Source)
  BY <1>2, <1>3, <1>9 DEF Subaction, Clear
<1> QED
  BY <1>4, <1>5, <1>6, <1>7, <1>8, <1>9 DEF DoSubaction

LEMMA AcceptedIsNext ==
    ASSUME NEW p \in Players, NEW request, Accept(p, request)
    PROVE  Next
<1>1. CASE AcceptSubaction(p, request.Subaction)
  BY <1>1, AskedIsSubaction DEF AcceptSubaction, Next
<1>2. CASE AcceptEndBump(p) \/ AcceptEndTurn(p)
  BY <1>2 DEF AcceptEndBump, AcceptEndTurn, Next
<1> QED
  BY <1>1, <1>2 DEF Accept

LEMMA OthersNext ==
    ASSUME OtherAsks
    PROVE  Next
<1>1. PICK p \in Others : \/ \E s \in Requests(p) : AcceptSubaction(p, s)
                          \/ AcceptEndBump(p)
                          \/ AcceptEndTurn(p)
                          \/ VirtualOfficePanic(p)
  BY DEF OtherAsks
<1>2. p \in Players
  BY DEF Others
<1>3. ASSUME NEW s, AcceptSubaction(p, s)
      PROVE  Next
  BY <1>2, <1>3, AskedIsSubaction DEF AcceptSubaction, Next
<1> QED
  BY <1>1, <1>2, <1>3 DEF AcceptEndBump, AcceptEndTurn, Next

\* A notification may make the bot panic, and does nothing else to the game.
LEMMA ReceivePanics ==
    ASSUME Receive
    PROVE  panicked' \in {TRUE, panicked}
<1>1. ASSUME NEW turn, PlanTurn(turn) \/ Resume(turn)
      PROVE  panicked' = panicked
  BY <1>1 DEF PlanTurn, Resume, Ignore
<1>2. ASSUME NEW t, NEW turn, PlanBump(t, turn)
      PROVE  panicked' \in {TRUE, panicked}
  BY <1>2 DEF PlanBump, MoveOnlyBumped
<1> QED
  BY <1>1, <1>2 DEF Receive, Ignore

\* A step of the engine, or a panic.
LEMMA BotSteps ==
    ASSUME [BotNext]_allVars
    PROVE  [Next \/ Panic]_vars
<1>1. CASE OtherAsks
  BY <1>1, OthersNext
<1>2. CASE BotAsks
  BY <1>2, BotAssumption, AcceptedIsNext DEF BotAsks, vars
<1>3. ASSUME NEW why, BotPanics(why)
      PROVE  Panic
  BY <1>3 DEF BotPanics, Panic
<1>4. CASE ChoosePlan
  BY <1>3, <1>4 DEF ChoosePlan, ThinkingPanics, PlayPlan, vars
<1>5. CASE ReplacePiece
  BY <1>3, <1>5 DEF ReplacePiece, ReplaceBy, ThinkingPanics, vars
<1>6. CASE AnnounceScore \/ Sent \/ ExecutePlans \/ AnswerBump \/ PutAnswer
  BY <1>6 DEF AnnounceScore, Sent, ExecutePlans, AnswerBump, PutAnswer, vars
<1>7. CASE UNCHANGED allVars
  BY <1>7 DEF allVars
<1>8. CASE Receive
  <2>1. /\ UNCHANGED <<board, stock, supply, tracks, scores, bonusroute, gameend, turnState,
                       status>>
        /\ panicked' \in {TRUE, panicked}
    BY <1>8, ReceivePanics DEF Receive
  <2> QED
    BY <2>1 DEF Panic, vars
<1> QED
  BY <1>1, <1>2, <1>4, <1>5, <1>6, <1>7, <1>8 DEF BotNext

-----------------------------------------------------------------------------
(* So the invariants of the engine hold with a bot at the table.           *)

EngineInv == RuleInv /\ CountInv /\ TurnInv

LEMMA EngineInit == Init => EngineInv
  BY InitRule, CountInit, TurnInit DEF EngineInv

\* A panic of the bot stops the process and changes nothing of the game.
LEMMA PanicKeeps ==
    ASSUME EngineInv, Panic
    PROVE  EngineInv'
<1>1. UNCHANGED <<board, stock, supply, tracks, scores, bonusroute, gameend, turnState,
                  status>>
      /\ panicked' = TRUE
  BY DEF Panic
<1>2. TypeInv'
  BY <1>1 DEF EngineInv, RuleInv, TypeInv, TypeOK, CountersInPhase, TracksShrink
<1>3. RuleInv'
  BY <1>1, <1>2 DEF EngineInv, RuleInv, PayOK, ClearOK, NoExtraActions
<1>4. ZoneInv'
  BY <1>1, <1>2 DEF EngineInv, CountInv, ZoneInv, Foreign
<1>6. CountInv'
  BY <1>1, <1>4 DEF EngineInv, CountInv, PieceConservation, OnBoard, OnTracks
<1>7. TurnInv'
  <2>1. GameEndStops' /\ Marked'
    BY <1>1 DEF EngineInv, TurnInv, EndInv, GameEndStops, Marked, EndReached,
                GetFilledCityCount, CityFilled
  <2>2. Waits'
    BY <1>1 DEF EngineInv, TurnInv, WaitInv, Waits, InBump, Under
  <2> QED
    BY <1>4, <2>1, <2>2 DEF TurnInv, EndInv, WaitInv
<1> QED
  BY <1>3, <1>6, <1>7 DEF EngineInv

LEMMA EngineStep == EngineInv /\ [BotNext]_allVars => EngineInv'
<1> SUFFICES ASSUME EngineInv, [BotNext]_allVars PROVE EngineInv'
  OBVIOUS
<1>1. CASE [Next]_vars
  BY <1>1, StepRule, CountStep, TurnStep DEF EngineInv
<1>2. CASE Panic
  BY <1>2, PanicKeeps
<1> QED
  BY <1>1, <1>2, BotSteps

\* With a bot at the table, whatever it thinks and however requests and
\* notifications cross on the two channels, everything proved of the engine
\* holds: a bot is one more client (bot.go, dispatch; game.go, handlePlayerMsg).
THEOREM EngineSafeWithBot ==
    BotSpec => [](/\ TypeOK /\ CountersInPhase /\ NoExtraActions
                  /\ BumpPayable /\ BumpZonesForeign /\ BumpedPieceWaits
                  /\ ClearingNotWedged /\ PieceConservation /\ GameEndStops)
<1>1. BotInit => EngineInv
  BY EngineInit DEF BotInit
<1>2. EngineInv => /\ TypeOK /\ CountersInPhase /\ NoExtraActions
                   /\ BumpPayable /\ BumpZonesForeign /\ BumpedPieceWaits
                   /\ ClearingNotWedged /\ PieceConservation /\ GameEndStops
  <2>1. EngineInv => /\ TypeOK /\ CountersInPhase /\ NoExtraActions
                     /\ PieceConservation /\ GameEndStops
    BY DEF EngineInv, RuleInv, TypeInv, CountInv, TurnInv, EndInv
  <2>2. EngineInv => BumpPayable /\ ClearingNotWedged
    BY DEF EngineInv, RuleInv, PayOK, ClearOK, BumpPayable, ClearingNotWedged
  <2>3. EngineInv => BumpZonesForeign
    BY DEF EngineInv, CountInv, ZoneInv, Foreign, BumpZonesForeign
  <2>4. EngineInv => BumpedPieceWaits
    BY DEF EngineInv, TurnInv, WaitInv, Waits, InBump, Under, Above, BumpedPieceWaits, Owns
  <2> QED
    BY <2>1, <2>2, <2>3, <2>4
<1> QED
  BY <1>1, <1>2, EngineStep, PTL DEF BotSpec

\* The turns of a game with a bot follow the protocol as well, nobody's pieces
\* are moved by another player, an office taken is kept, and a clearing gives one
\* reward at most (handleEndTurn, validateSubaction, handleClearToOfficeSubaction).
THEOREM TurnsWithBot ==
    BotSpec => TurnProtocol /\ OthersKeepPieces /\ OfficesKept /\ OneReward
<1>1. BotInit => EngineInv /\ Turn!Init
  BY EngineInit, TurnInit DEF BotInit
<1>2. ASSUME EngineInv, Panic
      PROVE  [Turn!Next]_(Turn!vars)
  BY <1>2, SameStutters DEF Panic, Same, Protocol
<1>3. EngineInv /\ [BotNext]_allVars => [Turn!Next]_(Turn!vars)
  BY <1>2, BotSteps, TurnStep DEF EngineInv
<1>4. EngineInv /\ [BotNext]_allVars =>
          [\A q \in Players \ {Actor} :
              /\ stock'[q] = stock[q] /\ supply'[q] = supply[q] /\ tracks'[q] = tracks[q]
              /\ \A s \in OfficeSquares \cup CoellenSquares :
                     board[s].PlayerColor = q <=> board'[s].PlayerColor = q
              /\ \A s \in SpotSquares :
                     {board[s], board[BumpZone(s)]} \cap [PlayerColor : {q}, Shape : Shapes]
                   = {board'[s], board'[BumpZone(s)]}
                         \cap [PlayerColor : {q}, Shape : Shapes]]_vars
  BY BotSteps, OthersStep DEF EngineInv, CountInv, Panic
<1>5. EngineInv /\ [BotNext]_allVars =>
          [\A d \in OfficeSquares : board'[d] # board[d] => OfficeTaken(d)]_vars
  BY BotSteps, OfficesStep DEF EngineInv, RuleInv, Panic
<1>6. ASSUME EngineInv, Panic
      PROVE  OneRewardStep
  <2>1. SameAside /\ turnState' = turnState
    BY <1>6 DEF Panic, SameAside
  <2> QED
    BY <1>6, <2>1, NoReward DEF EngineInv, RuleInv
<1>7. EngineInv /\ [BotNext]_allVars => OneRewardStep
  BY <1>6, BotSteps, RewardsStep DEF EngineInv, RuleInv
<1> QED
  BY <1>1, <1>3, <1>4, <1>5, <1>7, EngineStep, PTL
     DEF BotSpec, TurnProtocol, Turn!Spec, OthersKeepPieces, OfficesKept, OneReward,
         OneRewardStep

-----------------------------------------------------------------------------
(* What an accepted subaction does to the board, to the pieces its player  *)
(* has in stock, in supply and on the tracks, and to the slots of the bot. *)

OwnSlots(p) == {l \in BotSlots \cup OtherSlots : l[2] = p}

LEMMA PlaceFacts ==
    ASSUME NEW p \in Players, NEW l \in OwnSlots(p)
    PROVE  /\ l \notin Squares /\ l \notin SpotSquares /\ l \notin RouteSquares
           /\ l \in BotSlots <=> p = Bot
           /\ l[1] \in {"stock", "supply"} \cup TrackAwards
<1>1. CASE l \in BotSlots
  BY <1>1, SlotFacts DEF OwnSlots, Squares, RouteSquares
<1>2. CASE l \in OtherSlots
  <2>1. l[1] \in {"stock", "supply"} \cup TrackAwards /\ l[2] \in Others /\ l[2] = p
    BY <1>2 DEF OtherSlots, OwnSlots
  <2>2. p # Bot /\ l \notin BotSlots
    BY <2>1, SlotFacts DEF Others
  <2>3. \A s \in Squares : s[1] \in {"spot", "bumped", "office", "coellen"}
    BY DEF Squares, RouteSquares, SpotSquares, BumpSquares, OfficeSquares, CoellenSquares
  <2> QED
    BY <2>1, <2>2, <2>3 DEF TrackAwards, Squares, RouteSquares
<1> QED
  BY <1>1, <1>2 DEF OwnSlots

\* The board after the subaction, in the four ways there are.
BoardAfter(p, s) ==
    \/ /\ s.Source \in OwnSlots(p) /\ s.Dest \in OwnSlots(p)
       /\ board' = board
    \/ /\ s.Source \in OwnSlots(p) /\ s.Dest \in SpotSquares
       /\ ~BumpBlocked(board, s.Dest)
       /\ board' = Drop(board, s.Dest, s.Piece)
    \/ /\ s.Source \in RouteSquares /\ s.Dest \in Squares
       /\ board[s.Dest] = NoPiece
       /\ board' = Shift(board, s.Source, s.Dest)
    \/ /\ s.Source \in RouteSquares /\ s.Dest \in OwnSlots(p)
       /\ board' = Lift(board, s.Source)

\* Pieces of a shape taken from a pool, and put there.
TakenFrom(p, s, k, shape) ==
    IF s.Source \in OwnSlots(p) /\ s.Source[1] = k /\ s.Piece.Shape = shape THEN 1 ELSE 0
PutTo(p, s, k, shape) ==
    IF s.Dest \in OwnSlots(p) /\ s.Dest[1] = k /\ s.Piece.Shape = shape THEN 1 ELSE 0

PoolsAfter(p, s) ==
    \A shape \in Shapes :
        /\ stock'[p][shape] = stock[p][shape] - TakenFrom(p, s, "stock", shape)
                                              + PutTo(p, s, "stock", shape)
        /\ supply'[p][shape] = supply[p][shape] - TakenFrom(p, s, "supply", shape)
                                                + PutTo(p, s, "supply", shape)

TracksAfter(p, s) ==
    /\ tracks' = IF s.Source \in OwnSlots(p) /\ s.Source[1] \in TrackAwards
                 THEN [tracks EXCEPT ![p][s.Source[1]] = @ - 1] ELSE tracks
    /\ s.Dest \in OwnSlots(p) => s.Dest[1] \notin TrackAwards
    /\ s.Source \in OwnSlots(p) /\ s.Source[1] \in TrackAwards => tracks[p][s.Source[1]] > 0

LEMMA WhatChanges ==
    ASSUME TypeInv, NEW p \in Players, NEW s, Valid(p, s),
           DoSubaction(p, s), panicked' = FALSE
    PROVE  BoardAfter(p, s) /\ PoolsAfter(p, s) /\ TracksAfter(p, s)
<1>1. /\ stock \in [Players -> [Shapes -> Nat]] /\ supply \in [Players -> [Shapes -> Nat]]
      /\ tracks \in [Players -> [TrackAwards -> Nat]]
      /\ TypeOK
  BY DEF TypeInv, TypeOK
<1>2. /\ s.Source \in Squares \cup OwnSlots(p) /\ s.Dest \in Squares \cup OwnSlots(p)
      /\ s.Piece = Piece(p, s.Piece.Shape) /\ s.Piece.Shape \in Shapes
  BY DEF Valid, OwnSlots, Piece
<1>3. s.Source \in RouteSquares => s.Source \in OnRoutes(p) /\ board[s.Source] = s.Piece
  BY NamesOwn
<1>4. \A l \in Squares : l[1] \in {"spot", "bumped", "office", "coellen"}
  BY DEF Squares, RouteSquares, SpotSquares, BumpSquares, OfficeSquares, CoellenSquares
<1>5. \A l \in Squares \cup OwnSlots(p) :
          l[1] \in {"stock", "supply"} \cup TrackAwards => l \in OwnSlots(p)
  BY <1>4 DEF TrackAwards
<1>6. /\ SpotSquares \subseteq Squares /\ OfficeSquares \subseteq Squares
      /\ CoellenSquares \subseteq Squares /\ RouteSquares \subseteq Squares
      /\ \A l \in OwnSlots(p) : l \notin Squares
  BY PlaceFacts DEF Squares, RouteSquares
<1>7. CASE Kind(s) = <<"stock", "supply">> /\ BagPiece(p, s.Piece.Shape)
  <2>1. /\ s.Source \in OwnSlots(p) /\ s.Dest \in OwnSlots(p)
        /\ s.Source[1] = "stock" /\ s.Dest[1] = "supply"
    BY <1>2, <1>5, <1>7 DEF Kind
  <2>2. board' = board
    BY <1>7 DEF BagPiece, BagsTurn, Commit
  <2> QED
    BY <1>1, <1>2, <1>7, <2>1, <2>2
       DEF BagPiece, BoardAfter, PoolsAfter, TracksAfter, TakenFrom, PutTo, TrackAwards
<1>8. CASE Kind(s) = <<"supply", "stock">> /\ PayBump(p, s.Piece.Shape)
  <2>1. /\ s.Source \in OwnSlots(p) /\ s.Dest \in OwnSlots(p)
        /\ s.Source[1] = "supply" /\ s.Dest[1] = "stock"
    BY <1>2, <1>5, <1>8 DEF Kind
  <2>2. board' = board
    BY <1>8 DEF PayBump, Commit
  <2> QED
    BY <1>1, <1>2, <1>8, <2>1, <2>2
       DEF PayBump, BoardAfter, PoolsAfter, TracksAfter, TakenFrom, PutTo, TrackAwards
<1>9. CASE /\ s.Source[1] = "supply" /\ s.Dest \in SpotSquares
           /\ \/ Place(p, s.Piece.Shape, s.Dest)
              \/ Bump(p, s.Piece.Shape, s.Dest)
  <2>1. /\ s.Source \in OwnSlots(p) /\ s.Dest \notin OwnSlots(p)
    BY <1>2, <1>5, <1>6, <1>9
  <2>2. board' = Drop(board, s.Dest, s.Piece) /\ ~BumpBlocked(board, s.Dest)
    BY <1>2, <1>9 DEF Place, Bump, Commit, BumpBlocked
  <2> QED
    BY <1>1, <1>2, <1>9, <2>1, <2>2
       DEF Place, Bump, BoardAfter, PoolsAfter, TracksAfter, TakenFrom, PutTo, TrackAwards
<1>10. CASE BumpPanic(p, s.Piece.Shape, s.Dest) \/ NoBumpPanic(p)
  BY <1>10 DEF BumpPanic, NoBumpPanic, Panic
<1>11. CASE /\ s.Dest \in ValidBumps(board, turnState.BumpingLocation)
            /\ \/ s.Source[1] = "stock" /\ ReplaceFromStock(p, s.Piece.Shape, s.Dest)
               \/ s.Source[1] = "supply" /\ ReplaceFromSupply(p, s.Piece.Shape, s.Dest)
  <2>1. /\ s.Source \in OwnSlots(p) /\ s.Dest \notin OwnSlots(p)
        /\ s.Dest \in SpotSquares /\ board[s.Dest] = NoPiece
    BY <1>1, <1>2, <1>5, <1>6, <1>11, ValidBumpFacts
  <2>2. board' = Drop(board, s.Dest, s.Piece) /\ ~BumpBlocked(board, s.Dest)
    BY <1>2, <1>11, <2>1 DEF ReplaceFromStock, ReplaceFromSupply, Commit, BumpBlocked
  <2> QED
    BY <1>1, <1>2, <1>11, <2>1, <2>2
       DEF ReplaceFromStock, ReplaceFromSupply, BoardAfter, PoolsAfter, TracksAfter, TakenFrom,
           PutTo, TrackAwards
<1>12. ASSUME s.Source \in RouteSquares, s.Dest \in Squares, board[s.Dest] = NoPiece,
              board' = Shift(board, s.Source, s.Dest),
              UNCHANGED <<stock, supply, tracks>>
       PROVE  BoardAfter(p, s) /\ PoolsAfter(p, s) /\ TracksAfter(p, s)
  <2>1. s.Source \notin OwnSlots(p) /\ s.Dest \notin OwnSlots(p)
    BY <1>6, <1>12
  <2> QED
    BY <1>1, <1>12, <2>1 DEF BoardAfter, PoolsAfter, TracksAfter, TakenFrom, PutTo
<1>13. CASE /\ s.Dest \in ValidBumps(board, turnState.BumpingLocation)
            /\ s.Source \in RouteSquares
            /\ ReplaceFromBoard(p, s.Source, s.Dest) \/ MoveBumped(p, s.Source, s.Dest)
  BY <1>1, <1>12, <1>13, ValidBumpFacts DEF ReplaceFromBoard, MoveBumped, Commit
<1>14. CASE /\ s.Source \in RouteSquares /\ s.Dest \in SpotSquares
            /\ Move(p, s.Source, s.Dest)
  BY <1>6, <1>12, <1>14 DEF Move, MoveTurn, Commit
<1>15. CASE /\ s.Source \in RouteSquares /\ s.Dest \in OfficeSquares
            /\ ClearToOffice(p, s.Source, s.Dest) \/ TakeOffice(p, s.Source, s.Dest)
  BY <1>6, <1>12, <1>15 DEF ClearToOffice, TakeOffice, OfficeOpen, Commit
<1>16. CASE /\ s.Source \in RouteSquares /\ s.Dest \in CoellenSquares
            /\ TakeCoellen(p, s.Source, s.Dest)
  BY <1>6, <1>12, <1>16 DEF TakeCoellen, Commit
<1>17. CASE /\ s.Source \in RouteSquares /\ s.Dest[1] = "stock"
            /\ ClearToStock(p, s.Source) \/ ClearMore(p, s.Source)
  <2>1. s.Source \notin OwnSlots(p) /\ s.Dest \in OwnSlots(p)
    BY <1>2, <1>5, <1>6, <1>17
  <2>2. board' = Lift(board, s.Source)
    BY <1>17 DEF ClearToStock, ClearMore, Commit
  <2>3. /\ stock' = [stock EXCEPT ![p][s.Piece.Shape] = @ + 1]
        /\ UNCHANGED <<supply, tracks>>
    BY <1>3, <1>17 DEF ClearToStock, ClearMore
  <2> QED
    BY <1>1, <1>2, <1>17, <2>1, <2>2, <2>3
       DEF BoardAfter, PoolsAfter, TracksAfter, TakenFrom, PutTo, TrackAwards
<1>18. CASE /\ s.Source[1] = turnState.ClearingAward /\ s.Dest[1] = "supply"
            /\ LevelUp(p)
  <2>1. s.Source[1] \in TrackAwards /\ tracks[p][s.Source[1]] > 0
    BY <1>18 DEF LevelUp, CanAward
  <2>2. s.Source \in OwnSlots(p) /\ s.Dest \in OwnSlots(p)
    BY <1>2, <1>5, <1>18, <2>1
  <2>3. /\ tracks' = [tracks EXCEPT ![p][s.Source[1]] = @ - 1]
        /\ supply' = [supply EXCEPT ![p][s.Piece.Shape] = @ + 1]
        /\ stock' = stock /\ board' = board
    BY <1>18, <2>1, <2>2 DEF LevelUp, Commit, Valid
  <2> QED
    BY <1>1, <1>2, <1>18, <2>1, <2>2, <2>3
       DEF BoardAfter, PoolsAfter, TracksAfter, TakenFrom, PutTo, TrackAwards
<1> QED
  BY <1>7, <1>8, <1>9, <1>10, <1>11, <1>13, <1>14, <1>15, <1>16, <1>17, <1>18
     DEF DoSubaction

-----------------------------------------------------------------------------
(* The table of the game follows the notifications.                        *)

\* A table of a board and of the bot's slots.
Join(b, pl) == [l \in Squares \cup BotSlots |-> IF l \in BotSlots THEN pl[l] ELSE b[l]]

LEMMA JoinLift ==
    ASSUME NEW b \in Boards, NEW pl, NEW s \in RouteSquares
    PROVE  Lift(Join(b, pl), s) = Join(Lift(b, s), pl)
<1>1. s \in Squares /\ s \notin BotSlots
  BY SlotFacts DEF Squares
<1>2. s \in SpotSquares => BumpZone(s) \in Squares /\ BumpZone(s) \notin BotSlots
  BY SquareFacts, SlotFacts DEF Squares, RouteSquares
<1> QED
  BY <1>1, <1>2 DEF Lift, Join, Boards

LEMMA JoinDrop ==
    ASSUME NEW b \in Boards, NEW pl, NEW d \in Squares, NEW x,
           b[d] # NoPiece => d \in SpotSquares
    PROVE  Drop(Join(b, pl), d, x) = Join(Drop(b, d, x), pl)
<1>1. d \notin BotSlots
  BY SlotFacts
<1>2. d \in SpotSquares => BumpZone(d) \in Squares /\ BumpZone(d) \notin BotSlots
  BY SquareFacts, SlotFacts DEF Squares, RouteSquares
<1> QED
  BY <1>1, <1>2 DEF Drop, Join, Boards

\* An accepted subaction changes the game's table as ApplySubaction changes the
\* bot's: what the code does in one call, the model does in HansaGame and again in
\* HansaPlan.
LEMMA SameChange ==
    ASSUME TypeInv, NEW p \in Players, NEW s, AcceptSubaction(p, s),
           pool \in [BotSlots -> Pieces \cup {NoPiece}], panicked' = FALSE
    PROVE  GameTable' = ApplySubaction(GameTable, s)
<1> DEFINE T == GameTable
<1>1. /\ Valid(p, s) /\ BoardAfter(p, s) /\ board \in Boards
      /\ T = GameTable /\ T = Join(board, pool) /\ GameTable' = Join(board', pool')
      /\ DOMAIN T = Squares \cup BotSlots
  BY WhatChanges DEF AcceptSubaction, GameTable, Join, Boards, TypeInv, TypeOK
<1>2. pool' = [l \in BotSlots |-> CASE l = s.Source -> NoPiece
                                   [] l = s.Dest   -> s.Piece
                                   [] OTHER        -> pool[l]]
  BY DEF AcceptSubaction
<1>3. pool = [l \in BotSlots |-> pool[l]] /\ DOMAIN pool = BotSlots
  OBVIOUS
<1>4. \A l \in OwnSlots(p) : /\ l \notin Squares /\ l \notin SpotSquares
                             /\ l \in BotSlots <=> p = Bot
  BY PlaceFacts
<1>5. \A l \in Squares : l \notin BotSlots
  BY SlotFacts
<1>6. RouteSquares \subseteq Squares /\ SpotSquares \subseteq Squares
  BY DEF Squares, RouteSquares
<1> HIDE DEF T
<1>7. CASE /\ s.Source \in OwnSlots(p) /\ s.Dest \in OwnSlots(p)
           /\ board' = board
  <2>1. CASE p = Bot
    <3>1. /\ s.Source \in BotSlots /\ s.Dest \in BotSlots
          /\ pool[s.Source] = s.Piece /\ pool[s.Dest] = NoPiece /\ s.Piece # NoPiece
      BY <1>1, <1>4, <1>7, <2>1 DEF Valid, GameTable, NoPiece, NoPlayer, Players
    <3>2. pool' = [[pool EXCEPT ![s.Source] = NoPiece] EXCEPT ![s.Dest] = s.Piece]
      BY <1>2, <1>3, <3>1
    <3>3. T[s.Dest] = NoPiece
      BY <1>1, <3>1 DEF Join
    <3>4. ApplySubaction(T, s) = [[T EXCEPT ![s.Source] = NoPiece] EXCEPT ![s.Dest] = s.Piece]
      BY <1>1, <1>4, <1>7, <3>1, <3>3 DEF ApplySubaction, Lift, Drop
    <3>5. [[Join(board, pool) EXCEPT ![s.Source] = NoPiece] EXCEPT ![s.Dest] = s.Piece]
              = Join(board, pool')
      BY <1>3, <3>1, <3>2 DEF Join
    <3> QED
      BY <1>1, <1>7, <3>4, <3>5
  <2>2. CASE p # Bot
    BY <1>1, <1>2, <1>3, <1>4, <1>7, <2>2 DEF ApplySubaction
  <2> QED
    BY <2>1, <2>2
<1>8. CASE /\ s.Source \in OwnSlots(p) /\ s.Dest \in SpotSquares
           /\ ~BumpBlocked(board, s.Dest)
           /\ board' = Drop(board, s.Dest, s.Piece)
  <2>1. s.Dest \in Squares /\ s.Dest \notin BotSlots
    BY <1>5, <1>6, <1>8
  <2>2. CASE p = Bot
    <3>1. s.Source \in BotSlots /\ s.Source \notin SpotSquares
      BY <1>4, <1>8, <2>2
    <3>2. pool' = [pool EXCEPT ![s.Source] = NoPiece]
      BY <1>2, <1>3, <2>1, <3>1
    <3>3. ApplySubaction(T, s) = Drop([T EXCEPT ![s.Source] = NoPiece], s.Dest, s.Piece)
      BY <1>1, <2>1, <3>1 DEF ApplySubaction, Lift
    <3>4. [T EXCEPT ![s.Source] = NoPiece] = Join(board, pool')
      BY <1>1, <1>3, <3>1, <3>2 DEF Join
    <3>5. Drop(Join(board, pool'), s.Dest, s.Piece) = Join(board', pool')
      BY <1>1, <1>8, <2>1, JoinDrop
    <3> QED
      BY <1>1, <3>3, <3>4, <3>5
  <2>3. CASE p # Bot
    <3>1. s.Source \notin DOMAIN T /\ s.Source \notin BotSlots
      BY <1>1, <1>4, <1>8, <2>3
    <3>2. pool' = pool
      BY <1>2, <1>3, <2>1, <3>1
    <3>3. ApplySubaction(T, s) = Drop(T, s.Dest, s.Piece)
      BY <1>1, <2>1, <3>1 DEF ApplySubaction
    <3>4. Drop(Join(board, pool), s.Dest, s.Piece) = Join(board', pool)
      BY <1>1, <1>8, <2>1, JoinDrop
    <3> QED
      BY <1>1, <3>2, <3>3, <3>4
  <2> QED
    BY <2>2, <2>3
<1>9. CASE /\ s.Source \in RouteSquares /\ s.Dest \in Squares
           /\ board[s.Dest] = NoPiece
           /\ board' = Shift(board, s.Source, s.Dest)
  <2>1. /\ s.Source \notin BotSlots /\ s.Dest \notin BotSlots /\ s.Source \in Squares
        /\ board[s.Source] = s.Piece /\ s.Piece # NoPiece
    BY <1>1, <1>5, <1>6, <1>9, NamesOwn DEF Valid, NoPiece, NoPlayer, Players
  <2>2. pool' = pool
    BY <1>2, <1>3, <2>1
  <2>3. T[s.Dest] = NoPiece
    BY <1>1, <1>9, <2>1 DEF Join
  <2>4. ApplySubaction(T, s) = Drop(Lift(T, s.Source), s.Dest, s.Piece)
    BY <1>1, <1>9, <2>1, <2>3 DEF ApplySubaction
  <2>5. Lift(board, s.Source) \in Boards /\ Lift(board, s.Source)[s.Dest] = NoPiece
    <3>1. Lift(board, s.Source) \in Boards
      BY <1>1, <1>9, LiftType
    <3>2. s.Dest # s.Source
      BY <1>9, <2>1
    <3>3. s.Source \in SpotSquares => BumpZone(s.Source) \in Squares
      BY SquareFacts DEF Squares, RouteSquares
    <3> QED
      BY <1>1, <1>9, <2>1, <3>1, <3>2, <3>3 DEF Lift, Boards
  <2>6. Lift(T, s.Source) = Join(Lift(board, s.Source), pool)
    BY <1>1, <1>9, JoinLift
  <2>7. Drop(Join(Lift(board, s.Source), pool), s.Dest, s.Piece)
            = Join(Drop(Lift(board, s.Source), s.Dest, s.Piece), pool)
    BY <1>9, <2>5, JoinDrop
  <2> QED
    BY <1>1, <1>9, <2>1, <2>2, <2>4, <2>6, <2>7 DEF Shift
<1>10. CASE /\ s.Source \in RouteSquares /\ s.Dest \in OwnSlots(p)
            /\ board' = Lift(board, s.Source)
  <2>1. s.Source \notin BotSlots /\ s.Source \in Squares /\ s.Source \in DOMAIN T
    BY <1>1, <1>5, <1>6, <1>10
  <2>2. CASE p = Bot
    <3>1. s.Dest \in BotSlots /\ pool[s.Dest] = NoPiece /\ s.Dest \notin Squares
      BY <1>1, <1>4, <1>10, <2>2 DEF Valid
    <3>2. pool' = [pool EXCEPT ![s.Dest] = s.Piece]
      BY <1>2, <1>3, <2>1, <3>1
    <3>3. T[s.Dest] = NoPiece
      BY <1>1, <3>1 DEF Join
    <3>4. ApplySubaction(T, s) = Drop(Lift(T, s.Source), s.Dest, s.Piece)
      BY <1>1, <2>1, <3>1, <3>3 DEF ApplySubaction
    <3>5. Lift(T, s.Source) = Join(board', pool)
      BY <1>1, <1>10, JoinLift
    <3>6. Join(board', pool)[s.Dest] = NoPiece
      BY <3>1 DEF Join
    <3>7. ApplySubaction(T, s) = [Join(board', pool) EXCEPT ![s.Dest] = s.Piece]
      BY <3>4, <3>5, <3>6 DEF Drop
    <3>8. [Join(board', pool) EXCEPT ![s.Dest] = s.Piece] = Join(board', pool')
      BY <1>3, <3>1, <3>2 DEF Join
    <3> QED
      BY <1>1, <3>7, <3>8
  <2>3. CASE p # Bot
    <3>1. s.Dest \notin DOMAIN T /\ s.Dest \notin BotSlots
      BY <1>1, <1>4, <1>10, <2>3
    <3>2. pool' = pool
      BY <1>2, <1>3, <2>1, <3>1
    <3>3. ApplySubaction(T, s) = Lift(T, s.Source)
      BY <2>1, <3>1 DEF ApplySubaction
    <3>4. Lift(T, s.Source) = Join(board', pool)
      BY <1>1, <1>10, JoinLift
    <3> QED
      BY <1>1, <3>2, <3>3, <3>4
  <2> QED
    BY <2>2, <2>3
<1> QED
  BY <1>1, <1>7, <1>8, <1>9, <1>10 DEF BoardAfter, T

-----------------------------------------------------------------------------
(* The slots of the bot's player board hold what the engine counts.        *)

\* The slots of stock or supply that hold piece x.
SlotsWith(pl, k, x) == {i \in 1 .. NSlots : pl[<<k, Bot, i>>] = x}

Pools2 == {"stock", "supply"}

SlotTypes ==
    /\ pool \in [BotSlots -> Pieces \cup {NoPiece}]
    /\ \A l \in BotSlots : pool[l] # NoPiece => \E shape \in Shapes : pool[l] = Mine(shape)

\* A track is freed from the left, piece by piece.
TrackSlotsFit ==
    \A a \in TrackAwards : \A i \in 1 .. StartTrack[a] :
        pool[<<a, Bot, i>>] = IF i <= StartTrack[a] - tracks[Bot][a]
                              THEN NoPiece ELSE Mine(TrackShape(a))

PoolSlotsFit ==
    \A shape \in Shapes :
        /\ stock[Bot][shape] = Cardinality(SlotsWith(pool, "stock", Mine(shape)))
        /\ supply[Bot][shape] = Cardinality(SlotsWith(pool, "supply", Mine(shape)))

SlotsFit == SlotTypes /\ TrackSlotsFit /\ PoolSlotsFit

LEMMA SlotPlaces ==
    /\ \A k \in Pools2 : \A i \in 1 .. NSlots : <<k, Bot, i>> \in OwnSlots(Bot)
    /\ \A a \in TrackAwards : \A i \in 1 .. StartTrack[a] : <<a, Bot, i>> \in OwnSlots(Bot)
    /\ \A l \in OwnSlots(Bot) :
           /\ l \in BotSlots
           /\ \/ l[1] \in Pools2 /\ l[3] \in 1 .. NSlots
              \/ l[1] \in TrackAwards /\ l[3] \in 1 .. StartTrack[l[1]]
           /\ l = <<l[1], Bot, l[3]>>
<1>1. \A l \in OwnSlots(Bot) : l \in BotSlots
  BY PlaceFacts, BotAssumption
<1>2. \A l \in BotSlots : l \in OwnSlots(Bot) <=> l[2] = Bot
  BY DEF OwnSlots
<1> QED
  BY <1>1, <1>2 DEF BotSlots, PoolSlots, TrackSlots, Pools2

LEMMA SlotsAfter ==
    ASSUME SlotTypes, NEW s, AcceptSubaction(Bot, s),
           NEW k \in Pools2, NEW shape \in Shapes
    PROVE  LET N == Cardinality(SlotsWith(pool, k, Mine(shape)))
           IN  /\ N \in Nat
               /\ Cardinality(SlotsWith(pool', k, Mine(shape)))
                      = N - TakenFrom(Bot, s, k, shape) + PutTo(Bot, s, k, shape)
<1> DEFINE N == SlotsWith(pool, k, Mine(shape))
           M == SlotsWith(pool', k, Mine(shape))
           A == {i \in N : <<k, Bot, i>> # s.Source}
<1>1. /\ pool' = [l \in BotSlots |-> CASE l = s.Source -> NoPiece
                                      [] l = s.Dest   -> s.Piece
                                      [] OTHER        -> pool[l]]
      /\ Valid(Bot, s)
  BY DEF AcceptSubaction
<1>2. /\ s.Piece \in [PlayerColor : {Bot}, Shape : Shapes]
      /\ s.Source \in OwnSlots(Bot) => pool[s.Source] = s.Piece
      /\ s.Dest \in OwnSlots(Bot) => pool[s.Dest] = NoPiece
      /\ \A l \in BotSlots \cap {s.Source, s.Dest} : l \in OwnSlots(Bot)
  BY <1>1, SlotPlaces, SlotFacts DEF Valid, GameTable, OwnSlots
<1>3. /\ \A i \in 1 .. NSlots : <<k, Bot, i>> \in OwnSlots(Bot) /\ <<k, Bot, i>> \in BotSlots
      /\ \A l \in OwnSlots(Bot) : l[1] = k => l[3] \in 1 .. NSlots /\ l = <<k, Bot, l[3]>>
  BY SlotPlaces DEF Pools2, TrackAwards
<1>4. /\ Mine(shape) # NoPiece
      /\ s.Piece.Shape = shape <=> s.Piece = Mine(shape)
  BY <1>2, BotAssumption DEF Mine, Piece, NoPiece, NoPlayer, Players
<1>5. IsFiniteSet(N) /\ Cardinality(N) \in Nat
  <2>1. IsFiniteSet(1 .. NSlots)
    <3>1. 1 \in Int /\ NSlots \in Int
      BY BotAssumption
    <3> QED
      BY <3>1, FS_Interval
  <2>2. N \subseteq 1 .. NSlots
    BY DEF SlotsWith
  <2> QED
    BY <2>1, <2>2, FS_Subset, FS_CardinalityType
<1>6. IsFiniteSet(A) /\ Cardinality(A) = Cardinality(N) - TakenFrom(Bot, s, k, shape)
  <2>1. CASE TakenFrom(Bot, s, k, shape) = 1
    <3>1. s.Source \in OwnSlots(Bot) /\ s.Source[1] = k /\ s.Piece = Mine(shape)
      BY <2>1, <1>4 DEF TakenFrom
    <3>2. s.Source[3] \in N /\ A = N \ {s.Source[3]}
      BY <1>2, <1>3, <3>1 DEF SlotsWith
    <3> HIDE DEF N, A
    <3>3. IsFiniteSet(A) /\ Cardinality(A) = Cardinality(N) - 1
      BY <1>5, <3>2, FS_RemoveElement
    <3> QED
      BY <2>1, <3>3
  <2>2. CASE TakenFrom(Bot, s, k, shape) = 0
    <3>1. ASSUME NEW i \in N, <<k, Bot, i>> = s.Source
          PROVE  FALSE
      <4>1. i \in 1 .. NSlots /\ pool[<<k, Bot, i>>] = Mine(shape)
        BY <3>1 DEF SlotsWith
      <4>2. s.Source \in OwnSlots(Bot) /\ s.Source[1] = k /\ s.Piece = Mine(shape)
        BY <1>2, <1>3, <3>1, <4>1
      <4> QED
        BY <1>4, <2>2, <4>2 DEF TakenFrom
    <3>2. A = N
      BY <3>1
    <3> HIDE DEF N, A
    <3> QED
      BY <1>5, <2>2, <3>2
  <2> QED
    BY <2>1, <2>2 DEF TakenFrom
<1>7. \A i \in 1 .. NSlots :
          i \in M <=> i \in A \/ (<<k, Bot, i>> = s.Dest /\ s.Piece = Mine(shape))
  <2> SUFFICES ASSUME NEW i \in 1 .. NSlots
               PROVE  pool'[<<k, Bot, i>>] = Mine(shape) <=>
                          \/ pool[<<k, Bot, i>>] = Mine(shape) /\ <<k, Bot, i>> # s.Source
                          \/ <<k, Bot, i>> = s.Dest /\ s.Piece = Mine(shape)
    BY DEF SlotsWith
  <2> DEFINE l == <<k, Bot, i>>
  <2>1. l \in BotSlots /\ l \in OwnSlots(Bot)
    BY <1>3
  <2>2. l = s.Source => l # s.Dest
    BY <1>2, <1>4, <2>1, BotAssumption DEF NoPiece, NoPlayer, Players
  <2>3. l = s.Dest => pool[l] # Mine(shape)
    BY <1>2, <1>4, <2>1
  <2>4. pool'[l] = CASE l = s.Source -> NoPiece
                     [] l = s.Dest   -> s.Piece
                     [] OTHER        -> pool[l]
    BY <1>1, <2>1
  <2> HIDE DEF l
  <2>5. pool'[l] = Mine(shape) <=> ((pool[l] = Mine(shape) /\ l # s.Source)
                                    \/ (l = s.Dest /\ s.Piece = Mine(shape)))
    BY <1>4, <2>2, <2>3, <2>4
  <2> QED
    BY <2>5 DEF l
<1>8. ASSUME PutTo(Bot, s, k, shape) = 1
      PROVE  Cardinality(M) = Cardinality(N) - TakenFrom(Bot, s, k, shape)
                                             + PutTo(Bot, s, k, shape)
  <2>1. s.Dest \in OwnSlots(Bot) /\ s.Dest[1] = k /\ s.Piece = Mine(shape)
    BY <1>4, <1>8 DEF PutTo
  <2>2. s.Dest[3] \in 1 .. NSlots /\ s.Dest = <<k, Bot, s.Dest[3]>>
    BY <1>3, <2>1
  <2>3. s.Dest[3] \notin A
    BY <1>2, <1>4, <2>1, <2>2 DEF SlotsWith
  <2>4. M = A \cup {s.Dest[3]}
    BY <1>7, <2>1, <2>2 DEF SlotsWith
  <2>5. Cardinality(M) = Cardinality(A) + 1
    BY <1>6, <2>3, <2>4, FS_AddElement
  <2> HIDE DEF N, A, M
  <2>6. Cardinality(M) = Cardinality(N) - TakenFrom(Bot, s, k, shape) + 1
    BY <1>6, <2>5
  <2> QED
    BY <1>5, <1>8, <2>6
<1>9. ASSUME PutTo(Bot, s, k, shape) = 0
      PROVE  Cardinality(M) = Cardinality(N) - TakenFrom(Bot, s, k, shape)
                                             + PutTo(Bot, s, k, shape)
  <2>1. ASSUME NEW i \in 1 .. NSlots, <<k, Bot, i>> = s.Dest, s.Piece = Mine(shape)
        PROVE  FALSE
    BY <1>3, <1>4, <1>9, <2>1 DEF PutTo
  <2>2. M = A
    BY <1>7, <2>1 DEF SlotsWith
  <2>3. Cardinality(N) - TakenFrom(Bot, s, k, shape) \in Int
    BY <1>5 DEF TakenFrom
  <2> HIDE DEF N, A, M
  <2>4. Cardinality(M) = Cardinality(N) - TakenFrom(Bot, s, k, shape) + 0
    BY <1>6, <2>2, <2>3
  <2> QED
    BY <1>5, <1>9, <2>4
<1>10. PutTo(Bot, s, k, shape) \in {0, 1}
  BY DEF PutTo
<1> HIDE DEF N, M
<1>11. /\ Cardinality(N) \in Nat
       /\ Cardinality(M) = Cardinality(N) - TakenFrom(Bot, s, k, shape) + PutTo(Bot, s, k, shape)
  BY <1>5, <1>8, <1>9, <1>10
<1> QED
  BY <1>11 DEF N, M

LEMMA IntervalSize ==
    \A a, b \in Int : /\ IsFiniteSet(a .. b)
                       /\ Cardinality(a .. b) = IF a > b THEN 0 ELSE b - a + 1
BY FS_Interval

LEMMA SlotsInit == BotInit => SlotsFit
<1> SUFFICES ASSUME BotInit PROVE SlotsFit
  OBVIOUS
<1>1. pool = StartPool /\ Init /\ Bot \in Players /\ NSlots \in Nat
  BY BotAssumption DEF BotInit
<1>2. \A shape \in Shapes : Mine(shape) \in Pieces
  BY <1>1 DEF Mine, Piece, Pieces
<1>3. /\ StartSupply(Bot) \in 0 .. StartCubes /\ StartCubes \in Nat
      /\ StartCubes + 1 <= NSlots
  <2>1. StartPieces("Cube") + StartPieces("Disc") >= StartCubes + 1
    BY GameAssumption DEF StartPieces, OnTracks, TrackAwards
  <2>2. /\ StartSupply(Bot) \in 0 .. StartCubes /\ StartCubes \in Nat
        /\ StartPieces("Cube") \in Nat /\ StartPieces("Disc") \in Nat
    BY <1>1, GameAssumption, BoardAssumption
       DEF StartSupply, Players, StartPieces, OnTracks, TrackAwards
  <2> QED
    BY <1>1, <2>1, <2>2, BotAssumption
<1>4. SlotTypes
  <2>1. \A l \in BotSlots :
            \/ pool[l] = NoPiece
            \/ \E shape \in Shapes : pool[l] = Mine(shape)
    <3> SUFFICES ASSUME NEW l \in BotSlots
                 PROVE  \/ StartPool[l] = NoPiece
                        \/ \E shape \in Shapes : StartPool[l] = Mine(shape)
      BY <1>1
    <3>1. /\ "Cube" \in Shapes /\ "Disc" \in Shapes
          /\ l[1] \in TrackAwards => TrackShape(l[1]) \in Shapes
      BY DEF Shapes, TrackShape
    <3> QED
      BY <3>1 DEF StartPool
  <2>2. pool = [l \in BotSlots |-> pool[l]]
    BY <1>1 DEF StartPool
  <2> QED
    BY <1>2, <2>1, <2>2 DEF SlotTypes
<1>5. TrackSlotsFit
  <2> SUFFICES ASSUME NEW a \in TrackAwards, NEW i \in 1 .. StartTrack[a]
               PROVE  pool[<<a, Bot, i>>] = IF i <= StartTrack[a] - tracks[Bot][a]
                                            THEN NoPiece ELSE Mine(TrackShape(a))
    BY DEF TrackSlotsFit
  <2>1. tracks[Bot][a] = StartTrack[a] /\ StartTrack[a] \in Nat
    BY <1>1, GameAssumption DEF Init
  <2>2. <<a, Bot, i>> \in BotSlots
    BY DEF BotSlots, TrackSlots
  <2>3. pool[<<a, Bot, i>>] = Mine(TrackShape(a))
    BY <1>1, <2>2 DEF StartPool, TrackAwards
  <2> QED
    BY <2>1, <2>3
<1>6. PoolSlotsFit
  <2>1. \A k \in Pools2 : \A i \in 1 .. NSlots : <<k, Bot, i>> \in BotSlots
    BY DEF BotSlots, PoolSlots, Pools2
  <2>2. Mine("Cube") # Mine("Disc") /\ \A shape \in Shapes : Mine(shape) # NoPiece
    BY <1>1 DEF Mine, Piece, NoPiece, NoPlayer, Players
  <2>3. \A i \in 1 .. NSlots :
            /\ pool[<<"stock", Bot, i>>] =
                   IF i <= StartCubes - StartSupply(Bot) THEN Mine("Cube") ELSE NoPiece
            /\ pool[<<"supply", Bot, i>>] =
                   IF i = 1 THEN Mine("Disc")
                   ELSE IF i <= StartSupply(Bot) + 1 THEN Mine("Cube") ELSE NoPiece
    BY <1>1, <1>3, <2>1 DEF StartPool, Pools2, TrackAwards
  <2>4. /\ SlotsWith(pool, "stock", Mine("Disc")) = {}
        /\ SlotsWith(pool, "stock", Mine("Cube")) = 1 .. StartCubes - StartSupply(Bot)
        /\ SlotsWith(pool, "supply", Mine("Disc")) = {1}
        /\ SlotsWith(pool, "supply", Mine("Cube")) = 2 .. StartSupply(Bot) + 1
    <3> DEFINE st == StartCubes - StartSupply(Bot)  su == StartSupply(Bot) + 1
    <3>0. st \in 0 .. NSlots /\ su \in 1 .. NSlots /\ NSlots \in Nat
      BY <1>1, <1>3
    <3> HIDE DEF st, su
    <3>1. \A i \in 1 .. NSlots :
              /\ pool[<<"stock", Bot, i>>] # Mine("Disc")
              /\ pool[<<"stock", Bot, i>>] = Mine("Cube") <=> i <= st
              /\ pool[<<"supply", Bot, i>>] = Mine("Disc") <=> i = 1
              /\ pool[<<"supply", Bot, i>>] = Mine("Cube") <=> i # 1 /\ i <= su
      BY <2>2, <2>3 DEF st, su, Shapes
    <3>2. SlotsWith(pool, "stock", Mine("Disc")) = {}
      BY <3>1 DEF SlotsWith
    <3>3. SlotsWith(pool, "stock", Mine("Cube")) = 1 .. st
      <4>1. {i \in 1 .. NSlots : i <= st} = 1 .. st
        BY <3>0
      <4> QED
        BY <3>1, <4>1 DEF SlotsWith
    <3>4. SlotsWith(pool, "supply", Mine("Disc")) = {1}
      <4>1. {i \in 1 .. NSlots : i = 1} = {1}
        BY <3>0
      <4> QED
        BY <3>1, <4>1 DEF SlotsWith
    <3>5. SlotsWith(pool, "supply", Mine("Cube")) = 2 .. su
      <4>1. {i \in 1 .. NSlots : i # 1 /\ i <= su} = 2 .. su
        BY <3>0
      <4> QED
        BY <3>1, <4>1 DEF SlotsWith
    <3> QED
      BY <3>2, <3>3, <3>4, <3>5 DEF st, su
  <2>5. /\ Cardinality({}) = 0 /\ Cardinality({1}) = 1
        /\ Cardinality(1 .. StartCubes - StartSupply(Bot)) = StartCubes - StartSupply(Bot)
        /\ Cardinality(2 .. StartSupply(Bot) + 1) = StartSupply(Bot)
    <3>1. Cardinality({}) = 0 /\ Cardinality({1}) = 1
      BY FS_EmptySet, FS_Singleton
    <3> DEFINE n == StartCubes - StartSupply(Bot)  m == StartSupply(Bot) + 1
    <3>2. n \in Nat /\ m \in Nat \ {0} /\ m - 1 = StartSupply(Bot) /\ 1 \in Int /\ 2 \in Int
      BY <1>3
    <3> HIDE DEF n, m
    <3>3. n \in Int /\ m \in Int
      BY <3>2
    <3>4. /\ Cardinality(1 .. n) = IF 1 > n THEN 0 ELSE n - 1 + 1
          /\ Cardinality(2 .. m) = IF 2 > m THEN 0 ELSE m - 2 + 1
      BY <3>2, <3>3, IntervalSize
    <3>5. Cardinality(1 .. n) = n /\ Cardinality(2 .. m) = m - 1
      BY <3>2, <3>4
    <3> QED
      BY <3>1, <3>2, <3>5 DEF n, m
  <2>6. /\ stock[Bot]["Disc"] = 0 /\ stock[Bot]["Cube"] = StartCubes - StartSupply(Bot)
        /\ supply[Bot]["Disc"] = 1 /\ supply[Bot]["Cube"] = StartSupply(Bot)
    BY <1>1 DEF Init, Shapes
  <2> QED
    BY <2>4, <2>5, <2>6 DEF PoolSlotsFit, Shapes
<1> QED
  BY <1>4, <1>5, <1>6 DEF SlotsFit

-----------------------------------------------------------------------------
\* An accepted subaction of the bot itself.
LEMMA BotKeepsSlots ==
    ASSUME EngineInv, SlotsFit, NEW s, AcceptSubaction(Bot, s), panicked' = FALSE
    PROVE  SlotsFit'
<1>1. /\ Valid(Bot, s) /\ DoSubaction(Bot, s) /\ Bot \in Players
      /\ pool' = [l \in BotSlots |-> CASE l = s.Source -> NoPiece
                                      [] l = s.Dest   -> s.Piece
                                      [] OTHER        -> pool[l]]
  BY BotAssumption DEF AcceptSubaction
<1>2. PoolsAfter(Bot, s) /\ TracksAfter(Bot, s)
  BY <1>1, WhatChanges DEF EngineInv, RuleInv
<1>3. \E shape \in Shapes : s.Piece = Mine(shape)
  BY <1>1 DEF Valid, Mine, Piece
<1>4. SlotTypes'
  <2>1. \A shape \in Shapes : Mine(shape) \in Pieces
    BY <1>1 DEF Mine, Piece, Pieces
  <2>2. \A l \in BotSlots : pool'[l] = NoPiece \/ \E shape \in Shapes : pool'[l] = Mine(shape)
    BY <1>1, <1>3 DEF SlotsFit, SlotTypes
  <2>3. pool' = [l \in BotSlots |-> pool'[l]]
    BY <1>1
  <2> QED
    BY <2>1, <2>2, <2>3 DEF SlotTypes
<1>5. PoolSlotsFit'
  <2> SUFFICES ASSUME NEW shape \in Shapes
               PROVE  /\ stock'[Bot][shape]
                            = Cardinality(SlotsWith(pool', "stock", Mine(shape)))
                      /\ supply'[Bot][shape]
                            = Cardinality(SlotsWith(pool', "supply", Mine(shape)))
    BY DEF PoolSlotsFit
  <2>1. "stock" \in Pools2 /\ "supply" \in Pools2 /\ SlotTypes
    BY DEF Pools2, SlotsFit
  <2>2. /\ stock[Bot][shape] = Cardinality(SlotsWith(pool, "stock", Mine(shape)))
        /\ supply[Bot][shape] = Cardinality(SlotsWith(pool, "supply", Mine(shape)))
    BY DEF SlotsFit, PoolSlotsFit
  <2>3. Cardinality(SlotsWith(pool', "stock", Mine(shape)))
            = stock[Bot][shape] - TakenFrom(Bot, s, "stock", shape) + PutTo(Bot, s, "stock", shape)
    BY <2>1, <2>2, SlotsAfter
  <2>4. Cardinality(SlotsWith(pool', "supply", Mine(shape)))
            = supply[Bot][shape] - TakenFrom(Bot, s, "supply", shape)
                                 + PutTo(Bot, s, "supply", shape)
    BY <2>1, <2>2, SlotsAfter
  <2> QED
    BY <1>2, <2>3, <2>4 DEF PoolsAfter
<1>6. TrackSlotsFit'
  <2> SUFFICES ASSUME NEW a \in TrackAwards, NEW i \in 1 .. StartTrack[a]
               PROVE  pool'[<<a, Bot, i>>] = IF i <= StartTrack[a] - tracks'[Bot][a]
                                             THEN NoPiece ELSE Mine(TrackShape(a))
    BY DEF TrackSlotsFit
  <2>1. \A j \in 1 .. StartTrack[a] :
            /\ <<a, Bot, j>> \in OwnSlots(Bot) /\ <<a, Bot, j>> \in BotSlots
            /\ pool[<<a, Bot, j>>] = IF j <= StartTrack[a] - tracks[Bot][a]
                                     THEN NoPiece ELSE Mine(TrackShape(a))
    BY SlotPlaces DEF SlotsFit, TrackSlotsFit
  <2>2. /\ tracks \in [Players -> [TrackAwards -> Nat]]
        /\ tracks[Bot][a] \in Nat /\ StartTrack[a] \in Nat
        /\ tracks[Bot][a] <= StartTrack[a]
    BY <1>1, GameAssumption DEF EngineInv, RuleInv, TypeInv, TypeOK, TracksShrink
  <2>3. <<a, Bot, i>> # s.Dest
    <3> DEFINE l == <<a, Bot, i>>
    <3>1. l \in OwnSlots(Bot) /\ l[1] = a
      BY <2>1
    <3> HIDE DEF l
    <3>2. l # s.Dest
      BY <1>2, <3>1 DEF TracksAfter
    <3> QED
      BY <3>2 DEF l
  <2>4. CASE s.Source \in OwnSlots(Bot) /\ s.Source[1] = a
    <3>1. s.Source[3] \in 1 .. StartTrack[a] /\ s.Source = <<a, Bot, s.Source[3]>>
      BY <2>4, SlotPlaces DEF Pools2, TrackAwards
    <3>2. s.Source \in TrackSlots /\ s.Source \in BotSlots /\ s.Source[1] = a
      BY <2>1, <3>1 DEF TrackSlots
    <3>3. pool[s.Source] # NoPiece
      BY <1>1, <1>3, <3>2 DEF Valid, GameTable, Mine, Piece, NoPiece, NoPlayer, Players
    <3>4. \A j \in 1 .. s.Source[3] - 1 : pool[<<a, Bot, j>>] = NoPiece
      BY <1>1, <3>2 DEF Valid
    <3>5. Mine(TrackShape(a)) # NoPiece
      BY <1>1 DEF Mine, Piece, NoPiece, NoPlayer, Players
    <3> DEFINE n == s.Source[3]  free == StartTrack[a] - tracks[Bot][a]
    <3>6. n > free
      <4>1. pool[<<a, Bot, n>>] = IF n <= free THEN NoPiece ELSE Mine(TrackShape(a))
        BY <2>1, <3>1
      <4>2. pool[<<a, Bot, n>>] # NoPiece
        BY <3>1, <3>3
      <4>3. n \in Int /\ free \in Int
        BY <2>2, <3>1
      <4> HIDE DEF n, free
      <4> QED
        BY <4>1, <4>2, <4>3
    <3>7. n <= free + 1
      <4> SUFFICES ASSUME n > free + 1 PROVE FALSE
        BY <2>2, <3>1
      <4>1. free + 1 \in 1 .. n - 1 /\ free + 1 \in 1 .. StartTrack[a]
        BY <2>2, <3>1
      <4>2. pool[<<a, Bot, free + 1>>] = NoPiece
        BY <3>4, <4>1
      <4>3. pool[<<a, Bot, free + 1>>] = Mine(TrackShape(a))
        BY <2>1, <2>2, <4>1
      <4> QED
        BY <3>5, <4>2, <4>3
    <3>8. n = free + 1 /\ free \in Nat
      BY <2>2, <3>1, <3>6, <3>7
    <3>9. tracks'[Bot][a] = tracks[Bot][a] - 1
      BY <1>1, <1>2, <2>2, <2>4 DEF TracksAfter
    <3>10. pool'[<<a, Bot, i>>] = IF i = n THEN NoPiece ELSE pool[<<a, Bot, i>>]
      BY <1>1, <2>1, <2>3, <3>1
    <3> QED
      BY <2>1, <2>2, <3>8, <3>9, <3>10
  <2>5. CASE ~(s.Source \in OwnSlots(Bot) /\ s.Source[1] = a)
    <3>1. tracks'[Bot][a] = tracks[Bot][a]
      BY <1>1, <1>2, <2>2, <2>5 DEF TracksAfter
    <3>2. <<a, Bot, i>> # s.Source
      BY <2>1, <2>5
    <3>3. pool'[<<a, Bot, i>>] = pool[<<a, Bot, i>>]
      BY <1>1, <2>1, <2>3, <3>2
    <3> QED
      BY <2>1, <3>1, <3>3
  <2> QED
    BY <2>4, <2>5
<1> QED
  BY <1>4, <1>5, <1>6 DEF SlotsFit

\* Nobody else touches the slots of the bot.
LEMMA SameSlots ==
    ASSUME SlotsFit, pool' = pool, stock'[Bot] = stock[Bot], supply'[Bot] = supply[Bot],
           tracks'[Bot] = tracks[Bot]
    PROVE  SlotsFit'
BY DEF SlotsFit, SlotTypes, TrackSlotsFit, PoolSlotsFit

LEMMA OthersKeepSlots ==
    ASSUME EngineInv, SlotsFit, NEW p \in Others, NEW s, AcceptSubaction(p, s)
    PROVE  SlotsFit'
<1>1. /\ Valid(p, s) /\ DoSubaction(p, s) /\ p \in Players /\ Bot \in Players \ {p}
      /\ pool' = [l \in BotSlots |-> CASE l = s.Source -> NoPiece
                                      [] l = s.Dest   -> s.Piece
                                      [] OTHER        -> pool[l]]
  BY BotAssumption DEF AcceptSubaction, Others
<1>2. s.Source \notin BotSlots /\ s.Dest \notin BotSlots
  BY <1>1, SlotFacts DEF Valid
<1>3. pool' = pool
  BY <1>1, <1>2 DEF SlotsFit, SlotTypes
<1>4. Untouched(Bot)
  BY <1>1, AskedIsSubaction, OthersUntouched DEF EngineInv, RuleInv
<1> QED
  BY <1>3, <1>4, SameSlots DEF Untouched

\* The slots of the bot hold what the engine counts, as long as nothing panics.
SlotInv == EngineInv /\ (~panicked => SlotsFit)

LEMMA SlotStep == SlotInv /\ [BotNext]_allVars => SlotInv'
<1> SUFFICES ASSUME SlotInv, [BotNext]_allVars, ~panicked' PROVE SlotsFit'
  BY EngineStep DEF SlotInv
<1>1. EngineInv /\ panicked' \in BOOLEAN /\ panicked' = FALSE
  BY EngineStep DEF SlotInv, EngineInv, RuleInv, TypeInv, TypeOK
<1>2. CASE UNCHANGED <<panicked, pool, stock, supply, tracks>>
  BY <1>2, SameSlots DEF SlotInv
<1>3. ASSUME NEW p \in Players, ~panicked, AcceptEndBump(p) \/ AcceptEndTurn(p)
      PROVE  SlotsFit'
  BY <1>3, SameSlots DEF SlotInv, AcceptEndBump, AcceptEndTurn, EndBump, EndTurn
<1>4. CASE OtherAsks
  <2>1. ~panicked
    BY <1>4 DEF OtherAsks
  <2>2. PICK p \in Others : \/ \E s \in Requests(p) : AcceptSubaction(p, s)
                            \/ AcceptEndBump(p)
                            \/ AcceptEndTurn(p)
    BY <1>1, <1>4 DEF OtherAsks, VirtualOfficePanic, Panic
  <2>3. ASSUME NEW s \in Requests(p), AcceptSubaction(p, s) PROVE SlotsFit'
    BY <1>1, <2>1, <2>3, OthersKeepSlots DEF SlotInv
  <2> QED
    BY <1>3, <2>1, <2>2, <2>3 DEF Others
<1>5. CASE BotAsks
  <2>1. ~panicked /\ Bot \in Players
    BY <1>5, BotAssumption DEF BotAsks
  <2>2. CASE Accept(Bot, Head(outMsg))
    <3>1. CASE AcceptSubaction(Bot, Head(outMsg).Subaction)
      BY <1>1, <2>1, <3>1, BotKeepsSlots DEF SlotInv
    <3> QED
      BY <1>3, <2>1, <2>2, <3>1 DEF Accept
  <2>3. CASE UNCHANGED <<vars, pool>>
    BY <1>2, <2>3 DEF vars
  <2> QED
    BY <1>5, <2>2, <2>3 DEF BotAsks
<1>6. CASE AnnounceScore \/ Sent \/ ExecutePlans \/ AnswerBump \/ PutAnswer
  BY <1>2, <1>6 DEF AnnounceScore, Sent, ExecutePlans, AnswerBump, PutAnswer, vars
<1>11. CASE Receive
  BY <1>1, <1>2, <1>11, ReceivePanics DEF Receive
<1>7. ~BotPanics("swap") /\ ~BotPanics("mutated table") /\ ~BotPanics("no reach")
  BY <1>1 DEF BotPanics
<1>8. CASE ChoosePlan
  BY <1>2, <1>7, <1>8 DEF ChoosePlan, ThinkingPanics, PlayPlan, vars
<1>9. CASE ReplacePiece
  BY <1>2, <1>7, <1>9 DEF ReplacePiece, ReplaceBy, ThinkingPanics, vars
<1>10. CASE UNCHANGED allVars
  BY <1>2, <1>10 DEF allVars, vars
<1> QED
  BY <1>4, <1>5, <1>6, <1>8, <1>9, <1>10, <1>11 DEF BotNext

LEMMA SlotInit == BotInit => SlotInv
BY SlotsInit, EngineInit DEF SlotInv, BotInit

LEMMA PoolCounted ==
    ASSUME SlotsFit, NEW k \in Pools2
    PROVE  PoolCount(GameTable, k) = Cardinality(SlotsWith(pool, k, Mine("Cube")))
                                     + Cardinality(SlotsWith(pool, k, Mine("Disc")))
<1> DEFINE C == SlotsWith(pool, k, Mine("Cube"))
           D == SlotsWith(pool, k, Mine("Disc"))
           F == {i \in 1 .. NSlots : GameTable[<<k, Bot, i>>] # NoPiece}
<1>1. \A i \in 1 .. NSlots : /\ <<k, Bot, i>> \in BotSlots
                             /\ GameTable[<<k, Bot, i>>] = pool[<<k, Bot, i>>]
  BY SlotPlaces DEF GameTable
<1>2. /\ Mine("Cube") # Mine("Disc")
      /\ Mine("Cube") # NoPiece /\ Mine("Disc") # NoPiece
  BY BotAssumption DEF Mine, Piece, NoPiece, NoPlayer, Players
<1>3. \A i \in 1 .. NSlots : pool[<<k, Bot, i>>] \in {NoPiece, Mine("Cube"), Mine("Disc")}
  BY <1>1 DEF SlotsFit, SlotTypes, Shapes
<1>4. F = C \cup D /\ C \cap D = {} /\ C \subseteq 1 .. NSlots /\ D \subseteq 1 .. NSlots
  BY <1>1, <1>2, <1>3 DEF SlotsWith
<1>5. IsFiniteSet(1 .. NSlots)
  <2>1. 1 \in Int /\ NSlots \in Int
    BY BotAssumption
  <2> QED
    BY <2>1, FS_Interval
<1> HIDE DEF C, D, F
<1>6. IsFiniteSet(C) /\ IsFiniteSet(D) /\ IsFiniteSet({}) /\ Cardinality({}) = 0
  BY <1>4, <1>5, FS_Subset, FS_EmptySet
<1>7. /\ Cardinality(C) \in Nat /\ Cardinality(D) \in Nat
      /\ Cardinality(F) = Cardinality(C) + Cardinality(D) - Cardinality(C \cap D)
  BY <1>4, <1>6, FS_CardinalityType, FS_Union
<1>8. Cardinality(F) = Cardinality(C) + Cardinality(D)
  <2>1. Cardinality(C \cap D) = 0
    BY <1>4, <1>6
  <2> QED
    BY <1>7, <2>1
<1> QED
  BY <1>8 DEF C, D, F, PoolCount

LEMMA TrackCounted ==
    ASSUME SlotInv, SlotsFit, NEW a \in TrackAwards
    PROVE  MyTracks(GameTable)[a] = tracks[Bot][a]
<1> DEFINE free == StartTrack[a] - tracks[Bot][a]
<1>1. /\ StartTrack[a] \in Nat /\ tracks[Bot][a] \in Nat
      /\ tracks[Bot][a] <= StartTrack[a]
  BY BotAssumption, GameAssumption
     DEF SlotInv, EngineInv, RuleInv, TypeInv, TypeOK, TracksShrink
<1>2. Mine(TrackShape(a)) # NoPiece
  BY BotAssumption DEF Mine, Piece, NoPiece, NoPlayer, Players
<1>3. \A i \in 1 .. StartTrack[a] :
          GameTable[<<a, Bot, i>>] = IF i <= free THEN NoPiece ELSE Mine(TrackShape(a))
  BY SlotPlaces DEF GameTable, SlotsFit, TrackSlotsFit
<1>4. {i \in 1 .. StartTrack[a] : GameTable[<<a, Bot, i>>] # NoPiece}
          = free + 1 .. StartTrack[a]
  <2>1. free \in Nat
    BY <1>1
  <2> HIDE DEF free
  <2>2. {i \in 1 .. StartTrack[a] : ~(i <= free)} = free + 1 .. StartTrack[a]
    BY <1>1, <2>1
  <2> QED
    BY <1>2, <1>3, <2>2
<1>5. Cardinality(free + 1 .. StartTrack[a]) = tracks[Bot][a]
  <2>1. free + 1 \in Int /\ StartTrack[a] \in Int /\ free + 1 <= StartTrack[a] + 1
    BY <1>1
  <2>2. Cardinality(free + 1 .. StartTrack[a])
            = IF free + 1 > StartTrack[a] THEN 0 ELSE StartTrack[a] - (free + 1) + 1
    BY <2>1, FS_Interval
  <2> QED
    BY <1>1, <2>2
<1> QED
  BY <1>4, <1>5 DEF MyTracks

\* What the bot reads off the slots of its player board when it thinks - the books,
\* bags, actions and keys its tracks leave it, and how many pieces it has in stock
\* and in supply - is what the engine counts for it, at every moment of every game
\* that has not panicked (playerboard.go, GetActions to GetKeys; table.go,
\* ApplySubaction).
THEOREM SlotsCounted ==
    BotSpec => [](~panicked => /\ MyTracks(GameTable) = tracks[Bot]
                               /\ PoolCount(GameTable, "stock") = Count(stock[Bot])
                               /\ PoolCount(GameTable, "supply") = Count(supply[Bot]))
<1>1. SlotInv => (~panicked => /\ MyTracks(GameTable) = tracks[Bot]
                               /\ PoolCount(GameTable, "stock") = Count(stock[Bot])
                               /\ PoolCount(GameTable, "supply") = Count(supply[Bot]))
  <2> SUFFICES ASSUME SlotInv, ~panicked
               PROVE  /\ MyTracks(GameTable) = tracks[Bot]
                      /\ PoolCount(GameTable, "stock") = Count(stock[Bot])
                      /\ PoolCount(GameTable, "supply") = Count(supply[Bot])
    OBVIOUS
  <2>1. SlotsFit /\ "stock" \in Pools2 /\ "supply" \in Pools2
    BY DEF SlotInv, Pools2
  <2>2. MyTracks(GameTable) = tracks[Bot]
    <3>1. tracks[Bot] \in [TrackAwards -> Nat]
      BY BotAssumption DEF SlotInv, EngineInv, RuleInv, TypeInv, TypeOK
    <3>2. MyTracks(GameTable) = [a \in TrackAwards |-> MyTracks(GameTable)[a]]
      BY DEF MyTracks
    <3> QED
      BY <2>1, <3>1, <3>2, TrackCounted
  <2>3. /\ stock[Bot]["Cube"] = Cardinality(SlotsWith(pool, "stock", Mine("Cube")))
        /\ stock[Bot]["Disc"] = Cardinality(SlotsWith(pool, "stock", Mine("Disc")))
        /\ supply[Bot]["Cube"] = Cardinality(SlotsWith(pool, "supply", Mine("Cube")))
        /\ supply[Bot]["Disc"] = Cardinality(SlotsWith(pool, "supply", Mine("Disc")))
    BY <2>1 DEF SlotsFit, PoolSlotsFit, Shapes
  <2> QED
    BY <2>1, <2>2, <2>3, PoolCounted DEF Count
<1> QED
  BY <1>1, SlotInit, SlotStep, PTL DEF BotSpec

-----------------------------------------------------------------------------
(* Every change of the table is notified.                                  *)

Notified(m) == m.Type = "Subaction" /\ GameTable' = ApplySubaction(GameTable, m.Subaction)

LEMMA StepNotified ==
    ASSUME SlotInv, [BotNext]_allVars, ~panicked'
    PROVE  \/ GameTable' = GameTable
           \/ \E m : Notify(m) /\ Notified(m)
<1>1. EngineInv /\ panicked' = FALSE
  BY EngineStep DEF SlotInv, EngineInv, RuleInv, TypeInv, TypeOK
<1>2. CASE UNCHANGED <<board, pool>>
  BY <1>2 DEF GameTable
<1>3. ASSUME NEW p \in Players, NEW s, AcceptSubaction(p, s), ~panicked
      PROVE  \E m : Notify(m) /\ Notified(m)
  <2>1. GameTable' = ApplySubaction(GameTable, s)
    BY <1>1, <1>3, SameChange DEF SlotInv, SlotsFit, SlotTypes, EngineInv, RuleInv
  <2> DEFINE m == [Type |-> "Subaction", Subaction |-> s, Turn |-> turnState']
  <2>2. Notify(m) /\ Notified(m)
    BY <1>3, <2>1 DEF AcceptSubaction, Notified
  <2> QED
    BY <2>2
<1>4. ASSUME NEW p \in Players, AcceptEndBump(p) \/ AcceptEndTurn(p)
      PROVE  UNCHANGED <<board, pool>>
  BY <1>4 DEF AcceptEndBump, AcceptEndTurn, EndBump, EndTurn
<1>5. CASE OtherAsks
  BY <1>1, <1>2, <1>3, <1>4, <1>5 DEF OtherAsks, Others, VirtualOfficePanic, Panic
<1>6. CASE BotAsks
  <2>1. CASE Accept(Bot, Head(outMsg))
    BY <1>2, <1>3, <1>4, <1>6, <2>1, BotAssumption DEF BotAsks, Accept
  <2>2. CASE UNCHANGED <<vars, pool>>
    BY <1>2, <2>2 DEF vars
  <2> QED
    BY <1>6, <2>1, <2>2 DEF BotAsks
<1>7. CASE AnnounceScore \/ Sent \/ Receive \/ ExecutePlans \/ AnswerBump \/ PutAnswer
  BY <1>2, <1>7
     DEF AnnounceScore, Sent, Receive, ExecutePlans, AnswerBump, PutAnswer, vars
<1>8. CASE ChoosePlan
  BY <1>2, <1>8 DEF ChoosePlan, ThinkingPanics, BotPanics, PlayPlan, vars
<1>9. CASE ReplacePiece
  BY <1>2, <1>9 DEF ReplacePiece, ReplaceBy, ThinkingPanics, BotPanics, vars
<1>10. CASE UNCHANGED allVars
  BY <1>2, <1>10 DEF allVars, vars
<1> QED
  BY <1>5, <1>6, <1>7, <1>8, <1>9, <1>10 DEF BotNext

\* A client that applies the notifications as they come is never told less than
\* happened: whatever changes the game's table, of whichever player, is one
\* subaction, it is notified, and applying it gives the table the game has
\* (game.go, handleDoSubaction; table.go, ApplySubaction; bot.go, Run).
THEOREM ChangesNotified ==
    BotSpec => [][~panicked' => \/ GameTable' = GameTable
                                \/ \E m : Notify(m) /\ Notified(m)]_allVars
<1>1. SlotInv /\ [BotNext]_allVars =>
          [~panicked' => \/ GameTable' = GameTable
                         \/ \E m : Notify(m) /\ Notified(m)]_allVars
  BY StepNotified
<1> QED
  BY <1>1, SlotInit, SlotStep, PTL DEF BotSpec

-----------------------------------------------------------------------------
(* The bot's table, with the changes of the thought in progress taken back *)
(* and with the notifications under way, is the table of the game.         *)

LEMMA NothingToUndo ==
    ASSUME NEW t
    PROVE  UndoSubactions(t, <<>>) = t
<1> DEFINE n == Reverse(<<>>)
<1>1. DOMAIN n = {}
  BY DEF Reverse
<1> HIDE DEF n
<1> DEFINE iter[s \in SUBSET DOMAIN n] ==
               IF s = {} THEN t
               ELSE LET x == Max(s) IN UndoSubaction(iter[s \ {x}], n[x])
<1>2. UndoSubactions(t, <<>>) = iter[DOMAIN n]
  BY DEF UndoSubactions, FoldLeft, MapThenFoldSet, n
<1> QED
  BY <1>1, <1>2

\* A table after one notification.
After(t, m) == IF m.Type = "Subaction" THEN ApplySubaction(t, m.Subaction) ELSE t

\* Applying the notifications q one after the other takes table t to table u.
Replays(t, q, u) ==
    \E f : /\ f[0] = t /\ f[Len(q)] = u
           /\ \A i \in 1 .. Len(q) : f[i] = After(f[i - 1], q[i])

LEMMA ReplayMore ==
    ASSUME NEW S, NEW q \in Seq(S), NEW m \in S, NEW t, NEW u, Replays(t, q, u)
    PROVE  Replays(t, Append(q, m), After(u, m))
<1>1. PICK f : /\ f[0] = t /\ f[Len(q)] = u
               /\ \A i \in 1 .. Len(q) : f[i] = After(f[i - 1], q[i])
  BY DEF Replays
<1>2. Len(q) \in Nat
  OBVIOUS
<1>3. /\ Len(Append(q, m)) = Len(q) + 1
      /\ \A i \in 1 .. Len(q) + 1 :
             Append(q, m)[i] = IF i = Len(q) + 1 THEN m ELSE q[i]
  OBVIOUS
<1> DEFINE n == Len(q)
           g == [i \in 0 .. n + 1 |-> IF i = n + 1 THEN After(u, m) ELSE f[i]]
<1>4. \A i \in 0 .. n + 1 : g[i] = IF i = n + 1 THEN After(u, m) ELSE f[i]
  OBVIOUS
<1> HIDE DEF g
<1>5. /\ g[0] = t /\ g[n + 1] = After(u, m)
      /\ \A i \in 1 .. n + 1 : g[i] = After(g[i - 1], Append(q, m)[i])
  <2>1. g[0] = t /\ g[n] = u /\ g[n + 1] = After(u, m)
    BY <1>1, <1>2, <1>4
  <2>2. ASSUME NEW i \in 1 .. n + 1
        PROVE  g[i] = After(g[i - 1], Append(q, m)[i])
    <3>1. CASE i = n + 1
      <4>1. i - 1 = n /\ Append(q, m)[i] = m
        BY <1>2, <1>3, <3>1
      <4> QED
        BY <2>1, <3>1, <4>1
    <3>2. CASE i # n + 1
      <4>1. i \in 1 .. n /\ i - 1 \in 0 .. n /\ i \in 0 .. n + 1 /\ i - 1 # n + 1
        BY <1>2, <3>2
      <4>2. g[i] = f[i] /\ g[i - 1] = f[i - 1] /\ Append(q, m)[i] = q[i]
        BY <1>2, <1>3, <1>4, <3>2, <4>1
      <4> QED
        BY <1>1, <4>1, <4>2
    <3> QED
      BY <3>1, <3>2
  <2> QED
    BY <2>1, <2>2
<1> QED
  BY <1>3, <1>5 DEF Replays

LEMMA ReplayRest ==
    ASSUME NEW S, NEW q \in Seq(S), q # <<>>, NEW t, NEW u, Replays(t, q, u)
    PROVE  Replays(After(t, Head(q)), Tail(q), u)
<1>1. PICK f : /\ f[0] = t /\ f[Len(q)] = u
               /\ \A i \in 1 .. Len(q) : f[i] = After(f[i - 1], q[i])
  BY DEF Replays
<1>2. /\ Len(q) \in Nat \ {0} /\ Head(q) = q[1]
      /\ Len(Tail(q)) = Len(q) - 1
      /\ \A i \in 1 .. Len(q) - 1 : Tail(q)[i] = q[i + 1]
  <2>1. Head(q) = q[1] /\ Len(q) \in Nat \ {0}
    BY EmptySeq
  <2> QED
    BY <2>1, HeadTailProperties
<1> DEFINE n == Len(q) - 1
           g == [i \in 0 .. n |-> f[i + 1]]
<1>3. \A i \in 0 .. n : g[i] = f[i + 1]
  OBVIOUS
<1> HIDE DEF g
<1>4. g[0] = After(t, Head(q)) /\ g[n] = u
  <2>1. 0 \in 0 .. n /\ n \in 0 .. n /\ n + 1 = Len(q) /\ 1 \in 1 .. Len(q)
    BY <1>2
  <2>2. f[1] = After(f[0], q[1])
    <3>1. f[1] = After(f[1 - 1], q[1])
      BY <1>1, <2>1
    <3> QED
      BY <3>1
  <2>3. g[0] = f[1] /\ g[n] = f[Len(q)]
    <3>1. g[0] = f[0 + 1] /\ g[n] = f[n + 1]
      BY <1>3, <2>1
    <3> QED
      BY <2>1, <3>1
  <2> QED
    BY <1>1, <1>2, <2>2, <2>3
<1>5. ASSUME NEW i \in 1 .. n
      PROVE  g[i] = After(g[i - 1], Tail(q)[i])
  <2>1. i \in 0 .. n /\ i - 1 \in 0 .. n /\ i + 1 \in 1 .. Len(q) /\ i \in 1 .. Len(q) - 1
    BY <1>2
  <2>2. g[i] = f[i + 1] /\ g[i - 1] = f[(i - 1) + 1] /\ Tail(q)[i] = q[i + 1]
    BY <1>2, <1>3, <2>1
  <2>3. (i - 1) + 1 = i /\ (i + 1) - 1 = i
    OBVIOUS
  <2>4. f[i + 1] = After(f[(i + 1) - 1], q[i + 1])
    BY <1>1, <2>1
  <2> QED
    BY <2>2, <2>3, <2>4
<1> QED
  BY <1>2, <1>4, <1>5 DEF Replays

LEMMA ReplayNothing ==
    ASSUME NEW t, NEW u
    PROVE  Replays(t, <<>>, u) <=> t = u
<1>1. t = u => Replays(t, <<>>, u)
  <2> DEFINE g == [i \in {0} |-> t]
  <2>1. g[0] = t /\ Len(<<>>) = 0 /\ \A i \in 1 .. Len(<<>>) : g[i] = After(g[i - 1], <<>>[i])
    OBVIOUS
  <2> HIDE DEF g
  <2> QED
    BY <2>1 DEF Replays
<1>2. Replays(t, <<>>, u) => t = u
  BY DEF Replays
<1> QED
  BY <1>1, <1>2

\* What the bot's table would be without the thought in progress.
Mind == UndoSubactions(table, thought.Subactions)

UnderWay == inMsg \o sending

ChannelsFit == \E S : inMsg \in Seq(S) /\ (sending = <<>> \/ \E m \in S : sending = <<m>>)

\* The bot is in step with the game: from its table, with the thought in progress
\* taken back, the notifications under way lead to the game's.
InStep == ~panicked => Replays(Mind, UnderWay, GameTable)

MindInv == SlotInv /\ ChannelsFit /\ InStep

LEMMA MindInit == BotInit => MindInv
<1> SUFFICES ASSUME BotInit PROVE MindInv
  OBVIOUS
<1> DEFINE m == [Type |-> "NextTurn", Turn |-> turnState]
<1>1. inMsg = <<m>> /\ sending = <<>> /\ table = GameTable /\ thought.Subactions = <<>>
  BY DEF BotInit, Idle
<1>2. m \in {m} /\ <<>> \in Seq({m}) /\ <<m>> = Append(<<>>, m) /\ <<m>> \in Seq({m})
  OBVIOUS
<1>3. After(GameTable, m) = GameTable
  BY DEF After
<1> HIDE DEF m
<1>4. Mind = GameTable
  BY <1>1, NothingToUndo DEF Mind
<1>5. Replays(GameTable, <<m>>, GameTable)
  <2>1. Replays(GameTable, <<>>, GameTable)
    BY ReplayNothing
  <2>2. Replays(GameTable, Append(<<>>, m), After(GameTable, m))
    BY <1>2, <2>1, ReplayMore
  <2> QED
    BY <1>2, <1>3, <2>2
<1>6. UnderWay = <<m>>
  BY <1>1, <1>2, ConcatEmptySeq DEF UnderWay
<1>7. ChannelsFit
  BY <1>1, <1>2 DEF ChannelsFit
<1> QED
  BY <1>4, <1>5, <1>6, <1>7, SlotInit DEF MindInv, InStep

\* One notification more is under way.
LEMMA OneMore ==
    ASSUME ChannelsFit, sending = <<>>, NEW m, Notify(m), NEW t, NEW u, Replays(t, UnderWay, u)
    PROVE  ChannelsFit' /\ Replays(t, UnderWay', After(u, m))
<1>1. PICK S : inMsg \in Seq(S)
  BY DEF ChannelsFit
<1> DEFINE W == S \cup {m}
<1>2. m \in W /\ inMsg \in Seq(W)
  BY <1>1, SeqMonotonic
<1> HIDE DEF W
<1>3. UnderWay = inMsg
  BY <1>2, ConcatEmptySeq DEF UnderWay
<1>4. Replays(t, Append(inMsg, m), After(u, m))
  BY <1>2, <1>3, ReplayMore
<1>5. CASE Len(inMsg) < InCap
  <2>1. inMsg' = Append(inMsg, m) /\ sending' = <<>> /\ inMsg' \in Seq(W)
    BY <1>2, <1>5 DEF Notify
  <2>2. UnderWay' = inMsg'
    BY <2>1, ConcatEmptySeq DEF UnderWay
  <2> QED
    BY <1>4, <2>1, <2>2 DEF ChannelsFit
<1>6. CASE ~(Len(inMsg) < InCap)
  <2>1. inMsg' = inMsg /\ sending' = <<m>>
    BY <1>6 DEF Notify
  <2>2. UnderWay' = Append(inMsg, m)
    BY <1>2, <2>1 DEF UnderWay
  <2> QED
    BY <1>2, <1>4, <2>1, <2>2 DEF ChannelsFit
<1> QED
  BY <1>5, <1>6

\* One notification less: the bot has handled it.
LEMMA OneLess ==
    ASSUME ChannelsFit, inMsg # <<>>, inMsg' = Tail(inMsg), sending' = sending,
           NEW t, NEW u, Replays(t, UnderWay, u)
    PROVE  ChannelsFit' /\ Replays(After(t, Head(inMsg)), UnderWay', u)
<1>1. PICK S : inMsg \in Seq(S) /\ (sending = <<>> \/ \E m \in S : sending = <<m>>)
  BY DEF ChannelsFit
<1>2. sending \in Seq(S) /\ inMsg' \in Seq(S)
  <2>1. inMsg' \in Seq(S)
    BY <1>1, HeadTailProperties
  <2>2. <<>> \in Seq(S) /\ \A m \in S : <<m>> \in Seq(S)
    OBVIOUS
  <2> QED
    BY <1>1, <2>1, <2>2
<1>3. /\ UnderWay \in Seq(S) /\ UnderWay # <<>>
      /\ Head(UnderWay) = Head(inMsg) /\ Tail(UnderWay) = Tail(inMsg) \o sending
  <2>1. /\ UnderWay \in Seq(S) /\ Len(UnderWay) = Len(inMsg) + Len(sending)
        /\ \A i \in 1 .. Len(inMsg) + Len(sending) :
               UnderWay[i] = IF i <= Len(inMsg) THEN inMsg[i] ELSE sending[i - Len(inMsg)]
    BY <1>1, <1>2, ConcatProperties DEF UnderWay
  <2>2. Len(inMsg) \in Nat \ {0} /\ Len(sending) \in Nat
    BY <1>1, <1>2, EmptySeq, LenProperties
  <2>3. UnderWay # <<>>
    BY <1>1, <1>2, ConcatEqualIffEmpty DEF UnderWay
  <2>4. Head(UnderWay) = UnderWay[1] /\ Head(inMsg) = inMsg[1]
    BY DEF UnderWay
  <2>5. Head(UnderWay) = Head(inMsg)
    BY <2>1, <2>2, <2>4
  <2> DEFINE L == Tail(UnderWay)  R == Tail(inMsg) \o sending
  <2>6. /\ L \in Seq(S) /\ Len(L) = Len(UnderWay) - 1
        /\ \A i \in 1 .. Len(L) : L[i] = UnderWay[i + 1]
    BY <2>1, <2>3, HeadTailProperties
  <2>7. /\ Tail(inMsg) \in Seq(S) /\ Len(Tail(inMsg)) = Len(inMsg) - 1
        /\ \A i \in 1 .. Len(Tail(inMsg)) : Tail(inMsg)[i] = inMsg[i + 1]
    BY <1>1, HeadTailProperties
  <2>8. /\ R \in Seq(S) /\ Len(R) = Len(Tail(inMsg)) + Len(sending)
        /\ \A i \in 1 .. Len(Tail(inMsg)) + Len(sending) :
               R[i] = IF i <= Len(Tail(inMsg)) THEN Tail(inMsg)[i]
                      ELSE sending[i - Len(Tail(inMsg))]
    BY <1>2, <2>7, ConcatProperties
  <2> HIDE DEF L, R
  <2>9. Len(L) = Len(R)
    BY <2>1, <2>2, <2>6, <2>7, <2>8
  <2>10. ASSUME NEW i \in 1 .. Len(L)
         PROVE  L[i] = R[i]
    <3>1. i \in Nat /\ i + 1 \in 1 .. Len(inMsg) + Len(sending)
          /\ i \in 1 .. Len(Tail(inMsg)) + Len(sending)
      BY <2>1, <2>2, <2>6, <2>7
    <3>2. L[i] = IF i + 1 <= Len(inMsg) THEN inMsg[i + 1] ELSE sending[i + 1 - Len(inMsg)]
      BY <2>1, <2>6, <3>1
    <3>3. CASE i + 1 <= Len(inMsg)
      <4>1. i \in 1 .. Len(Tail(inMsg)) /\ i <= Len(Tail(inMsg))
        BY <2>2, <2>7, <3>1, <3>3
      <4> QED
        BY <2>7, <2>8, <3>1, <3>2, <3>3, <4>1
    <3>4. CASE ~(i + 1 <= Len(inMsg))
      <4>1. ~(i <= Len(Tail(inMsg))) /\ i - Len(Tail(inMsg)) = i + 1 - Len(inMsg)
        BY <2>2, <2>7, <3>1, <3>4
      <4> QED
        BY <2>8, <3>1, <3>2, <3>4, <4>1
    <3> QED
      BY <3>3, <3>4
  <2>11. L = R
    BY <2>6, <2>8, <2>9, <2>10, SeqEqual
  <2> QED
    BY <2>1, <2>3, <2>5, <2>11 DEF L, R
<1>4. Replays(After(t, Head(UnderWay)), Tail(UnderWay), u)
  BY <1>3, ReplayRest
<1>5. UnderWay' = Tail(UnderWay)
  BY <1>3 DEF UnderWay
<1>6. ChannelsFit'
  BY <1>1, <1>2 DEF ChannelsFit
<1> QED
  BY <1>3, <1>4, <1>5, <1>6

\* The blocked notification arrives.
LEMMA SameUnderWay ==
    ASSUME ChannelsFit, Sent
    PROVE  ChannelsFit' /\ UnderWay' = UnderWay
<1>1. PICK S : inMsg \in Seq(S) /\ (sending = <<>> \/ \E m \in S : sending = <<m>>)
  BY DEF ChannelsFit
<1>2. sending \in Seq(S) /\ inMsg' = inMsg \o sending /\ sending' = <<>>
  BY <1>1 DEF Sent
<1>3. inMsg' \in Seq(S)
  BY <1>1, <1>2, ConcatProperties
<1>4. UnderWay' = inMsg'
  BY <1>2, <1>3, ConcatEmptySeq DEF UnderWay
<1> QED
  BY <1>2, <1>3, <1>4 DEF ChannelsFit, UnderWay

\* How a queue grows at the end and shrinks at the front.
Longer(q, r, m) ==
    /\ Len(q) \in Nat /\ Len(r) = Len(q) + 1 /\ r[Len(q) + 1] = m
    /\ \A i \in 1 .. Len(q) : r[i] = q[i]

Shorter(q, r) ==
    /\ Len(q) \in Nat \ {0} /\ Len(r) = Len(q) - 1
    /\ \A i \in 1 .. Len(q) - 1 : r[i] = q[i + 1]

LEMMA MoreUnderWay ==
    ASSUME ChannelsFit, sending = <<>>, NEW m, Notify(m)
    PROVE  ChannelsFit' /\ Longer(UnderWay, UnderWay', m)
<1>1. PICK S : inMsg \in Seq(S)
  BY DEF ChannelsFit
<1> DEFINE W == S \cup {m}
<1>2. m \in W /\ inMsg \in Seq(W)
  BY <1>1, SeqMonotonic
<1> HIDE DEF W
<1>3. UnderWay = inMsg
  BY <1>2, ConcatEmptySeq DEF UnderWay
<1>4. Longer(inMsg, Append(inMsg, m), m) /\ Append(inMsg, m) \in Seq(W)
  BY <1>2, AppendProperties, LenProperties DEF Longer
<1>5. CASE Len(inMsg) < InCap
  <2>1. inMsg' = Append(inMsg, m) /\ sending' = <<>> /\ inMsg' \in Seq(W)
    BY <1>4, <1>5 DEF Notify
  <2>2. UnderWay' = inMsg'
    BY <2>1, ConcatEmptySeq DEF UnderWay
  <2> QED
    BY <1>3, <1>4, <2>1, <2>2 DEF ChannelsFit
<1>6. CASE ~(Len(inMsg) < InCap)
  <2>1. inMsg' = inMsg /\ sending' = <<m>>
    BY <1>6 DEF Notify
  <2>2. UnderWay' = Append(inMsg, m)
    BY <1>2, <2>1 DEF UnderWay
  <2> QED
    BY <1>2, <1>3, <1>4, <2>1, <2>2 DEF ChannelsFit
<1> QED
  BY <1>5, <1>6

LEMMA FrontGone ==
    ASSUME NEW S, NEW q \in Seq(S), NEW r \in Seq(S), q # <<>>
    PROVE  Shorter(q \o r, Tail(q) \o r) /\ (q \o r)[1] = Head(q)
<1>1. /\ Tail(q) \in Seq(S) /\ Len(Tail(q)) = Len(q) - 1
      /\ \A i \in 1 .. Len(Tail(q)) : Tail(q)[i] = q[i + 1]
  BY HeadTailProperties
<1>2. Len(q) \in Nat \ {0} /\ Len(r) \in Nat /\ Head(q) = q[1]
  BY EmptySeq, LenProperties
<1> DEFINE u == q \o r  v == Tail(q) \o r
<1>3. /\ Len(u) = Len(q) + Len(r)
      /\ \A i \in 1 .. Len(q) + Len(r) : u[i] = IF i <= Len(q) THEN q[i] ELSE r[i - Len(q)]
  BY ConcatProperties
<1>4. /\ Len(v) = Len(Tail(q)) + Len(r)
      /\ \A i \in 1 .. Len(Tail(q)) + Len(r) :
             v[i] = IF i <= Len(Tail(q)) THEN Tail(q)[i] ELSE r[i - Len(Tail(q))]
  BY <1>1, ConcatProperties
<1> HIDE DEF u, v
<1>5. ASSUME NEW i \in 1 .. Len(u) - 1
      PROVE  v[i] = u[i + 1]
  <2>1. i \in 1 .. Len(Tail(q)) + Len(r) /\ i + 1 \in 1 .. Len(q) + Len(r)
    BY <1>1, <1>2, <1>3
  <2>2. CASE i + 1 <= Len(q)
    <3>1. i \in 1 .. Len(Tail(q)) /\ i <= Len(Tail(q))
      BY <1>1, <1>2, <2>1, <2>2
    <3> QED
      BY <1>1, <1>3, <1>4, <2>1, <2>2, <3>1
  <2>3. CASE ~(i + 1 <= Len(q))
    <3>1. ~(i <= Len(Tail(q))) /\ i - Len(Tail(q)) = i + 1 - Len(q)
      BY <1>1, <1>2, <2>1, <2>3
    <3> QED
      BY <1>3, <1>4, <2>1, <2>3, <3>1
  <2> QED
    BY <2>2, <2>3
<1>6. Len(u) \in Nat \ {0} /\ Len(v) = Len(u) - 1
  BY <1>1, <1>2, <1>3, <1>4
<1>7. u[1] = Head(q)
  BY <1>2, <1>3
<1>8. Shorter(u, v)
  BY <1>5, <1>6 DEF Shorter
<1> QED
  BY <1>7, <1>8 DEF u, v

LEMMA LessUnderWay ==
    ASSUME ChannelsFit, inMsg # <<>>, inMsg' = Tail(inMsg), sending' = sending
    PROVE  /\ ChannelsFit' /\ Shorter(UnderWay, UnderWay')
           /\ UnderWay[1] = Head(inMsg)
<1>1. PICK S : inMsg \in Seq(S) /\ (sending = <<>> \/ \E m \in S : sending = <<m>>)
  BY DEF ChannelsFit
<1>2. sending \in Seq(S)
  <2>1. <<>> \in Seq(S) /\ \A m \in S : <<m>> \in Seq(S)
    OBVIOUS
  <2> QED
    BY <1>1, <2>1
<1>3. UnderWay' = Tail(inMsg) \o sending
  BY DEF UnderWay
<1>4. Shorter(UnderWay, UnderWay') /\ UnderWay[1] = Head(inMsg)
  BY <1>1, <1>2, <1>3, FrontGone DEF UnderWay
<1>5. Tail(inMsg) \in Seq(S)
  BY <1>1, HeadTailProperties
<1> QED
  BY <1>1, <1>4, <1>5 DEF ChannelsFit

\* A subaction is undone exactly when it took its piece from a place that had it to
\* one that could take it: not to a spot with somebody waiting in its bump zone
\* (table.go, ApplySubaction, UndoSubactions).  The code does not look at the bump
\* zone of an empty spot; what is there then comes back as if it had been bumped.
THEOREM UndoIsExact ==
    ASSUME NEW t \in [Squares \cup BotSlots -> Pieces \cup {NoPiece}], NEW s,
           s.Source \in DOMAIN t, s.Dest \in DOMAIN t \ BumpSquares, s.Source # s.Dest,
           t[s.Source] = s.Piece, s.Piece # NoPiece,
           t[s.Dest] # NoPiece => s.Dest \in SpotSquares,
           s.Dest \in SpotSquares => t[BumpZone(s.Dest)] = NoPiece
    PROVE  UndoSubaction(ApplySubaction(t, s), s) = t
<1> DEFINE x == s.Source  d == s.Dest  p == s.Piece
           zx == BumpZone(x)  zd == BumpZone(d)
           u == ApplySubaction(t, s)
           back == Step(d, x, p)
<1>1. /\ x \in SpotSquares => zx \in DOMAIN t /\ zx # x /\ zx # d /\ zx \notin SpotSquares
      /\ d \in SpotSquares => zd \in DOMAIN t /\ zd # d /\ zd # x /\ zd \notin SpotSquares
      /\ x \in SpotSquares /\ d \in SpotSquares => zx # zd
  <2>1. \A l \in SpotSquares : /\ BumpZone(l) \in BumpSquares /\ BumpZone(l) \in DOMAIN t
                               /\ BumpZone(l) # l /\ BumpZone(l) \notin SpotSquares
    BY SquareFacts DEF Squares, RouteSquares
  <2> QED
    BY <2>1, SquareFacts
<1>2. back.Source = d /\ back.Dest = x /\ back.Piece = p
  BY DEF Step
<1>3. x \in DOMAIN t /\ d \in DOMAIN t /\ x # d /\ t[x] = p /\ p # NoPiece
  OBVIOUS
<1>4. /\ t[d] # NoPiece => d \in SpotSquares
      /\ d \in SpotSquares => t[zd] = NoPiece
  OBVIOUS
<1>5. UndoSubaction(u, s) = ApplySubaction(u, back)
  BY DEF UndoSubaction
\* The subaction bumped: undone, the bumped piece slides back.
<1>6. CASE t[d] # NoPiece
  <2>1. u = Drop([t EXCEPT ![x] = NoPiece], d, p)
    BY <1>3, <1>6 DEF ApplySubaction
  <2>2. u = [[[t EXCEPT ![x] = NoPiece] EXCEPT ![d] = p] EXCEPT ![zd] = t[d]]
    BY <1>1, <1>3, <1>4, <1>6, <2>1 DEF Drop
  <2>3. /\ DOMAIN u = DOMAIN t /\ u[x] = NoPiece /\ u[d] = p /\ u[zd] = t[d]
        /\ d \in SpotSquares
    BY <1>1, <1>3, <1>4, <1>6, <2>2
  <2> HIDE DEF u, x, d, p, zx, back
  <2>4. ApplySubaction(u, back) = Drop(Lift(u, d), x, p)
    BY <1>2, <1>3, <2>3 DEF ApplySubaction
  <2>5. Lift(u, d) = [[u EXCEPT ![d] = t[d]] EXCEPT ![zd] = NoPiece]
    BY <1>6, <2>3 DEF Lift
  <2>6. Lift(u, d) = [t EXCEPT ![x] = NoPiece]
    BY <1>1, <1>3, <1>4, <2>2, <2>3, <2>5
  <2>7. Drop([t EXCEPT ![x] = NoPiece], x, p) = t
    BY <1>3 DEF Drop
  <2> QED
    BY <1>5, <2>4, <2>6, <2>7 DEF u
\* It did not, and the piece waiting behind, if any, slid onto the place left.
<1>7. CASE t[d] = NoPiece
  <2>1. u = Drop(Lift(t, x), d, p)
    BY <1>3, <1>7 DEF ApplySubaction
  <2>2. CASE x \in SpotSquares /\ t[zx] # NoPiece
    <3>1. Lift(t, x) = [[t EXCEPT ![x] = t[zx]] EXCEPT ![zx] = NoPiece]
      BY <2>2 DEF Lift
    <3>2. Lift(t, x)[d] = NoPiece
      BY <1>1, <1>3, <1>7, <2>2, <3>1
    <3>3. u = [[[t EXCEPT ![x] = t[zx]] EXCEPT ![zx] = NoPiece] EXCEPT ![d] = p]
      BY <2>1, <3>1, <3>2 DEF Drop
    <3>4. DOMAIN u = DOMAIN t /\ u[x] = t[zx] /\ u[zx] = NoPiece /\ u[d] = p
      BY <1>1, <1>3, <2>2, <3>3
    <3> HIDE DEF u, x, d, p, zd, back
    <3>5. ApplySubaction(u, back) = Drop([u EXCEPT ![d] = NoPiece], x, p)
      BY <1>2, <1>3, <2>2, <3>4 DEF ApplySubaction
    <3>6. [u EXCEPT ![d] = NoPiece][x] = t[zx]
      BY <1>3, <3>4
    <3>7. ApplySubaction(u, back)
              = [[[u EXCEPT ![d] = NoPiece] EXCEPT ![x] = p] EXCEPT ![zx] = t[zx]]
      BY <2>2, <3>5, <3>6 DEF Drop
    <3>8. ApplySubaction(u, back) = t
      BY <1>1, <1>3, <1>7, <2>2, <3>3, <3>7
    <3> QED
      BY <1>5, <3>8 DEF u
  <2>3. CASE ~(x \in SpotSquares /\ t[zx] # NoPiece)
    <3>1. Lift(t, x) = [t EXCEPT ![x] = NoPiece]
      BY <2>3 DEF Lift
    <3>2. Lift(t, x)[d] = NoPiece
      BY <1>3, <1>7, <3>1
    <3>3. u = [[t EXCEPT ![x] = NoPiece] EXCEPT ![d] = p]
      BY <2>1, <3>1, <3>2 DEF Drop
    <3>4. /\ DOMAIN u = DOMAIN t /\ u[x] = NoPiece /\ u[d] = p
          /\ d \in SpotSquares => u[zd] = NoPiece
      BY <1>1, <1>3, <1>4, <3>3
    <3> HIDE DEF u, x, d, p, zx, back
    <3>5. ApplySubaction(u, back) = Drop(Lift(u, d), x, p)
      BY <1>2, <1>3, <3>4 DEF ApplySubaction
    <3>6. Lift(u, d) = [u EXCEPT ![d] = NoPiece]
      BY <3>4 DEF Lift
    <3>7. Drop([u EXCEPT ![d] = NoPiece], x, p)
              = [[u EXCEPT ![d] = NoPiece] EXCEPT ![x] = p]
      BY <1>3, <3>4 DEF Drop
    <3>8. [[u EXCEPT ![d] = NoPiece] EXCEPT ![x] = p] = t
      BY <1>3, <1>7, <3>3
    <3> QED
      BY <1>5, <3>5, <3>6, <3>7, <3>8 DEF u
  <2> QED
    BY <2>2, <2>3
<1> QED
  BY <1>6, <1>7

LEMMA MindStep ==
    ASSUME MindInv, [BotNext]_allVars,
           (ChoosePlan \/ ReplacePiece) /\ ~panicked' => Mind' = Mind
    PROVE  MindInv'
<1>1. SlotInv' /\ panicked \in BOOLEAN /\ panicked' \in BOOLEAN
  BY SlotStep DEF MindInv, InStep, SlotInv, EngineInv, RuleInv, TypeInv, TypeOK
<1>2. CASE UNCHANGED <<inMsg, sending, board, pool>> /\ (~panicked' => Mind' = Mind /\ ~panicked)
  <2>1. ChannelsFit' /\ UnderWay' = UnderWay /\ GameTable' = GameTable
    BY <1>2 DEF MindInv, InStep, ChannelsFit, UnderWay, GameTable
  <2> QED
    BY <1>1, <1>2, <2>1 DEF MindInv, InStep
<1>3. ASSUME sending = <<>>, ~panicked, UNCHANGED <<table, thought>>,
             NEW m, Notify(m), ~panicked' => GameTable' = After(GameTable, m)
      PROVE  MindInv'
  <2>1. Mind' = Mind
    BY <1>3 DEF Mind
  <2>2. ChannelsFit' /\ Replays(Mind, UnderWay', After(GameTable, m))
    BY <1>3, OneMore DEF MindInv, InStep
  <2> QED
    BY <1>1, <1>3, <2>1, <2>2 DEF MindInv, InStep
<1>4. ASSUME NEW p \in Players, NEW s, AcceptSubaction(p, s),
             sending = <<>>, ~panicked, UNCHANGED <<table, thought>>
      PROVE  MindInv'
  <2> DEFINE m == [Type |-> "Subaction", Subaction |-> s, Turn |-> turnState']
  <2>1. Notify(m) /\ After(GameTable, m) = ApplySubaction(GameTable, s)
    BY <1>4 DEF AcceptSubaction, After
  <2>2. ~panicked' => GameTable' = ApplySubaction(GameTable, s)
    BY <1>1, <1>4, SameChange
       DEF MindInv, InStep, SlotInv, SlotsFit, SlotTypes, EngineInv, RuleInv
  <2> HIDE DEF m
  <2> QED
    BY <1>3, <1>4, <2>1, <2>2
<1>5. ASSUME NEW p \in Players, AcceptEndBump(p) \/ AcceptEndTurn(p),
             sending = <<>>, ~panicked, UNCHANGED <<table, thought>>
      PROVE  MindInv'
  <2>1. UNCHANGED <<board, pool, panicked>> /\ GameTable' = GameTable
    BY <1>5 DEF AcceptEndBump, AcceptEndTurn, EndBump, EndTurn, GameTable
  <2>2. ASSUME NEW m, Notify(m), m.Type # "Subaction"
        PROVE  MindInv'
    BY <1>3, <1>5, <2>1, <2>2 DEF After
  <2>3. CASE AcceptEndBump(p)
    BY <2>2, <2>3 DEF AcceptEndBump
  <2>4. CASE AcceptEndTurn(p) /\ status' = "Running"
    BY <2>2, <2>4 DEF AcceptEndTurn
  <2>5. CASE AcceptEndTurn(p) /\ status' # "Running"
    BY <2>2, <2>5 DEF AcceptEndTurn
  <2> QED
    BY <1>5, <2>3, <2>4, <2>5
<1>6. CASE OtherAsks
  <2>1. PICK p \in Others : \/ \E s \in Requests(p) : AcceptSubaction(p, s)
                            \/ AcceptEndBump(p)
                            \/ AcceptEndTurn(p)
                            \/ VirtualOfficePanic(p) /\ UNCHANGED <<pool, inMsg, sending>>
    BY <1>6 DEF OtherAsks
  <2>2. sending = <<>> /\ ~panicked /\ UNCHANGED <<table, thought>> /\ p \in Players
    BY <1>6 DEF OtherAsks, botVars, Others
  <2>3. CASE VirtualOfficePanic(p) /\ UNCHANGED <<pool, inMsg, sending>>
    BY <1>2, <2>3 DEF VirtualOfficePanic, Panic
  <2> QED
    BY <1>4, <1>5, <2>1, <2>2, <2>3
<1>7. CASE BotAsks
  <2>1. sending = <<>> /\ ~panicked /\ UNCHANGED <<table, thought>> /\ Bot \in Players
    BY <1>7, BotAssumption DEF BotAsks
  <2>2. CASE Accept(Bot, Head(outMsg))
    BY <1>4, <1>5, <2>1, <2>2 DEF Accept
  <2>3. CASE Notify([Type |-> "Error"]) /\ UNCHANGED <<vars, pool>>
    <3> DEFINE m == [Type |-> "Error"]
    <3>1. GameTable' = GameTable /\ After(GameTable, m) = GameTable
      BY <2>3 DEF vars, GameTable, After
    <3> QED
      BY <1>3, <2>1, <2>3, <3>1
  <2> QED
    BY <1>7, <2>2, <2>3 DEF BotAsks
<1>15. CASE AnnounceScore
  <2> DEFINE m == [Type |-> "Scoring"]
  <2>1. GameTable' = GameTable /\ After(GameTable, m) = GameTable
    BY <1>15 DEF AnnounceScore, vars, GameTable, After
  <2> QED
    BY <1>3, <1>15, <2>1 DEF AnnounceScore, botVars
<1>8. CASE Sent
  <2>1. UNCHANGED <<board, pool, panicked, table, thought>>
    BY <1>8 DEF Sent, vars, botVars
  <2>2. ChannelsFit' /\ UnderWay' = UnderWay /\ GameTable' = GameTable /\ Mind' = Mind
    BY <1>8, <2>1, SameUnderWay DEF MindInv, InStep, GameTable, Mind
  <2> QED
    BY <1>1, <2>1, <2>2 DEF MindInv, InStep
<1>9. CASE Receive
  <2>1. /\ inMsg # <<>> /\ inMsg' = Tail(inMsg) /\ ~panicked
        /\ UNCHANGED <<sending, board, pool>>
        /\ thought = Idle
    BY <1>9 DEF Receive
  <2>2. thought'.Subactions = <<>>
    <3>1. Ignore => thought'.Subactions = <<>>
      BY <2>1 DEF Ignore, Idle
    <3>2. \A turn : PlanTurn(turn) => thought'.Subactions = <<>>
      BY DEF PlanTurn, Idle
    <3>3. \A tt, turn : PlanBump(tt, turn) => thought'.Subactions = <<>>
      <4> SUFFICES ASSUME NEW tt, NEW turn, PlanBump(tt, turn)
                   PROVE  thought'.Subactions = <<>>
        OBVIOUS
      <4>2. MoveOnlyBumped(tt, turn) => thought'.Subactions = <<>>
        BY <2>1 DEF MoveOnlyBumped, Idle
      <4> DEFINE ps == BumpPieces(tt, turn)
                 c == BuildContext(tt, 1)
      <4>3. \/ MoveOnlyBumped(tt, turn)
            \/ thought' = [Idle EXCEPT !.Doing = "bump", !.Pieces = ps,
                                       !.Bumped = turn.BumpingLocation,
                                       !.Context = c]
        BY DEF PlanBump
      <4> HIDE DEF ps, c
      <4>4. CASE thought' = [Idle EXCEPT !.Doing = "bump", !.Pieces = ps,
                                         !.Bumped = turn.BumpingLocation, !.Context = c]
        BY <4>4 DEF Idle
      <4> QED
        BY <4>2, <4>3, <4>4
    <3>4. UNCHANGED thought => thought'.Subactions = <<>>
      BY <2>1 DEF Idle
    <3> DEFINE msg == Head(inMsg)
    <3>5. CASE msg.Type = "Subaction"
      BY <1>9, <3>1, <3>3, <3>5 DEF Receive
    <3>6. CASE msg.Type = "NextTurn"
      BY <1>9, <3>1, <3>2, <3>6 DEF Receive
    <3>7. CASE msg.Type = "EndBump"
      <4>1. CASE msg.Turn.Player # Bot
        BY <1>9, <3>1, <3>7, <4>1 DEF Receive, Resume
      <4>2. CASE msg.Turn.Player = Bot /\ msg.Turn.ActionsLeft = 0
        BY <1>9, <3>4, <3>7, <4>2 DEF Receive, Resume
      <4>3. CASE msg.Turn.Player = Bot /\ msg.Turn.ActionsLeft # 0
        BY <1>9, <3>2, <3>7, <4>3 DEF Receive, Resume
      <4> QED
        BY <4>1, <4>2, <4>3
    <3>8. CASE msg.Type \in {"Error", "Scoring"}
      BY <1>9, <3>1, <3>8 DEF Receive
    <3> QED
      BY <1>9, <3>5, <3>6, <3>7, <3>8 DEF Receive
  <2>3. table' = After(table, Head(inMsg))
    BY <1>9 DEF Receive, After
  <2>4. Mind = table /\ Mind' = table'
    BY <2>1, <2>2, NothingToUndo DEF Mind, Idle
  <2>5. ChannelsFit' /\ Replays(After(Mind, Head(inMsg)), UnderWay', GameTable)
    BY <2>1, OneLess DEF MindInv, InStep
  <2>6. GameTable' = GameTable
    BY <2>1 DEF GameTable
  <2> QED
    BY <1>1, <2>3, <2>4, <2>5, <2>6 DEF MindInv, InStep
<1>10. CASE ExecutePlans \/ AnswerBump
  <2>1. /\ table' = Mind /\ thought' = Idle /\ ~panicked
        /\ UNCHANGED <<inMsg, sending, board, pool>>
    BY <1>10 DEF ExecutePlans, AnswerBump, Mind, vars
  <2>2. Mind' = table'
    BY <2>1, NothingToUndo DEF Mind, Idle
  <2> QED
    BY <1>2, <2>1, <2>2
<1>11. CASE PutAnswer
  BY <1>2, <1>11 DEF PutAnswer, vars, Mind
<1>12. CASE ChoosePlan
  BY <1>2, <1>12 DEF ChoosePlan, ThinkingPanics, BotPanics, PlayPlan, vars
<1>13. CASE ReplacePiece
  BY <1>2, <1>13 DEF ReplacePiece, ReplaceBy, ThinkingPanics, BotPanics, vars
<1>14. CASE UNCHANGED allVars
  BY <1>2, <1>14 DEF allVars, vars, botVars, Mind
<1> QED
  BY <1>6, <1>7, <1>8, <1>9, <1>10, <1>11, <1>12, <1>13, <1>14, <1>15
     DEF BotNext

\* The channels carry lists of notifications.
LEMMA FitStep == SlotInv /\ ChannelsFit /\ [BotNext]_allVars => ChannelsFit'
<1> SUFFICES ASSUME SlotInv, ChannelsFit, [BotNext]_allVars PROVE ChannelsFit'
  OBVIOUS
<1>1. CASE UNCHANGED <<inMsg, sending>>
  BY <1>1 DEF ChannelsFit
<1>2. ASSUME NEW p, AcceptEndBump(p) \/ AcceptEndTurn(p) \/ \E s : AcceptSubaction(p, s),
             sending = <<>>
      PROVE  ChannelsFit'
  BY <1>2, MoreUnderWay DEF AcceptEndBump, AcceptEndTurn, AcceptSubaction
<1>3. CASE OtherAsks
  BY <1>1, <1>2, <1>3 DEF OtherAsks
<1>4. CASE BotAsks
  BY <1>2, <1>4, MoreUnderWay DEF BotAsks, Accept
<1>5. CASE AnnounceScore
  BY <1>5, MoreUnderWay DEF AnnounceScore
<1>6. CASE Sent
  BY <1>6, SameUnderWay
<1>7. CASE Receive
  BY <1>7, LessUnderWay DEF Receive
<1>8. CASE ExecutePlans \/ AnswerBump \/ PutAnswer \/ UNCHANGED allVars
  BY <1>1, <1>8 DEF ExecutePlans, AnswerBump, PutAnswer, allVars
<1>9. CASE ChoosePlan
  BY <1>1, <1>9 DEF ChoosePlan, ThinkingPanics, BotPanics, PlayPlan
<1>10. CASE ReplacePiece
  BY <1>1, <1>10 DEF ReplacePiece, ReplaceBy, ThinkingPanics, BotPanics
<1> QED
  BY <1>3, <1>4, <1>5, <1>6, <1>7, <1>8, <1>9, <1>10 DEF BotNext

\* A step of a thought that is not taken back with the rest of the thought.
Misled == thought # Idle /\ thought' # Idle /\ ~panicked' /\ Mind' # Mind

\* Choosing a plan and replacing a piece are the only steps inside a thought.
LEMMA StaysInStep == MindInv /\ [BotNext]_allVars => InStep' \/ Misled
<1> SUFFICES ASSUME MindInv, [BotNext]_allVars, ~Misled PROVE InStep'
  OBVIOUS
<1>1. "Doing" \in DOMAIN Idle /\ Idle.Doing = "nothing"
  BY DEF Idle
<1>2. ASSUME ChoosePlan, ~panicked'
      PROVE  Mind' = Mind
  <2>1. thought.Doing = "turn" /\ thought # Idle
    BY <1>1, <1>2 DEF ChoosePlan
  <2>2. PICK p, ss : PlayPlan(p, ss)
    BY <1>2 DEF ChoosePlan, ThinkingPanics, BotPanics
  <2> DEFINE done == ss[Len(ss)].Dest
             subs == thought.Subactions \o ss
             bumped == IF p.Bumps = <<>> THEN thought.Bumped ELSE done
             rest == IF p.Actions = 0 \/ p.Bumps # <<>> THEN 0
                     ELSE thought.ActionsLeft - p.Actions
  <2>3. thought' = [thought EXCEPT !.Subactions = subs, !.Bumped = bumped,
                                   !.ActionsLeft = rest]
    BY <1>2, <2>2 DEF PlayPlan, BotPanics
  <2> HIDE DEF subs, bumped, rest
  <2>4. DOMAIN thought' = DOMAIN thought
        /\ ("Doing" \in DOMAIN thought => thought'.Doing = thought.Doing)
    BY <2>3
  <2>5. thought' # Idle
    BY <1>1, <2>1, <2>4
  <2> QED
    BY <1>2, <2>1, <2>5 DEF Misled
<1>3. ASSUME ReplacePiece, ~panicked'
      PROVE  Mind' = Mind
  <2>1. thought.Doing = "bump" /\ thought # Idle
    BY <1>1, <1>3 DEF ReplacePiece
  <2>2. PICK piece, to : Replace(piece, to)
    BY <1>3 DEF ReplacePiece, ReplaceBy, ThinkingPanics, BotPanics
  <2> DEFINE pieces == Tail(thought.Pieces)
             more(s) == Append(thought.Subactions, s)
  <2>3. \/ thought' = [thought EXCEPT !.Pieces = pieces]
        \/ \E s : thought' = [thought EXCEPT !.Pieces = pieces, !.Subactions = more(s)]
    BY <2>2 DEF Replace
  <2> HIDE DEF pieces, more
  <2>4. DOMAIN thought' = DOMAIN thought
        /\ ("Doing" \in DOMAIN thought => thought'.Doing = thought.Doing)
    BY <2>3
  <2>5. thought' # Idle
    BY <1>1, <2>1, <2>4
  <2> QED
    BY <1>3, <2>1, <2>5 DEF Misled
<1> QED
  BY <1>2, <1>3, MindStep DEF MindInv

\* Nothing but a thought can put the bot out of step: it starts in step, as long as
\* it is in step its table is the game's whenever it has handled all that was sent
\* to it, and it is out of step only after a step inside a thought whose changes
\* are not taken back with the thought.  No order of requests, notifications and
\* blocked sends does it, of whichever player, with any capacity of the channels
\* (bot.go, Run; routebrain.go, HandleNotifySubaction; game.go, notify).
THEOREM OnlyThoughtsMislead ==
    BotSpec => InStep /\ [](InStep => MindFollows) /\ [][InStep => InStep' \/ Misled]_allVars
<1>1. SlotInv /\ ChannelsFit /\ [BotNext]_allVars => [InStep => InStep' \/ Misled]_allVars
  BY StaysInStep DEF MindInv
<1>2. InStep => MindFollows
  <2> SUFFICES ASSUME InStep, ~panicked, thought = Idle, inMsg = <<>>, sending = <<>>
               PROVE  table = GameTable
    BY DEF MindFollows
  <2>1. UnderWay = <<>>
    BY DEF UnderWay
  <2>2. Mind = table
    BY NothingToUndo DEF Mind, Idle
  <2> QED
    BY <2>1, <2>2, ReplayNothing DEF InStep
<1>3. BotInit => SlotInv /\ ChannelsFit /\ InStep
  BY MindInit DEF MindInv
<1> QED
  BY <1>1, <1>2, <1>3, SlotStep, FitStep, PTL DEF BotSpec

-----------------------------------------------------------------------------
(* Whose move it is, across a step of the engine.                          *)

\* A bump is answered by another player than the one on turn, and before the
\* game is over.
VictimInv ==
    /\ turnState.Type \in {"BumpPaying", "Bumping"} => turnState.BumpingPlayer # turnState.Player
    /\ turnState.Type = "Bumping" => status = "Running"

\* What a subaction may do to the move.
Stays(p) ==
    /\ turnState'.Player = turnState.Player /\ status' = status
    /\ turnState.Type = "Bumping" => turnState'.Type = "Bumping" /\ Actor' = Actor
    /\ turnState.Type # "Bumping" /\ turnState'.Type = "Bumping" => Actor' # p
    /\ turnState'.Type # "Bumping" => Actor' = Actor

LEMMA SameTypes ==
    ASSUME turnState \in TurnStates, turnState' \in TurnStates, VictimInv, Same
    PROVE  /\ turnState.Type = "Bumping" <=> turnState'.Type = "Bumping"
           /\ turnState.Type = "BumpPaying" <=> turnState'.Type = "BumpPaying"
           /\ turnState.Type \in {"BumpPaying", "Bumping"} =>
                  turnState'.BumpingPlayer = turnState.BumpingPlayer
<1>1. turnState.Type \in TurnTypes /\ turnState'.Type \in TurnTypes
  BY DEF TurnStates
<1>2. /\ Phase(turnState) = "answering" <=> turnState.Type = "Bumping"
      /\ Phase(turnState) = "paying" <=> turnState.Type = "BumpPaying"
  BY <1>1, PhaseFacts DEF TurnTypes
<1>3. /\ Phase(turnState') = "answering" <=> turnState'.Type = "Bumping"
      /\ Phase(turnState') = "paying" <=> turnState'.Type = "BumpPaying"
  BY <1>1, PhaseFacts DEF TurnTypes
<1>4. Phase(turnState') = Phase(turnState) /\ Victim(turnState') = Victim(turnState)
  BY DEF Same
<1>5. /\ turnState.Type \in {"BumpPaying", "Bumping"} =>
             Victim(turnState) = turnState.BumpingPlayer
      /\ turnState'.Type \in {"BumpPaying", "Bumping"} =>
             Victim(turnState') = turnState'.BumpingPlayer
  BY PhaseFacts
<1> QED
  BY <1>2, <1>3, <1>4, <1>5

LEMMA SameStays ==
    ASSUME TypeOK, TypeOK', VictimInv, NEW p, Actor = p, status = "Running", Same
    PROVE  Stays(p) /\ VictimInv'
<1>1. turnState \in TurnStates /\ turnState' \in TurnStates
  BY DEF TypeOK
<1>2. /\ turnState.Type = "Bumping" <=> turnState'.Type = "Bumping"
      /\ turnState.Type = "BumpPaying" <=> turnState'.Type = "BumpPaying"
      /\ turnState.Type \in {"BumpPaying", "Bumping"} =>
             turnState'.BumpingPlayer = turnState.BumpingPlayer
  BY <1>1, SameTypes
<1>3. turnState'.Player = turnState.Player /\ status' = status
  BY DEF Same
<1> QED
  BY <1>2, <1>3 DEF Stays, VictimInv, Actor

LEMMA BegunStays ==
    ASSUME VictimInv, NEW p, Actor = p, status = "Running", MayStart, Begun
    PROVE  Stays(p) /\ VictimInv'
<1>1. turnState.Type # "Bumping" /\ turnState'.Type # "Bumping"
  BY DEF MayStart, Begun
<1>2. turnState'.Player = turnState.Player /\ status' = status
  BY DEF Begun
<1>3. turnState'.Type = "BumpPaying" => turnState'.BumpingPlayer # turnState'.Player
  BY DEF Begun
<1> QED
  BY <1>1, <1>2, <1>3 DEF Stays, VictimInv, Actor

LEMMA CleansStays ==
    ASSUME NEW p, Actor = p, turnState.Type = "Clearing", Cleans
    PROVE  Stays(p) /\ VictimInv'
<1>1. /\ turnState'.Type \in {"None", "Clearing"}
      /\ turnState'.Player = turnState.Player /\ status' = status
  BY DEF Cleans
<1> QED
  BY <1>1 DEF Stays, VictimInv, Actor

LEMMA PaidStays ==
    ASSUME TypeOK, TypeOK', VictimInv, NEW p, Actor = p, status = "Running",
           turnState.Type = "BumpPaying", Turn!Paid
    PROVE  Stays(p) /\ VictimInv'
<1>1. /\ turnState'.Player = turnState.Player /\ Phase(turnState') = "answering"
      /\ Victim(turnState') = Victim(turnState) /\ status' = "Running"
  <2>1. turnState'.Player = turnState.Player /\ Phase(turnState') = "answering"
        /\ Victim(turnState') = Victim(turnState)
    BY DEF Turn!Paid, Phase, Victim
  <2>2. (status' = "Scoring") = (status = "Scoring")
    BY DEF Turn!Paid
  <2> QED
    BY <2>1, <2>2 DEF TypeOK
<1>2. turnState'.Type = "Bumping"
  BY <1>1, PhaseFacts DEF TypeOK, TurnStates, TurnTypes
<1>3. Victim(turnState') = turnState'.BumpingPlayer /\ Victim(turnState) = turnState.BumpingPlayer
  BY <1>2, PhaseFacts
<1>4. turnState'.BumpingPlayer # turnState'.Player /\ p = turnState.Player
  BY <1>1, <1>3 DEF VictimInv, Actor
<1> QED
  BY <1>1, <1>2, <1>4 DEF Stays, VictimInv, Actor

LEMMA SubactionStays ==
    ASSUME TurnInv, TypeOK', VictimInv, NEW p \in Players, Subaction(p)
    PROVE  Actor = p /\ status = "Running" /\ Stays(p) /\ VictimInv'
<1>1. TypeOK /\ MayAct(p) /\ board \in Boards /\ Actor = p /\ status = "Running"
  BY TurnTypesHold DEF Subaction, MayAct, MayAsk, Actor
<1>2. Same => Stays(p) /\ VictimInv'
  BY <1>1, SameStays
<1>3. MayStart /\ Begun => Stays(p) /\ VictimInv'
  BY <1>1, BegunStays
<1>4. ASSUME NEW shape \in Shapes, BagPiece(p, shape) \/ PayBump(p, shape)
      PROVE  Stays(p) /\ VictimInv'
  <2>1. CASE BagPiece(p, shape)
    BY <1>1, <1>2, <1>3, <2>1, TurnBags DEF BagPiece
  <2>2. CASE PayBump(p, shape)
    <3>1. turnState.Type = "BumpPaying"
      BY <2>2 DEF PayBump
    <3>2. Same \/ Turn!Paid
      BY <1>1, <2>2, TurnPay
    <3> QED
      BY <1>1, <1>2, <3>1, <3>2, PaidStays
  <2> QED
    BY <1>4, <2>1, <2>2
<1>5. ASSUME MayStart, NEW shape \in Shapes, NEW d \in SpotSquares,
             Place(p, shape, d) \/ Bump(p, shape, d)
      PROVE  Stays(p) /\ VictimInv'
  BY <1>1, <1>3, <1>5, TurnPlace
<1>6. ASSUME Panic PROVE Stays(p) /\ VictimInv'
  BY <1>2, <1>6 DEF Panic, Same
<1>7. ASSUME FromPools(p) PROVE Stays(p) /\ VictimInv'
  BY <1>4, <1>5, <1>6, <1>7 DEF FromPools, BumpPanic
<1>8. ASSUME Answer(p) PROVE Stays(p) /\ VictimInv'
  BY <1>1, <1>2, <1>8, TurnAnswer
<1>9. ASSUME NEW s \in OnRoutes(p), NEW d \in SpotSquares, Move(p, s, d)
      PROVE  Stays(p) /\ VictimInv'
  <2>1. SameOffices(Shift(board, s, d))
    BY <1>1, ShiftAside DEF SameOffices, PlacesAside
  <2>2. Same \/ (MayStart /\ Begun)
    BY <1>1, <1>9, <2>1, TurnMove DEF Move
  <2> QED
    BY <1>2, <1>3, <2>2
<1>10. ASSUME Clear(p) PROVE Stays(p) /\ VictimInv'
  <2>1. ASSUME turnState.Type = "Clearing",
               \/ \E s \in OnRoutes(p) :
                      \/ \E d \in OfficeSquares : TakeOffice(p, s, d)
                      \/ \E d \in CoellenSquares : TakeCoellen(p, s, d)
                      \/ ClearMore(p, s)
               \/ LevelUp(p)
        PROVE  Stays(p) /\ VictimInv'
    BY <1>1, <2>1, TurnClearStep, CleansStays
  <2>2. ASSUME MayStart, NEW s \in OnRoutes(p),
               \/ \E d \in OfficeSquares : ClearToOffice(p, s, d)
               \/ ClearToStock(p, s)
        PROVE  Stays(p) /\ VictimInv'
    BY <1>1, <1>3, <2>2, TurnClearStart
  <2> QED
    BY <1>10, <2>1, <2>2 DEF Clear
<1>11. Stays(p) /\ VictimInv'
  BY <1>7, <1>8, <1>9, <1>10 DEF Subaction
<1> QED
  BY <1>1, <1>11

\* With the bump answered it is another player's move again, the one on turn.
LEMMA EndBumpStays ==
    ASSUME TypeOK, VictimInv, NEW p, EndBump(p)
    PROVE  /\ Actor = p /\ status = "Running" /\ VictimInv' /\ status' = status
           /\ turnState'.Type = "None" /\ Actor' = turnState'.Player
           /\ turnState'.Player # p
<1>1. /\ turnState.Type = "Bumping" /\ turnState.BumpingPlayer = p /\ status' = status
      /\ turnState' = [turnState EXCEPT !.Type = "None", !.BumpingPlayer = 0,
                                        !.BumpingLocation = NoLocation,
                                        !.BumpingMoved = FALSE, !.BumpingReplaces = 0]
  BY DEF EndBump
<1>2. turnState'.Type = "None" /\ turnState'.Player = turnState.Player
  BY <1>1 DEF TypeOK, TurnStates
<1> QED
  BY <1>1, <1>2 DEF VictimInv, Actor

\* The turn passes, or the game is over.
LEMMA EndTurnStays ==
    ASSUME TypeOK, VictimInv, NEW p, EndTurn(p)
    PROVE  /\ Actor = p /\ VictimInv'
           /\ status' = status => turnState'.Type # "Bumping" /\ Actor' = turnState'.Player
<1>1. turnState.Player = p /\ turnState.Type \notin {"Bumping", "Clearing"}
  BY DEF EndTurn, MayEndTurn
<1>2. CASE status' = "Scoring" /\ turnState' = turnState
  BY <1>1, <1>2 DEF Actor, VictimInv
<1> DEFINE next == (p + 1) % NPlayers
<1>3. CASE turnState' = FreshTurn(next, GetActions(tracks[next]))
  BY <1>1, <1>3 DEF Actor, VictimInv, FreshTurn
<1> QED
  BY <1>2, <1>3 DEF EndTurn

-----------------------------------------------------------------------------
(* What is under way in either direction.                                  *)

\* The requests of the last thought that the game has not taken yet.
Left == outMsg \o answers

RequestsFit == \E S : outMsg \in Seq(S) /\ answers \in Seq(S)

LEMMA LeftFacts ==
    ASSUME RequestsFit
    PROVE  /\ Len(Left) \in Nat /\ Len(Left) = Len(outMsg) + Len(answers)
           /\ Len(outMsg) \in Nat /\ Len(answers) \in Nat
           /\ Left = <<>> <=> outMsg = <<>> /\ answers = <<>>
           /\ Left # <<>> => Len(Left) > 0
           /\ outMsg # <<>> => Len(outMsg) > 0
           /\ answers # <<>> => Len(answers) > 0
<1>1. PICK S : outMsg \in Seq(S) /\ answers \in Seq(S)
  BY DEF RequestsFit
<1>2. Left \in Seq(S) /\ Len(Left) = Len(outMsg) + Len(answers)
  BY <1>1, ConcatProperties DEF Left
<1>3. Left = <<>> <=> outMsg = <<>> /\ answers = <<>>
  BY <1>1, ConcatEqualIffEmpty DEF Left
<1>4. \A q \in Seq(S) : Len(q) \in Nat /\ (q # <<>> => Len(q) > 0)
  BY EmptySeq, LenProperties
<1> QED
  BY <1>1, <1>2, <1>3, <1>4

\* A request reaches the game.
LEMMA LessLeft ==
    ASSUME RequestsFit, outMsg # <<>>, outMsg' = Tail(outMsg), answers' = answers
    PROVE  /\ RequestsFit' /\ Shorter(Left, Left') /\ Left[1] = Head(outMsg)
           /\ Len(Left) = 1 => Left' = <<>>
<1>1. PICK S : outMsg \in Seq(S) /\ answers \in Seq(S)
  BY DEF RequestsFit
<1>2. Tail(outMsg) \in Seq(S)
  BY <1>1, HeadTailProperties
<1>3. Left' = Tail(outMsg) \o answers
  BY DEF Left
<1>4. Shorter(Left, Left') /\ Left[1] = Head(outMsg)
  BY <1>1, <1>3, FrontGone DEF Left
<1>5. Len(Left) = 1 => Left' = <<>>
  <2>1. Left' \in Seq(S)
    BY <1>1, <1>2, <1>3, ConcatProperties
  <2>2. Left' # <<>> => Len(Left') \in Nat \ {0}
    BY <2>1, EmptySeq
  <2> QED
    BY <1>4, <2>2 DEF Shorter
<1> QED
  BY <1>1, <1>2, <1>4, <1>5 DEF RequestsFit

\* A request goes from the bot's hands to the queue.
LEMMA SameLeft ==
    ASSUME RequestsFit, PutAnswer
    PROVE  RequestsFit' /\ Left' = Left
<1>1. PICK S : outMsg \in Seq(S) /\ answers \in Seq(S)
  BY DEF RequestsFit
<1>2. /\ answers # <<>> /\ outMsg' = Append(outMsg, Head(answers))
      /\ answers' = Tail(answers)
  BY DEF PutAnswer
<1>3. Head(answers) \in S /\ Tail(answers) \in Seq(S) /\ <<Head(answers)>> \in Seq(S)
  BY <1>1, <1>2, HeadTailProperties
<1>4. answers = <<Head(answers)>> \o Tail(answers)
  BY <1>1, <1>2
<1>5. Append(outMsg, Head(answers)) = outMsg \o <<Head(answers)>>
      /\ Append(outMsg, Head(answers)) \in Seq(S)
  BY <1>1, <1>3, AppendIsConcat, AppendProperties
<1>6. (outMsg \o <<Head(answers)>>) \o Tail(answers)
          = outMsg \o (<<Head(answers)>> \o Tail(answers))
  BY <1>1, <1>3, ConcatAssociative
<1> QED
  BY <1>1, <1>2, <1>3, <1>4, <1>5, <1>6 DEF Left, RequestsFit

\* The bot has new requests.
LEMMA NewLeft ==
    ASSUME outMsg = <<>>, outMsg' = outMsg, NEW S, NEW requests \in Seq(S), Say(requests)
    PROVE  /\ RequestsFit' /\ Left' = requests
           /\ burst' = Len(requests) /\ Len(requests) \in Nat
<1>1. answers' = requests /\ burst' = Len(requests) /\ outMsg' = <<>>
  BY DEF Say
<1>2. <<>> \in Seq(S) /\ Len(requests) \in Nat
  BY EmptySeq, LenProperties
<1>3. Left' = requests
  BY <1>1, ConcatEmptySeq DEF Left
<1> QED
  BY <1>1, <1>2, <1>3 DEF RequestsFit

-----------------------------------------------------------------------------
(* What calls the bot to think is the last thing that happened.            *)

Live == status = "Running" /\ ~panicked

\* A notification that it is the bot's move, and one that a piece of the bot is
\* bumped.
CallsBot(m) == m.Type \in {"NextTurn", "EndBump"} /\ m.Turn.Player = Bot
TellsBump(m) ==
    m.Type = "Subaction" /\ m.Turn.Type = "Bumping" /\ m.Turn.BumpingPlayer = Bot

\* The i-th notification under way is the last one, and the bot has asked for all
\* it wanted and is waiting for it.
LastOne(i) ==
    i = Len(UnderWay) /\ Left = <<>> /\ thought = Idle /\ (Live => Actor = Bot)

\* With all before the i-th notification handled the bot has answered the bump.
BumpAnswered(i) == handledBump /\ \A j \in 1 .. i - 1 : UnderWay[j].Type # "EndBump"

CallsLast ==
    \A i \in 1 .. Len(UnderWay) :
        CallsBot(UnderWay[i]) => LastOne(i) /\ (Live => turnState.Type # "Bumping")

BumpsToldOnce ==
    \A i \in 1 .. Len(UnderWay) : TellsBump(UnderWay[i]) => BumpAnswered(i) \/ LastOne(i)

\* The bot thinks when nothing is under way.
ThinksAlone ==
    thought # Idle => Len(UnderWay) = 0 /\ Left = <<>> /\ (Live => Actor = Bot)

MoveIsBots == Live /\ Left # <<>> => Actor = Bot

\* A request leaves the queue for every notification that is added.
BurstCounts ==
    Left # <<>> => burst \in Nat /\ Len(Left) + Len(UnderWay) <= burst

AnswersOnce ==
    Live /\ turnState.Type = "Bumping" /\ Actor = Bot /\ (Left # <<>> \/ thought # Idle)
        => BumpAnswered(Len(UnderWay) + 1)

\* Only the last request can be the end of a turn or of a bump.
EndsLast == \A i \in 1 .. Len(Left) - 1 : Left[i].Type = "Subaction"

\* After the end of the game there is nothing left to ask or to answer.
OverIsOver ==
    status # "Running" =>
        /\ Left = <<>> /\ thought = Idle
        /\ \A i \in 1 .. Len(UnderWay) :
               ~CallsBot(UnderWay[i]) /\ (TellsBump(UnderWay[i]) => BumpAnswered(i))

CallInv == CallsLast /\ BumpsToldOnce /\ ThinksAlone /\ MoveIsBots /\ BurstCounts
               /\ AnswersOnce /\ EndsLast /\ OverIsOver

BurstInv == EngineInv /\ VictimInv /\ ChannelsFit /\ RequestsFit /\ CallInv

LEMMA BurstInit == BotInit => BurstInv
<1> SUFFICES ASSUME BotInit PROVE BurstInv
  OBVIOUS
<1>1. /\ Init /\ thought = Idle /\ outMsg = <<>> /\ answers = <<>> /\ sending = <<>>
      /\ inMsg = <<[Type |-> "NextTurn", Turn |-> turnState]>>
  BY DEF BotInit
<1>2. turnState.Type = "None" /\ turnState.Player = 0
  BY <1>1 DEF Init, FreshTurn
<1>3. EngineInv /\ VictimInv
  BY <1>1, <1>2, EngineInit DEF VictimInv
<1> DEFINE m == [Type |-> "NextTurn", Turn |-> turnState]
<1>4. m \in {m} /\ <<>> \in Seq({m}) /\ <<m>> \in Seq({m}) /\ Len(<<m>>) = 1 /\ <<m>>[1] = m
  OBVIOUS
<1>5. UnderWay = <<m>> /\ ChannelsFit
  BY <1>1, <1>4, ConcatEmptySeq DEF UnderWay, ChannelsFit
<1>6. Left = <<>> /\ RequestsFit
  BY <1>1, <1>4, ConcatEmptySeq DEF Left, RequestsFit
<1>7. /\ Len(UnderWay) = 1 /\ UnderWay[1].Type = "NextTurn" /\ UnderWay[1].Turn = turnState
  BY <1>4, <1>5
<1>8. CallsLast
  <2>1. CallsBot(UnderWay[1]) => Actor = Bot
    BY <1>2, <1>7 DEF CallsBot, Actor
  <2> QED
    BY <1>1, <1>2, <1>6, <1>7, <2>1 DEF CallsLast, LastOne
<1>9. BumpsToldOnce
  BY <1>7 DEF BumpsToldOnce, TellsBump
<1>10. ThinksAlone /\ MoveIsBots /\ BurstCounts /\ AnswersOnce
  BY <1>1, <1>6 DEF ThinksAlone, MoveIsBots, BurstCounts, AnswersOnce
<1>11. EndsLast
  <2>1. Len(Left) = 0
    BY <1>6
  <2> QED
    BY <2>1 DEF EndsLast
<1>12. OverIsOver
  BY <1>1 DEF OverIsOver, Init
<1> QED
  BY <1>3, <1>5, <1>6, <1>8, <1>9, <1>10, <1>11, <1>12 DEF BurstInv, CallInv

\* The move is as it was, unless the process is gone.
SameMove == UNCHANGED <<turnState, status>> /\ (panicked' = panicked \/ panicked' = TRUE)

\* With nothing under way and nothing left to ask the bot begins to think.
LEMMA Wakes ==
    ASSUME SameMove, status = "Running", Len(UnderWay') = 0, Left' = <<>>, Live => Actor = Bot,
           Live /\ turnState.Type = "Bumping" => handledBump'
    PROVE  CallInv'
<1>1. (Live' => Live) /\ Actor' = Actor
  BY DEF SameMove, Live, Actor
<1>2. CallsLast' /\ BumpsToldOnce'
  BY DEF CallsLast, BumpsToldOnce
<1>3. ThinksAlone' /\ MoveIsBots' /\ BurstCounts'
  BY <1>1 DEF ThinksAlone, MoveIsBots, BurstCounts
<1>4. AnswersOnce'
  BY <1>1 DEF AnswersOnce, BumpAnswered, SameMove
<1>5. EndsLast'
  <2>1. Len(Left') = 0
    OBVIOUS
  <2> QED
    BY <2>1 DEF EndsLast
<1>6. OverIsOver'
  BY DEF OverIsOver, SameMove
<1> QED
  BY <1>2, <1>3, <1>4, <1>5, <1>6 DEF CallInv

\* With nothing under way it asks for the whole of what it thought of.
LEMMA Speaks ==
    ASSUME SameMove, status = "Running", Len(UnderWay') = 0, outMsg = <<>>, outMsg' = outMsg,
           Live => Actor = Bot, Live /\ turnState.Type = "Bumping" => handledBump',
           NEW S, NEW requests \in Seq(S), Say(requests), thought' = Idle,
           \A i \in 1 .. Len(requests) - 1 : requests[i].Type = "Subaction"
    PROVE  RequestsFit' /\ CallInv'
<1>1. (Live' => Live) /\ Actor' = Actor
  BY DEF SameMove, Live, Actor
<1>2. /\ RequestsFit' /\ Left' = requests
      /\ burst' = Len(requests) /\ Len(requests) \in Nat
  BY NewLeft
<1>3. CallsLast' /\ BumpsToldOnce'
  BY DEF CallsLast, BumpsToldOnce
<1>4. ThinksAlone' /\ MoveIsBots'
  BY <1>1 DEF ThinksAlone, MoveIsBots
<1>5. BurstCounts'
  BY <1>2 DEF BurstCounts
<1>6. AnswersOnce'
  BY <1>1 DEF AnswersOnce, BumpAnswered, SameMove
<1>7. EndsLast'
  BY <1>2 DEF EndsLast
<1>8. OverIsOver'
  BY DEF OverIsOver, SameMove
<1> QED
  BY <1>2, <1>3, <1>4, <1>5, <1>6, <1>7, <1>8 DEF CallInv

\* A notification that the bot need not react to is taken.
LEMMA Passes ==
    ASSUME CallInv, SameMove, Shorter(UnderWay, UnderWay'), Left' = Left,
           Left # <<>> => Len(Left) > 0 /\ Len(Left) \in Nat,
           thought' = thought, thought = Idle, burst' = burst,
           UnderWay[1].Type # "EndBump" /\ handledBump => handledBump'
    PROVE  CallInv'
<1>1. (Live' => Live) /\ Actor' = Actor
  BY DEF SameMove, Live, Actor
<1>2. /\ Len(UnderWay) \in Nat \ {0} /\ Len(UnderWay') = Len(UnderWay) - 1
      /\ \A i \in 1 .. Len(UnderWay) - 1 : UnderWay'[i] = UnderWay[i + 1]
  BY DEF Shorter
<1>3. ASSUME NEW i \in 1 .. Len(UnderWay')
      PROVE  /\ i + 1 \in 1 .. Len(UnderWay) /\ UnderWay'[i] = UnderWay[i + 1]
             /\ LastOne(i + 1) => LastOne(i)'
  <2>1. i + 1 \in 1 .. Len(UnderWay) /\ UnderWay'[i] = UnderWay[i + 1]
    BY <1>2
  <2>2. i + 1 = Len(UnderWay) => i = Len(UnderWay')
    BY <1>2
  <2> QED
    BY <1>1, <2>1, <2>2 DEF LastOne
<1>4. ASSUME NEW i \in 1 .. Len(UnderWay), BumpAnswered(i + 1)
      PROVE  BumpAnswered(i)'
  <2>1. handledBump /\ \A j \in 1 .. i : UnderWay[j].Type # "EndBump"
    BY <1>4 DEF BumpAnswered
  <2>2. handledBump'
    BY <2>1
  <2>3. ASSUME NEW j \in 1 .. i - 1
        PROVE  UnderWay'[j].Type # "EndBump"
    <3>1. j \in 1 .. Len(UnderWay) - 1 /\ j + 1 \in 1 .. i
      BY <1>2
    <3> QED
      BY <1>2, <2>1, <3>1
  <2> QED
    BY <2>2, <2>3 DEF BumpAnswered
<1>5. CallsLast'
  BY <1>1, <1>3 DEF CallInv, CallsLast, SameMove
<1>6. BumpsToldOnce'
  <2> SUFFICES ASSUME NEW i \in 1 .. Len(UnderWay'), TellsBump(UnderWay'[i])
               PROVE  BumpAnswered(i)' \/ LastOne(i)'
    BY DEF BumpsToldOnce
  <2>1. i + 1 \in 1 .. Len(UnderWay) /\ UnderWay'[i] = UnderWay[i + 1] /\ i \in 1 .. Len(UnderWay)
    BY <1>2, <1>3
  <2>2. BumpAnswered(i + 1) \/ LastOne(i + 1)
    BY <2>1 DEF CallInv, BumpsToldOnce
  <2> QED
    BY <1>3, <1>4, <2>1, <2>2
<1>7. ThinksAlone' /\ MoveIsBots'
  BY <1>1 DEF CallInv, ThinksAlone, MoveIsBots
<1>8. BurstCounts'
  BY <1>2 DEF CallInv, BurstCounts
<1>9. AnswersOnce'
  <2> SUFFICES ASSUME Live, turnState.Type = "Bumping", Actor = Bot, Left # <<>>
               PROVE  BumpAnswered(Len(UnderWay) + 1)'
    BY <1>1 DEF AnswersOnce, SameMove
  <2>1. PICK n \in 1 .. Len(UnderWay) : n = Len(UnderWay) /\ Len(UnderWay') + 1 = n
    BY <1>2
  <2>2. BumpAnswered(n + 1)
    BY <2>1 DEF CallInv, AnswersOnce
  <2>3. BumpAnswered(n)'
    BY <1>4, <2>2
  <2> QED
    BY <2>1, <2>3 DEF BumpAnswered
<1>10. EndsLast'
  BY DEF CallInv, EndsLast
<1>11. OverIsOver'
  <2> SUFFICES ASSUME status # "Running"
               PROVE  /\ Left = <<>>
                      /\ \A i \in 1 .. Len(UnderWay') :
                             /\ ~CallsBot(UnderWay'[i])
                             /\ TellsBump(UnderWay'[i]) => BumpAnswered(i)'
    BY DEF OverIsOver, SameMove
  <2>1. /\ Left = <<>>
        /\ \A i \in 1 .. Len(UnderWay) :
               ~CallsBot(UnderWay[i]) /\ (TellsBump(UnderWay[i]) => BumpAnswered(i))
    BY DEF CallInv, OverIsOver
  <2>2. ASSUME NEW i \in 1 .. Len(UnderWay')
        PROVE  ~CallsBot(UnderWay'[i]) /\ (TellsBump(UnderWay'[i]) => BumpAnswered(i)')
    <3>1. i + 1 \in 1 .. Len(UnderWay) /\ UnderWay'[i] = UnderWay[i + 1]
          /\ i \in 1 .. Len(UnderWay)
      BY <1>2, <1>3
    <3> QED
      BY <1>4, <2>1, <3>1
  <2> QED
    BY <2>1, <2>2
<1> QED
  BY <1>5, <1>6, <1>7, <1>8, <1>9, <1>10, <1>11 DEF CallInv

LEMMA BurstReceive ==
    ASSUME BurstInv, Receive
    PROVE  ChannelsFit' /\ RequestsFit' /\ CallInv'
<1> DEFINE msg == Head(inMsg)
<1>1. /\ thought = Idle /\ answers = <<>> /\ inMsg # <<>> /\ inMsg' = Tail(inMsg)
      /\ sending' = sending /\ outMsg' = outMsg /\ SameMove
  BY ReceivePanics DEF Receive, SameMove
<1>2. /\ ChannelsFit' /\ Shorter(UnderWay, UnderWay') /\ UnderWay[1] = msg
      /\ CallInv /\ RequestsFit
  BY <1>1, LessUnderWay DEF BurstInv
<1>3. Len(UnderWay) \in Nat \ {0} /\ Len(UnderWay') = Len(UnderWay) - 1
      /\ 1 \in 1 .. Len(UnderWay)
  BY <1>2 DEF Shorter
<1> HIDE DEF msg
\* It is of no concern to the bot.
<1>4. ASSUME Ignore, msg.Type # "EndBump" /\ handledBump => handledBump'
      PROVE  RequestsFit' /\ CallInv'
  <2>1. answers' = answers /\ thought' = thought /\ burst' = burst
    BY <1>4 DEF Ignore
  <2>2. Left' = Left /\ RequestsFit'
    BY <1>1, <1>2, <2>1 DEF Left, RequestsFit
  <2>3. Left # <<>> => Len(Left) > 0 /\ Len(Left) \in Nat
    BY <1>2, LeftFacts
  <2>4. CallInv'
    BY <1>1, <1>2, <1>4, <2>1, <2>2, <2>3, Passes
  <2> QED
    BY <2>2, <2>4
\* It is what the bot has waited for.
<1>5. ASSUME LastOne(1), status = "Running",
             Live /\ turnState.Type = "Bumping" => handledBump'
      PROVE  /\ UNCHANGED <<answers, burst>> => RequestsFit' /\ CallInv'
             /\ \A x, y : x.Type = "Subaction" /\ thought' = thought /\ Say(<<x, y>>)
                    => RequestsFit' /\ CallInv'
             /\ \A y : thought' = thought /\ Say(<<y>>) => RequestsFit' /\ CallInv'
  <2>1. /\ Len(UnderWay') = 0 /\ Left = <<>> /\ (Live => Actor = Bot)
        /\ outMsg = <<>> /\ outMsg' = outMsg
    <3>1. 1 = Len(UnderWay) /\ Left = <<>> /\ (Live => Actor = Bot)
      BY <1>5 DEF LastOne
    <3>2. Len(UnderWay') = 1 - 1
      BY <1>3, <3>1
    <3>3. outMsg = <<>>
      BY <1>2, <3>1, LeftFacts
    <3> QED
      BY <1>1, <3>1, <3>2, <3>3
  <2>2. UNCHANGED <<answers, burst>> => RequestsFit' /\ CallInv'
    <3> SUFFICES ASSUME UNCHANGED <<answers, burst>> PROVE RequestsFit' /\ CallInv'
      OBVIOUS
    <3>1. Left' = <<>> /\ RequestsFit'
      BY <1>1, <1>2, <2>1 DEF Left, RequestsFit
    <3> QED
      BY <1>1, <1>5, <2>1, <3>1, Wakes
  <2>3. ASSUME NEW x, NEW y, x.Type = "Subaction", thought' = thought, Say(<<x, y>>)
        PROVE  RequestsFit' /\ CallInv'
    <3> DEFINE q == <<x, y>>
    <3>1. q \in Seq({x, y}) /\ Len(q) = 2 /\ q[1] = x
      OBVIOUS
    <3>2. Say(q) /\ thought' = Idle
      BY <1>1, <2>3
    <3> HIDE DEF q
    <3>3. \A i \in 1 .. Len(q) - 1 : q[i].Type = "Subaction"
      BY <2>3, <3>1
    <3> QED
      BY <1>1, <1>5, <2>1, <3>1, <3>2, <3>3, Speaks
  <2>4. ASSUME NEW y, thought' = thought, Say(<<y>>)
        PROVE  RequestsFit' /\ CallInv'
    <3> DEFINE q == <<y>>
    <3>1. q \in Seq({y}) /\ Len(q) = 1
      OBVIOUS
    <3>2. Say(q) /\ thought' = Idle
      BY <1>1, <2>4
    <3> HIDE DEF q
    <3>3. \A i \in 1 .. Len(q) - 1 : q[i].Type = "Subaction"
      BY <3>1
    <3> QED
      BY <1>1, <1>5, <2>1, <3>1, <3>2, <3>3, Speaks
  <2> QED
    BY <2>2, <2>3, <2>4
<1>6. CASE msg.Type = "Subaction"
  <2>1. handledBump' = (handledBump \/ Bumped(msg.Turn))
    BY <1>6 DEF Receive, msg
  <2>2. CASE ~Bumped(msg.Turn)
    <3>1. Ignore
      BY <1>6, <2>2 DEF Receive, msg
    <3> QED
      BY <1>2, <1>4, <2>1, <3>1
  <2>3. CASE Bumped(msg.Turn)
    <3>1. PlanBump(table', msg.Turn)
      BY <1>6, <2>3 DEF Receive, msg
    <3>2. TellsBump(UnderWay[1]) /\ ~handledBump /\ handledBump'
      BY <1>2, <1>6, <2>1, <2>3 DEF TellsBump, Bumped
    <3>3. LastOne(1) /\ status = "Running"
      BY <1>2, <1>3, <3>2 DEF CallInv, BumpsToldOnce, OverIsOver, BumpAnswered
    <3>4. \/ UNCHANGED <<answers, burst>>
          \/ \E d : thought' = thought /\
                 Say(<<Ask(Step(msg.Turn.BumpingLocation, d, table'[msg.Turn.BumpingLocation])),
                       [Type |-> "EndBump"]>>)
      BY <3>1 DEF PlanBump, MoveOnlyBumped
    <3>5. \A s : Ask(s).Type = "Subaction"
      BY DEF Ask
    <3> QED
      BY <1>2, <1>5, <3>2, <3>3, <3>4, <3>5
  <2> QED
    BY <2>2, <2>3
<1>7. CASE msg.Type \in {"NextTurn", "EndBump"} /\ msg.Turn.Player = Bot
  <2>1. LastOne(1) /\ (Live => turnState.Type # "Bumping") /\ status = "Running"
    BY <1>2, <1>3, <1>7 DEF CallInv, CallsLast, OverIsOver, CallsBot
  <2>2. \/ PlanTurn(msg.Turn)
        \/ Say(<<[Type |-> "EndTurn"]>>) /\ thought' = thought
    <3>1. CASE msg.Type = "NextTurn"
      BY <1>7, <3>1 DEF Receive, msg
    <3>2. CASE msg.Type = "EndBump" /\ msg.Turn.ActionsLeft = 0
      BY <1>7, <3>2 DEF Receive, Resume, msg
    <3>3. CASE msg.Type = "EndBump" /\ msg.Turn.ActionsLeft # 0
      BY <1>7, <3>3 DEF Receive, Resume, msg
    <3> QED
      BY <1>7, <3>1, <3>2, <3>3
  <2> QED
    BY <1>2, <1>5, <2>1, <2>2 DEF PlanTurn
<1>8. CASE msg.Type = "NextTurn" /\ msg.Turn.Player # Bot
  <2>1. Ignore /\ handledBump' = handledBump
    BY <1>8 DEF Receive, msg
  <2> QED
    BY <1>2, <1>4, <2>1
<1>9. CASE msg.Type = "EndBump" /\ msg.Turn.Player # Bot
  <2>1. Ignore
    BY <1>9 DEF Receive, Resume, msg
  <2> QED
    BY <1>2, <1>4, <1>9, <2>1
<1>10. CASE msg.Type \in {"Error", "Scoring"}
  <2>1. Ignore /\ handledBump' = handledBump
    BY <1>10 DEF Receive, msg
  <2> QED
    BY <1>2, <1>4, <2>1
<1>11. msg.Type \in {"Subaction", "NextTurn", "EndBump", "Error", "Scoring"}
  BY DEF Receive, msg
<1> QED
  BY <1>6, <1>7, <1>8, <1>9, <1>10, <1>11

\* When the bot asks, or somebody else does, all calls have been answered: the
\* bot has begun to speak, or it is not its move.
LEMMA AllCalled ==
    ASSUME CallInv, Live, Left # <<>> \/ Actor # Bot
    PROVE  /\ thought = Idle
           /\ \A i \in 1 .. Len(UnderWay) :
                  ~CallsBot(UnderWay[i]) /\ (TellsBump(UnderWay[i]) => BumpAnswered(i))
<1>1. thought = Idle
  BY DEF CallInv, ThinksAlone
<1>2. \A i : ~LastOne(i)
  BY DEF LastOne
<1> QED
  BY <1>1, <1>2 DEF CallInv, CallsLast, BumpsToldOnce

\* A step of the game that is notified.
LEMMA ActKeeps ==
    ASSUME CallInv, Live, UNCHANGED <<thought, handledBump, burst>>,
           NEW m, Longer(UnderWay, UnderWay', m),
           \/ Left = <<>> /\ Left' = <<>> /\ Actor # Bot
           \/ Left # <<>> /\ Shorter(Left, Left') /\ Actor = Bot,
           CallsBot(m) => Left' = <<>> /\ (Live' => Actor' = Bot /\ turnState'.Type # "Bumping"),
           TellsBump(m) => \/ Left' = <<>> /\ (Live' => Actor' = Bot)
                           \/ Actor = Bot /\ turnState.Type = "Bumping",
           Live' /\ Left' # <<>> =>
               /\ Actor' = Bot
               /\ turnState'.Type = "Bumping" => turnState.Type = "Bumping" /\ m.Type # "EndBump",
           status' # "Running" => Left' = <<>> /\ ~CallsBot(m) /\ ~TellsBump(m)
    PROVE  CallInv'
<1>1. /\ Len(UnderWay) \in Nat /\ Len(UnderWay') = Len(UnderWay) + 1
      /\ UnderWay'[Len(UnderWay) + 1] = m
      /\ \A i \in 1 .. Len(UnderWay) : UnderWay'[i] = UnderWay[i]
  BY DEF Longer
<1>2. /\ thought = Idle
      /\ \A i \in 1 .. Len(UnderWay) :
             ~CallsBot(UnderWay[i]) /\ (TellsBump(UnderWay[i]) => BumpAnswered(i))
  BY AllCalled
<1>3. ASSUME NEW i \in 1 .. Len(UnderWay) + 1, BumpAnswered(i)
      PROVE  BumpAnswered(i)'
  <2>1. handledBump' /\ \A j \in 1 .. i - 1 : UnderWay[j].Type # "EndBump"
    BY <1>3 DEF BumpAnswered
  <2>2. ASSUME NEW j \in 1 .. i - 1
        PROVE  UnderWay'[j].Type # "EndBump"
    <3>1. j \in 1 .. Len(UnderWay)
      BY <1>1
    <3> QED
      BY <1>1, <2>1, <3>1
  <2> QED
    BY <2>1, <2>2 DEF BumpAnswered
<1>4. Actor = Bot /\ turnState.Type = "Bumping" => BumpAnswered(Len(UnderWay) + 1)
  BY DEF CallInv, AnswersOnce
<1>5. CallsLast'
  <2> SUFFICES ASSUME NEW i \in 1 .. Len(UnderWay'), CallsBot(UnderWay'[i])
               PROVE  LastOne(i)' /\ (Live' => turnState'.Type # "Bumping")
    BY DEF CallsLast
  <2>1. i = Len(UnderWay')
    BY <1>1, <1>2
  <2>2. CallsBot(m)
    BY <1>1, <2>1
  <2> QED
    BY <1>2, <2>1, <2>2 DEF LastOne
<1>6. BumpsToldOnce'
  <2> SUFFICES ASSUME NEW i \in 1 .. Len(UnderWay'), TellsBump(UnderWay'[i])
               PROVE  BumpAnswered(i)' \/ LastOne(i)'
    BY DEF BumpsToldOnce
  <2>1. CASE i \in 1 .. Len(UnderWay)
    BY <1>1, <1>2, <1>3, <2>1
  <2>2. CASE i = Len(UnderWay) + 1
    <3>1. TellsBump(m) /\ i = Len(UnderWay')
      BY <1>1, <2>2
    <3>2. CASE Left' = <<>> /\ (Live' => Actor' = Bot)
      BY <1>2, <3>1, <3>2 DEF LastOne
    <3>3. CASE Actor = Bot /\ turnState.Type = "Bumping"
      <4>1. BumpAnswered(i)
        BY <1>4, <2>2, <3>3
      <4>2. i \in 1 .. Len(UnderWay) + 1
        BY <1>1, <2>2
      <4> QED
        BY <1>3, <4>1, <4>2
    <3> QED
      BY <3>1, <3>2, <3>3
  <2> QED
    BY <1>1, <2>1, <2>2
<1>7. ThinksAlone' /\ MoveIsBots'
  BY <1>2 DEF ThinksAlone, MoveIsBots
<1>8. BurstCounts'
  <2> SUFFICES ASSUME Left' # <<>> PROVE burst \in Nat /\ Len(Left') + Len(UnderWay') <= burst
    BY DEF BurstCounts
  <2>1. Left # <<>> /\ Len(Left) \in Nat \ {0} /\ Len(Left') = Len(Left) - 1
    BY DEF Shorter
  <2>2. burst \in Nat /\ Len(Left) + Len(UnderWay) <= burst
    BY <2>1 DEF CallInv, BurstCounts
  <2> QED
    BY <1>1, <2>1, <2>2
<1>9. AnswersOnce'
  <2> SUFFICES ASSUME Live', turnState'.Type = "Bumping", Left' # <<>>
               PROVE  BumpAnswered(Len(UnderWay) + 1)'
    BY <1>2 DEF AnswersOnce
  <2>1. Actor = Bot /\ turnState.Type = "Bumping" /\ m.Type # "EndBump"
    BY DEF Shorter
  <2>2. PICK n \in Nat : n = Len(UnderWay)
    BY <1>1
  <2>3. BumpAnswered(n + 1)'
    BY <1>3, <1>4, <2>1, <2>2
  <2>4. handledBump' /\ \A j \in 1 .. n : UnderWay'[j].Type # "EndBump"
    BY <2>3 DEF BumpAnswered
  <2>5. UnderWay'[n + 1].Type # "EndBump" /\ Len(UnderWay') = n + 1
    BY <1>1, <2>1, <2>2
  <2>6. \A j \in 1 .. (n + 1) + 1 - 1 : UnderWay'[j].Type # "EndBump"
    BY <2>4, <2>5
  <2> QED
    BY <2>4, <2>5, <2>6 DEF BumpAnswered
<1>10. EndsLast'
  <2>1. CASE Left' = <<>>
    <3>1. Len(Left') = 0
      BY <2>1
    <3> QED
      BY <3>1 DEF EndsLast
  <2>2. CASE Left # <<>> /\ Shorter(Left, Left')
    <3>1. /\ Len(Left) \in Nat \ {0} /\ Len(Left') = Len(Left) - 1
          /\ \A i \in 1 .. Len(Left) - 1 : Left'[i] = Left[i + 1]
      BY <2>2 DEF Shorter
    <3> SUFFICES ASSUME NEW i \in 1 .. Len(Left') - 1 PROVE Left'[i].Type = "Subaction"
      BY DEF EndsLast
    <3>2. i \in 1 .. Len(Left) - 1 /\ i + 1 \in 1 .. Len(Left) - 1
      BY <3>1
    <3> QED
      BY <3>1, <3>2 DEF CallInv, EndsLast
  <2> QED
    BY <2>1, <2>2
<1>11. OverIsOver'
  <2> SUFFICES ASSUME status' # "Running", NEW i \in 1 .. Len(UnderWay')
               PROVE  /\ ~CallsBot(UnderWay'[i])
                      /\ TellsBump(UnderWay'[i]) => BumpAnswered(i)'
    BY <1>2 DEF OverIsOver
  <2>1. CASE i \in 1 .. Len(UnderWay)
    BY <1>1, <1>2, <1>3, <2>1
  <2>2. CASE i = Len(UnderWay) + 1
    BY <1>1, <2>2
  <2> QED
    BY <1>1, <2>1, <2>2
<1> QED
  BY <1>5, <1>6, <1>7, <1>8, <1>9, <1>10, <1>11 DEF CallInv

\* A score is announced.
LEMMA ScoresKeep ==
    ASSUME BurstInv, EngineInv', AnnounceScore
    PROVE  BurstInv'
<1> DEFINE m == [Type |-> "Scoring"]
<1>1. /\ CallInv /\ ChannelsFit /\ sending = <<>> /\ Notify(m) /\ m.Type = "Scoring"
      /\ status = "Scoring"
      /\ UNCHANGED <<vars, outMsg, answers, burst, thought, handledBump>>
  BY DEF BurstInv, AnnounceScore, botVars
<1> HIDE DEF m
<1>2. /\ status' # "Running" /\ ~Live' /\ VictimInv' /\ Left' = Left /\ RequestsFit'
  BY <1>1 DEF BurstInv, VictimInv, vars, Live, Left, RequestsFit
<1>3. ChannelsFit' /\ Longer(UnderWay, UnderWay', m)
  BY <1>1, MoreUnderWay
<1>4. /\ Len(UnderWay) \in Nat /\ Len(UnderWay') = Len(UnderWay) + 1
      /\ UnderWay'[Len(UnderWay) + 1] = m
      /\ \A i \in 1 .. Len(UnderWay) : UnderWay'[i] = UnderWay[i]
  BY <1>3 DEF Longer
<1>5. /\ Left = <<>> /\ thought = Idle
      /\ \A i \in 1 .. Len(UnderWay) :
             ~CallsBot(UnderWay[i]) /\ (TellsBump(UnderWay[i]) => BumpAnswered(i))
  BY <1>1 DEF CallInv, OverIsOver
<1>6. ASSUME NEW i \in 1 .. Len(UnderWay')
      PROVE  ~CallsBot(UnderWay'[i]) /\ (TellsBump(UnderWay'[i]) => BumpAnswered(i)')
  <2>1. CASE i \in 1 .. Len(UnderWay)
    <3>1. ASSUME BumpAnswered(i)
          PROVE  BumpAnswered(i)'
      <4>1. \A j \in 1 .. i - 1 : j \in 1 .. Len(UnderWay)
        BY <1>4, <2>1
      <4> QED
        BY <1>1, <1>4, <3>1, <4>1 DEF BumpAnswered
    <3> QED
      BY <1>4, <1>5, <2>1, <3>1
  <2>2. CASE i = Len(UnderWay) + 1
    BY <1>1, <1>4, <2>2 DEF CallsBot, TellsBump
  <2> QED
    BY <1>4, <2>1, <2>2
<1>7. OverIsOver' /\ CallsLast' /\ BumpsToldOnce'
  BY <1>1, <1>2, <1>5, <1>6 DEF OverIsOver, CallsLast, BumpsToldOnce
<1>8. ThinksAlone' /\ MoveIsBots' /\ BurstCounts' /\ AnswersOnce'
  BY <1>1, <1>2, <1>5 DEF ThinksAlone, MoveIsBots, BurstCounts, AnswersOnce
<1>9. EndsLast'
  BY <1>1, <1>2 DEF CallInv, EndsLast
<1> QED
  BY <1>2, <1>3, <1>7, <1>8, <1>9 DEF BurstInv, CallInv

\* A request of player p is taken.
Asks(p) ==
    \/ p # Bot /\ UNCHANGED <<outMsg, answers>>
    \/ p = Bot /\ outMsg # <<>> /\ outMsg' = Tail(outMsg) /\ answers' = answers

LEMMA AskMoves ==
    ASSUME RequestsFit, CallInv, Live, NEW p, Actor = p, Asks(p)
    PROVE  /\ RequestsFit'
           /\ \/ Left = <<>> /\ Left' = <<>> /\ Actor # Bot
              \/ Left # <<>> /\ Shorter(Left, Left') /\ Actor = Bot
           /\ p = Bot /\ Head(outMsg).Type # "Subaction" => Left' = <<>>
<1>1. CASE p # Bot /\ UNCHANGED <<outMsg, answers>>
  <2>1. Left' = Left /\ RequestsFit'
    BY <1>1 DEF Left, RequestsFit
  <2>2. Left = <<>>
    BY <1>1 DEF CallInv, MoveIsBots
  <2> QED
    BY <1>1, <2>1, <2>2
<1>2. CASE p = Bot /\ outMsg # <<>> /\ outMsg' = Tail(outMsg) /\ answers' = answers
  <2>1. /\ RequestsFit' /\ Shorter(Left, Left') /\ Left[1] = Head(outMsg)
        /\ Len(Left) = 1 => Left' = <<>>
    BY <1>2, LessLeft
  <2>2. Left # <<>> /\ Len(Left) \in Nat \ {0}
    BY <1>2, <2>1, LeftFacts DEF Shorter
  <2>3. Head(outMsg).Type # "Subaction" => Len(Left) = 1
    <3>1. PICK n \in Nat \ {0} : n = Len(Left)
      BY <2>2
    <3>2. n # 1 => 1 \in 1 .. n - 1
      OBVIOUS
    <3> QED
      BY <2>1, <3>1, <3>2 DEF CallInv, EndsLast
  <2> QED
    BY <1>2, <2>1, <2>2, <2>3
<1> QED
  BY <1>1, <1>2 DEF Asks

LEMMA BurstSubaction ==
    ASSUME BurstInv, EngineInv', NEW p \in Players, NEW s, AcceptSubaction(p, s),
           sending = <<>>, Asks(p), UNCHANGED <<thought, handledBump, burst>>,
           p = Bot /\ turnState'.Type = "Bumping" => turnState.Type = "Bumping" \/ Left' = <<>>
    PROVE  BurstInv'
<1> DEFINE m == [Type |-> "Subaction", Subaction |-> s, Turn |-> turnState']
<1>1. /\ CallInv /\ RequestsFit /\ ChannelsFit /\ VictimInv /\ TurnInv /\ TypeOK'
  BY DEF BurstInv, EngineInv, RuleInv, TypeInv
<1>2. Subaction(p) /\ ~panicked /\ Notify(m)
  BY AskedIsSubaction DEF AcceptSubaction, DoSubaction, MayAct, MayAsk, Actor
<1>3. Actor = p /\ Live /\ Stays(p) /\ VictimInv'
  BY <1>1, <1>2, SubactionStays DEF Live
<1>4. ChannelsFit' /\ Longer(UnderWay, UnderWay', m)
  BY <1>1, <1>2, MoreUnderWay
<1>5. /\ RequestsFit'
      /\ \/ Left = <<>> /\ Left' = <<>> /\ Actor # Bot
         \/ Left # <<>> /\ Shorter(Left, Left') /\ Actor = Bot
  BY <1>1, <1>3, AskMoves
<1>6. m.Type = "Subaction" /\ m.Turn = turnState'
  OBVIOUS
<1> HIDE DEF m
<1>7. ~CallsBot(m)
  BY <1>6 DEF CallsBot
<1>8. TellsBump(m) => \/ Left' = <<>> /\ (Live' => Actor' = Bot)
                      \/ Actor = Bot /\ turnState.Type = "Bumping"
  <2> SUFFICES ASSUME TellsBump(m)
               PROVE  \/ Left' = <<>> /\ Actor' = Bot
                      \/ Actor = Bot /\ turnState.Type = "Bumping"
    OBVIOUS
  <2>1. turnState'.Type = "Bumping" /\ Actor' = Bot
    BY <1>6 DEF TellsBump, Actor
  <2>2. turnState.Type # "Bumping" => p # Bot
    BY <1>3, <2>1 DEF Stays
  <2> QED
    BY <1>3, <1>5, <2>1, <2>2
<1>9. ASSUME Left' # <<>>
      PROVE  /\ Actor' = Bot
             /\ turnState'.Type = "Bumping" => turnState.Type = "Bumping" /\ m.Type # "EndBump"
  <2>1. p = Bot /\ Actor = Bot
    BY <1>3, <1>5, <1>9
  <2>2. turnState'.Type = "Bumping" => turnState.Type = "Bumping"
    BY <1>9, <2>1
  <2> QED
    BY <1>3, <1>6, <2>1, <2>2 DEF Stays
<1>11. status' = "Running"
  BY <1>3 DEF Live, Stays
<1>10. CallInv'
  BY <1>1, <1>3, <1>4, <1>5, <1>7, <1>8, <1>9, <1>11, ActKeeps
<1> QED
  BY <1>3, <1>4, <1>5, <1>10 DEF BurstInv

\* The end of a bump or of a turn is the last that the bot asks for.
LEMMA BurstEnd ==
    ASSUME BurstInv, EngineInv', NEW p \in Players, AcceptEndBump(p) \/ AcceptEndTurn(p),
           sending = <<>>, ~panicked, Asks(p), UNCHANGED <<thought, handledBump, burst>>,
           p = Bot => Head(outMsg).Type # "Subaction"
    PROVE  BurstInv'
<1>1. /\ CallInv /\ RequestsFit /\ ChannelsFit /\ VictimInv /\ TypeOK
  BY DEF BurstInv, EngineInv, RuleInv, TypeInv
<1>2. Actor = p /\ status = "Running" /\ VictimInv'
  <2>1. CASE AcceptEndBump(p)
    BY <1>1, <2>1, EndBumpStays DEF AcceptEndBump
  <2>2. CASE AcceptEndTurn(p)
    BY <1>1, <2>2, EndTurnStays DEF AcceptEndTurn
  <2> QED
    BY <2>1, <2>2
<1>3. Live
  BY <1>2 DEF Live
<1>4. /\ RequestsFit'
      /\ \/ Left = <<>> /\ Left' = <<>> /\ Actor # Bot
         \/ Left # <<>> /\ Shorter(Left, Left') /\ Actor = Bot
      /\ Left' = <<>>
  BY <1>1, <1>2, <1>3, AskMoves
<1>5. ASSUME NEW m, Notify(m), m.Type \in {"EndBump", "NextTurn"}, m.Turn = turnState',
             turnState'.Type # "Bumping", Actor' = turnState'.Player, status' = "Running"
      PROVE  BurstInv'
  <2>1. ChannelsFit' /\ Longer(UnderWay, UnderWay', m)
    BY <1>1, <1>5, MoreUnderWay
  <2>2. ~TellsBump(m)
    BY <1>5 DEF TellsBump
  <2>3. CallsBot(m) => Actor' = Bot
    BY <1>5 DEF CallsBot
  <2>4. CallInv'
    BY <1>1, <1>3, <1>4, <1>5, <2>1, <2>2, <2>3, ActKeeps
  <2> QED
    BY <1>2, <1>4, <2>1, <2>4 DEF BurstInv
<1>6. CASE AcceptEndBump(p)
  <2> DEFINE m == [Type |-> "EndBump", Turn |-> turnState']
  <2>1. Notify(m) /\ m.Type = "EndBump" /\ m.Turn = turnState'
    BY <1>6 DEF AcceptEndBump
  <2>2. turnState'.Type # "Bumping" /\ Actor' = turnState'.Player /\ status' = "Running"
    BY <1>1, <1>2, <1>6, EndBumpStays DEF AcceptEndBump, EndBump
  <2> HIDE DEF m
  <2> QED
    BY <1>5, <2>1, <2>2
<1>7. CASE AcceptEndTurn(p) /\ status' = "Running"
  <2> DEFINE m == [Type |-> "NextTurn", Turn |-> turnState']
  <2>1. Notify(m) /\ m.Type = "NextTurn" /\ m.Turn = turnState'
    BY <1>7 DEF AcceptEndTurn
  <2>2. turnState'.Type # "Bumping" /\ Actor' = turnState'.Player
    BY <1>1, <1>2, <1>7, EndTurnStays DEF AcceptEndTurn
  <2> HIDE DEF m
  <2> QED
    BY <1>5, <1>7, <2>1, <2>2
\* The game is over.
<1>8. CASE AcceptEndTurn(p) /\ status' # "Running"
  <2> DEFINE m == [Type |-> "Scoring"]
  <2>1. Notify(m) /\ m.Type = "Scoring" /\ ~Live'
    BY <1>8 DEF AcceptEndTurn, Live
  <2> HIDE DEF m
  <2>2. ChannelsFit' /\ Longer(UnderWay, UnderWay', m)
    BY <1>1, <2>1, MoreUnderWay
  <2>3. ~CallsBot(m) /\ ~TellsBump(m)
    BY <2>1 DEF CallsBot, TellsBump
  <2>4. CallInv'
    BY <1>1, <1>3, <1>4, <2>1, <2>2, <2>3, ActKeeps
  <2> QED
    BY <1>2, <1>4, <2>2, <2>4 DEF BurstInv
<1> QED
  BY <1>6, <1>7, <1>8

\* Nothing is asked and nothing notified; the bot may go on thinking, or panic.
LEMMA BurstKeeps ==
    ASSUME BurstInv, EngineInv', UNCHANGED <<turnState, status, burst, handledBump>>,
           ChannelsFit', UnderWay' = UnderWay, RequestsFit', Left' = Left,
           thought' = thought \/ thought # Idle, panicked' = panicked \/ panicked' = TRUE
    PROVE  BurstInv'
<1>1. (Live' => Live) /\ Actor' = Actor /\ CallInv
  BY DEF Live, Actor, BurstInv
<1>2. VictimInv'
  BY DEF BurstInv, VictimInv
<1>3. ASSUME NEW i \in 1 .. Len(UnderWay), LastOne(i)
      PROVE  LastOne(i)'
  <2>1. thought' = Idle
    BY <1>3 DEF LastOne
  <2> QED
    BY <1>1, <1>3, <2>1 DEF LastOne
<1>4. CallsLast' /\ BumpsToldOnce'
  <2>1. CallsLast'
    BY <1>1, <1>3 DEF CallInv, CallsLast
  <2>2. BumpsToldOnce'
    BY <1>1, <1>3 DEF CallInv, BumpsToldOnce, BumpAnswered
  <2> QED
    BY <2>1, <2>2
<1>5. ThinksAlone' /\ MoveIsBots' /\ BurstCounts'
  <2>1. ThinksAlone'
    BY <1>1 DEF CallInv, ThinksAlone
  <2>2. MoveIsBots' /\ BurstCounts'
    BY <1>1 DEF CallInv, MoveIsBots, BurstCounts
  <2> QED
    BY <2>1, <2>2
<1>6. AnswersOnce'
  BY <1>1 DEF CallInv, AnswersOnce, BumpAnswered
<1>7. EndsLast'
  BY <1>1 DEF CallInv, EndsLast
<1>8. OverIsOver'
  BY <1>1 DEF CallInv, OverIsOver, BumpAnswered
<1> QED
  BY <1>2, <1>4, <1>5, <1>6, <1>7, <1>8 DEF BurstInv, CallInv

\* What a plan asks for, one subaction after the other.
LEMMA AskAllIsList ==
    ASSUME NEW ss, ss \in Seq(Range(ss))
    PROVE  /\ AskAll(ss) \in Seq({Ask(x) : x \in Range(ss)})
           /\ Len(AskAll(ss)) = Len(ss) /\ Len(ss) \in Nat
           /\ \A i \in 1 .. Len(ss) : AskAll(ss)[i].Type = "Subaction"
<1>1. PICK n \in Nat : n = Len(ss) /\ DOMAIN ss = 1 .. n
  BY LenProperties
<1>2. AskAll(ss) = [i \in 1 .. n |-> Ask(ss[i])]
  BY <1>1 DEF AskAll
<1> DEFINE A == {Ask(x) : x \in Range(ss)}
<1>3. \A i \in 1 .. n : Ask(ss[i]) \in A
  BY <1>1 DEF Range
<1> HIDE DEF A
<1>4. [i \in 1 .. n |-> Ask(ss[i])] \in Seq(A) /\ Len([i \in 1 .. n |-> Ask(ss[i])]) = n
  BY <1>3
<1>5. \A i \in 1 .. n : AskAll(ss)[i].Type = "Subaction"
  BY <1>2 DEF Ask
<1> QED
  BY <1>1, <1>2, <1>4, <1>5 DEF A

\* The bot says what it has thought of.
LEMMA BurstSays ==
    ASSUME BurstInv, EngineInv', BotTypeOK, thought # Idle, thought' = Idle,
           UNCHANGED <<vars, inMsg, sending, outMsg, handledBump>>,
           NEW last, last = <<>> \/ (\E m : last = <<m>>), Say(AskAll(thought.Subactions) \o last)
    PROVE  BurstInv'
<1>1. CallInv /\ RequestsFit /\ SameMove /\ Len(UnderWay) = 0 /\ Left = <<>>
      /\ (Live => Actor = Bot) /\ status = "Running"
  BY DEF BurstInv, CallInv, ThinksAlone, OverIsOver, SameMove, vars
<1>2. outMsg = <<>>
  BY <1>1, LeftFacts
<1>3. UnderWay' = UnderWay /\ ChannelsFit'
  BY DEF BurstInv, ChannelsFit, UnderWay
<1>4. Live /\ turnState.Type = "Bumping" => handledBump'
  BY <1>1 DEF CallInv, AnswersOnce, BumpAnswered
<1> DEFINE ss == thought.Subactions
           A == {Ask(x) : x \in Range(ss)} \cup Range(last)
<1>5. ss \in Seq(Range(ss))
  BY DEF BotTypeOK
<1>6. PICK n \in Nat : n = Len(ss)
  BY <1>5, AskAllIsList
<1>7. AskAll(ss) \in Seq({Ask(x) : x \in Range(ss)}) /\ Len(AskAll(ss)) = n
      /\ \A i \in 1 .. n : AskAll(ss)[i].Type = "Subaction"
  BY <1>5, <1>6, AskAllIsList
<1>8. AskAll(ss) \in Seq(A)
  <2>1. {Ask(x) : x \in Range(ss)} \subseteq A
    OBVIOUS
  <2> QED
    BY <1>7, <2>1, SeqMonotonic
<1>9. last \in Seq(A) /\ Len(last) \in 0 .. 1
  <2>1. CASE last = <<>>
    BY <2>1
  <2>2. ASSUME NEW m, last = <<m>> PROVE last \in Seq(A) /\ Len(last) = 1
    <3>1. Len(<<m>>) = 1 /\ DOMAIN <<m>> = {1} /\ <<m>>[1] = m
      OBVIOUS
    <3>2. m \in A
      BY <2>2, <3>1 DEF Range
    <3> QED
      BY <2>2, <3>1, <3>2
  <2> QED
    BY <2>1, <2>2
<1> DEFINE r == AskAll(ss) \o last
<1> HIDE DEF A, ss
<1>10. r \in Seq(A) /\ Len(r) = n + Len(last) /\ \A i \in 1 .. n : r[i] = AskAll(ss)[i]
  <2>1. /\ r \in Seq(A) /\ Len(r) = Len(AskAll(ss)) + Len(last)
        /\ \A i \in 1 .. Len(AskAll(ss)) + Len(last) :
               r[i] = IF i <= Len(AskAll(ss)) THEN AskAll(ss)[i]
                                              ELSE last[i - Len(AskAll(ss))]
    BY <1>7, <1>8, <1>9, ConcatProperties
  <2>2. \A i \in 1 .. n : i \in 1 .. n + Len(last) /\ i <= n
    BY <1>9
  <2> QED
    BY <1>7, <2>1, <2>2
<1>11. \A i \in 1 .. Len(r) - 1 : r[i].Type = "Subaction"
  <2>1. PICK k \in 0 .. 1 : k = Len(last)
    BY <1>9
  <2>2. \A i \in 1 .. n + k - 1 : i \in 1 .. n
    BY <2>1
  <2>3. Len(r) = n + k
    BY <1>10, <2>1
  <2> QED
    BY <1>7, <1>10, <2>2, <2>3
<1>12. Say(r)
  BY DEF ss
<1> HIDE DEF r
<1>13. RequestsFit' /\ CallInv'
  BY <1>1, <1>2, <1>3, <1>4, <1>10, <1>11, <1>12, Speaks
<1>14. VictimInv'
  BY DEF BurstInv, VictimInv, vars
<1> QED
  BY <1>3, <1>13, <1>14 DEF BurstInv

\* The next request of the bot, taken or refused.
LEMMA BurstAsks ==
    ASSUME BurstInv, EngineInv', BotAsks,
           Actor = Bot /\ turnState.Type # "Bumping" /\ turnState'.Type = "Bumping" =>
               outMsg' = <<>> /\ answers' = <<>>
    PROVE  BurstInv'
<1>1. /\ sending = <<>> /\ ~panicked /\ Asks(Bot)
      /\ UNCHANGED <<thought, handledBump, burst>>
  BY DEF BotAsks, Asks
<1>2. Bot \in Players /\ CallInv /\ RequestsFit /\ ChannelsFit
  BY BotAssumption DEF BurstInv
<1>3. Actor = Bot /\ turnState'.Type = "Bumping" =>
          turnState.Type = "Bumping" \/ Left' = <<>>
  <2>1. outMsg' = <<>> /\ answers' = <<>> => Left' = <<>>
    BY ConcatEmptySeq, EmptySeq DEF Left
  <2> QED
    BY <2>1
<1> DEFINE request == Head(outMsg)
<1>4. CASE request.Type = "Subaction" /\ AcceptSubaction(Bot, request.Subaction)
  <2>1. Actor = Bot
    BY <1>4 DEF AcceptSubaction, DoSubaction, MayAct, MayAsk
  <2> QED
    BY <1>1, <1>2, <1>3, <1>4, <2>1, BurstSubaction
<1>5. CASE /\ request.Type \in {"EndBump", "EndTurn"}
           /\ AcceptEndBump(Bot) \/ AcceptEndTurn(Bot)
  BY <1>1, <1>2, <1>5, BurstEnd
\* It is refused.
<1>6. CASE status = "Running" /\ Notify([Type |-> "Error"]) /\ UNCHANGED <<vars, pool>>
  <2> DEFINE m == [Type |-> "Error"]
  <2>1. Notify(m) /\ m.Type = "Error"
    BY <1>6
  <2> HIDE DEF m
  <2>2. Live /\ Live' = Live /\ Actor' = Actor /\ turnState' = turnState /\ VictimInv'
        /\ status' = "Running"
    BY <1>1, <1>6 DEF Live, Actor, vars, BurstInv, VictimInv
  <2>3. Left # <<>>
    BY <1>1, <1>2, LeftFacts DEF BotAsks
  <2>4. Actor = Bot
    BY <1>2, <2>2, <2>3 DEF CallInv, MoveIsBots
  <2>5. RequestsFit' /\ Shorter(Left, Left')
    BY <1>1, <1>2, <2>2, <2>3, <2>4, AskMoves
  <2>6. ChannelsFit' /\ Longer(UnderWay, UnderWay', m)
    BY <1>1, <1>2, <2>1, MoreUnderWay
  <2>7. ~CallsBot(m) /\ ~TellsBump(m) /\ m.Type # "EndBump"
    BY <2>1 DEF CallsBot, TellsBump
  <2>8. CallInv'
    BY <1>1, <1>2, <2>2, <2>3, <2>4, <2>5, <2>6, <2>7, ActKeeps
  <2> QED
    BY <2>2, <2>5, <2>6, <2>8 DEF BurstInv
<1>7. \/ Accept(Bot, request)
      \/ status = "Running" /\ Notify([Type |-> "Error"]) /\ UNCHANGED <<vars, pool>>
  BY DEF BotAsks
<1> QED
  BY <1>4, <1>5, <1>6, <1>7 DEF Accept

LEMMA BurstOthers ==
    ASSUME BurstInv, EngineInv', OtherAsks
    PROVE  BurstInv'
<1>1. /\ sending = <<>> /\ ~panicked /\ UNCHANGED <<thought, handledBump, burst, outMsg, answers>>
  BY DEF OtherAsks, botVars
<1>2. PICK p \in Others : \/ \E s \in Requests(p) : AcceptSubaction(p, s)
                          \/ AcceptEndBump(p)
                          \/ AcceptEndTurn(p)
                          \/ VirtualOfficePanic(p) /\ UNCHANGED <<pool, inMsg, sending>>
  BY DEF OtherAsks
<1>3. p \in Players /\ p # Bot /\ Asks(p)
  BY <1>1 DEF Others, Asks
<1>4. ASSUME NEW s, AcceptSubaction(p, s) PROVE BurstInv'
  BY <1>1, <1>3, <1>4, BurstSubaction
<1>5. CASE AcceptEndBump(p) \/ AcceptEndTurn(p)
  BY <1>1, <1>3, <1>5, BurstEnd
<1>6. CASE VirtualOfficePanic(p) /\ UNCHANGED <<pool, inMsg, sending>>
  <2>1. /\ UNCHANGED <<turnState, status, burst, handledBump, thought>>
        /\ panicked' = TRUE
    BY <1>1, <1>6 DEF VirtualOfficePanic, Panic
  <2>2. ChannelsFit' /\ UnderWay' = UnderWay /\ RequestsFit' /\ Left' = Left
    BY <1>1, <1>6 DEF BurstInv, ChannelsFit, UnderWay, RequestsFit, Left
  <2> QED
    BY <2>1, <2>2, BurstKeeps
<1> QED
  BY <1>2, <1>4, <1>5, <1>6

LEMMA BurstStep ==
    ASSUME BurstInv, [BotNext]_allVars, BotTypeOK,
           Actor = Bot /\ turnState.Type # "Bumping" /\ turnState'.Type = "Bumping" =>
               outMsg' = <<>> /\ answers' = <<>>
    PROVE  BurstInv'
<1>1. EngineInv'
  BY EngineStep DEF BurstInv
<1>2. RequestsFit /\ ChannelsFit
  BY DEF BurstInv
<1>3. CASE OtherAsks
  BY <1>1, <1>3, BurstOthers
<1>4. CASE BotAsks
  BY <1>1, <1>4, BurstAsks
<1>5. CASE Receive
  <2>1. VictimInv'
    BY <1>5 DEF Receive, BurstInv, VictimInv
  <2> QED
    BY <1>1, <1>5, <2>1, BurstReceive DEF BurstInv
\* The queues are left alone, or a message moves on in one of them.
<1>6. ASSUME UNCHANGED <<turnState, status, burst, handledBump, inMsg, sending, outMsg, answers>>,
             thought' = thought \/ thought # Idle, panicked' = panicked \/ panicked' = TRUE
      PROVE  BurstInv'
  <2>1. ChannelsFit' /\ UnderWay' = UnderWay /\ RequestsFit' /\ Left' = Left
    BY <1>2, <1>6 DEF ChannelsFit, UnderWay, RequestsFit, Left
  <2> QED
    BY <1>1, <1>6, <2>1, BurstKeeps
<1>15. CASE AnnounceScore
  BY <1>1, <1>15, ScoresKeep
<1>7. CASE Sent
  <2>1. ChannelsFit' /\ UnderWay' = UnderWay
    BY <1>2, <1>7, SameUnderWay
  <2>2. RequestsFit' /\ Left' = Left
    BY <1>2, <1>7 DEF Sent, botVars, RequestsFit, Left
  <2>3. /\ UNCHANGED <<turnState, status, burst, handledBump>>
        /\ thought' = thought /\ panicked' = panicked
    BY <1>7 DEF Sent, botVars, vars
  <2> QED
    BY <1>1, <2>1, <2>2, <2>3, BurstKeeps
<1>8. CASE PutAnswer
  <2>1. ChannelsFit' /\ UnderWay' = UnderWay
    BY <1>2, <1>8 DEF PutAnswer, ChannelsFit, UnderWay
  <2>2. RequestsFit' /\ Left' = Left
    BY <1>2, <1>8, SameLeft
  <2>3. /\ UNCHANGED <<turnState, status, burst, handledBump>>
        /\ thought' = thought /\ panicked' = panicked
    BY <1>8 DEF PutAnswer, vars
  <2> QED
    BY <1>1, <2>1, <2>2, <2>3, BurstKeeps
<1>9. ASSUME NEW why, BotPanics(why), thought # Idle PROVE BurstInv'
  BY <1>6, <1>9 DEF BotPanics
<1>10. CASE ChoosePlan
  <2>1. thought # Idle
    BY <1>10 DEF ChoosePlan, Idle
  <2>2. ASSUME NEW p, NEW ss, PlayPlan(p, ss) PROVE BurstInv'
    BY <1>6, <1>9, <2>1, <2>2 DEF PlayPlan, vars
  <2> QED
    BY <1>9, <1>10, <2>1, <2>2 DEF ChoosePlan, ThinkingPanics
<1>11. CASE ReplacePiece
  <2>1. thought # Idle
    <3>1. thought.Doing = "bump"
      BY <1>11 DEF ReplacePiece
    <3> QED
      BY <3>1 DEF Idle
  <2>2. ASSUME NEW piece, NEW plans, ReplaceBy(piece, plans) PROVE BurstInv'
    BY <1>6, <1>9, <2>1, <2>2 DEF ReplaceBy, ThinkingPanics, vars
  <2> QED
    BY <1>9, <1>11, <2>1, <2>2 DEF ReplacePiece
<1>12. CASE ExecutePlans
  <2> DEFINE last == IF thought.Bumped = NoLocation THEN <<[Type |-> "EndTurn"]>> ELSE <<>>
  <2>1. /\ thought # Idle /\ thought' = Idle
        /\ UNCHANGED <<vars, inMsg, sending, outMsg, handledBump>>
        /\ Say(AskAll(thought.Subactions) \o last)
    BY <1>12 DEF ExecutePlans, Idle
  <2>2. last = <<>> \/ \E m : last = <<m>>
    OBVIOUS
  <2> HIDE DEF last
  <2> QED
    BY <1>1, <2>1, <2>2, BurstSays
<1>13. CASE AnswerBump
  <2>1. /\ thought # Idle /\ thought' = Idle
        /\ UNCHANGED <<vars, inMsg, sending, outMsg, handledBump>>
        /\ Say(Append(AskAll(thought.Subactions), [Type |-> "EndBump"]))
    BY <1>13 DEF AnswerBump, Idle
  <2>2. Append(AskAll(thought.Subactions), [Type |-> "EndBump"])
            = AskAll(thought.Subactions) \o <<[Type |-> "EndBump"]>>
    <3>1. thought.Subactions \in Seq(Range(thought.Subactions))
      BY DEF BotTypeOK
    <3>2. PICK S : AskAll(thought.Subactions) \in Seq(S)
      BY <3>1, AskAllIsList
    <3> QED
      BY <3>2
  <2> QED
    BY <1>1, <2>1, <2>2, BurstSays
<1>14. CASE UNCHANGED allVars
  BY <1>6, <1>14 DEF allVars, botVars, vars
<1> QED
  BY <1>3, <1>4, <1>5, <1>7, <1>8, <1>10, <1>11, <1>12, <1>13, <1>14, <1>15 DEF BotNext

\* The invariant says what is promised.
LEMMA BurstShows ==
    ASSUME BurstInv
    PROVE  AsksInTurn /\ ThinksUpToDate /\ QueuesSuffice
<1>1. CallInv /\ RequestsFit /\ ChannelsFit
  BY DEF BurstInv
<1>2. Live /\ Actor = Bot => BotToAct
  BY DEF Live, Actor, BotToAct
<1>3. PICK S : inMsg \in Seq(S) /\ (sending = <<>> \/ \E m \in S : sending = <<m>>)
  BY <1>1 DEF ChannelsFit
<1>4. sending \in Seq(S) /\ (sending # <<>> => Len(sending) = 1)
  <2>1. <<>> \in Seq(S) /\ \A m \in S : <<m>> \in Seq(S) /\ Len(<<m>>) = 1
    OBVIOUS
  <2> QED
    BY <1>3, <2>1
<1>5. /\ Len(inMsg) \in Nat /\ Len(sending) \in Nat
      /\ Len(UnderWay) = Len(inMsg) + Len(sending)
  BY <1>3, <1>4, ConcatProperties, LenProperties DEF UnderWay
<1>6. AsksInTurn
  BY <1>1, <1>2, LeftFacts DEF AsksInTurn, CallInv, MoveIsBots, Live
<1>7. ThinksUpToDate
  <2> SUFFICES ASSUME thought # Idle
               PROVE  /\ inMsg = <<>> /\ sending = <<>> /\ outMsg = <<>> /\ answers = <<>>
                      /\ status = "Running" /\ ~panicked => BotToAct
    BY DEF ThinksUpToDate
  <2>1. Len(UnderWay) = 0 /\ Left = <<>> /\ (Live => Actor = Bot)
    BY <1>1 DEF CallInv, ThinksAlone
  <2>2. Len(inMsg) = 0 /\ sending = <<>>
    <3>1. PICK i \in Nat, j \in Nat : i = Len(inMsg) /\ j = Len(sending)
      BY <1>5
    <3>2. i + j = 0
      BY <1>5, <2>1, <3>1
    <3>3. i = 0 /\ j = 0
      BY <3>2
    <3> QED
      BY <1>4, <3>1, <3>3
  <2>3. inMsg = <<>>
    BY <1>3, <2>2, EmptySeq
  <2>4. outMsg = <<>> /\ answers = <<>>
    BY <1>1, <2>1, LeftFacts
  <2> QED
    BY <1>2, <2>1, <2>2, <2>3, <2>4 DEF Live
<1>8. QueuesSuffice
  <2> SUFFICES ASSUME sending # <<>>, Len(inMsg) = InCap, answers # <<>>, Len(outMsg) = OutCap
               PROVE  burst > InCap + 1 + OutCap
    BY DEF QueuesSuffice
  <2>1. InCap \in Nat /\ OutCap \in Nat
    BY ChannelAssumption
  <2>2. Len(UnderWay) = InCap + 1
    BY <1>4, <1>5
  <2>3. Left # <<>> /\ Len(Left) = OutCap + Len(answers) /\ Len(answers) \in Nat \ {0}
    BY <1>1, LeftFacts
  <2>4. burst \in Nat /\ Len(Left) + Len(UnderWay) <= burst
    BY <1>1, <2>3 DEF CallInv, BurstCounts
  <2> QED
    BY <2>1, <2>2, <2>3, <2>4
<1> QED
  BY <1>6, <1>7, <1>8

\* A bot asks only while it is its move, thinks only when no notification and no
\* request is under way, and game and bot wait for each other on two full queues
\* only after more requests at once than both queues and the notification in the
\* game's hands can take: provided that what it asks for at once is a list, and
\* that the payment which makes a bump somebody else's to answer is the last of
\* it (routebrain.go, HandleNotifySubaction to executePlansUntilBump; manager.go,
\* NewBot).  Nobody can answer a bump between two requests, so that every
\* notification that calls the bot finds it idle, with nothing left to ask, and
\* is the last one under way.
THEOREM QueuesSufficeIfBumpsLast ==
    BotSpec /\ []BotTypeOK /\ BumpsComeLast => [](AsksInTurn /\ ThinksUpToDate /\ QueuesSuffice)
<1>1. BurstInv /\ BotTypeOK /\ [BotNext]_allVars
          /\ [Actor = Bot /\ turnState.Type # "Bumping" /\ turnState'.Type = "Bumping" =>
                  outMsg' = <<>> /\ answers' = <<>>]_allVars
      => BurstInv'
  <2> SUFFICES ASSUME BurstInv, BotTypeOK, [BotNext]_allVars,
                      [Actor = Bot /\ turnState.Type # "Bumping" /\ turnState'.Type = "Bumping" =>
                           outMsg' = <<>> /\ answers' = <<>>]_allVars
               PROVE  BurstInv'
    OBVIOUS
  <2>1. Actor = Bot /\ turnState.Type # "Bumping" /\ turnState'.Type = "Bumping" =>
            outMsg' = <<>> /\ answers' = <<>>
    BY DEF allVars, vars
  <2> QED
    BY <2>1, BurstStep
<1>2. BurstInv => AsksInTurn /\ ThinksUpToDate /\ QueuesSuffice
  BY BurstShows
<1> QED
  BY <1>1, <1>2, BurstInit, PTL DEF BotSpec, BumpsComeLast

=============================================================================
