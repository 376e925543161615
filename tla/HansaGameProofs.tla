-------------------------- MODULE HansaGameProofs --------------------------
(***************************************************************************)
(* What TLAPS proves of the turn engine, for every board, every number of  *)
(* players and every size of the player boards.                            *)
(***************************************************************************)
EXTENDS HansaGame, TLAPS

(* The places of the board.                                                *)

\* A spot and its bump zone belong together; the kinds of places are disjoint.
LEMMA SquareFacts ==
    /\ \A s \in SpotSquares : /\ BumpZone(s) \in BumpSquares
                              /\ s[2] \in Routes
                              /\ s \notin BumpSquares
                              /\ s = <<"spot", BumpZone(s)[2], BumpZone(s)[3]>>
    /\ \A s \in BumpSquares : s[2] \in Routes
    /\ \A s, t \in SpotSquares : BumpZone(s) = BumpZone(t) => s = t
  BY DEF SpotSquares, BumpSquares, BumpZone

LEMMA OfficeFacts ==
    ASSUME NEW d \in OfficeSquares
    PROVE  /\ d \notin RouteSquares
           /\ Offices[d[2]][d[3]] \in OfficeType
<1>1. PICK c \in Cities : \E i \in DOMAIN Offices[c] : d = <<"office", c, i>>
  BY DEF OfficeSquares
<1> PICK i \in DOMAIN Offices[c] : d = <<"office", c, i>>
  BY <1>1
<1>2. d[2] = c /\ d[3] = i
  OBVIOUS
<1>3. Offices[c] \in Seq(OfficeType)
  BY BoardAssumption
<1>4. d \notin RouteSquares
  BY DEF RouteSquares, SpotSquares, BumpSquares
<1> QED
  BY <1>2, <1>3, <1>4

Boards == [Squares -> Pieces \cup {NoPiece}]

LEMMA LiftType ==
    ASSUME NEW b \in Boards, NEW s \in RouteSquares
    PROVE  Lift(b, s) \in Boards
  BY SquareFacts DEF Boards, Lift, Squares, RouteSquares

LEMMA DropType ==
    ASSUME NEW b \in Boards, NEW d \in Squares, NEW x \in Pieces
    PROVE  Drop(b, d, x) \in Boards
  BY DEF Boards, Drop

LEMMA HeldFacts ==
    ASSUME TypeOK, NEW p \in Players, NEW s \in OnRoutes(p)
    PROVE  /\ s \in RouteSquares /\ s \in Squares /\ s[2] \in Routes
           /\ board[s] \in Pieces /\ board[s].PlayerColor = p
           /\ board[s].Shape \in Shapes
<1>1. s \in RouteSquares /\ board[s].PlayerColor = p
  BY DEF OnRoutes, Owns
<1>2. s \in Squares
  BY <1>1 DEF Squares
<1>3. board[s] \in Pieces
  BY <1>1, <1>2 DEF TypeOK, NoPiece, NoPlayer, Players
<1> QED
  BY <1>1, <1>2, <1>3, SquareFacts DEF RouteSquares, Pieces

-----------------------------------------------------------------------------
(* Types.  Counters are decremented without a test against zero: that they *)
(* stay natural numbers rests on CountersInPhase and on the tracks never   *)
(* growing.                                                                *)

Counters(ts) ==
    /\ ts.BagsLeft > 0 <=> ts.Type = "Bags"
    /\ ts.MovesLeft > 0 <=> ts.Type = "Moving"
    /\ ts.BumpPayingCost > 0 <=> ts.Type = "BumpPaying"
    /\ ts.BumpingReplaces > 0 => ts.Type \in {"BumpPaying", "Bumping"}

TracksShrink == \A p \in Players, a \in TrackAwards : tracks[p][a] <= StartTrack[a]

TypeInv == TypeOK /\ CountersInPhase /\ TracksShrink

\* The turn states that a subaction makes from another one have their type.
LEMMA BumpStateType ==
    ASSUME NEW ts \in TurnStates, NEW q \in Players, NEW l \in BumpSquares, NEW n \in Nat
    PROVE  [ts EXCEPT !.Type = "BumpPaying", !.BumpPayingCost = n,
                      !.BumpingPlayer = q, !.BumpingLocation = l,
                      !.BumpingMoved = FALSE, !.BumpingReplaces = n]
               \in TurnStates
BY Zenon DEF TurnStates, TurnTypes

LEMMA CountedStateType ==
    ASSUME NEW ts \in TurnStates, NEW n \in Nat, NEW t \in TurnTypes
    PROVE  /\ [ts EXCEPT !.BagsLeft = n, !.Type = t] \in TurnStates
           /\ [ts EXCEPT !.MovesLeft = n, !.Type = t] \in TurnStates
           /\ [ts EXCEPT !.BumpPayingCost = n, !.Type = t] \in TurnStates
BY Zenon DEF TurnStates

LEMMA CommitFacts ==
    ASSUME TypeOK,
           NEW b \in Boards, NEW sc \in [Players -> Nat],
           NEW ts \in TurnStates, Counters(ts), Commit(b, sc, ts)
    PROVE  /\ board' \in Boards /\ scores' \in [Players -> Nat]
           /\ gameend' \in BOOLEAN /\ turnState' \in TurnStates
           /\ status' = status /\ panicked' = panicked
           /\ CountersInPhase'
<1>1. board' = b /\ scores' = sc /\ status' = status /\ panicked' = panicked
  BY DEF Commit
<1>2. gameend' \in BOOLEAN
  BY DEF Commit, EndReached, TypeOK
<1>3. turnState' = ts \/ turnState' = [ts EXCEPT !.ActionsLeft = 0]
  BY DEF Commit
<1>4. turnState' \in TurnStates
  BY <1>3 DEF TurnStates
<1>5. Counters(turnState')
  BY <1>3 DEF Counters, TurnStates
<1> QED
  BY <1>1, <1>2, <1>4, <1>5 DEF CountersInPhase, Counters

LEMMA StartedType ==
    ASSUME TypeInv, NEW p \in Players, MayAct(p), MayStart
    PROVE  /\ Started \in TurnStates
           /\ Started.BagsLeft = 0 /\ Started.MovesLeft = 0
           /\ Started.BumpPayingCost = 0 /\ Started.BumpingReplaces = 0
           /\ Started.Player = turnState.Player
           /\ Started.ActionsLeft = turnState.ActionsLeft - 1
<1>1. turnState \in TurnStates
  BY DEF TypeInv, TypeOK
<1>2. turnState.ActionsLeft \in Nat /\ turnState.ActionsLeft # 0
  BY <1>1 DEF MayAct, MayAsk, Actor, MayStart, TurnStates
<1>3. /\ turnState.Type # "Bags" => turnState.BagsLeft = 0
      /\ turnState.Type # "Moving" => turnState.MovesLeft = 0
      /\ turnState.BumpPayingCost = 0 /\ turnState.BumpingReplaces = 0
  BY <1>1 DEF MayStart, TypeInv, CountersInPhase, TurnStates
<1>4. Started \in TurnStates
  <2>1. turnState.ActionsLeft - 1 \in Nat
    BY <1>2
  <2>2. /\ (IF turnState.Type = "Moving" THEN 0 ELSE turnState.MovesLeft) \in Nat
        /\ (IF turnState.Type = "Bags" THEN 0 ELSE turnState.BagsLeft) \in Nat
    BY <1>1 DEF TurnStates
  <2>3. \A a, m, l \in Nat : [turnState EXCEPT !.ActionsLeft = a, !.MovesLeft = m,
                                               !.BagsLeft = l] \in TurnStates
    BY <1>1 DEF TurnStates
  <2> QED
    BY <2>1, <2>2, <2>3 DEF Started
<1>5. /\ Started.BagsLeft = 0 /\ Started.MovesLeft = 0
      /\ Started.BumpPayingCost = 0 /\ Started.BumpingReplaces = 0
      /\ Started.Player = turnState.Player
      /\ Started.ActionsLeft = turnState.ActionsLeft - 1
  BY <1>1, <1>3 DEF Started, TurnStates
<1> QED
  BY <1>4, <1>5

LEMMA GetActionsRange ==
    ASSUME NEW t \in [TrackAwards -> Nat]
    PROVE  GetActions(t) \in 2 .. 5
  BY DEF GetActions, TrackAwards

LEMMA ValidBumpFacts ==
    ASSUME TypeOK, NEW d \in ValidBumps(board, turnState.BumpingLocation)
    PROVE  d \in SpotSquares /\ d \in Squares /\ board[d] = NoPiece
<1> DEFINE r == turnState.BumpingLocation[2]
<1>1. r \in Routes
  <2>1. turnState.BumpingLocation \in BumpSquares \cup {NoLocation}
    BY DEF TypeOK, TurnStates
  <2> QED
    BY <2>1, SquareFacts, BoardAssumption DEF NoLocation
<1>2. PICK n \in 1 .. MaxBumpDistance : d \in {s \in SpotsAt[r][n] : board[s] = NoPiece}
  BY DEF ValidBumps
<1>3. SpotsAt[r][n] \subseteq SpotSquares
  BY <1>1, <1>2, Zenon DEF SpotsAt
<1> QED
  BY <1>2, <1>3 DEF Squares, RouteSquares

\* One piece more, or one less, in a pool that has one.
Pools == [Players -> [Shapes -> Nat]]

LEMMA PoolType ==
    ASSUME NEW pool \in Pools, NEW p \in Players, NEW shape \in Shapes
    PROVE  /\ [pool EXCEPT ![p][shape] = @ + 1] \in Pools
           /\ pool[p][shape] > 0 => [pool EXCEPT ![p][shape] = @ - 1] \in Pools
  BY DEF Pools

\* A subaction that commits a well-typed turn state and leaves the tracks alone.
LEMMA CommitInv ==
    ASSUME TypeInv,
           NEW b \in Boards, NEW sc \in [Players -> Nat],
           NEW ts \in TurnStates, Counters(ts), Commit(b, sc, ts),
           stock' \in Pools, supply' \in Pools, tracks' = tracks,
           bonusroute' \subseteq Players
    PROVE  TypeInv'
<1>1. TypeOK
  BY DEF TypeInv
<1>2. /\ board' \in Boards /\ scores' \in [Players -> Nat]
      /\ gameend' \in BOOLEAN /\ turnState' \in TurnStates
      /\ status' = status /\ panicked' = panicked
      /\ CountersInPhase'
  BY <1>1, CommitFacts
<1>3. tracks' \in [Players -> [TrackAwards -> Nat]] /\ TracksShrink'
  BY <1>1 DEF TypeInv, TypeOK, TracksShrink
<1>4. /\ board' \in [Squares -> Pieces \cup {NoPiece}]
      /\ stock' \in [Players -> [Shapes -> Nat]]
      /\ supply' \in [Players -> [Shapes -> Nat]]
  BY <1>2 DEF Boards, Pools
<1>5. status' \in {"Running", "Scoring"} /\ panicked' \in BOOLEAN
  BY <1>1, <1>2 DEF TypeOK
<1>6. TypeOK'
  BY <1>2, <1>3, <1>4, <1>5 DEF TypeOK
<1> QED
  BY <1>2, <1>3, <1>6 DEF TypeInv

\* The turn state of a subaction begun afresh is given by three of its fields.
LEMMA FreshFacts ==
    ASSUME TypeInv, NEW p \in Players, MayAct(p), MayStart
    PROVE  /\ Counters([Started EXCEPT !.Type = "None"])
           /\ [Started EXCEPT !.Type = "None"] \in TurnStates
           /\ \A n \in Nat \ {0} :
                /\ Counters([Started EXCEPT !.Type = "Bags", !.BagsLeft = n])
                /\ [Started EXCEPT !.Type = "Bags", !.BagsLeft = n] \in TurnStates
                /\ Counters([Started EXCEPT !.Type = "Moving", !.MovesLeft = n])
                /\ [Started EXCEPT !.Type = "Moving", !.MovesLeft = n] \in TurnStates
<1>1. /\ Started \in TurnStates
      /\ Started.BagsLeft = 0 /\ Started.MovesLeft = 0
      /\ Started.BumpPayingCost = 0 /\ Started.BumpingReplaces = 0
  BY StartedType
<1>2. /\ Counters([Started EXCEPT !.Type = "None"])
      /\ [Started EXCEPT !.Type = "None"] \in TurnStates
  BY <1>1 DEF Counters, TurnStates, TurnTypes
<1>3. ASSUME NEW n \in Nat \ {0}
      PROVE  /\ Counters([Started EXCEPT !.Type = "Bags", !.BagsLeft = n])
             /\ [Started EXCEPT !.Type = "Bags", !.BagsLeft = n] \in TurnStates
  <2> DEFINE ts == [Started EXCEPT !.Type = "Bags", !.BagsLeft = n]
  <2>1. ts \in TurnStates
    BY <1>1, <1>3 DEF TurnStates, TurnTypes
  <2>2. /\ ts.Type = "Bags" /\ ts.BagsLeft = n /\ ts.MovesLeft = 0
        /\ ts.BumpPayingCost = 0 /\ ts.BumpingReplaces = 0
    BY <1>1, <1>3 DEF TurnStates
  <2> HIDE DEF ts
  <2>3. Counters(ts)
    BY <2>2, <1>3 DEF Counters
  <2> QED
    BY <2>1, <2>3 DEF ts
<1>4. ASSUME NEW n \in Nat \ {0}
      PROVE  /\ Counters([Started EXCEPT !.Type = "Moving", !.MovesLeft = n])
             /\ [Started EXCEPT !.Type = "Moving", !.MovesLeft = n] \in TurnStates
  <2> DEFINE ts == [Started EXCEPT !.Type = "Moving", !.MovesLeft = n]
  <2>1. ts \in TurnStates
    BY <1>1, <1>4 DEF TurnStates, TurnTypes
  <2>2. /\ ts.Type = "Moving" /\ ts.MovesLeft = n /\ ts.BagsLeft = 0
        /\ ts.BumpPayingCost = 0 /\ ts.BumpingReplaces = 0
    BY <1>1, <1>4 DEF TurnStates
  <2> HIDE DEF ts
  <2>3. Counters(ts)
    BY <2>2, <1>4 DEF Counters
  <2> QED
    BY <2>1, <2>3 DEF ts
<1> QED
  BY <1>2, <1>3, <1>4

\* Books and bags: an action of either kind has at least a second step.
LEMMA TrackRanges ==
    ASSUME TypeInv, NEW p \in Players
    PROVE  /\ GetBooks(tracks[p]) - 1 \in Nat \ {0}
           /\ GetBags(tracks[p]) - 1 \in Nat \ {0}
<1>1. tracks[p] \in [TrackAwards -> Nat]
  BY DEF TypeInv, TypeOK
<1>2. /\ tracks[p]["Discs"] \in Nat /\ tracks[p]["Bags"] \in Nat
      /\ tracks[p]["Discs"] <= StartTrack["Discs"]
      /\ tracks[p]["Bags"] <= StartTrack["Bags"]
  BY <1>1 DEF TypeInv, TracksShrink, TrackAwards
<1>3. tracks[p]["Discs"] <= 3 /\ tracks[p]["Bags"] <= 3
  BY <1>2, GameAssumption
<1> QED
  BY <1>2, <1>3 DEF GetBooks, GetBags

LEMMA BagsTurnInv ==
    ASSUME TypeInv, NEW p \in Players, MayAct(p), BagsTurn(p),
           stock' \in Pools, supply' \in Pools, tracks' = tracks,
           bonusroute' = bonusroute
    PROVE  TypeInv'
<1>1. TypeOK /\ turnState \in TurnStates /\ board \in Boards
      /\ scores \in [Players -> Nat] /\ bonusroute' \subseteq Players
  BY DEF TypeInv, TypeOK, Boards
<1>2. CASE /\ turnState.Type = "Bags"
           /\ Commit(board, scores,
                     [turnState EXCEPT !.BagsLeft = @ - 1,
                                       !.Type = IF turnState.BagsLeft = 1
                                                THEN "None" ELSE @])
  <2> DEFINE ts == [turnState EXCEPT !.BagsLeft = @ - 1,
                                     !.Type = IF turnState.BagsLeft = 1
                                              THEN "None" ELSE @]
  <2>1. /\ turnState.BagsLeft - 1 \in Nat /\ turnState.MovesLeft = 0
        /\ turnState.BumpPayingCost = 0 /\ turnState.BumpingReplaces = 0
    BY <1>1, <1>2 DEF TypeInv, CountersInPhase, TurnStates
  <2>2. /\ ts.BagsLeft = turnState.BagsLeft - 1 /\ ts.MovesLeft = 0
        /\ ts.BumpPayingCost = 0 /\ ts.BumpingReplaces = 0
        /\ ts.Type = IF turnState.BagsLeft = 1 THEN "None" ELSE "Bags"
    BY <1>1, <1>2, <2>1 DEF TurnStates
  <2>3. Counters(ts)
    BY <1>1, <2>1, <2>2 DEF Counters, TurnStates
  <2>4. \A n \in Nat, t \in TurnTypes :
            [turnState EXCEPT !.BagsLeft = n, !.Type = t] \in TurnStates
    BY Zenon, <1>1, CountedStateType
  <2>5. ts \in TurnStates
    BY Zenon, <1>2, <2>1, <2>4 DEF TurnTypes
  <2> HIDE DEF ts
  <2> QED
    BY <1>1, <1>2, <2>3, <2>5, CommitInv DEF ts
<1>3. CASE /\ MayStart
           /\ Commit(board, scores,
                     [Started EXCEPT !.Type = "Bags",
                                     !.BagsLeft = GetBags(tracks[p]) - 1])
  BY <1>1, <1>3, FreshFacts, TrackRanges, CommitInv
<1> QED
  BY <1>2, <1>3 DEF BagsTurn

LEMMA MoveTurnInv ==
    ASSUME TypeInv, NEW p \in Players, MayAct(p), NEW b \in Boards, MoveTurn(p, b),
           UNCHANGED <<stock, supply, tracks, bonusroute>>
    PROVE  TypeInv'
<1>1. TypeOK /\ turnState \in TurnStates
      /\ scores \in [Players -> Nat] /\ bonusroute' \subseteq Players
      /\ stock' \in Pools /\ supply' \in Pools
  BY DEF TypeInv, TypeOK, Pools
<1>2. CASE /\ turnState.Type = "Moving"
           /\ Commit(b, scores,
                     [turnState EXCEPT !.MovesLeft = @ - 1,
                                       !.Type = IF turnState.MovesLeft = 1
                                                THEN "None" ELSE @])
  <2> DEFINE ts == [turnState EXCEPT !.MovesLeft = @ - 1,
                                     !.Type = IF turnState.MovesLeft = 1
                                              THEN "None" ELSE @]
  <2>1. /\ turnState.MovesLeft - 1 \in Nat /\ turnState.BagsLeft = 0
        /\ turnState.BumpPayingCost = 0 /\ turnState.BumpingReplaces = 0
    BY <1>1, <1>2 DEF TypeInv, CountersInPhase, TurnStates
  <2>2. /\ ts.MovesLeft = turnState.MovesLeft - 1 /\ ts.BagsLeft = 0
        /\ ts.BumpPayingCost = 0 /\ ts.BumpingReplaces = 0
        /\ ts.Type = IF turnState.MovesLeft = 1 THEN "None" ELSE "Moving"
    BY <1>1, <1>2, <2>1 DEF TurnStates
  <2>3. Counters(ts)
    BY <1>1, <2>1, <2>2 DEF Counters, TurnStates
  <2>4. \A n \in Nat, t \in TurnTypes :
            [turnState EXCEPT !.MovesLeft = n, !.Type = t] \in TurnStates
    BY Zenon, <1>1, CountedStateType
  <2>5. ts \in TurnStates
    BY Zenon, <1>2, <2>1, <2>4 DEF TurnTypes
  <2> HIDE DEF ts
  <2> QED
    BY <1>1, <1>2, <2>3, <2>5, CommitInv DEF ts
<1>3. CASE /\ MayStart
           /\ Commit(b, scores,
                     [Started EXCEPT !.Type = "Moving",
                                     !.MovesLeft = GetBooks(tracks[p]) - 1])
  BY <1>1, <1>3, FreshFacts, TrackRanges, CommitInv
<1> QED
  BY <1>2, <1>3 DEF MoveTurn

-----------------------------------------------------------------------------
(* One lemma per group of actions: each preserves TypeInv.                 *)

LEMMA PlaceInv ==
    ASSUME TypeInv, NEW p \in Players, NEW shape \in Shapes, NEW d \in SpotSquares,
           MayAct(p), MayStart, Place(p, shape, d)
    PROVE  TypeInv'
<1>1. /\ board \in Boards /\ scores \in [Players -> Nat] /\ supply \in Pools
      /\ stock' \in Pools /\ bonusroute' \subseteq Players
  BY DEF TypeInv, TypeOK, Boards, Pools, Place
<1>2. supply' \in Pools
  BY <1>1, PoolType DEF Place
<1>3. Drop(board, d, Piece(p, shape)) \in Boards
  BY <1>1, DropType DEF Piece, Pieces, Squares, RouteSquares
<1> QED
  BY <1>1, <1>2, <1>3, FreshFacts, CommitInv DEF Place

LEMMA BumpInv ==
    ASSUME TypeInv, NEW p \in Players, NEW shape \in Shapes, NEW d \in SpotSquares,
           MayAct(p), MayStart, Bump(p, shape, d)
    PROVE  TypeInv'
<1>1. /\ board \in Boards /\ scores \in [Players -> Nat] /\ supply \in Pools
      /\ stock' \in Pools /\ bonusroute' \subseteq Players
  BY DEF TypeInv, TypeOK, Boards, Pools, Bump
<1>2. supply' \in Pools
  BY <1>1, PoolType DEF Bump, BumpAsked
<1>3. d \in Squares
  BY DEF Squares, RouteSquares
<1>4. Drop(board, d, Piece(p, shape)) \in Boards
  BY <1>1, <1>3, DropType DEF Piece, Pieces
<1>5. board[d].PlayerColor \in Players /\ BumpCost(board[d]) \in {1, 2}
  BY <1>1, <1>3 DEF Boards, Pieces, Bump, BumpAsked, BumpCost
<1>6. BumpZone(d) \in BumpSquares
  BY SquareFacts
<1> DEFINE ts == [Started EXCEPT !.Type = "BumpPaying",
                                 !.BumpPayingCost = BumpCost(board[d]),
                                 !.BumpingPlayer = board[d].PlayerColor,
                                 !.BumpingLocation = BumpZone(d),
                                 !.BumpingMoved = FALSE,
                                 !.BumpingReplaces = BumpCost(board[d])]
<1>7. /\ Started \in TurnStates /\ Started.BagsLeft = 0 /\ Started.MovesLeft = 0
  BY StartedType
<1>8. ts \in TurnStates /\ Counters(ts)
  <2>1. \A q \in Players, l \in BumpSquares, n \in Nat :
            [Started EXCEPT !.Type = "BumpPaying", !.BumpPayingCost = n,
                            !.BumpingPlayer = q, !.BumpingLocation = l,
                            !.BumpingMoved = FALSE, !.BumpingReplaces = n]
                \in TurnStates
    BY Zenon, <1>7, BumpStateType
  <2>2. ts \in TurnStates
    BY Zenon, <1>5, <1>6, <2>1
  <2>3. /\ ts.Type = "BumpPaying" /\ ts.BagsLeft = 0 /\ ts.MovesLeft = 0
        /\ ts.BumpPayingCost = BumpCost(board[d])
        /\ ts.BumpingReplaces = BumpCost(board[d])
    BY <1>7 DEF TurnStates
  <2> HIDE DEF ts
  <2> QED
    BY <1>5, <2>2, <2>3 DEF Counters
<1>9. Commit(Drop(board, d, Piece(p, shape)), scores, ts) /\ tracks' = tracks
  BY DEF Bump
<1> HIDE DEF ts
<1> QED
  BY <1>1, <1>2, <1>4, <1>8, <1>9, CommitInv

LEMMA PayBumpInv ==
    ASSUME TypeInv, NEW p \in Players, NEW shape \in Shapes, PayBump(p, shape)
    PROVE  TypeInv'
<1>1. /\ board \in Boards /\ scores \in [Players -> Nat] /\ supply \in Pools
      /\ stock \in Pools /\ bonusroute' \subseteq Players /\ turnState \in TurnStates
  BY DEF TypeInv, TypeOK, Boards, Pools, PayBump
<1>2. supply' \in Pools /\ stock' \in Pools
  BY Zenon, <1>1, PoolType DEF PayBump
<1> DEFINE ts == [turnState EXCEPT !.BumpPayingCost = @ - 1,
                                   !.Type = IF turnState.BumpPayingCost = 1
                                            THEN "Bumping" ELSE @]
<1>3. /\ turnState.BumpPayingCost - 1 \in Nat /\ turnState.BagsLeft = 0
      /\ turnState.MovesLeft = 0
  BY <1>1 DEF PayBump, TypeInv, CountersInPhase, TurnStates
<1>4. ts \in TurnStates
  <2>1. \A n \in Nat, t \in TurnTypes :
            [turnState EXCEPT !.BumpPayingCost = n, !.Type = t] \in TurnStates
    BY Zenon, <1>1, CountedStateType
  <2> QED
    BY Zenon, <1>3, <2>1 DEF TurnTypes, PayBump
<1>5. Counters(ts)
  <2>1. /\ ts.BumpPayingCost = turnState.BumpPayingCost - 1 /\ ts.BagsLeft = 0
        /\ ts.MovesLeft = 0 /\ ts.BumpingReplaces = turnState.BumpingReplaces
        /\ ts.Type = IF turnState.BumpPayingCost = 1 THEN "Bumping" ELSE "BumpPaying"
    BY <1>1, <1>3 DEF TurnStates, PayBump
  <2> HIDE DEF ts
  <2> QED
    BY <1>1, <1>3, <2>1 DEF Counters, TurnStates
<1>6. Commit(board, scores, ts) /\ tracks' = tracks
  BY DEF PayBump
<1> HIDE DEF ts
<1> QED
  BY <1>1, <1>2, <1>4, <1>5, <1>6, CommitInv

\* Answering a bump spends a replacement or moves the bumped piece.
LEMMA ReplacedFacts ==
    ASSUME TypeInv, turnState.Type = "Bumping"
    PROVE  /\ turnState.BumpingReplaces # 0 => Replaced \in TurnStates /\ Counters(Replaced)
           /\ [turnState EXCEPT !.BumpingMoved = TRUE] \in TurnStates
           /\ Counters([turnState EXCEPT !.BumpingMoved = TRUE])
<1>1. /\ turnState \in TurnStates /\ turnState.BagsLeft = 0
      /\ turnState.MovesLeft = 0 /\ turnState.BumpPayingCost = 0
  BY DEF TypeInv, TypeOK, CountersInPhase, TurnStates
<1>2. ASSUME turnState.BumpingReplaces # 0
      PROVE  Replaced \in TurnStates /\ Counters(Replaced)
  <2>1. turnState.BumpingReplaces - 1 \in Nat
    BY <1>1, <1>2 DEF TurnStates
  <2>2. Replaced \in TurnStates
    BY <1>1, <2>1 DEF TurnStates, Replaced
  <2>3. /\ Replaced.Type = "Bumping" /\ Replaced.BagsLeft = 0
        /\ Replaced.MovesLeft = 0 /\ Replaced.BumpPayingCost = 0
    BY <1>1 DEF TurnStates, Replaced
  <2> QED
    BY <2>2, <2>3 DEF Counters
<1>3. [turnState EXCEPT !.BumpingMoved = TRUE] \in TurnStates
  BY <1>1 DEF TurnStates
<1>4. Counters([turnState EXCEPT !.BumpingMoved = TRUE])
  BY <1>1 DEF TurnStates, Counters
<1> QED
  BY <1>2, <1>3, <1>4

LEMMA ShiftType ==
    ASSUME TypeOK, NEW p \in Players, NEW s \in OnRoutes(p), NEW d \in Squares
    PROVE  Shift(board, s, d) \in Boards
<1>1. /\ board \in Boards /\ s \in RouteSquares /\ board[s] \in Pieces
  BY HeldFacts DEF TypeOK, Boards
<1> QED
  BY <1>1, LiftType, DropType DEF Shift

LEMMA AnswerInv ==
    ASSUME TypeInv, NEW p \in Players, Answer(p)
    PROVE  TypeInv'
<1>1. /\ TypeOK /\ board \in Boards /\ scores \in [Players -> Nat]
      /\ supply \in Pools /\ stock \in Pools /\ bonusroute \subseteq Players
      /\ turnState.Type = "Bumping"
  BY DEF TypeInv, TypeOK, Boards, Pools, Answer
<1>2. ASSUME NEW d \in ValidBumps(board, turnState.BumpingLocation),
             NEW shape \in Shapes, ReplaceFromStock(p, shape, d)
      PROVE  TypeInv'
  <2>1. Drop(board, d, Piece(p, shape)) \in Boards
    BY <1>1, ValidBumpFacts, DropType DEF Piece, Pieces
  <2>2. stock' \in Pools
    BY <1>1, <1>2, PoolType DEF ReplaceFromStock
  <2> QED
    BY <1>1, <1>2, <2>1, <2>2, ReplacedFacts, CommitInv DEF ReplaceFromStock
<1>3. ASSUME NEW d \in ValidBumps(board, turnState.BumpingLocation),
             NEW shape \in Shapes, ReplaceFromSupply(p, shape, d)
      PROVE  TypeInv'
  <2>1. Drop(board, d, Piece(p, shape)) \in Boards
    BY <1>1, ValidBumpFacts, DropType DEF Piece, Pieces
  <2>2. supply' \in Pools
    BY <1>1, <1>3, PoolType DEF ReplaceFromSupply
  <2> QED
    BY <1>1, <1>3, <2>1, <2>2, ReplacedFacts, CommitInv DEF ReplaceFromSupply
<1>4. ASSUME NEW d \in ValidBumps(board, turnState.BumpingLocation),
             NEW s \in OnRoutes(p), ReplaceFromBoard(p, s, d) \/ MoveBumped(p, s, d)
      PROVE  TypeInv'
  <2>1. Shift(board, s, d) \in Boards
    BY <1>1, ValidBumpFacts, ShiftType
  <2> QED
    BY <1>1, <1>4, <2>1, ReplacedFacts, CommitInv DEF ReplaceFromBoard, MoveBumped
<1>5. ASSUME NoBumpPanic(p) PROVE TypeInv'
  BY <1>1, <1>5 DEF NoBumpPanic, Panic, TypeInv, TypeOK, CountersInPhase, TracksShrink
<1> QED
  BY <1>2, <1>3, <1>4, <1>5 DEF Answer

LEMMA EndBumpInv ==
    ASSUME TypeInv, NEW p \in Players, EndBump(p)
    PROVE  TypeInv'
<1>1. /\ turnState \in TurnStates /\ turnState.BagsLeft = 0
      /\ turnState.MovesLeft = 0 /\ turnState.BumpPayingCost = 0
  BY DEF TypeInv, TypeOK, CountersInPhase, TurnStates, EndBump
<1>2. turnState' \in TurnStates
  <2>1. 0 \in Players
    BY BoardAssumption DEF Players
  <2> QED
    BY <1>1, <2>1 DEF EndBump, TurnStates, TurnTypes
<1>3. /\ turnState'.BagsLeft = 0 /\ turnState'.MovesLeft = 0
      /\ turnState'.BumpPayingCost = 0 /\ turnState'.BumpingReplaces = 0
      /\ turnState'.Type = "None"
  BY <1>1 DEF EndBump, TurnStates
<1>4. UNCHANGED <<board, stock, supply, tracks, scores, bonusroute, gameend,
                  status, panicked>>
  BY DEF EndBump
<1> QED
  BY <1>2, <1>3, <1>4 DEF TypeInv, TypeOK, CountersInPhase, TracksShrink

LEMMA EndTurnInv ==
    ASSUME TypeInv, NEW p \in Players, EndTurn(p)
    PROVE  TypeInv'
<1> DEFINE next == (p + 1) % NPlayers
<1>1. UNCHANGED <<board, stock, supply, tracks, scores, bonusroute, gameend, panicked>>
  BY DEF EndTurn
<1>2. CASE status' = "Scoring" /\ UNCHANGED turnState
  BY <1>1, <1>2 DEF TypeInv, TypeOK, CountersInPhase, TracksShrink
<1>3. CASE /\ turnState' = FreshTurn(next, GetActions(tracks[next]))
           /\ UNCHANGED status
  <2>1. next \in Players /\ 0 \in Players
    <3>1. NPlayers \in Nat /\ NPlayers > 0 /\ p + 1 \in Int
      BY BoardAssumption DEF Players
    <3>2. (p + 1) % NPlayers \in 0 .. NPlayers - 1
      BY <3>1
    <3> QED
      BY <3>1, <3>2 DEF Players
  <2>2. GetActions(tracks[next]) \in Nat
    <3>1. tracks[next] \in [TrackAwards -> Nat]
      BY <2>1 DEF TypeInv, TypeOK
    <3> HIDE DEF next
    <3> QED
      BY <3>1, GetActionsRange
  <2>3. \A n \in Nat, q \in Players : FreshTurn(q, n) \in TurnStates
    BY <2>1, BoardAssumption
       DEF FreshTurn, TurnStates, TurnTypes, Awards, NoLocation
  <2>4. turnState' \in TurnStates
    BY <1>3, <2>1, <2>2, <2>3
  <2>5. /\ turnState'.BagsLeft = 0 /\ turnState'.MovesLeft = 0
        /\ turnState'.BumpPayingCost = 0 /\ turnState'.BumpingReplaces = 0
        /\ turnState'.Type = "None"
    BY <1>3 DEF FreshTurn
  <2> QED
    BY <1>1, <1>3, <2>4, <2>5 DEF TypeInv, TypeOK, CountersInPhase, TracksShrink
<1> QED
  BY <1>2, <1>3 DEF EndTurn

\* While clearing, and at its start, every counter is zero.
Spent(ts) == /\ ts.BagsLeft = 0 /\ ts.MovesLeft = 0
            /\ ts.BumpPayingCost = 0 /\ ts.BumpingReplaces = 0

LEMMA ClearedFacts ==
    ASSUME NEW b, NEW ts \in TurnStates, Spent(ts), ts.Type = "Clearing"
    PROVE  Cleared(b, ts) \in TurnStates /\ Counters(Cleared(b, ts))
<1>1. CASE Cleared(b, ts) = ts
  BY <1>1 DEF Spent, Counters
<1>2. CASE Cleared(b, ts) = [ts EXCEPT !.Type = "None", !.ClearingRouteId = 0]
  <2> DEFINE new == [ts EXCEPT !.Type = "None", !.ClearingRouteId = 0]
  <2>1. new \in TurnStates
    BY BoardAssumption DEF TurnStates, TurnTypes
  <2>2. Spent(new) /\ new.Type = "None"
    BY DEF Spent, TurnStates
  <2> HIDE DEF new
  <2>3. Counters(new)
    BY <2>2 DEF Spent, Counters
  <2> QED
    BY <1>2, <2>1, <2>3 DEF new
<1> QED
  BY <1>1, <1>2 DEF Cleared

LEMMA RewardedFacts ==
    ASSUME NEW ts \in TurnStates, Spent(ts)
    PROVE  /\ Rewarded(ts) \in TurnStates /\ Spent(Rewarded(ts))
           /\ Rewarded(ts).Type = ts.Type
  BY DEF Rewarded, Spent, TurnStates, Awards

LEMMA StartClearing ==
    ASSUME TypeInv, NEW p \in Players, MayAct(p), MayStart, NEW r \in Routes
    PROVE  LET ts == [Rewarded(Started) EXCEPT !.Type = "Clearing",
                                               !.ClearingRouteId = r]
           IN  ts \in TurnStates /\ Counters(ts)
<1>1. Started \in TurnStates /\ Spent(Started)
  BY StartedType DEF Spent
<1>2. Rewarded(Started) \in TurnStates /\ Spent(Rewarded(Started))
  BY <1>1, RewardedFacts
<1> DEFINE ts == [Rewarded(Started) EXCEPT !.Type = "Clearing", !.ClearingRouteId = r]
<1>3. ts \in TurnStates
  BY <1>2 DEF TurnStates, TurnTypes
<1>4. Spent(ts) /\ ts.Type = "Clearing"
  BY <1>2 DEF TurnStates, Spent
<1> HIDE DEF ts
<1>5. Counters(ts)
  BY <1>4 DEF Spent, Counters
<1> QED
  BY <1>3, <1>5 DEF ts

LEMMA ScoreTypes ==
    ASSUME TypeOK, NEW b, NEW p \in Players, NEW d \in OfficeSquares,
           NEW extra \in [Players -> Nat]
    PROVE  /\ OfficeScores(b, p, Offices[d[2]][d[3]], extra) \in [Players -> Nat]
           /\ OfficeBonus(b, p) => bonusroute' \subseteq Players
<1>1. Offices[d[2]][d[3]].Points \in Nat
  BY OfficeFacts DEF OfficeType
<1>2. BonusWorth \in Nat
  BY DEF BonusWorth
<1>3. scores \in [Players -> Nat] /\ bonusroute \subseteq Players
  BY DEF TypeOK
<1>4. OfficeBonus(b, p) => bonusroute' \subseteq Players
  BY <1>3 DEF OfficeBonus
<1> DEFINE gain(q) == IF q # p THEN 0
                      ELSE Offices[d[2]][d[3]].Points
                           + (IF BonusScored(b, p) THEN BonusWorth ELSE 0)
<1>5. \A q \in Players : gain(q) \in Nat
  BY <1>1, <1>2
<1> HIDE DEF gain
<1>6. [q \in Players |-> scores[q] + extra[q] + gain(q)] \in [Players -> Nat]
  BY <1>3, <1>5
<1> QED
  BY <1>4, <1>6 DEF gain, OfficeScores

LEMMA ControlPointsType ==
    ASSUME NEW r
    PROVE  ControlPoints(r) \in [Players -> Nat]
  BY DEF ControlPoints

LEMMA ClearStepInv ==
    ASSUME TypeInv, NEW p \in Players, turnState.Type = "Clearing",
           NEW s \in OnRoutes(p),
           \/ \E d \in OfficeSquares : TakeOffice(p, s, d)
           \/ \E d \in CoellenSquares : TakeCoellen(p, s, d)
           \/ ClearMore(p, s)
    PROVE  TypeInv'
<1>1. /\ TypeOK /\ board \in Boards /\ scores \in [Players -> Nat]
      /\ supply \in Pools /\ stock \in Pools /\ bonusroute \subseteq Players
      /\ turnState \in TurnStates
  BY DEF TypeInv, TypeOK, Boards, Pools
<1>2. Spent(turnState)
  BY <1>1 DEF TypeInv, CountersInPhase, TurnStates, Spent
<1>3. /\ Rewarded(turnState) \in TurnStates /\ Spent(Rewarded(turnState))
      /\ Rewarded(turnState).Type = "Clearing"
  BY <1>1, <1>2, RewardedFacts
<1>4. \A b : /\ Cleared(b, Rewarded(turnState)) \in TurnStates
             /\ Counters(Cleared(b, Rewarded(turnState)))
  BY <1>3, ClearedFacts
<1>5. ASSUME NEW d \in OfficeSquares, TakeOffice(p, s, d)
      PROVE  TypeInv'
  <2> DEFINE b == Shift(board, s, d)
             sc == OfficeScores(b, p, Offices[d[2]][d[3]], [q \in Players |-> 0])
  <2>1. b \in Boards
    BY <1>1, ShiftType DEF Squares
  <2>2. sc \in [Players -> Nat] /\ bonusroute' \subseteq Players
    BY <1>1, <1>5, ScoreTypes DEF TakeOffice
  <2>3. /\ Commit(b, sc, Cleared(b, Rewarded(turnState)))
        /\ UNCHANGED <<stock, supply, tracks>>
    BY <1>5 DEF TakeOffice
  <2> HIDE DEF b, sc
  <2> QED
    BY <1>1, <1>4, <2>1, <2>2, <2>3, CommitInv
<1>6. ASSUME NEW d \in CoellenSquares, TakeCoellen(p, s, d)
      PROVE  TypeInv'
  <2>1. Shift(board, s, d) \in Boards
    BY <1>1, ShiftType DEF Squares
  <2> QED
    BY <1>1, <1>4, <1>6, <2>1, CommitInv DEF TakeCoellen
<1>7. ASSUME ClearMore(p, s)
      PROVE  TypeInv'
  <2>1. Lift(board, s) \in Boards
    BY <1>1, HeldFacts, LiftType
  <2>2. stock' \in Pools
    BY <1>1, <1>7, HeldFacts, PoolType DEF ClearMore
  <2> DEFINE new == [turnState EXCEPT !.Type = "None", !.ClearingRouteId = 0,
                                      !.ClearingCanOffice = FALSE]
  <2>3. new \in TurnStates
    BY <1>1, BoardAssumption DEF TurnStates, TurnTypes
  <2>4. Spent(new) /\ new.Type = "None"
    BY <1>1, <1>2 DEF Spent, TurnStates
  <2>5. Commit(Lift(board, s), scores, new) \/ Commit(Lift(board, s), scores, turnState)
    BY <1>7 DEF ClearMore
  <2> HIDE DEF new
  <2>6. Counters(new) /\ Counters(turnState)
    BY <1>2, <2>4 DEF Spent, Counters
  <2>7. supply' = supply /\ tracks' = tracks /\ bonusroute' = bonusroute
    BY <1>7 DEF ClearMore
  <2> QED
    BY <1>1, <2>1, <2>2, <2>3, <2>5, <2>6, <2>7, CommitInv
<1> QED
  BY <1>5, <1>6, <1>7

LEMMA ClearStartInv ==
    ASSUME TypeInv, NEW p \in Players, MayAct(p), MayStart, NEW s \in OnRoutes(p),
           \/ \E d \in OfficeSquares : ClearToOffice(p, s, d)
           \/ ClearToStock(p, s)
    PROVE  TypeInv'
<1>1. /\ TypeOK /\ board \in Boards /\ scores \in [Players -> Nat]
      /\ supply \in Pools /\ stock \in Pools /\ bonusroute \subseteq Players
      /\ s[2] \in Routes /\ ControlPoints(s[2]) \in [Players -> Nat]
  BY HeldFacts, ControlPointsType DEF TypeInv, TypeOK, Boards, Pools
<1>2. ASSUME NEW d \in OfficeSquares, ClearToOffice(p, s, d)
      PROVE  TypeInv'
  <2> DEFINE b  == Shift(board, s, d)
             sc == OfficeScores(b, p, Offices[d[2]][d[3]], ControlPoints(s[2]))
             ts == [Rewarded(Started) EXCEPT !.Type = "Clearing",
                                             !.ClearingRouteId = s[2]]
  <2>1. b \in Boards
    BY <1>1, ShiftType DEF Squares
  <2>2. sc \in [Players -> Nat] /\ bonusroute' \subseteq Players
    BY <1>1, <1>2, ScoreTypes DEF ClearToOffice
  <2>3. ts \in TurnStates /\ Counters(ts)
    BY <1>1, StartClearing
  <2>4. Commit(b, sc, ts) /\ UNCHANGED <<stock, supply, tracks>>
    BY <1>2 DEF ClearToOffice
  <2> HIDE DEF b, sc, ts
  <2> QED
    BY <1>1, <2>1, <2>2, <2>3, <2>4, CommitInv
<1>3. ASSUME ClearToStock(p, s)
      PROVE  TypeInv'
  <2> DEFINE sc == [q \in Players |-> scores[q] + ControlPoints(s[2])[q]]
             ts == [Started EXCEPT !.Type = "Clearing", !.ClearingRouteId = s[2],
                                   !.ClearingCanOffice = TRUE,
                                   !.ClearingAward = RouteAward(p, s)]
  <2>1. Lift(board, s) \in Boards
    BY <1>1, HeldFacts, LiftType
  <2>2. sc \in [Players -> Nat]
    BY <1>1
  <2>3. stock' \in Pools
    BY <1>1, <1>3, HeldFacts, PoolType DEF ClearToStock
  <2>4. Started \in TurnStates /\ Spent(Started)
    BY StartedType DEF Spent
  <2>5. RouteAward(p, s) \in Awards
    BY <1>1, BoardAssumption DEF RouteAward, Awards
  <2>6. ts \in TurnStates
    BY <1>1, <2>4, <2>5 DEF TurnStates, TurnTypes
  <2>7. Spent(ts) /\ ts.Type = "Clearing"
    BY <2>4 DEF Spent, TurnStates
  <2>8. Commit(Lift(board, s), sc, ts) /\ UNCHANGED <<supply, tracks, bonusroute>>
    BY <1>3 DEF ClearToStock
  <2> HIDE DEF sc, ts
  <2>9. Counters(ts)
    BY <2>7 DEF Spent, Counters
  <2> QED
    BY <1>1, <2>1, <2>2, <2>3, <2>6, <2>8, <2>9, CommitInv
<1> QED
  BY <1>2, <1>3

LEMMA LevelUpInv ==
    ASSUME TypeInv, NEW p \in Players, turnState.Type = "Clearing", LevelUp(p)
    PROVE  TypeInv'
<1> DEFINE award == turnState.ClearingAward
           after == [tracks EXCEPT ![p][award] = @ - 1]
           gain  == GainedActions(tracks[p], after[p])
           more  == [Rewarded(turnState) EXCEPT !.ActionsLeft = @ + gain]
           ts    == Cleared(board, more)
<1>1. /\ TypeOK /\ board \in Boards /\ scores \in [Players -> Nat]
      /\ supply \in Pools /\ stock \in Pools /\ bonusroute \subseteq Players
      /\ turnState \in TurnStates /\ tracks \in [Players -> [TrackAwards -> Nat]]
  BY DEF TypeInv, TypeOK, Boards, Pools
<1>2. Spent(turnState)
  BY <1>1 DEF TypeInv, CountersInPhase, TurnStates, Spent
<1>3. award \in TrackAwards /\ tracks[p][award] > 0
  BY DEF LevelUp, CanAward
<1>4. tracks' = after /\ Commit(board, scores, ts)
      /\ supply' = [supply EXCEPT ![p][TrackShape(award)] = @ + 1]
      /\ UNCHANGED <<stock, bonusroute>>
  BY DEF LevelUp
<1>5. after \in [Players -> [TrackAwards -> Nat]]
      /\ \A q \in Players, a \in TrackAwards : after[q][a] <= tracks[q][a]
  <2>1. tracks[p][award] - 1 \in Nat
    BY <1>1, <1>3
  <2> HIDE DEF award
  <2> QED
    BY <1>1, <1>3, <2>1
<1>6. supply' \in Pools
  BY <1>1, <1>4, PoolType DEF TrackShape, Shapes
<1>7. gain \in Nat
  BY DEF GainedActions
<1>8. ts \in TurnStates /\ Counters(ts)
  <2>1. /\ Rewarded(turnState) \in TurnStates /\ Spent(Rewarded(turnState))
        /\ Rewarded(turnState).Type = "Clearing"
    BY <1>1, <1>2, RewardedFacts
  <2> HIDE DEF gain
  <2>2. more \in TurnStates /\ Spent(more) /\ more.Type = "Clearing"
    BY <1>7, <2>1 DEF TurnStates, Spent
  <2> HIDE DEF more
  <2> QED
    BY <2>2, ClearedFacts
<1> HIDE DEF award, after, ts
<1>9. /\ board' \in Boards /\ scores' \in [Players -> Nat]
      /\ gameend' \in BOOLEAN /\ turnState' \in TurnStates
      /\ status' = status /\ panicked' = panicked
      /\ CountersInPhase'
  BY <1>1, <1>4, <1>8, CommitFacts
<1>10. TracksShrink'
  <2> SUFFICES ASSUME NEW q \in Players, NEW a \in TrackAwards
               PROVE  tracks'[q][a] <= StartTrack[a]
    BY DEF TracksShrink
  <2>1. after[q][a] <= tracks[q][a] /\ tracks[q][a] <= StartTrack[a]
    BY <1>5 DEF TypeInv, TracksShrink
  <2>2. after[q][a] \in Nat /\ tracks[q][a] \in Nat /\ StartTrack[a] \in Nat
    BY <1>1, <1>5, GameAssumption
  <2> QED
    BY <1>4, <2>1, <2>2
<1> QED
  BY <1>1, <1>4, <1>5, <1>6, <1>9, <1>10 DEF TypeInv, TypeOK, Boards, Pools

\* Every subaction preserves TypeInv.
LEMMA SubactionInv ==
    ASSUME TypeInv, NEW p \in Players, Subaction(p)
    PROVE  TypeInv'
<1>1. /\ MayAct(p) /\ TypeOK /\ board \in Boards /\ supply \in Pools /\ stock \in Pools
  BY DEF Subaction, TypeInv, TypeOK, Boards, Pools
<1>2. CASE FromPools(p)
  <2>1. ASSUME NEW shape \in Shapes, BagPiece(p, shape)
        PROVE  TypeInv'
    <3>1. stock' \in Pools /\ supply' \in Pools
      BY <1>1, <2>1, PoolType DEF BagPiece
    <3> QED
      BY <1>1, <2>1, <3>1, BagsTurnInv DEF BagPiece
  <2>2. ASSUME NEW shape \in Shapes, PayBump(p, shape)
        PROVE  TypeInv'
    BY <2>2, PayBumpInv
  <2>3. ASSUME MayStart, NEW shape \in Shapes, NEW d \in SpotSquares,
               Place(p, shape, d) \/ Bump(p, shape, d)
        PROVE  TypeInv'
    BY <1>1, <2>3, PlaceInv, BumpInv
  <2>4. ASSUME NEW shape \in Shapes, NEW d \in SpotSquares, BumpPanic(p, shape, d)
        PROVE  TypeInv'
    BY <1>1, <2>4 DEF BumpPanic, Panic, TypeInv, TypeOK, CountersInPhase, TracksShrink
  <2> QED
    BY <1>2, <2>1, <2>2, <2>3, <2>4 DEF FromPools
<1>3. CASE Answer(p)
  BY <1>3, AnswerInv
<1>4. ASSUME NEW s \in OnRoutes(p), NEW d \in SpotSquares, Move(p, s, d)
      PROVE  TypeInv'
  <2>1. Shift(board, s, d) \in Boards
    BY <1>1, ShiftType DEF Squares, RouteSquares
  <2> QED
    BY <1>1, <1>4, <2>1, MoveTurnInv DEF Move
<1>5. CASE Clear(p)
  BY <1>1, <1>5, ClearStepInv, ClearStartInv, LevelUpInv DEF Clear
<1> QED
  BY <1>2, <1>3, <1>4, <1>5 DEF Subaction

LEMMA InitInv == Init => TypeInv
<1> SUFFICES ASSUME Init PROVE TypeInv
  OBVIOUS
<1>1. 0 \in Players
  BY BoardAssumption DEF Players
<1>2. turnState \in TurnStates
  BY <1>1, BoardAssumption DEF Init, FreshTurn, TurnStates, TurnTypes, Awards, NoLocation
<1>3. CountersInPhase
  BY DEF Init, FreshTurn, CountersInPhase
<1>4. tracks \in [Players -> [TrackAwards -> Nat]] /\ TracksShrink
  BY GameAssumption DEF Init, TracksShrink
<1>5. \A i \in Players : StartSupply(i) \in 0 .. StartCubes
  BY GameAssumption, BoardAssumption DEF StartSupply, Players
<1>6. stock \in [Players -> [Shapes -> Nat]] /\ supply \in [Players -> [Shapes -> Nat]]
  BY <1>5, GameAssumption DEF Init
<1> QED
  BY <1>2, <1>3, <1>4, <1>6 DEF Init, TypeInv, TypeOK

\* What a step of the engine is, the look at a virtual office aside.
LEMMA NextCases ==
    Next => \/ \E p \in Players : Subaction(p) \/ EndTurn(p) \/ EndBump(p)
            \/ Panic
  BY DEF Next, VirtualOfficePanic

LEMMA StepInv == TypeInv /\ [Next]_vars => TypeInv'
<1> SUFFICES ASSUME TypeInv, [Next]_vars PROVE TypeInv'
  OBVIOUS
<1>1. ASSUME NEW p \in Players, Subaction(p) \/ EndTurn(p) \/ EndBump(p)
      PROVE  TypeInv'
  BY <1>1, SubactionInv, EndTurnInv, EndBumpInv
<1>2. CASE UNCHANGED vars
  BY <1>2 DEF vars, TypeInv, TypeOK, CountersInPhase, TracksShrink
<1>3. CASE Panic
  BY <1>3 DEF Panic, TypeInv, TypeOK, CountersInPhase, TracksShrink
<1> QED
  BY <1>1, <1>2, <1>3, NextCases

\* In every game the table, the turn state and the player boards keep their
\* types: no chain of subactions takes a counter, a pool or a track below zero
\* (handleDoSubaction decrements each of them without looking).
THEOREM TypeCorrect == Spec => []TypeOK
<1>1. TypeInv => TypeOK
  BY DEF TypeInv
<1> QED
  BY InitInv, StepInv, <1>1, PTL DEF Spec

\* In every game the counters of moves, bags, bump payments and replacements
\* are used only in their own phase and are spent when it ends.
THEOREM CountersCorrect == Spec => []CountersInPhase
<1>1. TypeInv => CountersInPhase
  BY DEF TypeInv
<1> QED
  BY InitInv, StepInv, <1>1, PTL DEF Spec

-----------------------------------------------------------------------------
(***************************************************************************)
(* The rules of bump payments, of clearings and of the number of actions.  *)
(***************************************************************************)

(* The inductive invariant.  AwardTakeable is what ClearMore relies on when *)
(* it keeps a clearing of an empty route open for the award.               *)

\* The action in progress counts as one of the actions of the turn.
Budget(ts) == ts.ActionsLeft + (IF ts.Type = "None" THEN 0 ELSE 1)

PayOK(pool, ts) ==
    ts.Type = "BumpPaying" => ts.BumpPayingCost \in 1 .. Count(pool[ts.Player])

ClearOK(b, tr, ts) ==
    ts.Type = "Clearing" =>
        /\ ts.ClearingAward \notin {"None", "Coellen"} =>
               CanAward(tr[ts.Player], ts.ClearingAward)
        /\ \/ \E s \in SpotsOf(ts.ClearingRouteId) : b[s] # NoPiece
           \/ CanAward(tr[ts.Player], ts.ClearingAward)

RuleInv == /\ TypeInv
           /\ PayOK(supply, turnState)
           /\ ClearOK(board, tracks, turnState)
           /\ NoExtraActions

-----------------------------------------------------------------------------
(* Every subaction leaves a turn state through Commit, which may drop the  *)
(* actions left but keeps everything else.                                 *)

LEMMA CommitKeeps ==
    ASSUME NEW b, NEW sc, NEW ts \in TurnStates, Commit(b, sc, ts)
    PROVE  /\ board' = b
           /\ turnState'.Type = ts.Type /\ turnState'.Player = ts.Player
           /\ turnState'.BumpPayingCost = ts.BumpPayingCost
           /\ turnState'.ClearingAward = ts.ClearingAward
           /\ turnState'.ClearingRouteId = ts.ClearingRouteId
           /\ turnState'.ClearingCanOffice = ts.ClearingCanOffice
           /\ turnState'.ActionsLeft \in {0, ts.ActionsLeft}
  BY DEF Commit, TurnStates

\* A turn state that keeps the player and creates no more than gain actions.
Follows(ts, gain) == /\ ts \in TurnStates /\ ts.Player = turnState.Player
                     /\ Budget(ts) <= Budget(turnState) + gain

LEMMA CommitRule ==
    ASSUME RuleInv, NEW b, NEW sc, NEW ts, Follows(ts, 0), Commit(b, sc, ts),
           tracks' = tracks, PayOK(supply', ts), ClearOK(b, tracks, ts), TypeInv'
    PROVE  RuleInv'
<1>1. /\ ts \in TurnStates /\ turnState \in TurnStates
      /\ ts.Player = turnState.Player /\ Budget(ts) <= Budget(turnState)
  BY DEF Follows, RuleInv, TypeInv, TypeOK, Budget, TurnStates
<1>2. /\ board' = b
      /\ turnState'.Type = ts.Type /\ turnState'.Player = ts.Player
      /\ turnState'.BumpPayingCost = ts.BumpPayingCost
      /\ turnState'.ClearingAward = ts.ClearingAward
      /\ turnState'.ClearingRouteId = ts.ClearingRouteId
      /\ turnState'.ClearingCanOffice = ts.ClearingCanOffice
      /\ turnState'.ActionsLeft \in {0, ts.ActionsLeft}
  BY <1>1, CommitKeeps
<1>3. PayOK(supply', turnState')
  BY <1>2 DEF PayOK
<1>4. ClearOK(board', tracks', turnState')
  BY <1>2 DEF ClearOK
<1>5. Budget(turnState') <= Budget(turnState)
  BY <1>1, <1>2 DEF Budget, TurnStates
<1>6. NoExtraActions'
  <2>1. Budget(turnState) <= GetActions(tracks[turnState.Player])
    BY DEF RuleInv, NoExtraActions, Budget
  <2>2. tracks[turnState.Player] \in [TrackAwards -> Nat]
    BY <1>1 DEF RuleInv, TypeInv, TypeOK, TurnStates
  <2>3. GetActions(tracks[turnState.Player]) \in Nat
    BY <2>2, GetActionsRange
  <2>4. Budget(turnState) \in Nat /\ Budget(turnState') \in Nat
    BY <1>1, TypeInv' DEF TypeInv, TypeOK, Budget, TurnStates
  <2>5. Budget(turnState') <= GetActions(tracks'[turnState'.Player])
    BY <1>1, <1>2, <1>5, <2>1, <2>3, <2>4
  <2> QED
    BY <2>5 DEF NoExtraActions, Budget
<1> QED
  BY <1>3, <1>4, <1>6 DEF RuleInv

\* A step that neither pays nor clears has only the actions to account for.
LEMMA QuietRule ==
    ASSUME RuleInv, NEW b, NEW sc, NEW ts, Follows(ts, 0), Commit(b, sc, ts),
           ts.Type \notin {"BumpPaying", "Clearing"}, tracks' = tracks, TypeInv'
    PROVE  RuleInv'
  BY CommitRule DEF PayOK, ClearOK

\* A step in which no subaction is carried out.
LEMMA IdleRule ==
    ASSUME RuleInv, TypeInv', UNCHANGED <<board, supply, tracks, turnState>>
    PROVE  RuleInv'
  BY DEF RuleInv, PayOK, ClearOK, NoExtraActions

\* An action begun afresh is paid for with an action left.
LEMMA StartedFollows ==
    ASSUME TypeInv, NEW p \in Players, MayAct(p), MayStart, NEW ts \in TurnStates,
           ts.Player = Started.Player, ts.ActionsLeft = Started.ActionsLeft
    PROVE  Follows(ts, 0) /\ ts.Player = p
<1>1. turnState \in TurnStates
  BY DEF TypeInv, TypeOK
<1>2. /\ Started.Player = turnState.Player
      /\ Started.ActionsLeft = turnState.ActionsLeft - 1
  BY StartedType
<1>3. turnState.Player = p
  BY DEF MayAct, MayAsk, Actor, MayStart
<1> QED
  BY <1>1, <1>2, <1>3 DEF Follows, Budget, TurnStates

\* A subaction that continues a phase, or ends it, spends no action.
LEMMA KeptFollows ==
    ASSUME TypeInv, turnState.Type # "None", NEW ts \in TurnStates,
           ts.Player = turnState.Player, ts.ActionsLeft = turnState.ActionsLeft
    PROVE  Follows(ts, 0)
<1>1. turnState \in TurnStates
  BY DEF TypeInv, TypeOK
<1> QED
  BY <1>1 DEF Follows, Budget, TurnStates

\* One piece more, or one less, in a pool counts as one.
LEMMA CountFacts ==
    ASSUME NEW pool \in Pools, NEW p \in Players, NEW shape \in Shapes
    PROVE  /\ Count(pool[p]) \in Nat
           /\ Count([pool EXCEPT ![p][shape] = @ - 1][p]) = Count(pool[p]) - 1
  BY DEF Pools, Count, Shapes

-----------------------------------------------------------------------------
(* Steps that end neither in a payment nor in a clearing.                  *)

LEMMA BagsTurnRule ==
    ASSUME RuleInv, NEW p \in Players, MayAct(p), BagsTurn(p), tracks' = tracks, TypeInv'
    PROVE  RuleInv'
<1>1. turnState \in TurnStates /\ TypeInv
  BY DEF RuleInv, TypeInv, TypeOK
<1>2. CASE /\ turnState.Type = "Bags"
           /\ Commit(board, scores,
                     [turnState EXCEPT !.BagsLeft = @ - 1,
                                       !.Type = IF turnState.BagsLeft = 1
                                                THEN "None" ELSE @])
  <2> DEFINE ts == [turnState EXCEPT !.BagsLeft = @ - 1,
                                     !.Type = IF turnState.BagsLeft = 1
                                              THEN "None" ELSE @]
  <2>1. turnState.BagsLeft - 1 \in Nat
    BY <1>1, <1>2 DEF TypeInv, CountersInPhase, TurnStates
  <2>2. \A n \in Nat, t \in TurnTypes :
            [turnState EXCEPT !.BagsLeft = n, !.Type = t] \in TurnStates
    BY Zenon, <1>1, CountedStateType
  <2>3. ts \in TurnStates
    BY Zenon, <1>2, <2>1, <2>2 DEF TurnTypes
  <2>4. /\ ts.Type \in {"None", "Bags"} /\ ts.Player = turnState.Player
        /\ ts.ActionsLeft = turnState.ActionsLeft
    BY <1>1, <1>2 DEF TurnStates
  <2> HIDE DEF ts
  <2>5. Follows(ts, 0)
    BY <1>1, <1>2, <2>3, <2>4, KeptFollows
  <2> QED
    BY <1>2, <2>4, <2>5, QuietRule DEF ts
<1>3. CASE /\ MayStart
           /\ Commit(board, scores,
                     [Started EXCEPT !.Type = "Bags",
                                     !.BagsLeft = GetBags(tracks[p]) - 1])
  <2> DEFINE ts == [Started EXCEPT !.Type = "Bags", !.BagsLeft = GetBags(tracks[p]) - 1]
  <2>1. ts \in TurnStates
    BY <1>1, <1>3, FreshFacts, TrackRanges
  <2>2. /\ ts.Type = "Bags" /\ ts.Player = Started.Player
        /\ ts.ActionsLeft = Started.ActionsLeft
    BY <1>1, <1>3, StartedType DEF TurnStates
  <2> HIDE DEF ts
  <2>3. Follows(ts, 0)
    BY <1>1, <1>3, <2>1, <2>2, StartedFollows
  <2> QED
    BY <1>3, <2>2, <2>3, QuietRule DEF ts
<1> QED
  BY <1>2, <1>3 DEF BagsTurn

LEMMA MoveTurnRule ==
    ASSUME RuleInv, NEW p \in Players, MayAct(p), NEW b, MoveTurn(p, b),
           tracks' = tracks, TypeInv'
    PROVE  RuleInv'
<1>1. turnState \in TurnStates /\ TypeInv
  BY DEF RuleInv, TypeInv, TypeOK
<1>2. CASE /\ turnState.Type = "Moving"
           /\ Commit(b, scores,
                     [turnState EXCEPT !.MovesLeft = @ - 1,
                                       !.Type = IF turnState.MovesLeft = 1
                                                THEN "None" ELSE @])
  <2> DEFINE ts == [turnState EXCEPT !.MovesLeft = @ - 1,
                                     !.Type = IF turnState.MovesLeft = 1
                                              THEN "None" ELSE @]
  <2>1. turnState.MovesLeft - 1 \in Nat
    BY <1>1, <1>2 DEF TypeInv, CountersInPhase, TurnStates
  <2>2. \A n \in Nat, t \in TurnTypes :
            [turnState EXCEPT !.MovesLeft = n, !.Type = t] \in TurnStates
    BY Zenon, <1>1, CountedStateType
  <2>3. ts \in TurnStates
    BY Zenon, <1>2, <2>1, <2>2 DEF TurnTypes
  <2>4. /\ ts.Type \in {"None", "Moving"} /\ ts.Player = turnState.Player
        /\ ts.ActionsLeft = turnState.ActionsLeft
    BY <1>1, <1>2 DEF TurnStates
  <2> HIDE DEF ts
  <2>5. Follows(ts, 0)
    BY <1>1, <1>2, <2>3, <2>4, KeptFollows
  <2> QED
    BY <1>2, <2>4, <2>5, QuietRule DEF ts
<1>3. CASE /\ MayStart
           /\ Commit(b, scores,
                     [Started EXCEPT !.Type = "Moving",
                                     !.MovesLeft = GetBooks(tracks[p]) - 1])
  <2> DEFINE ts == [Started EXCEPT !.Type = "Moving",
                                   !.MovesLeft = GetBooks(tracks[p]) - 1]
  <2>1. ts \in TurnStates
    BY <1>1, <1>3, FreshFacts, TrackRanges
  <2>2. /\ ts.Type = "Moving" /\ ts.Player = Started.Player
        /\ ts.ActionsLeft = Started.ActionsLeft
    BY <1>1, <1>3, StartedType DEF TurnStates
  <2> HIDE DEF ts
  <2>3. Follows(ts, 0)
    BY <1>1, <1>3, <2>1, <2>2, StartedFollows
  <2> QED
    BY <1>3, <2>2, <2>3, QuietRule DEF ts
<1> QED
  BY <1>2, <1>3 DEF MoveTurn

LEMMA PlaceRule ==
    ASSUME RuleInv, NEW p \in Players, NEW shape \in Shapes, NEW d \in SpotSquares,
           MayAct(p), MayStart, Place(p, shape, d), TypeInv'
    PROVE  RuleInv'
<1> DEFINE ts == [Started EXCEPT !.Type = "None"]
<1>1. TypeInv
  BY DEF RuleInv
<1>2. ts \in TurnStates
  BY <1>1, FreshFacts
<1>3. /\ ts.Type = "None" /\ ts.Player = Started.Player
      /\ ts.ActionsLeft = Started.ActionsLeft
  BY <1>1, StartedType DEF TurnStates
<1>4. Commit(Drop(board, d, Piece(p, shape)), scores, ts) /\ tracks' = tracks
  BY DEF Place
<1> HIDE DEF ts
<1>5. Follows(ts, 0)
  BY <1>1, <1>2, <1>3, StartedFollows
<1> QED
  BY <1>3, <1>4, <1>5, QuietRule

LEMMA AnswerRule ==
    ASSUME RuleInv, NEW p \in Players, Answer(p), TypeInv'
    PROVE  RuleInv'
<1>1. /\ TypeInv /\ turnState \in TurnStates /\ turnState.Type = "Bumping"
  BY DEF RuleInv, TypeInv, TypeOK, Answer
<1>2. CASE NoBumpPanic(p)
  BY <1>2, IdleRule DEF NoBumpPanic, Panic
<1>3. ASSUME turnState.BumpingReplaces # 0, tracks' = tracks,
             NEW b, Commit(b, scores, Replaced)
      PROVE  RuleInv'
  <2>1. Replaced \in TurnStates
    BY <1>1, <1>3, ReplacedFacts
  <2>2. /\ Replaced.Type = "Bumping" /\ Replaced.Player = turnState.Player
        /\ Replaced.ActionsLeft = turnState.ActionsLeft
    BY <1>1 DEF Replaced, TurnStates
  <2>3. Follows(Replaced, 0)
    BY <1>1, <2>1, <2>2, KeptFollows
  <2> QED
    BY <1>3, <2>2, <2>3, QuietRule
<1>4. ASSUME tracks' = tracks,
             NEW b, Commit(b, scores, [turnState EXCEPT !.BumpingMoved = TRUE])
      PROVE  RuleInv'
  <2> DEFINE ts == [turnState EXCEPT !.BumpingMoved = TRUE]
  <2>1. ts \in TurnStates
    BY <1>1, ReplacedFacts
  <2>2. /\ ts.Type = "Bumping" /\ ts.Player = turnState.Player
        /\ ts.ActionsLeft = turnState.ActionsLeft
    BY <1>1 DEF TurnStates
  <2> HIDE DEF ts
  <2>3. Follows(ts, 0)
    BY <1>1, <2>1, <2>2, KeptFollows
  <2> QED
    BY <1>4, <2>2, <2>3, QuietRule DEF ts
<1> QED
  BY <1>2, <1>3, <1>4 DEF Answer, ReplaceFromStock, ReplaceFromSupply,
                          ReplaceFromBoard, MoveBumped

LEMMA EndBumpRule ==
    ASSUME RuleInv, NEW p \in Players, EndBump(p), TypeInv'
    PROVE  RuleInv'
<1>1. /\ turnState \in TurnStates /\ turnState.Type = "Bumping"
      /\ tracks' = tracks /\ turnState' \in TurnStates
  BY DEF RuleInv, TypeInv, TypeOK, EndBump
<1>2. /\ turnState'.Type = "None" /\ turnState'.Player = turnState.Player
      /\ turnState'.ActionsLeft = turnState.ActionsLeft
  BY <1>1 DEF EndBump, TurnStates
<1>3. tracks[turnState.Player] \in [TrackAwards -> Nat]
  BY <1>1 DEF RuleInv, TypeInv, TypeOK, TurnStates
<1>4. GetActions(tracks[turnState.Player]) \in Nat
  BY <1>3, GetActionsRange
<1>5. turnState.ActionsLeft + 1 <= GetActions(tracks[turnState.Player])
  BY <1>1 DEF RuleInv, NoExtraActions
<1>6. NoExtraActions'
  BY <1>1, <1>2, <1>4, <1>5 DEF NoExtraActions, TurnStates
<1> QED
  BY <1>2, <1>6 DEF RuleInv, PayOK, ClearOK

LEMMA EndTurnRule ==
    ASSUME RuleInv, NEW p \in Players, EndTurn(p), TypeInv'
    PROVE  RuleInv'
<1> DEFINE next == (p + 1) % NPlayers
<1>1. UNCHANGED <<board, supply, tracks>>
  BY DEF EndTurn
<1>2. CASE UNCHANGED turnState
  BY <1>1, <1>2, IdleRule
<1>3. CASE turnState' = FreshTurn(next, GetActions(tracks[next]))
  <2>1. /\ turnState'.Type = "None" /\ turnState'.Player = next
        /\ turnState'.ActionsLeft = GetActions(tracks[next])
    BY <1>3 DEF FreshTurn
  <2>2. turnState'.ActionsLeft \in Nat
    BY DEF TypeInv, TypeOK, TurnStates
  <2> HIDE DEF next
  <2>3. NoExtraActions'
    BY <1>1, <2>1, <2>2 DEF NoExtraActions
  <2> QED
    BY <2>1, <2>3 DEF RuleInv, PayOK, ClearOK
<1> QED
  BY <1>2, <1>3 DEF EndTurn

-----------------------------------------------------------------------------
(* Bumps and their payment.                                                *)

\* BumpAsked counts the piece that takes the place and the pieces owed.
LEMMA BumpRule ==
    ASSUME RuleInv, NEW p \in Players, NEW shape \in Shapes, NEW d \in SpotSquares,
           MayAct(p), MayStart, Bump(p, shape, d), TypeInv'
    PROVE  RuleInv'
<1> DEFINE ts == [Started EXCEPT !.Type = "BumpPaying",
                                 !.BumpPayingCost = BumpCost(board[d]),
                                 !.BumpingPlayer = board[d].PlayerColor,
                                 !.BumpingLocation = BumpZone(d),
                                 !.BumpingMoved = FALSE,
                                 !.BumpingReplaces = BumpCost(board[d])]
<1>1. TypeInv /\ supply \in Pools /\ Started \in TurnStates
  BY StartedType DEF RuleInv, TypeInv, TypeOK, Pools
<1>2. /\ BumpCost(board[d]) \in {1, 2} /\ Count(supply[p]) >= BumpCost(board[d]) + 1
      /\ supply' = [supply EXCEPT ![p][shape] = @ - 1]
      /\ Commit(Drop(board, d, Piece(p, shape)), scores, ts) /\ tracks' = tracks
  BY DEF Bump, BumpAsked, BumpCost
<1>3. ts \in TurnStates
  <2>1. board[d].PlayerColor \in Players /\ BumpZone(d) \in BumpSquares
    BY <1>1, SquareFacts
       DEF TypeInv, TypeOK, Pieces, Bump, BumpAsked, Squares, RouteSquares
  <2>2. \A q \in Players, l \in BumpSquares, n \in Nat :
            [Started EXCEPT !.Type = "BumpPaying", !.BumpPayingCost = n,
                            !.BumpingPlayer = q, !.BumpingLocation = l,
                            !.BumpingMoved = FALSE, !.BumpingReplaces = n]
                \in TurnStates
    BY Zenon, <1>1, BumpStateType
  <2> QED
    BY Zenon, <1>2, <2>1, <2>2
<1>4. /\ ts.Type = "BumpPaying" /\ ts.BumpPayingCost = BumpCost(board[d])
      /\ ts.Player = Started.Player /\ ts.ActionsLeft = Started.ActionsLeft
  BY <1>1 DEF TurnStates
<1> HIDE DEF ts
<1>5. Follows(ts, 0) /\ ts.Player = p
  BY <1>1, <1>3, <1>4, StartedFollows
<1>6. Count(supply'[p]) = Count(supply[p]) - 1 /\ Count(supply[p]) \in Nat
  BY <1>1, <1>2, CountFacts
<1>7. PayOK(supply', ts)
  BY <1>2, <1>4, <1>5, <1>6 DEF PayOK
<1>8. ClearOK(Drop(board, d, Piece(p, shape)), tracks, ts)
  BY <1>4 DEF ClearOK
<1> QED
  BY <1>2, <1>5, <1>7, <1>8, CommitRule

LEMMA PayBumpRule ==
    ASSUME RuleInv, NEW p \in Players, NEW shape \in Shapes, MayAct(p),
           PayBump(p, shape), TypeInv'
    PROVE  RuleInv'
<1> DEFINE ts == [turnState EXCEPT !.BumpPayingCost = @ - 1,
                                   !.Type = IF turnState.BumpPayingCost = 1
                                            THEN "Bumping" ELSE @]
<1>1. /\ TypeInv /\ supply \in Pools /\ turnState \in TurnStates
      /\ turnState.Type = "BumpPaying" /\ turnState.Player = p
  BY DEF RuleInv, TypeInv, TypeOK, Pools, PayBump, MayAct, MayAsk, Actor
<1>2. /\ turnState.BumpPayingCost \in 1 .. Count(supply[p])
      /\ turnState.BumpPayingCost - 1 \in Nat
  BY <1>1 DEF RuleInv, PayOK, TurnStates
<1>3. /\ supply' = [supply EXCEPT ![p][shape] = @ - 1]
      /\ Commit(board, scores, ts) /\ tracks' = tracks
  BY Zenon DEF PayBump
<1>4. ts \in TurnStates
  <2>1. \A n \in Nat, t \in TurnTypes :
            [turnState EXCEPT !.BumpPayingCost = n, !.Type = t] \in TurnStates
    BY Zenon, <1>1, CountedStateType
  <2> QED
    BY Zenon, <1>1, <1>2, <2>1 DEF TurnTypes
<1>5. /\ ts.BumpPayingCost = turnState.BumpPayingCost - 1
      /\ ts.Type = IF turnState.BumpPayingCost = 1 THEN "Bumping" ELSE "BumpPaying"
      /\ ts.Player = turnState.Player /\ ts.ActionsLeft = turnState.ActionsLeft
  BY <1>1 DEF TurnStates
<1> HIDE DEF ts
<1>6. Follows(ts, 0)
  BY <1>1, <1>4, <1>5, KeptFollows
<1>7. Count(supply'[p]) = Count(supply[p]) - 1 /\ Count(supply[p]) \in Nat
  BY <1>1, <1>3, CountFacts
<1>8. PayOK(supply', ts)
  BY <1>1, <1>2, <1>5, <1>7 DEF PayOK
<1>9. ClearOK(board, tracks, ts)
  BY <1>5 DEF ClearOK
<1> QED
  BY <1>3, <1>6, <1>8, <1>9, CommitRule

-----------------------------------------------------------------------------
(* Clearings.                                                              *)

\* Once its reward is taken a clearing lasts as long as its route has pieces.
LEMMA ClearedRule ==
    ASSUME NEW b, NEW tr, NEW ts \in TurnStates, ts.Type = "Clearing",
           ts.ClearingAward = "None"
    PROVE  /\ ClearOK(b, tr, Cleared(b, ts))
           /\ Cleared(b, ts).Type \in {"None", "Clearing"}
           /\ Cleared(b, ts) \in TurnStates
           /\ Cleared(b, ts).Player = ts.Player
           /\ Cleared(b, ts).ActionsLeft = ts.ActionsLeft
<1>1. CASE RouteEmpty(b, ts.ClearingRouteId)
  <2>1. Cleared(b, ts) = [ts EXCEPT !.Type = "None", !.ClearingRouteId = 0]
    BY <1>1 DEF Cleared
  <2> QED
    BY <2>1, BoardAssumption DEF ClearOK, TurnStates, TurnTypes
<1>2. CASE ~RouteEmpty(b, ts.ClearingRouteId)
  <2>1. Cleared(b, ts) = ts
    BY <1>2 DEF Cleared
  <2> QED
    BY <1>2, <2>1 DEF ClearOK, RouteEmpty
<1> QED
  BY <1>1, <1>2

LEMMA RewardRule ==
    ASSUME RuleInv, turnState.Type = "Clearing", NEW b, NEW sc,
           Commit(b, sc, Cleared(b, Rewarded(turnState))), tracks' = tracks, TypeInv'
    PROVE  RuleInv'
<1> DEFINE ts == Cleared(b, Rewarded(turnState))
<1>1. TypeInv /\ turnState \in TurnStates
  BY DEF RuleInv, TypeInv, TypeOK
<1>2. /\ Rewarded(turnState) \in TurnStates /\ Rewarded(turnState).Type = "Clearing"
      /\ Rewarded(turnState).ClearingAward = "None"
      /\ Rewarded(turnState).Player = turnState.Player
      /\ Rewarded(turnState).ActionsLeft = turnState.ActionsLeft
  BY <1>1 DEF Rewarded, TurnStates, Awards
<1>3. /\ ClearOK(b, tracks, ts) /\ ts.Type \in {"None", "Clearing"}
      /\ ts \in TurnStates /\ ts.Player = turnState.Player
      /\ ts.ActionsLeft = turnState.ActionsLeft
  BY <1>2, ClearedRule
<1> HIDE DEF ts
<1>4. Follows(ts, 0) /\ PayOK(supply', ts)
  BY <1>1, <1>3, KeptFollows DEF PayOK
<1> QED
  BY <1>3, <1>4, CommitRule DEF ts

\* A clearing goes on after its last piece only for an award that is there.
LEMMA ClearMoreRule ==
    ASSUME RuleInv, NEW p \in Players, turnState.Type = "Clearing",
           NEW s, ClearMore(p, s), TypeInv'
    PROVE  RuleInv'
<1> DEFINE b  == Lift(board, s)
           ts == [turnState EXCEPT !.Type = "None", !.ClearingRouteId = 0,
                                   !.ClearingCanOffice = FALSE]
<1>1. TypeInv /\ turnState \in TurnStates /\ tracks' = tracks
  BY DEF RuleInv, TypeInv, TypeOK, ClearMore
<1>2. CASE Commit(b, scores, ts)
  <2>1. /\ ts \in TurnStates /\ ts.Type = "None" /\ ts.Player = turnState.Player
        /\ ts.ActionsLeft = turnState.ActionsLeft
    BY <1>1, BoardAssumption DEF TurnStates, TurnTypes
  <2> HIDE DEF ts, b
  <2>2. Follows(ts, 0)
    BY <1>1, <2>1, KeptFollows
  <2> QED
    BY <1>1, <1>2, <2>1, <2>2, QuietRule
<1>3. CASE /\ Commit(b, scores, turnState)
           /\ \/ ~RouteEmpty(b, turnState.ClearingRouteId)
              \/ turnState.ClearingAward \notin {"None", "Coellen"}
  <2> HIDE DEF ts, b
  <2>1. ClearOK(b, tracks, turnState)
    BY <1>3 DEF RuleInv, ClearOK, RouteEmpty
  <2>2. Follows(turnState, 0) /\ PayOK(supply', turnState)
    BY <1>1, KeptFollows DEF PayOK
  <2> QED
    BY <1>1, <1>3, <2>1, <2>2, CommitRule
<1> QED
  BY <1>2, <1>3 DEF ClearMore

\* A route has a spot beside any one of its places, and a piece lifted off one
\* place leaves the pieces on the other spots alone.
LEMMA OtherSpot ==
    ASSUME TypeOK, NEW p \in Players, NEW s \in OnRoutes(p), RouteFull(board, s[2], p)
    PROVE  \E t \in SpotsOf(s[2]) : /\ t # s /\ t \in SpotSquares
                                    /\ board[t] # NoPiece
                                    /\ Lift(board, s)[t] = board[t]
<1>1. s[2] \in Routes /\ board \in Boards /\ s \in RouteSquares
  BY HeldFacts DEF TypeOK, Boards
<1> DEFINE t1 == <<"spot", s[2], 1>>
           t2 == <<"spot", s[2], 2>>
<1>2. 1 \in 1 .. Spots[s[2]] /\ 2 \in 1 .. Spots[s[2]]
  <2>1. Spots[s[2]] \in Nat \ {0, 1}
    BY <1>1, BoardAssumption
  <2> QED
    BY <2>1
<1>3. /\ t1 \in SpotsOf(s[2]) /\ t2 \in SpotsOf(s[2])
      /\ t1 \in SpotSquares /\ t2 \in SpotSquares /\ t1 # t2
  BY <1>1, <1>2 DEF SpotsOf, SpotSquares
<1>4. PICK t \in {t1, t2} : t # s
  BY <1>3
<1>5. board[t].PlayerColor = p /\ t \in SpotSquares /\ t \notin BumpSquares
  BY <1>3, SquareFacts DEF RouteFull
<1>6. board[t] # NoPiece
  BY <1>5 DEF NoPiece, NoPlayer, Players
<1>7. Lift(board, s)[t] = board[t]
  <2>1. s \in SpotSquares => BumpZone(s) # t
    BY <1>5, SquareFacts
  <2>2. t \in Squares
    BY <1>5 DEF Squares, RouteSquares
  <2> QED
    BY <1>1, <1>4, <2>1, <2>2 DEF Lift, Boards
<1> QED
  BY <1>3, <1>4, <1>5, <1>6, <1>7

LEMMA ClearToOfficeRule ==
    ASSUME RuleInv, NEW p \in Players, MayAct(p), MayStart, NEW s \in OnRoutes(p),
           NEW d \in OfficeSquares, ClearToOffice(p, s, d), TypeInv'
    PROVE  RuleInv'
<1> DEFINE r  == s[2]
           b  == Shift(board, s, d)
           sc == OfficeScores(b, p, Offices[d[2]][d[3]], ControlPoints(r))
           ts == [Rewarded(Started) EXCEPT !.Type = "Clearing", !.ClearingRouteId = r]
<1>1. TypeInv /\ TypeOK /\ r \in Routes /\ board \in Boards
  BY HeldFacts DEF RuleInv, TypeInv, TypeOK, Boards
<1>2. /\ ts \in TurnStates /\ ts.Type = "Clearing" /\ ts.ClearingRouteId = r
      /\ ts.ClearingAward = "None"
      /\ ts.Player = Started.Player /\ ts.ActionsLeft = Started.ActionsLeft
  BY <1>1, StartedType DEF Rewarded, TurnStates, TurnTypes, Awards
<1>3. Commit(b, sc, ts) /\ tracks' = tracks /\ RouteFull(board, r, p)
  BY DEF ClearToOffice
<1>4. \E t \in SpotsOf(r) : b[t] # NoPiece
  <2>1. PICK t \in SpotsOf(r) : /\ t # s /\ t \in SpotSquares /\ board[t] # NoPiece
                                /\ Lift(board, s)[t] = board[t]
    BY <1>1, <1>3, OtherSpot
  <2>2. t # d /\ BumpZone(d) # t
    BY <2>1, OfficeFacts DEF RouteSquares, SpotSquares, BumpZone
  <2>3. b[t] = board[t]
    <3> DEFINE lifted == Lift(board, s)
    <3>1. lifted \in Boards /\ lifted[t] = board[t] /\ t \in Squares
      BY <1>1, <2>1, HeldFacts, LiftType DEF Squares, RouteSquares
    <3> HIDE DEF lifted
    <3>2. Drop(lifted, d, board[s])[t] = lifted[t]
      BY <2>2, <3>1 DEF Drop, Boards
    <3> QED
      BY <3>1, <3>2 DEF Shift, lifted
  <2> QED
    BY <2>1, <2>3
<1> HIDE DEF r, b, sc, ts
<1>5. ClearOK(b, tracks, ts) /\ PayOK(supply', ts)
  BY <1>2, <1>4 DEF ClearOK, PayOK
<1>6. Follows(ts, 0)
  BY <1>1, <1>2, StartedFollows
<1> QED
  BY <1>3, <1>5, <1>6, CommitRule

LEMMA ClearToStockRule ==
    ASSUME RuleInv, NEW p \in Players, MayAct(p), MayStart, NEW s \in OnRoutes(p),
           ClearToStock(p, s), TypeInv'
    PROVE  RuleInv'
<1> DEFINE r  == s[2]
           b  == Lift(board, s)
           sc == [q \in Players |-> scores[q] + ControlPoints(r)[q]]
           ts == [Started EXCEPT !.Type = "Clearing", !.ClearingRouteId = r,
                                 !.ClearingCanOffice = TRUE,
                                 !.ClearingAward = RouteAward(p, s)]
<1>1. TypeInv /\ TypeOK /\ r \in Routes /\ board \in Boards
  BY HeldFacts DEF RuleInv, TypeInv, TypeOK, Boards
<1>2. RouteAward(p, s) \in Awards
  BY <1>1, BoardAssumption DEF RouteAward, Awards
<1>3. /\ ts \in TurnStates /\ ts.Type = "Clearing" /\ ts.ClearingRouteId = r
      /\ ts.ClearingCanOffice /\ ts.ClearingAward = RouteAward(p, s)
      /\ ts.Player = Started.Player /\ ts.ActionsLeft = Started.ActionsLeft
  BY <1>1, <1>2, StartedType DEF TurnStates, TurnTypes
<1>4. Commit(b, sc, ts) /\ tracks' = tracks /\ RouteFull(board, r, p)
  BY DEF ClearToStock
<1>5. \E t \in SpotsOf(r) : b[t] # NoPiece
  BY <1>1, <1>4, OtherSpot
<1>6. RouteAward(p, s) \notin {"None", "Coellen"} => CanAward(tracks[p], RouteAward(p, s))
  BY DEF RouteAward
<1> HIDE DEF r, b, sc, ts
<1>7. Follows(ts, 0) /\ ts.Player = p
  BY <1>1, <1>3, StartedFollows
<1>8. ClearOK(b, tracks, ts) /\ PayOK(supply', ts)
  BY <1>3, <1>5, <1>6, <1>7 DEF ClearOK, PayOK
<1> QED
  BY <1>4, <1>7, <1>8, CommitRule

\* Freeing a cube of the Actions track gives an action when the track has more.
LEMMA GainFacts ==
    ASSUME NEW t \in [TrackAwards -> Nat], NEW a \in TrackAwards, t[a] > 0,
           t["Actions"] <= 5
    PROVE  LET after == [t EXCEPT ![a] = @ - 1]
           IN  GetActions(after) >= GetActions(t) + GainedActions(t, after)
<1> DEFINE after == [t EXCEPT ![a] = @ - 1]
<1>1. after["Actions"] \in {t["Actions"], t["Actions"] - 1} /\ after["Actions"] \in Nat
  BY DEF TrackAwards
<1>2. t["Actions"] \in 0 .. 5
  BY DEF TrackAwards
<1> HIDE DEF after
<1>3. /\ GetActions(after) >= GetActions(t)
      /\ GetActions(after) \in Nat /\ GetActions(t) \in Nat
  BY <1>1, <1>2 DEF GetActions
<1> QED
  BY <1>3 DEF GainedActions, after

LEMMA LevelUpRule ==
    ASSUME RuleInv, NEW p \in Players, MayAct(p), turnState.Type = "Clearing",
           LevelUp(p), TypeInv'
    PROVE  RuleInv'
<1> DEFINE award == turnState.ClearingAward
           after == [tracks EXCEPT ![p][award] = @ - 1]
           gain  == GainedActions(tracks[p], after[p])
           more  == [Rewarded(turnState) EXCEPT !.ActionsLeft = @ + gain]
           ts    == Cleared(board, more)
<1>1. /\ TypeInv /\ turnState \in TurnStates /\ turnState.Player = p
      /\ tracks \in [Players -> [TrackAwards -> Nat]]
  BY DEF RuleInv, TypeInv, TypeOK, MayAct, MayAsk, Actor
<1>2. award \in TrackAwards /\ tracks[p][award] > 0
  BY DEF LevelUp, CanAward
<1>3. tracks' = after /\ Commit(board, scores, ts)
  BY DEF LevelUp
<1>4. after[p] = [tracks[p] EXCEPT ![award] = @ - 1]
  BY <1>1
<1>5. /\ gain \in {0, 1}
      /\ GetActions(after[p]) >= GetActions(tracks[p]) + gain
      /\ GetActions(after[p]) \in Nat /\ GetActions(tracks[p]) \in Nat
  <2>1. tracks[p]["Actions"] <= 5
    <3>1. tracks[p]["Actions"] <= StartTrack["Actions"]
      BY <1>1 DEF TypeInv, TracksShrink, TrackAwards
    <3> QED
      BY <1>1, <3>1, GameAssumption DEF TrackAwards
  <2>2. tracks[p] \in [TrackAwards -> Nat]
    BY <1>1
  <2>3. after[p] \in [TrackAwards -> Nat]
    BY <1>2, <1>4, <2>2
  <2> HIDE DEF award, after
  <2>4. GetActions(after[p]) >= GetActions(tracks[p]) + gain
    BY <1>2, <1>4, <2>1, <2>2, GainFacts
  <2>5. GetActions(after[p]) \in Nat /\ GetActions(tracks[p]) \in Nat
    BY <2>2, <2>3, GetActionsRange
  <2> QED
    BY <2>4, <2>5 DEF GainedActions
<1> HIDE DEF gain
<1>6. /\ more \in TurnStates /\ more.Type = "Clearing" /\ more.ClearingAward = "None"
      /\ more.Player = p /\ more.ActionsLeft = turnState.ActionsLeft + gain
  <2> DEFINE base == Rewarded(turnState)
  <2>1. /\ base \in TurnStates /\ base.Type = "Clearing" /\ base.ClearingAward = "None"
        /\ base.Player = p /\ base.ActionsLeft = turnState.ActionsLeft
    BY <1>1 DEF Rewarded, TurnStates, Awards
  <2> HIDE DEF base
  <2>2. base.ActionsLeft + gain \in Nat
    BY <1>5, <2>1 DEF TurnStates
  <2>3. LET m == [base EXCEPT !.ActionsLeft = @ + gain]
        IN  /\ m \in TurnStates /\ m.Type = "Clearing" /\ m.ClearingAward = "None"
            /\ m.Player = p /\ m.ActionsLeft = base.ActionsLeft + gain
    BY <2>1, <2>2 DEF TurnStates
  <2> QED
    BY <2>1, <2>3 DEF base
<1> HIDE DEF award, after, more
<1>7. /\ ClearOK(board, tracks', ts) /\ ts.Type \in {"None", "Clearing"}
      /\ ts \in TurnStates /\ ts.Player = p
      /\ ts.ActionsLeft = turnState.ActionsLeft + gain
  BY <1>6, ClearedRule
<1> HIDE DEF ts
<1>8. /\ board' = board
      /\ turnState'.Type = ts.Type /\ turnState'.Player = ts.Player
      /\ turnState'.ClearingAward = ts.ClearingAward
      /\ turnState'.ClearingRouteId = ts.ClearingRouteId
      /\ turnState'.ClearingCanOffice = ts.ClearingCanOffice
      /\ turnState'.ActionsLeft \in {0, ts.ActionsLeft}
  BY <1>3, <1>7, CommitKeeps
<1>9. ClearOK(board', tracks', turnState')
  BY <1>7, <1>8 DEF ClearOK
<1>10. PayOK(supply', turnState')
  BY <1>7, <1>8 DEF PayOK
<1>11. NoExtraActions'
  <2>1. turnState.ActionsLeft + 1 <= GetActions(tracks[p])
    BY <1>1 DEF RuleInv, NoExtraActions
  <2>2. turnState'.ActionsLeft <= turnState.ActionsLeft + gain
        /\ turnState'.ActionsLeft \in Nat /\ turnState.ActionsLeft \in Nat
    BY <1>1, <1>5, <1>7, <1>8 DEF TurnStates
  <2>3. turnState'.ActionsLeft + 1 <= GetActions(tracks'[turnState'.Player])
    BY <1>3, <1>5, <1>7, <1>8, <2>1, <2>2
  <2>4. GetActions(tracks'[turnState'.Player]) \in Nat
    BY <1>3, <1>5, <1>7, <1>8
  <2> QED
    BY <2>2, <2>3, <2>4 DEF NoExtraActions
<1> QED
  BY <1>9, <1>10, <1>11 DEF RuleInv

-----------------------------------------------------------------------------
(* The induction, and what it shows.                                       *)

LEMMA SubactionRule ==
    ASSUME RuleInv, NEW p \in Players, Subaction(p), TypeInv'
    PROVE  RuleInv'
<1>1. MayAct(p)
  BY DEF Subaction
<1>2. CASE FromPools(p)
  <2>1. ASSUME NEW shape \in Shapes, BagPiece(p, shape) \/ PayBump(p, shape)
        PROVE  RuleInv'
    BY <1>1, <2>1, BagsTurnRule, PayBumpRule DEF BagPiece
  <2>2. ASSUME MayStart, NEW shape \in Shapes, NEW d \in SpotSquares,
               Place(p, shape, d) \/ Bump(p, shape, d)
        PROVE  RuleInv'
    BY <1>1, <2>2, PlaceRule, BumpRule
  <2>3. ASSUME NEW shape \in Shapes, NEW d \in SpotSquares, BumpPanic(p, shape, d)
        PROVE  RuleInv'
    BY <2>3, IdleRule DEF BumpPanic, Panic
  <2> QED
    BY <1>2, <2>1, <2>2, <2>3 DEF FromPools
<1>3. CASE Answer(p)
  BY <1>3, AnswerRule
<1>4. ASSUME NEW s \in OnRoutes(p), NEW d \in SpotSquares, Move(p, s, d)
      PROVE  RuleInv'
  BY <1>1, <1>4, MoveTurnRule DEF Move
<1>5. CASE Clear(p)
  <2>1. ASSUME turnState.Type = "Clearing", NEW s \in OnRoutes(p),
               NEW d, TakeOffice(p, s, d) \/ TakeCoellen(p, s, d)
        PROVE  RuleInv'
    BY <2>1, RewardRule DEF TakeOffice, TakeCoellen
  <2>2. ASSUME turnState.Type = "Clearing", NEW s \in OnRoutes(p), ClearMore(p, s)
        PROVE  RuleInv'
    BY <2>2, ClearMoreRule
  <2>3. ASSUME turnState.Type = "Clearing", LevelUp(p)
        PROVE  RuleInv'
    BY <1>1, <2>3, LevelUpRule
  <2>4. ASSUME MayStart, NEW s \in OnRoutes(p), NEW d \in OfficeSquares,
               ClearToOffice(p, s, d)
        PROVE  RuleInv'
    BY <1>1, <2>4, ClearToOfficeRule
  <2>5. ASSUME MayStart, NEW s \in OnRoutes(p), ClearToStock(p, s)
        PROVE  RuleInv'
    BY <1>1, <2>5, ClearToStockRule
  <2> QED
    BY <1>5, <2>1, <2>2, <2>3, <2>4, <2>5 DEF Clear
<1> QED
  BY <1>2, <1>3, <1>4, <1>5 DEF Subaction

LEMMA InitRule == Init => RuleInv
<1> SUFFICES ASSUME Init PROVE RuleInv
  OBVIOUS
<1>1. /\ TypeInv /\ turnState.Type = "None" /\ turnState.ActionsLeft = 2
      /\ turnState.Player = 0
  BY InitInv DEF Init, FreshTurn
<1>2. 0 \in Players
  BY BoardAssumption DEF Players
<1>3. GetActions(tracks[0]) \in 2 .. 5
  BY <1>1, <1>2, GetActionsRange DEF TypeInv, TypeOK
<1> QED
  BY <1>1, <1>3 DEF RuleInv, PayOK, ClearOK, NoExtraActions

LEMMA StepRule == RuleInv /\ [Next]_vars => RuleInv'
<1> SUFFICES ASSUME RuleInv, [Next]_vars PROVE RuleInv'
  OBVIOUS
<1>1. TypeInv'
  BY StepInv DEF RuleInv
<1>2. ASSUME NEW p \in Players, Subaction(p) \/ EndTurn(p) \/ EndBump(p)
      PROVE  RuleInv'
  BY <1>1, <1>2, SubactionRule, EndTurnRule, EndBumpRule
<1>3. CASE UNCHANGED vars \/ Panic
  BY <1>1, <1>3, IdleRule DEF vars, Panic
<1> QED
  BY <1>2, <1>3, NextCases

\* In every game a bump that was begun can be paid for: the check made before
\* the bump ("You can not afford that bump") holds good for every payment.
THEOREM BumpsCanBePaid == Spec => []BumpPayable
<1>1. RuleInv => BumpPayable
  BY DEF RuleInv, PayOK, BumpPayable
<1> QED
  BY InitRule, StepRule, <1>1, PTL DEF Spec

\* In every game a clearing in progress has a piece left on its route or an
\* award its player can take: it is never kept open for nothing.
THEOREM ClearingsEnd == Spec => []ClearingNotWedged
<1>1. RuleInv => ClearingNotWedged
  BY DEF RuleInv, ClearOK, ClearingNotWedged
<1> QED
  BY InitRule, StepRule, <1>1, PTL DEF Spec

\* In every game the actions of a turn never exceed what the player's Actions
\* track allows, however many of its cubes are freed during the turn.
THEOREM ActionsBounded == Spec => []NoExtraActions
<1>1. RuleInv => NoExtraActions
  BY DEF RuleInv
<1> QED
  BY InitRule, StepRule, <1>1, PTL DEF Spec

=============================================================================
