---------------------------- MODULE HansaScoring ----------------------------
(***************************************************************************)
(* The scores of a finished game (checkStatus of game.go, from Running to  *)
(* Scoring) and the searches of the map they rest on (board.go): the       *)
(* network of a player's cities and the bonus route.                       *)
(*                                                                         *)
(* Of the play before the end only what the scores look at is kept: who    *)
(* has which office and Coellen spot, and the tracks.  How they are won is *)
(* HansaGame.                                                              *)
(***************************************************************************)
EXTENDS HansaBoard, Functions, SequencesExt

CONSTANTS
    StartTrack,     \* the pieces on every track when the play begins
    Contested,      \* bound: the offices and Coellen spots taken in the run
    GamePoints      \* bound: the points players may have won in the game

ASSUME ScoringAssumption ==
    /\ StartTrack \in [TrackAwards -> Nat]
    /\ Contested \subseteq OfficeSquares \cup CoellenSquares
    /\ GamePoints \subseteq Nat

VARIABLES
    board,          \* Table.Board, offices and Coellen spots only
    left,           \* per player and track, the pieces that are left on it
    finalscores     \* Game.finalscores, empty until the game is scored

vars == <<board, left, finalscores>>

PlayScores == {"Game", "Board", "Coellen", "Control", "Network"}
ScoreTypes == PlayScores \cup {"Total", "Place"}

NotScored == [p \in {} |-> 0]
Scored    == finalscores # NotScored

-----------------------------------------------------------------------------
(* The network score.  presence gives for every city what it counts; the   *)
(* bots ask about presence they only think of (getNetworkScore's argument).*)

Presence(b, p) == [c \in Cities |-> GetPresence(b, c, p)]

\* Mutant of Network: only the neighbours of the first city are looked at.
NetworkOnce(presence, c) ==
    {c} \cup {y \in Cities : presence[y] # 0 /\ AdjacentCity(c, y)}

\* The cities reached from c over cities that count.
Network(presence, c) == Reached({c}, {y \in Cities : presence[y] # 0})

NetworkScoreOf(presence) ==
    LET present == {c \in Cities : presence[c] # 0}
    IN  Max({0} \cup {SumFunctionOnSet(presence, Network(presence, c)) : c \in present})

GetNetworkScore(b, p) == NetworkScoreOf(Presence(b, p))

\* What the network would be worth with one office more in city c.
GetNetworkScoreIfCity(b, p, c) ==
    NetworkScoreOf([Presence(b, p) EXCEPT ![c] = @ + 1])

-----------------------------------------------------------------------------
(* The play, as far as the scores see it.                                  *)

Init ==
    /\ board = [s \in OfficeSquares \cup CoellenSquares |-> NoPiece]
    /\ left = [p \in Players |-> StartTrack]
    /\ finalscores = NotScored

\* An office is taken: the leftmost one of the city that is free.
TakeOffice(p, s) ==
    /\ ~Scored /\ s \in Contested \cap OfficeSquares
    /\ board[s] = NoPiece
    /\ \A i \in 1 .. s[3] - 1 : board[<<"office", s[2], i>>] # NoPiece
    /\ board' = [board EXCEPT ![s] = Piece(p, Offices[s[2]][s[3]].Shape)]
    /\ UNCHANGED <<left, finalscores>>

\* A Coellen spot is taken; any one that is free.
TakeCoellen(p, s) ==
    /\ ~Scored /\ s \in Contested \cap CoellenSquares
    /\ board[s] = NoPiece
    /\ board' = [board EXCEPT ![s] = Piece(p, "Disc")]
    /\ UNCHANGED <<left, finalscores>>

\* A piece of a track is freed.
LevelUp(p, a) ==
    /\ ~Scored /\ left[p][a] > 0
    /\ left' = [left EXCEPT ![p][a] = @ - 1]
    /\ UNCHANGED <<board, finalscores>>

-----------------------------------------------------------------------------
(* The scores.                                                             *)

GetKeys(p) == CASE left[p]["Keys"] >= 4 -> 1
                [] left[p]["Keys"] \in {2, 3} -> 2
                [] left[p]["Keys"] = 1 -> 3
                [] OTHER -> 4

\* Four points for every track but the keys that is empty.
BoardScore(p) == 4 * Cardinality({a \in TrackAwards \ {"Keys"} : left[p][a] = 0})

CoellenScore(p) ==
    LET own == {s \in CoellenSquares : board[s].PlayerColor = p}
    IN  SumFunction([s \in own |-> Coellen[s[2]][s[3]].Points])

\* Two points for every city a player controls.
ControlScore(p) == 2 * Cardinality({c \in Cities : GetControl(board, c) = p})

NetworkScore(p) == GetNetworkScore(board, p) * GetKeys(p)

PlayScore(p, game) ==
    [t \in PlayScores |-> CASE t = "Game"    -> game[p]
                            [] t = "Board"   -> BoardScore(p)
                            [] t = "Coellen" -> CoellenScore(p)
                            [] t = "Control" -> ControlScore(p)
                            [] t = "Network" -> NetworkScore(p)]

TotalScore(score) == SumFunction(score)

\* Mutant of Ranking: the best comes first.
RankingDown(total) ==
    {order \in SetToSeqs(Players) :
        \A i, j \in DOMAIN order : i < j => total[order[i]] >= total[order[j]]}

\* The orders sort.Slice may leave the players in; it is not a stable sort,
\* and the order it begins with is that of a map.
Ranking(total) ==
    {order \in SetToSeqs(Players) :
        \A i, j \in DOMAIN order : i < j => total[order[i]] <= total[order[j]]}

\* checkStatus: all scores are computed at once, whatever the order in which
\* they are announced; the last of the order is the winner, place 0.
CheckStatus ==
    /\ ~Scored
    /\ \E game \in [Players -> GamePoints] :
        LET score == [p \in Players |-> PlayScore(p, game)]
            total == [p \in Players |-> TotalScore(score[p])]
        IN  \E order \in Ranking(total) :
                finalscores' = [p \in Players |-> [t \in ScoreTypes |->
                    CASE t = "Total" -> total[p]
                      [] t = "Place" -> NPlayers - CHOOSE i \in DOMAIN order : order[i] = p
                      [] OTHER -> score[p][t]]]
    /\ UNCHANGED <<board, left>>

Next ==
    \/ \E p \in Players, s \in Contested : TakeOffice(p, s)
    \/ \E p \in Players, s \in Contested : TakeCoellen(p, s)
    \/ \E p \in Players, a \in TrackAwards : LevelUp(p, a)
    \/ CheckStatus

Spec == Init /\ [][Next]_vars

-----------------------------------------------------------------------------
(* Properties.                                                             *)

\* A set of cities that does not fall into two parts without a route between.
Connected(S) ==
    \A T \in SUBSET S : T \notin {{}, S} =>
        \E x \in T, y \in S \ T : AdjacentCity(x, y)

Present(p) == {c \in Cities : GetPresence(board, c, p) > 0}

\* The most that a set of cities which hang together counts.
Largest(presence) ==
    Max({SumFunctionOnSet(presence, S) : S \in
        {S \in SUBSET {c \in Cities : presence[c] # 0} : Connected(S)}})

(* The network score of a player is the most offices he has in a set of    *)
(* cities that hang together, whatever order getNetworkScore meets the     *)
(* cities in and whichever of several networks it grows first; and what a  *)
(* bot is told of one office more is what that office would make of it.    *)
NetworkIsLargest ==
    ~Scored => \A p \in Players :
        /\ GetNetworkScore(board, p) = Largest(Presence(board, p))
        /\ \A s \in Contested \cap OfficeSquares : board[s] = NoPiece =>
            GetNetworkScoreIfCity(board, p, s[2])
                = Largest(Presence([board EXCEPT ![s] = Piece(p, "Cube")], p))

(* The bonus route counts as completed exactly when cities the player has  *)
(* an office in hang together and contain both its ends (the search of     *)
(* GetBonusRouteCompleted, which mixes ids of cities with their indices).  *)
BonusRouteLinks ==
    \A p \in Players :
        GetBonusRouteCompleted(board, p) <=>
            \E S \in SUBSET Present(p) :
                BonusTermini # {} /\ BonusTermini \subseteq S /\ Connected(S)

(* The places announced at the end are one for each player and agree with  *)
(* the announced totals; every city in which anyone has an office is paid  *)
(* for once, to nobody with fewer offices there than another, and no       *)
(* Coellen spot is paid twice.                                             *)
PlacesFollowTotals ==
    Scored =>
        /\ {finalscores[p]["Place"] : p \in Players} = 0 .. NPlayers - 1
        /\ \A p, q \in Players :
            finalscores[p]["Total"] > finalscores[q]["Total"] =>
                finalscores[p]["Place"] < finalscores[q]["Place"]
        /\ SumFunction([p \in Players |-> finalscores[p]["Control"]])
            = 2 * Cardinality(UNION {Present(p) : p \in Players})
        /\ \A p \in Players :
            finalscores[p]["Control"] <= 2 * Cardinality({c \in Present(p) :
                \A q \in Players : GetPresence(board, c, q) <= GetPresence(board, c, p)})
        /\ SumFunction([p \in Players |-> finalscores[p]["Coellen"]])
            = SumFunctionOnSet([s \in CoellenSquares |-> Coellen[s[2]][s[3]].Points],
                               {s \in CoellenSquares : board[s] # NoPiece})

=============================================================================
