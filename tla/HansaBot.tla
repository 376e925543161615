------------------------------ MODULE HansaBot ------------------------------
(***************************************************************************)
(* A bot at the table (bot/bot.go, bot/routebrain.go, bot/manager.go) and  *)
(* the game it plays.  Game and bot are two goroutines with a channel each *)
(* way: the game sends every notification to inMsg, the bot puts its       *)
(* requests on outMsg.  The bot keeps a table of its own, up to date with  *)
(* the notifications it has handled, and thinks by changing that table and *)
(* taking the changes back.                                                *)
(*                                                                         *)
(* The other players ask for what they like, at once; what reaches the bot *)
(* of it is the notification.                                              *)
(***************************************************************************)
EXTENDS HansaPlan

CONSTANTS
    InCap, OutCap,  \* capacity of the two channels (10)
    Habits          \* the kinds of places other players move between here

ASSUME ChannelAssumption == InCap \in Nat \ {0} /\ OutCap \in Nat \ {0}

VARIABLES
    pool,           \* the bot's own player board, slot by slot, in the game
    inMsg,          \* notifications for the bot
    sending,        \* the notification the game waits to send, if any
    outMsg,         \* requests of the bot
    answers,        \* requests the bot has still to put on outMsg
    burst,          \* how many it had to put there after its last thought
    table,          \* the bot's table
    thought,        \* what the bot is planning
    handledBump     \* the bot has answered the bump in progress

botVars == <<outMsg, answers, burst, table, thought, handledBump>>
allVars == <<vars, pool, inMsg, sending, botVars>>

Others == Players \ {Bot}

\* The places of the other players' boards; their slots are not told apart.
OtherSlots == ({"stock", "supply"} \cup TrackAwards) \X Others \X {0}

\* The table of the game as the bot sees it.
GameTable == [l \in Squares \cup BotSlots |->
                 IF l \in BotSlots THEN pool[l] ELSE board[l]]

Idle == [Doing |-> "nothing", ActionsLeft |-> 0, Pieces |-> <<>>, Bumped |-> NoLocation,
         Subactions |-> <<>>, Context |-> <<>>]

\* Slot 1 of the supply has the disc and the others the cubes.
StartPool == [l \in BotSlots |->
    CASE l[1] = "supply" /\ l[3] = 1 -> Mine("Disc")
      [] l[1] = "supply" /\ l[3] \in 2 .. StartSupply(Bot) + 1 -> Mine("Cube")
      [] l[1] = "stock" /\ l[3] <= StartCubes - StartSupply(Bot) -> Mine("Cube")
      [] l[1] \in TrackAwards -> Mine(TrackShape(l[1]))
      [] OTHER -> NoPiece]

BotInit ==
    /\ Init
    /\ pool = StartPool
    /\ table = GameTable
    /\ inMsg = <<[Type |-> "NextTurn", Turn |-> turnState]>>
    /\ sending = <<>> /\ outMsg = <<>> /\ answers = <<>> /\ burst = 0
    /\ thought = Idle
    /\ handledBump = FALSE

-----------------------------------------------------------------------------
(* The game.                                                               *)

Kind(s) == <<s.Source[1], s.Dest[1]>>

\* A valid subaction of player p, as handleDoSubaction tells them apart.
DoSubaction(p, s) ==
    /\ MayAct(p)
    /\ \/ Kind(s) = <<"stock", "supply">> /\ BagPiece(p, s.Piece.Shape)
       \/ Kind(s) = <<"supply", "stock">> /\ PayBump(p, s.Piece.Shape)
       \/ /\ s.Source[1] = "supply" /\ s.Dest \in SpotSquares
          /\ MayStart
          /\ \/ Place(p, s.Piece.Shape, s.Dest)
             \/ Bump(p, s.Piece.Shape, s.Dest)
             \/ BumpPanic(p, s.Piece.Shape, s.Dest)
       \/ /\ turnState.Type = "Bumping"
          /\ s.Dest \in SpotSquares /\ board[s.Dest] = NoPiece
          /\ \/ NoBumpPanic(p)
             \/ /\ s.Dest \in ValidBumps(board, turnState.BumpingLocation)
                /\ \/ s.Source[1] = "stock" /\ ReplaceFromStock(p, s.Piece.Shape, s.Dest)
                   \/ s.Source[1] = "supply" /\ ReplaceFromSupply(p, s.Piece.Shape, s.Dest)
                   \/ s.Source \in RouteSquares /\ ReplaceFromBoard(p, s.Source, s.Dest)
                   \/ s.Source \in RouteSquares /\ MoveBumped(p, s.Source, s.Dest)
       \/ /\ s.Source \in RouteSquares
          /\ \/ s.Dest \in SpotSquares /\ Move(p, s.Source, s.Dest)
             \/ s.Dest \in OfficeSquares /\ MayStart /\ ClearToOffice(p, s.Source, s.Dest)
             \/ s.Dest[1] = "stock" /\ MayStart /\ ClearToStock(p, s.Source)
             \/ /\ turnState.Type = "Clearing"
                /\ \/ s.Dest \in OfficeSquares /\ TakeOffice(p, s.Source, s.Dest)
                   \/ s.Dest \in CoellenSquares /\ TakeCoellen(p, s.Source, s.Dest)
                   \/ s.Dest[1] = "stock" /\ ClearMore(p, s.Source)
       \/ /\ turnState.Type = "Clearing"
          /\ s.Source[1] = turnState.ClearingAward
          /\ s.Dest[1] = "supply"
          /\ LevelUp(p)

\* The places exist, on the board or on the player's own, the piece is there and
\* is the player's own, from a track it is the leftmost (all of a track have one
\* shape), and a slot takes one piece.
Valid(p, s) ==
    /\ {s.Source, s.Dest} \subseteq Squares \cup
           {l \in BotSlots \cup OtherSlots : l[2] = p}
    /\ s.Piece \in [PlayerColor : {p}, Shape : Shapes]
    /\ s.Source \in DOMAIN GameTable => GameTable[s.Source] = s.Piece
    /\ s.Source[1] \in TrackAwards => s.Piece.Shape = TrackShape(s.Source[1])
    /\ s.Source \in TrackSlots =>
           \A i \in 1 .. s.Source[3] - 1 : pool[<<s.Source[1], Bot, i>>] = NoPiece
    /\ s.Dest \in BotSlots => pool[s.Dest] = NoPiece

\* Mutant of Notify: the bot is notified twice, as a player and as an observer.
NotifyTwice(msg) ==
    IF Len(inMsg) + 1 < InCap
    THEN inMsg' = inMsg \o <<msg, msg>> /\ UNCHANGED sending
    ELSE sending' = <<msg>> /\ UNCHANGED inMsg

\* The game goes on to the next request once the notification is sent.
Notify(msg) ==
    IF Len(inMsg) < InCap
    THEN inMsg' = Append(inMsg, msg) /\ UNCHANGED sending
    ELSE sending' = <<msg>> /\ UNCHANGED inMsg

\* A request that the game accepts, by a subaction ...
AcceptSubaction(p, s) ==
    /\ Valid(p, s)
    /\ DoSubaction(p, s)
    /\ pool' = [l \in BotSlots |-> CASE l = s.Source -> NoPiece
                                     [] l = s.Dest   -> s.Piece
                                     [] OTHER        -> pool[l]]
    /\ Notify([Type |-> "Subaction", Subaction |-> s, Turn |-> turnState'])

\* ... by the end of a bump, or by the end of a turn, after the last of which the
\* scoring begins.
AcceptEndBump(p) ==
    EndBump(p) /\ Notify([Type |-> "EndBump", Turn |-> turnState']) /\ UNCHANGED pool

AcceptEndTurn(p) ==
    /\ status = "Running"
    /\ EndTurn(p)
    /\ UNCHANGED pool
    /\ Notify(IF status' = "Running" THEN [Type |-> "NextTurn", Turn |-> turnState']
                                     ELSE [Type |-> "Scoring"])

Accept(p, request) ==
    \/ request.Type = "Subaction" /\ AcceptSubaction(p, request.Subaction)
    \/ request.Type = "EndBump" /\ AcceptEndBump(p)
    \/ request.Type = "EndTurn" /\ AcceptEndTurn(p)

\* What the other players may ask for.  Their own boards have no slots here.
Requests(p) ==
    LET own == {l \in OtherSlots : l[2] = p}
    IN  {s \in {Step(x, y, board[x]) : x \in OnRoutes(p), y \in Squares \cup own}
             \cup {Step(x, y, Piece(p, h)) : x \in own, y \in Squares \cup own, h \in Shapes} :
             Kind(s) \in Habits}

OtherAsks ==
    /\ sending = <<>> /\ ~panicked
    /\ \E p \in Others : \/ \E s \in Requests(p) : AcceptSubaction(p, s)
                         \/ AcceptEndBump(p)
                         \/ AcceptEndTurn(p)
                         \/ VirtualOfficePanic(p) /\ UNCHANGED <<pool, inMsg, sending>>
    /\ UNCHANGED botVars

\* The game does not accept the bot's next request.
Refuses == ~ENABLED Accept(Bot, Head(outMsg))

\* The bot's next request; when it is refused the bot is told and no more.
BotAsks ==
    /\ sending = <<>> /\ ~panicked
    /\ outMsg # <<>>
    /\ outMsg' = Tail(outMsg)
    /\ UNCHANGED <<answers, burst, table, thought, handledBump>>
    /\ \/ Accept(Bot, Head(outMsg))
       \/ /\ Refuses
          /\ status = "Running"
          /\ Notify([Type |-> "Error"])
          /\ UNCHANGED <<vars, pool>>

\* A timer announces the next score, or in the end that they are complete; there
\* may be any number of them here.
AnnounceScore ==
    /\ status = "Scoring" /\ sending = <<>> /\ ~panicked
    /\ Notify([Type |-> "Scoring"])
    /\ UNCHANGED <<vars, pool, botVars>>

\* The blocked send goes through.
Sent ==
    /\ sending # <<>> /\ Len(inMsg) < InCap
    /\ inMsg' = inMsg \o sending
    /\ sending' = <<>>
    /\ UNCHANGED <<vars, pool, botVars>>

-----------------------------------------------------------------------------
(* The bot.                                                                *)

BotPanics(why) ==
    /\ panicked' = TRUE
    /\ thought' = [thought EXCEPT !.Doing = why]
    /\ UNCHANGED <<board, stock, supply, tracks, scores, bonusroute, gameend, turnState,
                   status, pool, inMsg, sending, outMsg, answers, burst, table,
                   handledBump>>

\* One of the plans cannot be made; which of them comes first is left open.
ThinkingPanics(plans) ==
    \/ SomeExplode(plans) /\ BotPanics("swap")
    \/ MutatesTable(table, plans) /\ BotPanics("mutated table")

Thinkable(plans) == ~SomeExplode(plans) /\ ~MutatesTable(table, plans)

Say(requests) == answers' = requests /\ burst' = Len(requests)

Ask(s) == [Type |-> "Subaction", Subaction |-> s]
AskAll(ss) == [i \in DOMAIN ss |-> Ask(ss[i])]

\* The pieces to move after a bump on table t: the bumped piece, and for every
\* replacement the first piece of stock or supply, which is the same each time.
BumpPieces(t, turn) ==
    LET slot(pl, sh) == FirstSlot(t, pl, Mine(sh))
        l == Preferred(<<slot("stock", "Cube"), slot("stock", "Disc"),
                         slot("supply", "Cube"), slot("supply", "Disc")>>)
        at(x) == [Piece |-> t[x], Location |-> x]
    IN  <<at(turn.BumpingLocation)>> \o
        IF l = NoLocation THEN <<>>
                          ELSE [i \in 1 .. turn.BumpingReplaces |-> at(l)]

\* The notification that the bump of a piece of the bot has been paid for; the
\* bot's own answers are notified in the same state.
Bumped(turn) ==
    turn.Type = "Bumping" /\ turn.BumpingPlayer = Bot /\ ~handledBump

PlanTurn(turn) ==
    /\ thought' = [Idle EXCEPT !.Doing = "turn", !.ActionsLeft = turn.ActionsLeft]
    /\ UNCHANGED <<answers, burst, panicked>>

\* handleBumpWithBoardMoves: with too few pieces in stock and supply only the
\* bumped piece is moved.  The search for a spot panics when there is none.
MoveOnlyBumped(t, turn) ==
    LET reach == ValidBumps(t, turn.BumpingLocation)
    IN  /\ IF reach = {} THEN panicked' = TRUE /\ UNCHANGED <<answers, burst>>
           ELSE /\ \E d \in reach :
                       Say(<<Ask(Step(turn.BumpingLocation, d, t[turn.BumpingLocation])),
                             [Type |-> "EndBump"]>>)
                /\ UNCHANGED panicked
        /\ UNCHANGED thought

PlanBump(t, turn) ==
    LET ps == BumpPieces(t, turn)
    IN  IF Len(ps) < 1 + turn.BumpingReplaces THEN MoveOnlyBumped(t, turn)
        ELSE /\ thought' = [Idle EXCEPT !.Doing = "bump", !.Pieces = ps,
                                        !.Bumped = turn.BumpingLocation,
                                        !.Context = BuildContext(t, 1)]
             /\ UNCHANGED <<answers, burst, panicked>>

Ignore == UNCHANGED <<thought, answers, burst, panicked>>

\* Mutant of Resume: with no action left the turn is not ended.
ResumeOnly(turn) ==
    IF turn.Player # Bot \/ turn.ActionsLeft = 0 THEN Ignore ELSE PlanTurn(turn)

\* After a bump the turn goes on, or ends.
Resume(turn) ==
    CASE turn.Player # Bot -> Ignore
      [] turn.Player = Bot /\ turn.ActionsLeft = 0 ->
             Say(<<[Type |-> "EndTurn"]>>) /\ UNCHANGED <<thought, panicked>>
      [] turn.Player = Bot /\ turn.ActionsLeft # 0 -> PlanTurn(turn)

\* Handling the next notification.
Receive ==
    LET msg == Head(inMsg)
    IN  /\ thought = Idle /\ answers = <<>> /\ inMsg # <<>> /\ ~panicked
        /\ inMsg' = Tail(inMsg)
        /\ UNCHANGED <<board, stock, supply, tracks, scores, bonusroute, gameend,
                       turnState, status, pool, sending, outMsg>>
        /\ \/ /\ msg.Type = "Subaction"
              /\ table' = ApplySubaction(table, msg.Subaction)
              /\ handledBump' = (handledBump \/ Bumped(msg.Turn))
              /\ IF Bumped(msg.Turn) THEN PlanBump(table', msg.Turn) ELSE Ignore
           \/ /\ msg.Type = "NextTurn"
              /\ UNCHANGED <<table, handledBump>>
              /\ IF msg.Turn.Player = Bot THEN PlanTurn(msg.Turn) ELSE Ignore
           \/ /\ msg.Type = "EndBump"
              /\ handledBump' = FALSE
              /\ UNCHANGED table
              /\ Resume(msg.Turn)
           \/ /\ msg.Type \in {"Error", "Scoring"}
              /\ UNCHANGED <<table, handledBump>>
              /\ Ignore

\* The plan is played on the bot's table, up to its first bump.
PlayPlan(p, ss) ==
    IF \E i \in DOMAIN ss : Explodes(ApplySubactions(table, SubSeq(ss, 1, i - 1)), ss[i])
    THEN BotPanics("swap")
    ELSE /\ table' = ApplySubactions(table, ss)
         /\ thought' = [thought EXCEPT
                !.Subactions = @ \o ss,
                !.Bumped = IF p.Bumps = <<>> THEN @ ELSE ss[Len(ss)].Dest,
                !.ActionsLeft = IF p.Actions = 0 \/ p.Bumps # <<>> THEN 0 ELSE @ - p.Actions]
         /\ UNCHANGED <<vars, pool, inMsg, sending, outMsg, answers, burst, handledBump>>

\* Choosing the plan for the next actions, whatever the order of the pieces by
\* score.
ChoosePlan ==
    /\ thought.Doing = "turn" /\ thought.ActionsLeft > 0 /\ ~panicked
    /\ \E movables \in SetToSeqs(BoardPieces(table)) :
       LET plans == AllPlans(table, BuildContext(table, thought.ActionsLeft), movables)
       IN  \/ ThinkingPanics(plans)
           \/ Thinkable(plans) /\ \E p \in PlansToPlay(plans, movables) : PlayPlan(p, UntilBump(p))

\* The plans are taken back from the table and sent to the game.
ExecutePlans ==
    /\ thought.Doing = "turn" /\ thought.ActionsLeft = 0 /\ ~panicked
    /\ table' = UndoSubactions(table, thought.Subactions)
    /\ Say(AskAll(thought.Subactions) \o
           IF thought.Bumped = NoLocation THEN <<[Type |-> "EndTurn"]>> ELSE <<>>)
    /\ thought' = Idle
    /\ UNCHANGED <<vars, pool, inMsg, sending, outMsg, handledBump>>

\* The first spot that a plan moves the piece to.
TargetOf(plan, piece) ==
    plan.Subactions[Min({i \in DOMAIN plan.Subactions :
                             plan.Subactions[i].Source = piece.Location})].Dest

\* Where a piece goes after a bump: to the spot the best plan for one of the
\* routes in reach moves it to.  A plan without worth is kept only when it is
\* the first one made for its route, the plan for an award.
BumpTargets(plans, piece) ==
    LET worthy == {p \in plans : p.Worth}
    IN  {TargetOf(p, piece) : p \in IF worthy # {} THEN worthy
                                    ELSE {p \in plans : p.Goal = "Award"}}

\* The piece goes to one of these spots, or stays if there is none.
Replace(piece, to) ==
    IF to = {} THEN /\ thought' = [thought EXCEPT !.Pieces = Tail(@)]
                    /\ UNCHANGED table
    ELSE \E d \in to :
         LET s == Step(piece.Location, d, piece.Piece)
         IN  /\ thought' = [thought EXCEPT !.Pieces = Tail(@), !.Subactions = Append(@, s)]
             /\ table' = ApplySubaction(table, s)

ReplaceBy(piece, plans) ==
    \/ ThinkingPanics(plans)
    \/ /\ Thinkable(plans)
       /\ Replace(piece, BumpTargets(plans, piece))
       /\ UNCHANGED <<vars, pool, inMsg, sending, outMsg, answers, burst, handledBump>>

\* The next piece of the answer to a bump.
ReplacePiece ==
    LET piece == Head(thought.Pieces)
        reach == ValidBumps(table, thought.Bumped)
    IN  /\ thought.Doing = "bump" /\ thought.Pieces # <<>> /\ ~panicked
        /\ IF reach = {} THEN BotPanics("no reach")
           ELSE ReplaceBy(piece, UNION {PlansFor(table, thought.Context, r, <<piece>>) :
                                        r \in {s[2] : s \in reach}})

AnswerBump ==
    /\ thought.Doing = "bump" /\ thought.Pieces = <<>> /\ ~panicked
    /\ table' = UndoSubactions(table, thought.Subactions)
    /\ Say(Append(AskAll(thought.Subactions), [Type |-> "EndBump"]))
    /\ thought' = Idle
    /\ UNCHANGED <<vars, pool, inMsg, sending, outMsg, handledBump>>

\* The next request goes on outMsg once there is room.
PutAnswer ==
    /\ answers # <<>> /\ Len(outMsg) < OutCap /\ ~panicked
    /\ outMsg' = Append(outMsg, Head(answers))
    /\ answers' = Tail(answers)
    /\ UNCHANGED <<vars, pool, inMsg, sending, burst, table, thought, handledBump>>

BotNext == \/ OtherAsks \/ BotAsks \/ AnnounceScore \/ Sent
           \/ Receive \/ ChoosePlan \/ ExecutePlans \/ ReplacePiece \/ AnswerBump
           \/ PutAnswer

BotSpec == BotInit /\ [][BotNext]_allVars

-----------------------------------------------------------------------------
Bodies == Pieces \cup {NoPiece}

\* Neither channel takes more than it has room for, the bot's table and board have
\* a piece or none at every place, what a thought asks for is a list, and a plan
\* never uses more actions than the turn has left (manager.go, NewBot;
\* routebrain.go, handleNotifyNextTurn to executePlansUntilBump).
BotTypeOK ==
    /\ Len(inMsg) <= InCap /\ Len(sending) <= 1 /\ Len(outMsg) <= OutCap
    /\ pool \in [BotSlots -> Bodies]
    /\ table \in [Squares \cup BotSlots -> Bodies]
    /\ burst \in Nat /\ handledBump \in BOOLEAN
    /\ thought.ActionsLeft \in Nat
    /\ thought.Subactions \in Seq(Range(thought.Subactions))

\* The game waits for the bot.
BotToAct ==
    /\ status = "Running" /\ ~panicked
    /\ Bot = IF turnState.Type = "Bumping" THEN turnState.BumpingPlayer ELSE turnState.Player

\* Neither of them has anything left to do.
Quiet == /\ inMsg = <<>> /\ sending = <<>> /\ outMsg = <<>> /\ answers = <<>>
         /\ thought = Idle

\* The bot is about to be refused.
Refused ==
    /\ sending = <<>> /\ outMsg # <<>> /\ status = "Running" /\ ~panicked
    /\ Refuses

(* The situations the bot cannot handle.                                   *)

\* With hardly a piece left no plan for the bumped piece is worth anything, the
\* bot leaves it and asks for the end of the bump, which is refused.
NotMoved == turnState.Type = "Bumping" /\ ~turnState.BumpingMoved

\* A disc that stands on the first spot of the Coellen route is the first that
\* the bot takes off, for the Coellen table; that is no way to begin a clearing.
CoellenFirst == turnState.Type = "Clearing" /\ turnState.ClearingAward = "Coellen"

\* A route cleared for the points alone leaves its award, and the clearing stays
\* open: the plans after that and the end of the turn are refused.
AwardLeft ==
    /\ turnState.Type = "Clearing" /\ turnState.ClearingAward \in TrackAwards
    /\ RouteEmpty(board, turnState.ClearingRouteId)

\* With three moves an action or more, two moves that are left over may be given
\* the same spot; the second is refused.
SameSpotTwice(s) ==
    /\ GetBooks(tracks[Bot]) > 2
    /\ s.Source \in SpotSquares /\ s.Dest \in SpotSquares /\ Owns(Bot, s.Dest)

\* The bot keeps the game going (routebrain.go, HandleNotifySubaction to
\* HandleEndBump): when both are at rest it is not the bot's move, but for the
\* situations above and a game end that comes before the bot has played its
\* turn, whose last request may then not be the end of the turn.
BotAnswers ==
    Quiet /\ BotToAct =>
        \/ NotMoved /\ MyStockAndSupplyCount(table) <= 2
        \/ CoellenFirst
        \/ AwardLeft
        \/ gameend

\* What the bot plans on its own table, several actions ahead and with bags,
\* moves, bumps and awards among them, the game accepts (handleDoSubaction,
\* handleEndBump, handleEndTurn), with the same exceptions.
RequestsAccepted ==
    Refused =>
        \/ NotMoved /\ Head(outMsg).Type = "EndBump"
        \/ CoellenFirst
        \/ AwardLeft
        \/ /\ Head(outMsg).Type = "Subaction"
           /\ \/ Head(outMsg).Subaction.Dest[1] = "coellen"
              \/ SameSpotTwice(Head(outMsg).Subaction)
        \/ gameend

\* The bot's table, changed and restored by every thought and changed for good
\* by every notification (bot.go, Run; table.go, UndoSubactions), is the table
\* of the game when no notification is under way.
MindFollows ==
    ~panicked /\ thought = Idle /\ inMsg = <<>> /\ sending = <<>> => table = GameTable

\* Game and bot wait for each other on two full channels (manager.go, NewBot)
\* only if the bot has sent more requests at once than both channels and the
\* notification in the game's hands can take: with ten places each, 22.
QueuesSuffice ==
    sending # <<>> /\ Len(inMsg) = InCap /\ answers # <<>> /\ Len(outMsg) = OutCap
        => burst > InCap + 1 + OutCap

\* generatePlan leaves the table as it was: "It may mutate b.table while
\* thinking about a plan, but should always undo everything", and it panics
\* with "RouteBrain mutated table!" when it does not.
PlansUndone == thought.Doing # "mutated table"

\* What the bot tries while it thinks can be taken back: the table it would be
\* back at stays the same (routebrain.go, generatePlan; table.go,
\* UndoSubactions).  MindFollows rests on it.
TriesUndone ==
    [][thought # Idle /\ thought' # Idle /\ ~panicked' =>
           UndoSubactions(table', thought'.Subactions)
         = UndoSubactions(table, thought.Subactions)]_allVars

\* While the bot has requests to make it is its move: nobody else can come
\* between the requests of one thought (routebrain.go, handleNotifyNextTurn to
\* handleBump; game.go, handleDoSubaction).
AsksInTurn ==
    status = "Running" /\ ~panicked /\ (outMsg # <<>> \/ answers # <<>>) => BotToAct

\* The bot thinks on the last state of the game: nothing is under way in either
\* direction, and nobody else can act before it is done (bot.go, Run;
\* routebrain.go, handledBump).
ThinksUpToDate ==
    thought # Idle =>
        /\ inMsg = <<>> /\ sending = <<>> /\ outMsg = <<>> /\ answers = <<>>
        /\ status = "Running" /\ ~panicked => BotToAct


\* The payment that makes it another player's turn to answer a bump is the last
\* thing the bot asks for at once: a plan is cut behind its first bump
\* (routebrain.go, executePlansUntilBump).  QueuesSuffice rests on it.
BumpsComeLast ==
    [][Actor = Bot /\ turnState.Type # "Bumping" /\ turnState'.Type = "Bumping" =>
           outMsg' = <<>> /\ answers' = <<>>]_allVars

=============================================================================
