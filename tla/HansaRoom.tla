----------------------------- MODULE HansaRoom -----------------------------
(***************************************************************************)
(* The game room of game/game.go: people come and go, sit down, seat bots, *)
(* start the game, and leave; the game is scored by timers and goes away.  *)
(* One goroutine runs the room. An iteration of its loop takes one message *)
(* from one channel, handles it, adopts the new status (checkStatus) and   *)
(* decides whether to go on, and is one step here. Connections and timers  *)
(* are other goroutines.                                                   *)
(*                                                                         *)
(* A user's MultiWebClient is the number of its connections and the queue  *)
(* of messages not yet read. The queue is closed while there is no         *)
(* connection.                                                             *)
(***************************************************************************)
EXTENDS Naturals, Sequences, FiniteSets, Functions

CONSTANTS
    Users,          \* people
    Bots,           \* identities of bots
    Creator,        \* the user that created the game
    NoOne,          \* EmptyIdentity
    Seats,          \* the player boards before the start, five in the code
    MinPlayers,     \* four in the code
    ScoreTypes,     \* the final scores of a player, in the order they are sent
    Lag,            \* half seconds within which a timer that is due gets through
    MaxArrivals,    \* bound: connections opened in all
    QueueBound      \* bound: messages of one client waiting, 100 in the code

ASSUME RoomAssumption ==
    /\ Creator \in Users
    /\ Users \cap Bots = {}
    /\ NoOne \notin Users \cup Bots
    /\ MinPlayers \in Nat \ {0}
    /\ MaxArrivals \in Nat
    /\ QueueBound \in Nat \ {0}
    /\ ScoreTypes \in Seq(STRING)
    /\ "Total" \in Range(ScoreTypes)
    /\ Lag \in Nat \ {0}
    /\ IsFiniteSet(Seats)

\* Between the last total and completion at least MinPlayers timers go off for each
\* type of score that follows: with four players and the places, two and a half
\* seconds. No timer is taken to be later than that.
ASSUME LagAssumption ==
    \A j \in DOMAIN ScoreTypes :
       ScoreTypes[j] = "Total" => Lag <= (Len(ScoreTypes) - j) * MinPlayers + 1

VARIABLES
    status,         \* status, and newStatus, which checkStatus makes the same
    seat,           \* table.PlayerBoards[i].Identity until the start
    players,        \* players, in turn order
    observers,      \* keys of observers
    disconnects,    \* indices of players marked as disconnected
    turn,           \* turnState.Player
    gameend,        \* gameend
    finals,         \* finalscores: the types of score each player has
    due,            \* timers whose message has not reached handleScoring
    scored,         \* whether scores are the totals of the final scoring
    gone,           \* Run has returned
    joins,          \* channel joins
    conns,          \* connections in the user's MultiWebClient
    inbox,          \* messages in the client's channel
    arrivals        \* connections opened so far

room == <<status, seat, players, observers, disconnects, turn, gameend>>
scoring == <<finals, due, scored>>
net == <<joins, conns, inbox, arrivals>>
vars == <<room, scoring, gone, net>>

Ids == Users \cup Bots
JoinsCap == 2                       \* make(chan client.Client, 2)

Statuses == {"Creating", "Running", "Scoring", "Complete"}

Requests ==
    [kind: {"Sit", "Stand"}, seat: Seats]
      \cup [kind: {"SitBot", "StandBot"}, seat: Seats, bot: Bots]
      \cup [kind: {"Start", "Play", "EndTurn"}]

(***************************************************************************)
(* What a started bot sends: it plays, it never sits down or starts.       *)
(***************************************************************************)
BotRequests == [kind: {"Play", "EndTurn"}]

\* Mutant of Index: counted from zero, as the slices of the code are.
IndexFromZero(id) == {i - 1 : i \in {j \in DOMAIN players : players[j] = id}}

Index(id) == {i \in DOMAIN players : players[i] = id}

Connected(u) == conns[u] > 0

(***************************************************************************)
(* The channels handleMsg selects from: those of the observers and of the  *)
(* players not marked as disconnected.                                     *)
(***************************************************************************)
Heard(id) == id \in observers \/ \E i \in Index(id) : i \notin disconnects

(***************************************************************************)
(* The messages of the final scoring, each with a timer of its own: timer  *)
(* k goes off half a second after timer k - 1. The scores come type by     *)
(* type, then completion. (The players' order within a type is a map's in  *)
(* the code, and of no consequence.)                                       *)
(***************************************************************************)
NPlayers == Len(players)

Announce(i, t) == [kind |-> "Score", player |-> i, type |-> t]

\* Mutant of ScoreMessages: the totals are sent last.
ScoreMessagesTurned ==
    LET n == Len(ScoreTypes) * NPlayers
    IN [k \in 1..(n + 1) |->
          IF k > n THEN [kind |-> "Complete"]
          ELSE Announce(((n - k) % NPlayers) + 1, ScoreTypes[((n - k) \div NPlayers) + 1])]

ScoreMessages ==
    LET n == Len(ScoreTypes) * NPlayers
    IN [k \in 1..(n + 1) |->
          IF k > n THEN [kind |-> "Complete"]
          ELSE Announce(((k - 1) % NPlayers) + 1, ScoreTypes[((k - 1) \div NPlayers) + 1])]

\* Timer k gets through before those that are still due: its goroutine overtakes
\* theirs, but none that is Lag half seconds ahead of it.
Arrives(k) == k \in due /\ \A j \in due : k < j + Lag

Init ==
    /\ status = "Creating"
    /\ seat = [s \in Seats |-> NoOne]
    /\ players = <<>>
    /\ observers = {}
    /\ disconnects = {}
    /\ turn = 1
    /\ gameend = FALSE
    /\ finals = <<>>
    /\ due = {}
    /\ scored = FALSE
    /\ gone = FALSE
    /\ joins = <<>>
    /\ conns = [u \in Users |-> 0]
    /\ inbox = [id \in Ids |-> <<>>]
    /\ arrivals = 0

----------------------------------------------------------------------------
(***************************************************************************)
(* The world outside the goroutine of the room.                            *)
(***************************************************************************)

\* The lobby passes on a new connection of u.
Register(u) ==
    /\ arrivals < MaxArrivals
    /\ Len(joins) < JoinsCap
    /\ joins' = Append(joins, u)
    /\ arrivals' = arrivals + 1
    /\ UNCHANGED <<room, scoring, gone, conns, inbox>>

\* One of u's connections closes; the last one closes the channel.
Disconnect(u) ==
    /\ Connected(u)
    /\ conns' = [conns EXCEPT ![u] = @ - 1]
    /\ UNCHANGED <<room, scoring, gone, joins, inbox, arrivals>>

\* A connection of u sends a message.
Request(u, m) ==
    /\ Connected(u)
    /\ Len(inbox[u]) < QueueBound
    /\ inbox' = [inbox EXCEPT ![u] = Append(@, m)]
    /\ UNCHANGED <<room, scoring, gone, joins, conns, arrivals>>

\* A bot that plays sends a message.
BotRequest(b, m) ==
    /\ Index(b) # {}
    /\ Len(inbox[b]) < QueueBound
    /\ inbox' = [inbox EXCEPT ![b] = Append(@, m)]
    /\ UNCHANGED <<room, scoring, gone, joins, conns, arrivals>>

----------------------------------------------------------------------------
(***************************************************************************)
(* The end of handleMsg: the room goes away when the game is over, nobody  *)
(* observes and every player is marked as disconnected. The status is the  *)
(* one before checkStatus.                                                 *)
(***************************************************************************)
\* Mutant of Leftover: observers are not looked at.
LeftoverPlayers(obs, disc) ==
    status # "Complete" \/ \E i \in DOMAIN players : i \notin disc

Leftover(obs, disc) ==
    status # "Complete" \/ obs # {} \/ \E i \in DOMAIN players : i \notin disc

\* Mutant of GoOn: decided before the message is handled.
GoOnBefore(obs, disc) == gone' = ~ Leftover(observers, disconnects)

GoOn(obs, disc) == gone' = ~ Leftover(obs, disc)

\* Mutant of Back: the mark stays.
BackMarked(u) == disconnects

\* The marks when player u is back.
Back(u) == disconnects \ Index(u)

\* The observers when u has left.
Parted(u) == observers \ {u}

\* handleJoin: as an observer, as a player, or else as a new observer. A first
\* connection gets a fresh channel; what the old one still held is lost.
HandleJoin ==
    LET u == Head(joins)
        sits == u \notin observers /\ Index(u) # {}
    IN /\ ~ gone
       /\ joins # <<>>
       /\ joins' = Tail(joins)
       /\ conns' = [conns EXCEPT ![u] = @ + 1]
       /\ inbox' = IF Connected(u) THEN inbox ELSE [inbox EXCEPT ![u] = <<>>]
       /\ observers' = IF sits THEN observers ELSE observers \cup {u}
       /\ disconnects' = IF sits THEN Back(u) ELSE disconnects
       /\ GoOn(observers', disconnects')
       /\ UNCHANGED <<status, seat, players, turn, gameend, scoring, arrivals>>

\* A channel is found closed and empty.
HandleClosed(u) ==
    /\ ~ gone
    /\ Heard(u)
    /\ ~ Connected(u)
    /\ inbox[u] = <<>>
    /\ IF Index(u) # {}
         THEN /\ disconnects' = disconnects \cup Index(u)
              /\ observers' = observers
         ELSE /\ observers' = Parted(u)
              /\ disconnects' = disconnects
    /\ GoOn(observers', disconnects')
    /\ UNCHANGED <<status, seat, players, turn, gameend, scoring, net>>

\* The message of id that is handled in this step.
Receive(id) ==
    /\ ~ gone
    /\ Heard(id)
    /\ inbox[id] # <<>>
    /\ inbox' = [inbox EXCEPT ![id] = Tail(@)]
    /\ GoOn(observers, disconnects)
    /\ UNCHANGED <<joins, conns, arrivals>>

Asked(id) == Head(inbox[id])

----------------------------------------------------------------------------
(***************************************************************************)
(* Seats. A message that none of the guards below admits is answered with  *)
(* an error and changes nothing (Refuse).                                  *)
(***************************************************************************)
Sitting(id) == \E s \in Seats : seat[s] = id

MaySit(id, s) == status = "Creating" /\ ~ Sitting(id) /\ seat[s] = NoOne
MayStand(id, s) == status = "Creating" /\ seat[s] = id

TakeSeat(id, s) ==
    /\ MaySit(id, s)
    /\ seat' = [seat EXCEPT ![s] = id]

LeaveSeat(id, s) ==
    /\ MayStand(id, s)
    /\ seat' = [seat EXCEPT ![s] = NoOne]

SeatsOnly ==
    UNCHANGED <<status, players, observers, disconnects, turn, gameend, scoring>>

HandleRequestSitdown(u) ==
    /\ Receive(u)
    /\ Asked(u).kind \in {"Sit", "Stand"}
    /\ IF Asked(u).kind = "Sit" THEN TakeSeat(u, Asked(u).seat)
       ELSE LeaveSeat(u, Asked(u).seat)
    /\ SeatsOnly

HandleRequestSitdownBot(u) ==
    /\ Receive(u)
    /\ Asked(u).kind \in {"SitBot", "StandBot"}
    /\ u = Creator
    /\ IF Asked(u).kind = "SitBot" THEN TakeSeat(Asked(u).bot, Asked(u).seat)
       ELSE LeaveSeat(Asked(u).bot, Asked(u).seat)
    /\ SeatsOnly

----------------------------------------------------------------------------
Occupied == {s \in Seats : seat[s] # NoOne}

MayStart(u) ==
    status = "Creating" /\ u = Creator /\ Cardinality(Occupied) >= MinPlayers

\* Mutant of Watchers: players stay observers.
WatchersAll == observers

\* The observers that do not become players.
Watchers == observers \ {seat[s] : s \in Occupied}

\* handleStartGame and the branch of checkStatus from Creating to Running: the
\* occupied boards in a random order become the players; an observer that plays
\* stops being one. A player that is not there gets a client without connections,
\* whose channel is closed from the start.
HandleStartGame(u) ==
    /\ Receive(u)
    /\ Asked(u).kind = "Start"
    /\ MayStart(u)
    /\ \E order \in Injection(1..Cardinality(Occupied), Occupied) :
          players' = [i \in 1..Cardinality(Occupied) |-> seat[order[i]]]
    /\ status' = "Running"
    /\ observers' = Watchers
    /\ turn' = 1
    /\ UNCHANGED <<seat, disconnects, gameend, scoring>>

\* An accepted subaction. It may be the one that ends the game.
HandleDoSubaction(id) ==
    /\ Receive(id)
    /\ Asked(id).kind = "Play"
    /\ status = "Running"
    /\ turn \in Index(id)
    /\ gameend' \in {gameend, TRUE}
    /\ UNCHANGED <<status, seat, players, observers, disconnects, turn, scoring>>

\* Mutant of Unscored: scoring begins again with every end of the turn.
UnscoredAlways == TRUE

\* Whether checkStatus finds the game going from Running to Scoring.
Unscored == status = "Running"

\* handleEndTurn, which does not look at the status, and the branch of
\* checkStatus from Running to Scoring, which starts the timers.
HandleEndTurn(id) ==
    /\ Receive(id)
    /\ Asked(id).kind = "EndTurn"
    /\ turn \in Index(id)
    /\ IF gameend
         THEN /\ status' = "Scoring"
              /\ finals' = IF Unscored THEN [i \in 1..NPlayers |-> {}] ELSE finals
              /\ due' = IF Unscored THEN DOMAIN ScoreMessages ELSE due
              /\ UNCHANGED turn
         ELSE /\ turn' = (turn % NPlayers) + 1
              /\ UNCHANGED <<status, finals, due>>
    /\ UNCHANGED <<seat, players, observers, disconnects, gameend, scored>>

\* A request answered with an error. A turn is not ended, either, while the
\* engine waits for a bump to be answered or a route to be cleared.
Refuse(id) ==
    /\ Receive(id)
    /\ LET m == Asked(id)
       IN \/ m.kind = "Sit" /\ ~ MaySit(id, m.seat)
          \/ m.kind = "Stand" /\ ~ MayStand(id, m.seat)
          \/ m.kind = "SitBot" /\ ~ (id = Creator /\ MaySit(m.bot, m.seat))
          \/ m.kind = "StandBot" /\ ~ (id = Creator /\ MayStand(m.bot, m.seat))
          \/ m.kind = "Start" /\ ~ MayStart(id)
          \/ m.kind = "Play"
          \/ m.kind = "EndTurn"
    /\ UNCHANGED <<room, scoring>>

----------------------------------------------------------------------------
\* A timer's message reaches handleScoring.
HandleScore(k) ==
    LET m == ScoreMessages[k]
    IN /\ ~ gone
       /\ Arrives(k)
       /\ m.kind = "Score"
       /\ finals' = [finals EXCEPT ![m.player] = @ \cup {m.type}]
       /\ due' = due \ {k}
       /\ GoOn(observers, disconnects)
       /\ UNCHANGED <<room, scored, net>>

\* The last timer's message: the game is complete, its scores become the totals, or
\* zero for a player whose total has not come.
HandleComplete(k) ==
    /\ ~ gone
    /\ Arrives(k)
    /\ ScoreMessages[k].kind = "Complete"
    /\ status' = "Complete"
    /\ scored' = \A i \in DOMAIN finals : "Total" \in finals[i]
    /\ due' = due \ {k}
    /\ GoOn(observers, disconnects)
    /\ UNCHANGED <<seat, players, observers, disconnects, turn, gameend, finals, net>>

HandleScoring == \E k \in due : HandleScore(k) \/ HandleComplete(k)

----------------------------------------------------------------------------
HandleMessage(id) ==
    \/ HandleDoSubaction(id)
    \/ HandleEndTurn(id)
    \/ Refuse(id)
    \/ /\ id \in Users
       /\ \/ HandleRequestSitdown(id)
          \/ HandleRequestSitdownBot(id)
          \/ HandleStartGame(id)

Next ==
    \/ \E u \in Users :
         \/ Register(u)
         \/ Disconnect(u)
         \/ \E m \in Requests : Request(u, m)
         \/ HandleClosed(u)
    \/ \E b \in Bots, m \in BotRequests : BotRequest(b, m)
    \/ HandleJoin
    \/ \E id \in Ids : HandleMessage(id)
    \/ HandleScoring

(***************************************************************************)
(* The goroutine of the room keeps running, and the select statement picks *)
(* among the ready channels at random, so a channel that stays ready is    *)
(* read. Timers fire. Nothing is assumed of people or of bots. Consume in  *)
(* handleJoin is taken to return; MultiClient and HansaLobby say when it   *)
(* does not, and the room then takes no further step.                      *)
(***************************************************************************)
Fairness ==
    /\ WF_vars(HandleJoin)
    /\ \A u \in Users : WF_vars(HandleClosed(u))
    /\ \A id \in Ids : WF_vars(HandleMessage(id))
    /\ WF_vars(HandleScoring)

Spec == Init /\ [][Next]_vars

FairSpec == Spec /\ Fairness
----------------------------------------------------------------------------
(***************************************************************************)
(* Properties.                                                             *)
(***************************************************************************)

\* Every variable has its type.
TypeOK ==
    /\ status \in Statuses
    /\ seat \in [Seats -> Ids \cup {NoOne}]
    /\ players \in Seq(Ids)
    /\ observers \subseteq Users
    /\ disconnects \subseteq DOMAIN players
    /\ turn \in Nat \ {0}
    /\ gameend \in BOOLEAN
    /\ \A i \in DOMAIN finals : finals[i] \subseteq Range(ScoreTypes)
    /\ due \subseteq DOMAIN ScoreMessages
    /\ scored \in BOOLEAN
    /\ gone \in BOOLEAN
    /\ joins \in Seq(Users) /\ Len(joins) <= JoinsCap
    /\ conns \in [Users -> 0..MaxArrivals]
    /\ \A id \in Ids : Len(inbox[id]) <= QueueBound
    /\ \A id \in Ids : \A k \in DOMAIN inbox[id] : inbox[id][k] \in Requests
    /\ arrivals \in 0..MaxArrivals

\* Once the game has started its players are those who had a seat, one player
\* each, whether they were connected or not, and none of them is an observer
\* besides: nobody gets a notification twice (checkStatus, handleJoin, notify).
PlayersSettled ==
    status # "Creating" =>
      /\ Range(players) = {seat[s] : s \in Occupied}
      /\ Len(players) = Cardinality(Occupied)
      /\ Len(players) >= MinPlayers
      /\ observers \cap Range(players) = {}

\* A user with an open connection is read from: as an observer or as a player
\* who is not marked as disconnected, whatever the order of leaving, coming back
\* and starting the game (handleJoin, handleMsg, checkStatus).
ConnectedMeansHeard ==
    \A u \in Users : Connected(u) => Heard(u)

\* The room does not go away under somebody who is connected to it.
NobodyCutOff ==
    gone => \A u \in Users : ~ Connected(u)

\* The scores of player i that are still on their way.
Pending(i) ==
    {t \in Range(ScoreTypes) : \E k \in due : ScoreMessages[k] = Announce(i, t)}

\* When a game is complete its scores are the totals, though every message has a
\* timer of its own and may be overtaken; and what a player's final scores lack is
\* in messages that are less than Lag ahead of completion and still due.
CompleteIsScored ==
    status = "Complete" =>
      /\ scored
      /\ \A i \in DOMAIN players : Range(ScoreTypes) = finals[i] \cup Pending(i)
      /\ \A k \in due : k + Lag > Len(ScoreMessages)

\* A final score that was announced is never taken back, also when the player
\* whose turn it was goes on ending it (handleEndTurn, checkStatus).
ScoresKept ==
    [][\A i \in DOMAIN finals :
         i \in DOMAIN finals' /\ finals[i] \subseteq finals'[i]]_vars

\* Nobody is connected or about to be.
Deserted == joins = <<>> /\ \A u \in Users : ~ Connected(u)

\* Somebody left and the room has not yet noticed.
Unnoticed == \E u \in Users : Heard(u)

\* When the last one leaves a complete game between people, the room goes away
\* (handleMsg, 149-150 and 218). Not so with a bot at the table, which is never
\* marked as disconnected; nor when everybody had left before completion, since
\* the status is looked at before checkStatus adopts it; and until somebody has
\* ended his turn once more, which takes a complete game back to Scoring. (As long
\* as Consume returns, see Fairness.)
LastOneOut ==
    (/\ status = "Complete"
     /\ Range(players) \subseteq Users
     /\ Deserted /\ Unnoticed)
      ~> (gone \/ ~ Deserted \/ status # "Complete")

=============================================================================
