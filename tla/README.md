# CHansas: a TLA+ model of the game server

CHansas is an on-line version of the board game Hansa Teutonica: a server in Go
(`src/server/src`), a static file server and a browser client (`src/frontend`).
The repository has no tests. This directory holds TLA+ modules of its core
logic, TLC runs on small instances, and proofs checked with TLAPS.

All paths below are relative to `src/server/src` unless they say otherwise.

## 1. Inventory

| Component | State it keeps | Operations | Hard behaviour | What makes it correct | Modelled in |
|---|---|---|---|---|---|
| Turn engine (`game/game.go` 489-1698, 1919-1961; `simple/turnstate.go`) | turn state (player, phase, counters), scores, bonus route, end flag | 11 kinds of subaction, EndTurn, EndBump | two players alternate inside one turn during a bump; requests come in any order; phases break each other off; the game ends in the middle of a clearing | counters run out exactly with their phase; bumps can be paid and answered; a clearing gives one reward; offices are kept; no extra actions; the end stops play; a clearing can be finished; turns go round | `HansaGame`, `HansaTurn` |
| Board and pieces (`simple/table.go`, `board.go`, `city.go`, `route.go`) | spots and bump zones of routes, offices, Coellen table | ApplySubaction, UndoSubaction, ValidBumps, control, network, bonus route | a piece lifted off a spot lets the bumped one slide back; searches over ids that are also indices | pieces are neither lost nor duplicated; bump zones hold foreign pieces only; the searches find what they are meant to | `HansaBoard`, `HansaScoring`, `HansaPlan` |
| Player boards (`simple/playerboard.go`) | stock, supply, five tracks | values of the tracks, awards | | tracks are freed from the left and never below zero | `HansaGame`, `HansaScoring` |
| Map data (`simple/boarddata.go`) | cities, offices, awards, routes of the map | | | it satisfies what the engine assumes | `Base45` |
| Final scoring (`game/game.go` 1799-1906, 285-302) | final scores | computed once, delivered by timers | totals in a map without order, sorted; timers of one game race with each other and with its requests | places follow totals; each score is delivered once; completion finds the totals | `HansaScoring`, `HansaRoom` |
| Game room (`game/game.go` 62-513, 1679-1913) | observers, players, seats, status, disconnections | join, leave, sit down, seat a bot, start, status changes | connections come and go while the game runs; one goroutine per game | a seat has one owner; a started game has all its players; nobody is cut off; a finished game goes away | `HansaRoom` |
| Lobby (`lobby/lobby.go`) | games, clients, summary | create game, join, pass on a join, broadcast, clean up | calls between lobby and games block on channels; handing over a socket may never return | no join is lost; lobby and game do not wait for each other | `HansaLobby` |
| Clients (`client/*.go`) | connections of one identity, two queues | Send, Read, Consume, Done | channels are closed and replaced while others use them | nobody sends on a closed channel; no connection misses news | `ClientLink`, `MultiClient` |
| Bots (`bot/manager.go`, `bot.go`) | two queues of ten messages, a table of their own | play on notification | bounded queues in both directions | game and bot do not block each other; the two tables agree | `HansaBot` |
| Bot brains (`bot/routebrain.go`, `fitness.go`, `weights.go`) | none between turns | plan a turn, answer a bump | plans are tried out on the bot's table and taken back; several actions are sent at once | the table is restored; what is proposed is legal; the bot never stalls the game | `HansaPlan`, `HansaBot` |
| User handler, database (`user/handler.go`, `database/*.go`) | accounts, tokens, clients on the account pages | sign up, sign in, confirm, reset | several connections at once; errors in the middle of a request | one account per address; one answer per request | no |
| Server front (`server/*.go`) | connections per address, uses per address | accept, count, block | several goroutines | counts never go below zero | counting in `MultiClient`, sockets in `HansaLobby` |
| Log (`log/log.go`) | channel to the log server | log, stop | stop while others log | | no |
| Browser client (`src/frontend/s/js/game.js`) | table on screen, pending subactions | apply at once, confirm or take back | answers cross with other players' moves | the screen agrees with the server when nothing is pending | no |

The components interact as follows. A browser opens a web socket; the server
front makes a `WebClient` of it and hands it to the lobby, to a game (through
the lobby) or to the user handler. Each of these runs in a goroutine of its own
and keeps a `MultiWebClient` per identity, which merges the connections of that
identity. A game reads one message at a time from all its clients and handles
it to the end, so **the turn engine is sequential**: its interleavings are the
orders in which the players' requests arrive. A bot is one more client of a
game, reached over two channels. A panic anywhere stops the process.

## 2. Modules

| Module | What it is |
|---|---|
| `HansaBoard` | the board: places, moving a piece, bump zones, control, bonus route, `ValidBumps` |
| `HansaGame` | the turn engine as a state machine over that board |
| `HansaTurn` | abstract specification: the protocol of turns, without a board |
| `HansaScoring` | the final scores and the searches of the map they rest on |
| `Base45` | the real map, as values of the constants of `HansaBoard` |
| `HansaRoom` | a game room: joins, seats, bots, start, statuses, scoring timers, its end |
| `ClientLink` | abstract specification: what a merged client promises its owner |
| `MultiClient` | the goroutines and channels of a merged client |
| `HansaLobby` | the lobby, its games and the goroutines that bring new sockets, over channels |
| `HansaPlan` | how a bot thinks: plans tried on its table and taken back, and the choice |
| `HansaBot` | a bot and the game it plays, over two bounded channels; composes `HansaGame` and `HansaPlan` |
| `MCHansaGame`, `MCHansaScoring`, `MCHansaRoom`, `MCMultiClient`, `MCHansaLobby`, `MCHansaBot` | instances for TLC |
| `HansaGameProofs` | engine: types, counters, payments, clearings, number of actions |
| `HansaTurnProofs` | engine: bump zones, offices, rewards, whose pieces a step changes, conservation of pieces, the end of the game, the bumped piece, it implements `HansaTurn` |
| `HansaBotProofs` | a game with a bot: the engine's invariants, slots and counts, notifications, undoing, the bot's table |
| `HansaRoomProofs` | room: types, players, who is heard, scores |
| `HansaScoringProofs` | scoring: the searches of the map, the places, what is paid for |
| `DataLemmas` | facts about data: induction over numbers and finite sets, recursion, maxima, sums over a set and part by part, lists and queues |
| `HansaLobbyProofs` | lobby: types, its list of games |
| `MultiClientProofs` | merged client: types, counts, snapshots and news, it implements `ClientLink` |

### HansaBoard

A place of the board is a tuple `<<kind, id, index>>`; the kind stands for the
code's `Location.Type` and `Subindex` (spot, bumped, office, coellen). A board is
a function from places to pieces. `Lift`, `Drop` and `Shift` are the branches of
`ApplySubaction`: lifting a piece off a spot lets the piece in the bump zone
slide back, dropping one onto a piece sends that one to the bump zone, and
`BumpBlocked` is the case in which the code panics. A player's colour is
identified with the index of the player board (`colorToPlayer`). The map is data
in the code and a parameter here.

The searches grow a set of routes (`ValidBumps`) or cities in rounds. The code stops
when a round adds nothing; the model runs a fixed number of rounds that is at least
as large, which gives the same set. The two searches over cities, for the bonus
route and for a network, are the same code twice and one operator here, `Reached`;
`SearchIsClosure` proves that its rounds are enough.

### HansaGame

One action per accepted subaction of `handleDoSubaction`, named for what it
does, plus `EndTurn`, `EndBump` and the three panics. A refused request changes
nothing in the code and is no step.

| Action | Code (`game/game.go`) |
|---|---|
| `BagPiece` | stock to supply, 717-788 |
| `PayBump` | supply to stock, 795-830 |
| `Place`, `Bump` | supply to a spot, 831-1023 |
| `ReplaceFromStock`, `ReplaceFromSupply`, `ReplaceFromBoard` | 680-715, 851-880, 1075-1100 |
| `MoveBumped` | 1062-1073 |
| `Move` | 1103-1146 |
| `ClearToOffice`, `TakeOffice` | 1283-1385, 1241-1282 |
| `TakeCoellen` | 1155-1204 |
| `ClearToStock`, `ClearMore` | 1436-1563, 1408-1435 |
| `LevelUp` | 573-679 |
| `EndTurn`, `EndBump` | 1591-1633, 1635-1666 |
| `BumpPanic`, `NoBumpPanic` | `simple/table.go` 110 and 191 |
| `VirtualOfficePanic` | `simple/table.go` 268-290, on behalf of `validateSubaction`, 517-549 |

`Commit` is the common end of every subaction: it stores the result and does
what `gameEndIfNecessary` does, which runs last in every branch. The code repeats
each "start of an action" three times (from None, Moving and Bags); `MayStart`
and `Started` are what the three copies have in common.

Abstractions: the thirty slots of stock and of supply are counted per shape,
since a free slot always exists and nothing depends on which is used; a track is
the number of pieces on it, since the code only ever frees the leftmost one.
Left out because nothing reads them in the engine: the histories `actions` and
`subactions` (write-only), clocks, notifications. Left out because no request
can reach them: tokens (`Source` of a token is refused or ignored on every path)
and pieces in virtual offices (1151). A request that names a virtual office as its
source stops the process, because the list is empty and the index may equal its
length (`VirtualOfficePanic`). The order of the players, shuffled at the start, and
their colours are immaterial. The status Complete, set by the timers of the
final scoring, belongs to the game room.

### HansaTurn

What the engine promises about whose move it is: turns go round; actions are
spent one at a time; a bump once paid is answered by its victim before the turn
goes on; a clearing is finished before the turn is passed; when the end is
reached nothing new is begun. `HansaGame` defines the mapping (`Turn`) and the
run `bump` checks that it implements it. The protocol lets the turn pass while
a bump is being paid, because the code does; section 5 says what follows.

### HansaScoring and Base45

`HansaScoring` keeps of a game only what the scores look at: offices, Coellen
spots and tracks. `CheckStatus` is `checkStatus` from Running to Scoring: the
five kinds of score, the totals, and the places as `Ranking` gives them.
`GetNetworkScore` grows networks as the code does, from whichever city comes
next; equal totals are ranked in any order, since the code sorts what a Go map
gave it. `Base45` is `NewBase45Board` number by number, without the start tokens,
which no request can use. The turn order, the identities and the formatting of
scores are left out.

### HansaRoom

One goroutine runs the room. An iteration of `Run` takes one message from one
channel, handles it, adopts the new status (`checkStatus`) and decides whether to
go on, and is one step of the model.

| Action | Code (`game/game.go`) |
|---|---|
| `HandleJoin` | 237-275 |
| `HandleClosed` | a closed channel in `handleMsg`, 201-216 |
| `HandleRequestSitdown`, `HandleRequestSitdownBot` | 354-415, 417-487 |
| `HandleStartGame` | `handleStartGame` and `checkStatus`, 1704-1797 |
| `HandleDoSubaction`, `HandleEndTurn` | 551-560, 1591-1633, as far as status and turn are concerned |
| `HandleScoring` (`HandleScore`, `HandleComplete`) | 285-302 and the timers of 1894-1906 |
| `Refuse` | 304-352, a request that is answered with an error |
| `Register`, `Disconnect`, `Request`, `BotRequest` | the goroutines of clients and bots |

A user's merged client is the number of its connections and the queue of messages
not read; `MultiClient` says why that is enough. `newStatus` and `status` are one
variable because `checkStatus` makes them equal at the end of every iteration;
where the code looks at the old one (218) the model does too. What is played is
`HansaGame`; here a subaction only may set the end flag.

Each final score has a timer of its own, half a second after the one before, and
each timer a goroutine. `due` is the set of those that have not got through yet; they
may overtake each other (`Arrives`), but a timer that is `Lag` half seconds late gets
through before the rest. `LagAssumption` bounds `Lag` by the half seconds between the
last of the totals and completion: were a total later than that, completion would set
a player's score to zero. Nothing else in the code keeps that order.

A join is handled to its end in one step. That rests on `Consume` returning, which
`MultiClient` looks into and which can fail; the properties of the room speak of the
time before that.

### ClientLink and MultiClient

`MultiClient` has a process per goroutine: one that reads and one that writes each
socket, the client's reader and its sender, and the owner. Its channels have the
capacity `ChanCap`. A step is what a goroutine does between two operations on a
channel or a lock. The closing and replacing of `from` when the last connection
leaves and another one joins, the copy of the list of connections the sender works
on, and the owner's wait in `Consume` are all there. A snapshot (the full state an
owner sends to a new connection before it hands it over) is marked with the number
of posts it contains, so that a connection missing news can be seen.

`ClientLink` is what an owner relies on: per connection, messages arrive in order;
from the moment it enters until it leaves a connection hears every post in order.
The mapping concatenates the queues of the detailed model; the messages of one
connection in the common queue `from` are numbered by the rank of their positions
(`NumbersOf`), a definition without recursion, so that it can be proved about.

### HansaLobby

The lobby's goroutine selects among its channels; `registering` is the socket it is
about to send to a game, during which it does nothing else. A game is what the
lobby sees of it: it takes joins while its loop runs and, once over, waits until
the lobby takes its id from the unbuffered `cleanupGames`. The handler of a web
request is the place `"handler"` of a socket: it waits until a channel takes it.
Lobby and games hand a socket of a known identity over with `Consume`, which may
never return (section 5): `held` says who waits there, and whoever does takes no
further step. (A game's client stays known when its connections are gone.)
Requests passed on to the user handler change nothing of the lobby and are left out.

### HansaPlan and HansaBot

`HansaPlan` is `RouteBrain`: for every route a points, award, office and block
plan, made by the same steps as the code (`FillSpot`, `PlaceFrom`, `BumpFrom`,
`MovePiece`, ...), each of which changes the bot's table and appends a
subaction, then the undoing, the choice, and the moves left over. A table is a
function from places to pieces in which the slots of the bot's own player board
are told apart, since the brain names slots. `HansaBot` lets this brain play
against `HansaGame`: the game notifies it over a channel of `InCap`, the bot keeps
its table up to date from the notifications, thinks, and puts its requests on a
channel of `OutCap`; the game accepts or refuses each.

Abstractions: the fitness of a plan is kept as zero or positive, because the rest
is arithmetic on weights; any plan of positive fitness may be the best, a plan for
the points of a route with an award included: weights can be equal, the sort is not
stable, and the moves left over change the fitness before the plans are sorted again.
The notifications of the final scores take their places in the queue to the bot
(`AnnounceScore`); their content is left out, the bot does not look at it. The pause
of 200 ms before an answer is dropped. The spots that leftover moves may go to are
those of the plans as they were made. `Habits` restricts what the human player of
an instance does (his answers to the bot stay complete); it is a bound.

## 3. Runs

| Run | Instance | Checks | Shows |
|---|---|---|---|
| `bump` | engine; 2 players, 2 cubes and a disc each | `TypeOK`, `PieceConservation`, `BumpPayable`, `CountersInPhase`, `TurnProtocol` | every order of placing, moving, bags, bumping, paying, answering and breaking off, to the end of the game |
| `trio` | engine; 3 players, a cube and a disc each | `BumpZonesForeign`, `BumpedPieceWaits`, `OthersKeepPieces` | unpaid bumps of two players meet the turns of a third |
| `clear` | engine; 2 players, offices of both shapes, awards, bonus termini | `GameEndStops`, `ClearingNotWedged`, `NoExtraActions`, `OneReward`, `OfficesKept` | clearings with offices, Coellen spots and levels, the rewards offered together, the end of the game reached in the middle of one |
| `network` | scoring on the real map; 2 players, 7 contested places | `NetworkIsLargest`, `BonusRouteLinks`, `PlacesFollowTotals` | the searches agree with definitions by sets of cities; places follow totals |
| `room` | 2 users, a bot, 2 seats | `TypeOK`, `PlayersSettled`, `ConnectedMeansHeard`, `NobodyCutOff`, `CompleteIsScored`, `ScoresKept`, `LastOneOut` | coming, going, sitting down, starting, watching, scoring, in every order, with timers that overtake each other |
| `client` | 2 connections of one identity | `TypeOK`, `NoGapAfterSnapshot`, `LeaverWasCounted`, `OpenWhileMembers`, `LinkKept`, `ConsumeReturns` | five kinds of goroutine in every order implement `ClientLink` |
| `lobby` | 2 users, 3 sockets, a game | `TypeOK`, `ListedGamesRun`, `RegisterEnds`, `JoinSettles` | sockets arrive while a game ends and while handing one over takes for ever |
| `bots` | a bot and a person on a chain of two routes | `BotTypeOK`, `BotAnswers`, `RequestsAccepted`, `MindFollows`, `QueuesSuffice`, `BumpsComeLast`, `TriesUndone` | when the bot answers, is refused, falls out of step, blocks; the provisos of the proofs |
| `bumpzone`, `sendclosed`, `lobbyblocked`, `botpanic` | see section 5 | one expectation each | violated |

**Bounds.** The engine's board is three cities in a chain joined by two routes of
two spots: the smallest on which a route can be cleared with a piece left over for
the office, a bump has somewhere to go, the other route can fill up (so that
`ValidBumps` finds nothing), and the two bonus termini are linked through a third
city. `NPlayers`, `StartCubes`, `FirstSupply`, `EndScore` and `EndCities` are
lowered from 4 or 5 players, 11 cubes, 20 points and 10 cities, so that stock and
supply run out and the end is reached; the state space is then finite as it stands.
With more players and pieces the proofs of section 4 take over.

- `network`: the map is the real one. `Contested` are the offices around the bonus
  route and one Coellen spot: enough for networks to grow apart and join, for ties
  in control and for the bonus route to be completed. The run also evaluates the
  assumptions of the engine about the map, and that `ValidBumps` reaches every other
  route within its ten steps, so that its panic needs a board without any empty spot.
- `room`: `MinPlayers` is 1 and there are 2 seats, so that a game can be started with
  a bot and without, and watched by somebody with no seat. `MaxArrivals` = 2
  connections let a user leave and come back, or two users meet. `QueueBound` = 1.
  `LastScores` are the totals and the places, the only scores whose order matters to
  completion; with `Lag` = 2, the most `LagAssumption` allows here, a score can come
  after the next one, or after completion.
- `client`: `ChanCap` = 1 (100 in the code) and 2 messages of one connection fill the
  channel to the owner and the reader's hand, which the deadlock below needs; 2
  posts let one be copied while the next waits.
- `lobby`: capacities 1 (10 and 2 in the code); with 3 sockets one game can be over
  while one socket waits and one is being passed on. `lobbyblocked` needs a fourth. That
  the lobby waits for a game that is itself held in `Consume` takes a fifth and is
  stated (`Blocked`) but does not occur.
- `bots`: `InCap` = 2, `OutCap` = 1 make the queues full with short bursts; the
  bound in `QueuesSuffice` is stated in the capacities and is 22 for the code's.

`CHECK_DEADLOCK FALSE` stands where the system really may stop: after a panic, when
the game is over, when nobody does anything any more, and in the deadlocks of
section 5.

**Fairness.** None is assumed of people or bots: they are free never to act, so the
engine alone has no liveness property. The goroutines of the server keep running
and their `select` picks among ready channels at random:

- `HansaRoom`: weak fairness of every action of the room's goroutine and of the timers
  (`HandleScoring` as a whole: with finitely many timers each gets through).
- `MultiClient`: weak fairness of the goroutines that wait for one channel; strong
  fairness where a `select` or a lock has several contenders (`ReadJoin`,
  `ReadMessage`, `ReadEnd`) and for the owner's reading, which its own `select` may
  pass over a finite number of times.
- `HansaLobby`: strong fairness of each case of the lobby's `select` and of a waiting
  request, weak fairness of what happens without one. `LobbyTick` is a ticker. A step
  that calls `Consume` may end in `held`, so fairness to it does not say that the call
  returns.

**Properties that say what happens except for known faults.** `ConsumeReturns`,
`RegisterEnds`, `JoinSettles`, `LastOneOut`, `BotAnswers`, `RequestsAccepted` name their
exceptions: the situations of section 5 (a `Consume` that never returns, a clearing left
open, ...). So they show that nothing else goes wrong. Two exceptions do not occur in the
instance of `bots` but do in larger ones: in `BotAnswers` a game end that leaves a burst
without the end of the turn, and in `RequestsAccepted`, with three moves an action or
more, two leftover moves to one spot.

Some properties deserve a word. `TurnProtocol` is a refinement: it rules out an action
begun after the end, a turn passed over the head of a bumped player, or two actions
spent by one request; that the bump is paid at all before the turn passes it does not
say. `OneReward` is an action property over both fields in which a clearing keeps what
it still offers: what is taken was offered, and then nothing is. `OfficesKept` says who
may take which office, and that nobody loses one. `OthersKeepPieces` is an action
property: whoever acts, the other players keep their boards, offices and Coellen discs,
and their pieces on routes at most shift between a spot and its bump zone. `LinkKept` is
a refinement too. `NoGapAfterSnapshot` is why a game may send its full state to a new
connection directly, past the notifications that still wait in the client's queue: news
may arrive twice, never be missing.

## 4. Proofs

The theorems about the engine hold for every map, number of players, distribution
of offices and awards and size of the player boards that satisfy three assumptions.
`BoardAssumption` says what the map data of the code satisfies: finitely many cities
and routes, a route has at least two spots and ends in cities, offices and awards
are of their types. `GameAssumption` gives the sizes of the tracks as
`NewPlayerBoard` fills them. `OpeningAssumption` says that the empty board does not
end the game: fewer cities without offices than `EndCities`. The theorems about the
room hold for every number of users, bots and seats (`RoomAssumption`;
`CompleteHasAllScores` also needs `LagAssumption`), those about
the lobby for every number of identities, sockets and games and any capacity of the
channels (`LobbyAssumption`), those about the merged client for every number of
connections, messages and posts and any capacity (`ClientAssumption`, which also
says that the value for "no connection" and "no message" is neither; `Conns` need not
be finite). Those about the scoring need `BoardAssumption` and `ScoringAssumption`
(tracks begin with a number of pieces, points are not negative). Those about a game with
a bot need the engine's three, `BotAssumption` (the bot is a player; stock and supply have
at least as many slots as there are pieces of a colour, as `NewPlayerBoard` gives them)
and `ChannelAssumption` (channels with room for at least one message). Runs evaluate all
of them, `network` the first on the real map.

| Theorem | Module | Says that |
|---|---|---|
| `TypeCorrect` | `HansaGameProofs` | nothing the code decrements without a test goes below zero |
| `CountersCorrect` | `HansaGameProofs` | a counter is used in its own phase and spent with it |
| `BumpsCanBePaid` | `HansaGameProofs` | the price of a bump is in supply until it is paid |
| `ClearingsEnd` | `HansaGameProofs` | a clearing is kept open only for a piece or an award |
| `ActionsBounded` | `HansaGameProofs` | no more actions than the track allows |
| `BumpZonesCovered` | `HansaTurnProofs` | a piece in a bump zone lies under another player's |
| `OfficesStay` | `HansaTurnProofs` | an office is taken once, properly and in order, and kept |
| `RewardsExclude` | `HansaTurnProofs` | a clearing gives one reward, and then offers none |
| `OthersAreLeft` | `HansaTurnProofs` | a step changes nothing of the others but a shift out of or into a bump zone |
| `NothingAfterTheEnd` | `HansaTurnProofs` | once the end is reached only its clearing is finished |
| `BumpedPieceFound` | `HansaTurnProofs` | a bumped piece lies in its zone until its owner moves it |
| `PiecesConserved` | `HansaTurnProofs` | no piece is lost or made |
| `ImplementsTurns` | `HansaTurnProofs` | the engine implements `HansaTurn` |
| `RoomTypeCorrect` | `HansaRoomProofs` | the room keeps its types, no counter goes below zero |
| `SeatedArePlayers` | `HansaRoomProofs` | the players are the owners of the seats, once each |
| `ConnectedAreHeard` | `HansaRoomProofs` | whoever is connected is read from |
| `NobodyIsCutOff` | `HansaRoomProofs` | the room does not end under somebody connected |
| `CompleteHasAllScores` | `HansaRoomProofs` | completion finds the totals, whichever timers overtake others |
| `AnnouncedIsKept` | `HansaRoomProofs` | an announced score stays |
| `BonusRouteFound` | `HansaScoringProofs` | the bonus route is found exactly when it is there |
| `NetworkScoreIsLargest` | `HansaScoringProofs` | the network score is that of the largest set of cities that hang together |
| `PlacesRankTotals` | `HansaScoringProofs` | places follow totals, nothing is paid for twice |
| `LobbyTypeCorrect` | `HansaLobbyProofs` | the lobby keeps its types |
| `ListedAreRunning` | `HansaLobbyProofs` | the lobby lists the games whose goroutine has not ended, each once |
| `ClientTypeCorrect` | `MultiClientProofs` | goroutines and channels keep their types and capacities |
| `LeaversAreCounted` | `MultiClientProofs` | a connection that leaves was counted |
| `OpenExactly` | `MultiClientProofs` | `from` is open exactly while somebody is connected |
| `SnapshotThenNews` | `MultiClientProofs` | nothing posted after a connection's snapshot is missed |
| `LinkImplemented` | `MultiClientProofs` | the merged client implements `ClientLink` |
| `EngineSafeWithBot` | `HansaBotProofs` | the engine's invariants hold with a bot at the table |
| `TurnsWithBot` | `HansaBotProofs` | so do the protocol of turns, `OthersKeepPieces`, `OfficesKept` and `OneReward` |
| `SlotsCounted` | `HansaBotProofs` | the slots the bot reads hold what the engine counts |
| `ChangesNotified` | `HansaBotProofs` | every change of the table is one notified subaction |
| `UndoIsExact` | `HansaBotProofs` | when undoing a subaction restores the table |
| `OnlyThoughtsMislead` | `HansaBotProofs` | the bot's table follows the game's until a step of a thought is not taken back with the thought; nothing else puts it out of step |
| `QueuesSufficeIfBumpsLast` | `HansaBotProofs` | the bot asks in turn, thinks on the last state, and its queues suffice, given `BotTypeOK` and `BumpsComeLast` |

Each is proved from an inductive invariant, with a lemma per action or group of
actions.

- `TypeInv` is `TypeOK`, `CountersInPhase` and `TracksShrink`. Types alone are not
  inductive: a step that spends the last move subtracts one from `MovesLeft`
  without looking, so one needs to know that the counter is positive in its phase;
  and a phase begins with a positive counter only because a track never holds
  more pieces than it began with, which makes `GetBooks` and `GetBags` at least
  two. `CommitInv` does the common end of all subactions once.
- `RuleInv` adds the payment, the clearings and the actions to it. That a clearing is
  not wedged is not inductive by itself: `ClearMore` keeps the clearing of an empty
  route open when the award is a track award, and relies on the award still being
  takeable; `ClearOK` carries that from `RouteAward`, which tests it, to the step
  that needs it. `Budget` counts the action in progress as one of the turn's.
- `ZoneInv` speaks of the board only. `NextBoard` first reduces every action to one of
  four things done to the board (nothing, a drop, a shift to an open place, a lift);
  the rest is about those four. `OthersAreLeft` uses the same reduction.
- `OfficesStay` and `RewardsExclude` are about steps, and need of the states only
  `TypeInv`: `OfficesStep` and `RewardsStep` go through the actions, of which
  the four that take an office, a spot or a level have to show that it was offered and
  that both fields are then empty.
- `EndInv` adds that no end has been reached while the flag `gameend` is not set
  (`Marked`): then only the step that reaches the end has to be looked at, and only
  steps that change a score or an office, all of them clearings, can be that step.
- `WaitInv` adds `ZoneInv` to `BumpedPieceWaits`: replacements go to empty spots
  only and come from the bumped player's own pieces, so nothing lifts the piece above
  the bumped one before its time.
- `CountInv` counts pieces of one kind with `Num` and shows what a lift, a drop and a
  shift do to it (cardinalities of sets that differ by an element); `Balanced` then
  reduces every action to three numbers that add up to zero. It rests on `ZoneInv`,
  because a drop onto a used bump zone would lose a piece.
- The refinement maps the turn state of the engine to that of the protocol and
  reduces an action of the engine to one of the protocol or to a stutter; it needs
  that the counters are right and that the end flag is (`TypeInv`, `EndInv`).
- `RoomInv` and `ScoreInv` are proved together (lemma `Ahead`: when completion gets
  through, the timers still due are less than `Lag` ahead of it, hence none of a total):
  that nobody is cut off needs that a player marked as disconnected has no connection
  the room has not yet been told of. `BoundsInv` adds the bounds: the open connections
  of a user and the joins that wait are together no more than arrived.
- `LobbyInv` adds to the types that a socket that waits has been handed over
  (`HandedOver`: it cannot be opened anew and ask for another game) and that games
  are numbered without a gap (`Numbered`: a new game has an id no game had before, so
  the list stays without a repetition).
- `ClientInv` describes one connection's way through the client: counted, started,
  closed and done in that order (`Counting`); a member at most once and never again
  (`Membership`); what waits in `to` are the last posts, and the copy `rest` names only
  members and those that were (`Posting`). `NoGapAfterSnapshot` is not inductive: the
  sender may be in the middle of a post, and a connection may be handed over but not
  yet joined. `Listening` says it step by step: what a connection was told is a
  snapshot and then all posts up to the one before the next that is on its way to it
  (`Coming`, which depends on whether the connection is in `rest`), and for a
  connection that still waits in `join` nothing has been posted since its snapshot,
  because the owner waits too.
- The refinement of `ClientLink` rests on `ClientInv` and needs what an `Append` to a
  queue and the `Tail` of one do to the messages of one connection: `RankGrows` to
  `NumbersTail` show that the ranks of positions change as they should. `Origins` adds
  that a message in `from` is of a connection that has joined, so that emptying the
  channel when a client opens again is the abstract loss of messages, and not a loss of
  those of a member.

- The scoring needs no invariant but types (`ScoringTypes`); the work is in the
  operators. Every round of a search that is not the last adds a city, so after as many
  rounds as there are cities the set is closed (`SearchIsClosure`), and what is closed
  around one city is the largest set around it that hangs together
  (`SearchIsComponent`; it uses that a route leads both ways). A maximum of sums over
  such sets is then the maximum over all that hang together, because a larger set does
  not count less (`SumMonotone`). The places are those of an injective sequence of the
  players, which has them all (`RankingPlaces`). The players' shares are a partition
  of the cities or spots somebody has, so their sums add up (`CountByParts`,
  `SumByParts`).
- The composition with a bot (`HansaBotProofs`): every step of it is a step of the
  engine, a panic, or leaves the game as it is (`BotSteps`), and a panic keeps the
  engine's invariants (`PanicKeeps`); so `EngineInv`, all the invariants above together,
  carries over. That a refused request changes nothing is all that is used of a
  refusal: `ENABLED` stands in `Refuses`, which no proof expands.
- The engine counts the bot's pieces and the bot looks at slots. `WhatChanges` says of
  every accepted subaction what it does to the board, to the counts and to the slots;
  from it follows that the slots fit the counts (`SlotInv`: a track is freed from the
  left, which `Valid` asks of the place that the request names, and the number of slots
  with a piece goes up and down with the count), and that the game's table changes as
  `ApplySubaction` changes the bot's (`SameChange`). In the code both are one function;
  in the model the engine has `Lift`, `Drop`, `Shift` and counters, and the proof is
  that they agree.
- `MindInv` is the inductive form of `MindFollows`: the bot's table, with the thought in
  progress taken back and the notifications under way applied to it, is the game's
  table (`InStep`). `Replays` says it with a function from positions in the queue to
  tables. `OnlyThoughtsMislead` has no hypothesis: every step keeps `InStep`, except one
  inside a thought that changes what taking the thought back gives (`Misled`). That
  there is no such step is `TriesUndone`. The run `bots` checks it on its instance;
  `UndoIsExact` says what it comes down to. It cannot be proved for every constant,
  because it is not expected to hold for every one: see below.
- `BurstInv` is the inductive form of `QueuesSuffice`, and of two things the bot's
  code relies on without a check: `AsksInTurn` (while it has requests to make it is
  its move) and `ThinksUpToDate` (it thinks when nothing is under way in either
  direction). That a burst does not block the two goroutines is not inductive by
  itself: if a second notification could call the bot while requests of an earlier
  thought are left, the new burst would be counted and the old requests would still
  be in the queue. `CallsLast` and `BumpsToldOnce` say that the notification which
  calls the bot is the last one under way and finds it idle with nothing left to
  ask; while the bot answers a bump its own moves are notified with the bump still
  in progress, and there `handledBump` must still be set (`AnswersOnce`). Then a
  request leaves the queue for every notification that is added (`BurstCounts`).
  Whose move it is after a step comes from the engine (`Stays`), with `VictimInv`: a
  bump is answered by another player than the one on turn. The theorem assumes
  `BumpsComeLast`, that the payment which hands the move to the bumped player is the
  last request of its burst, as `executePlansUntilBump` has it ("if the plan
  includes a bump it's always the last plan"), and `BotTypeOK`, by which a thought is a
  sequence. The run `bots` checks both; what the recursive planner returns is out of
  the prover's reach.
- `DataLemmas` states induction with a set of the numbers or finite sets for which
  something holds (`NatSet`, `FiniteInduction`), and from it derives that a recursive
  function has a value for each argument (`ChainExists`) and the laws of
  `SumFunctionOnSet`, which do not depend on the order in which it takes the elements.

Only model-checked: all liveness, which is out of TLAPS's reach; of the bots,
`BotTypeOK`, `BotAnswers`, `RequestsAccepted`, `BumpsComeLast` and `TriesUndone`.
`RequestsAccepted` contains `ENABLED`. `MindFollows` in every state needs `TriesUndone`,
and with three moves an action or more two leftover moves can be given one spot
(section 5), which on the bot's table pushes the first piece into the bump zone; a later
try there is not undone exactly. `BotAnswers` speaks of what a whole burst of requests
comes to, each made for a table that the ones before it have changed. What
`ValidBumps` finds is used in the proofs only through the type of its result, and what
`GetBonusRouteCompleted` returns only in `BonusRouteFound`.

## 5. Where the code does not do what it says

Four have a run that shows them.

- **`BumpZoneFree`** (run `bumpzone`). `handleEndTurn` refuses to end a turn while
  a bump is answered or a route is cleared, but not while a bump is being paid
  (`game/game.go` 1596-1603), although the engine tells the player "You must complete
  bump payment" (731). The bumped piece stays in the bump zone. When a third player
  bumps the same spot, `ApplySubaction` finds the zone occupied and panics, which
  its comment says "should be illegal" (`simple/table.go` 108-110), and the
  process stops.
- **`DoneOnlyReleases`** (run `sendclosed`). `Done` "only releases the write
  goroutine" (`client/web.go` 49). It closes the channel to which the sender of the
  merged client, which works on a copy of the list of connections
  (`client/multiweb.go` 89-94), may still be sending; that panics.
- **`LobbyTakesSockets`** (run `lobbyblocked`). A web request should "complete
  quickly" (`server/server.go` 118-121). When a game is over and its channel for
  joins is full, the lobby waits to send one more to it and the game waits for the
  lobby to take its id (`lobby/lobby.go` 156, 214): neither ever goes on.
- **`PlansUndone`** (run `botpanic`). A brain "should always undo everything"
  (`bot/routebrain.go` 419-420). Answering a bump of its disc, the bot asks for a slot
  of its stock once per replacement without taking the piece away in between (1439),
  plans twice with one piece, and undoing the second plan leaves a piece too many;
  "RouteBrain mutated table!" ends the process.

Others were met while modelling. The models have the behaviour, and properties are
stated so as to allow it, but no run is spent on it.

- The piece that `bumpzone` leaves behind can also lie under a route that is now
  full. Clearing the piece above it lets it slide onto the route; nobody but its
  owner may move it (`game/game.go` 1032), so the clearing never ends, and EndTurn
  answers "You must complete clearing the route before ending your turn" (1601) for
  ever.
- "City is not adjacent to the cleared route" (`game/game.go` 1248) is only checked when
  the office is not the first step of the clearing (1241). If it is (1283-1385), any
  city will do.
- A room should go away when nobody is left (`game/game.go` 149-150). It does not when
  everybody left before the game was complete, since the status is looked at before
  `checkStatus` adopts it (218), nor with a bot at the table, which never disconnects.
- `handleEndTurn` does not look at the status (`game/game.go` 1610): an EndTurn after
  the end takes a complete game back to Scoring. `ScoresKept` shows that the scores
  are not announced again.
- A read goroutine that holds a message while the channel to the owner is full, and
  an owner that waits in `Consume` for it to stop, wait for each other for ever
  (`client/multiweb.go` 120). `ConsumeReturns` shows that this is the only case. The
  owner is a game (`game/game.go` 258, 264) or the lobby (`lobby/lobby.go` 149); a lobby
  that waits there takes no socket any more, and a game no join, after which the lobby
  waits to send it one (156). `RegisterEnds` and `JoinSettles` name these cases.
- A request may name a virtual office whose index equals the number of virtual offices
  (`simple/table.go` 270). There are none, and the check of the piece indexes the empty
  list (285); the process stops.
- The messages of the final scores are sent by one timer each (`game/game.go` 1898-1905).
  Nothing orders their goroutines: a score may come after the next one, or after
  completion, when it is still notified and stored. A total that came later than that
  would count as zero.
- A broadcast for one client stops after the first element of the map of clients,
  whichever it is (`lobby/lobby.go` 177), where `server/broadcaster.go` 19 promises it
  to that client.
- Bots. With hardly a piece left no plan for a bumped piece is worth anything, the
  bot leaves it where it is and asks for the end of the bump, which is refused, and
  is never heard of again (`bot/routebrain.go` 1489). A disc on the first spot of the
  Coellen route is taken off first, straight for the Coellen table, which is no way
  to begin a clearing (490; `game/game.go` 1155-1158). An end of the game in the middle
  of the bot's burst leaves it without a request to end its turn. An award route
  cleared by a plan for its points (`bot/routebrain.go` 187-209) leaves the clearing
  open; the end of the turn is refused (`game/game.go` 1600) and the bot is silent
  (`AwardLeft`). When every spot of the other routes is taken, the search for a place
  for its bumped piece panics in the bot as it does in the engine
  (`simple/table.go` 190-192). A refused subaction is only
  logged and never tried again. Leftover moves may choose one spot twice, since the
  targets taken are not remembered (`bot/routebrain.go` 289-329); the second is refused
  ("You can not bump while moving"). The piece that an unpaid bump leaves in a bump zone
  makes a bot panic when it merely tries a bump of that spot (`simple/table.go` 108-110).
  A plan compares the player index of a piece in stock with the id of a route
  (`generatePointsPlan` 781). Game and bot can block each other on their channels of
  ten only after a burst of at least 22 requests.

## 6. Not modelled

- `PlaceBrain` (`bot/placebrain.go`): no running code builds one; its construction in
  `bot/manager.go` is commented out.
- User handler and login database: a request reads or writes one row of a table;
  what can go wrong lies between two goroutines and in the SQL library, whose
  behaviour the source does not show. The two hazards seen there (a check of a name
  and its insertion with something in between; a missing return after an error) are
  in `PROJECT.json`.
- The server front beyond handing over sockets and counting connections, the log,
  messages and their (un)marshalling, configuration and process start: routing and
  I/O without an order of steps that could go wrong, except for logging after `Stop`,
  which only a process already stopping meets.
- The write of a socket has no deadline (`client/web.go` 71): a connection that stops
  reading in the end blocks its owner. The model lets every socket take what is
  written, since the code does nothing about it.
- Browser client, static file server, e-mail and cryptography. Of these only the
  browser's list of unconfirmed subactions (`src/frontend/s/js/game.js` 297) would be
  worth a module: a `ClientView` against the notifications of `HansaGame`.
