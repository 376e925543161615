----------------------------- MODULE HansaLobby -----------------------------
(***************************************************************************)
(* The lobby (lobby/lobby.go), the games it runs and the goroutines that   *)
(* hand it new sockets (server/server.go), as processes over channels.     *)
(*                                                                         *)
(* A game is reduced to what the lobby sees of it: it takes joins from its *)
(* channel, its loop ends at some time when nobody is in it, and its       *)
(* goroutine then waits until the lobby takes its id from cleanupGames.    *)
(* HansaRoom says when the loop ends. The user handler takes the sockets   *)
(* that ask for a game that does not exist.                                *)
(*                                                                         *)
(* A further socket of a user is handed to the client he has there with    *)
(* Consume, which may never return: MultiClient says when (ConsumeReturns).*)
(* Here it may happen at any such socket; the goroutine then does nothing  *)
(* more. A panic (MultiClient's DoneOnlyReleases) would end all goroutines *)
(* at once and is left out.                                                *)
(***************************************************************************)
EXTENDS Naturals, Sequences, FiniteSets, Functions, SequencesExt

CONSTANTS
    Users,          \* identities
    Sockets,        \* web sockets, each opened once
    UserOf,         \* the identity of a socket
    MaxGames,       \* bound: games created
    LobbyCap,       \* capacity of join and gamejoin, 10 in the code
    GameCap         \* capacity of a game's joins, 2 in the code

ASSUME LobbyAssumption ==
    /\ UserOf \in [Sockets -> Users]
    /\ MaxGames \in Nat
    /\ LobbyCap \in Nat \ {0}
    /\ GameCap \in Nat \ {0}

VARIABLES
    place,          \* where each socket is
    gameOf,         \* the game a socket asked for, 0 for the lobby
    join,           \* channel join
    gamejoin,       \* channel gamejoin
    registering,    \* the socket the lobby is sending to a game, or none
    clients,        \* keys of the lobby's clients
    asked,          \* users whose CreateGame waits to be read
    games,          \* games, the newest first
    summary,        \* the games in the last summary
    told,           \* the games in the last summary sent to each user
    gjoins,         \* channel joins of each game
    run,            \* the goroutine of each game
    held            \* who waits in Consume for ever: games, and 0 for the lobby

sockets == <<place, gameOf>>
lobby == <<join, gamejoin, registering, clients, asked, games, summary, told>>
rooms == <<gjoins, run>>
vars == <<sockets, lobby, rooms, held>>

GameIds == 1..MaxGames

Places == {"new", "handler", "queued", "lobby", "game", "user", "closed"}

InLobby(u) == {s \in Sockets : UserOf[s] = u /\ place[s] = "lobby"}
InGame(g) == {s \in Sockets : place[s] = "game" /\ gameOf[s] = g}

Init ==
    /\ place = [s \in Sockets |-> "new"]
    /\ gameOf = [s \in Sockets |-> 0]
    /\ join = <<>>
    /\ gamejoin = <<>>
    /\ registering = {}
    /\ clients = {}
    /\ asked = {}
    /\ games = <<>>
    /\ summary = {}
    /\ told = [u \in Users |-> {}]
    /\ gjoins = [g \in GameIds |-> <<>>]
    /\ run = [g \in GameIds |-> "none"]
    /\ held = {}

----------------------------------------------------------------------------
(***************************************************************************)
(* Users and the goroutines of their requests.                             *)
(***************************************************************************)

\* A socket is opened for the lobby (0) or for a game, which need not exist.
Open(s, g) ==
    /\ place[s] = "new"
    /\ place' = [place EXCEPT ![s] = "handler"]
    /\ gameOf' = [gameOf EXCEPT ![s] = g]
    /\ UNCHANGED <<lobby, rooms, held>>

\* handleLobby and handleGame: the socket is put into the lobby's channel, which
\* may have to be waited for.
HandleWs(s) ==
    /\ place[s] = "handler"
    /\ place' = [place EXCEPT ![s] = "queued"]
    /\ IF gameOf[s] = 0
         THEN /\ Len(join) < LobbyCap
              /\ join' = Append(join, s)
              /\ UNCHANGED gamejoin
         ELSE /\ Len(gamejoin) < LobbyCap
              /\ gamejoin' = Append(gamejoin, s)
              /\ UNCHANGED join
    /\ UNCHANGED <<gameOf, registering, clients, asked, games, summary, told, rooms, held>>

Close(s) ==
    /\ place[s] \in {"lobby", "game", "user"}
    /\ place' = [place EXCEPT ![s] = "closed"]
    /\ UNCHANGED <<gameOf, lobby, rooms, held>>

AskGame(u) ==
    /\ InLobby(u) # {}
    /\ u \notin asked
    /\ asked' = asked \cup {u}
    /\ UNCHANGED <<sockets, join, gamejoin, registering, clients, games, summary, told>>
    /\ UNCHANGED <<rooms, held>>

----------------------------------------------------------------------------
(***************************************************************************)
(* The goroutine of the lobby, which handles one message after the other.  *)
(***************************************************************************)
Free == registering = {} /\ 0 \notin held

\* Goroutine g hands over socket s: s gets to place p or, where its user has a
\* client (known), g may wait for ever.
Consume(s, g, p, known) ==
    \/ place' = [place EXCEPT ![s] = p] /\ UNCHANGED held
    \/ known /\ held' = held \cup {g} /\ UNCHANGED place

\* handleJoin: the socket is sent the summary before it is handed over.
LobbyJoin ==
    LET s == Head(join)
        u == UserOf[s]
    IN /\ Free
       /\ join # <<>>
       /\ join' = Tail(join)
       /\ Consume(s, 0, "lobby", u \in clients)
       /\ clients' = clients \cup {u}
       /\ told' = [told EXCEPT ![u] = summary]
       /\ UNCHANGED <<gameOf, gamejoin, registering, asked, games, summary, rooms>>

\* Mutant of NotFound: the socket is dropped.
NotFoundDropped == "queued"

\* Where a socket goes whose game is not in the list.
NotFound == "user"

\* handleGameJoin: a known game is sent the socket, another one is left to the
\* user handler.
LobbyGameJoin ==
    LET s == Head(gamejoin)
    IN /\ Free
       /\ gamejoin # <<>>
       /\ gamejoin' = Tail(gamejoin)
       /\ IF gameOf[s] \in Range(games)
            THEN registering' = {s} /\ UNCHANGED place
            ELSE place' = [place EXCEPT ![s] = NotFound] /\ UNCHANGED registering
       /\ UNCHANGED <<gameOf, join, clients, asked, games, summary, told, rooms, held>>

\* Mutant of Room: one socket more than the channel takes.
RoomOver(g) == Len(gjoins[g]) <= GameCap

\* Mutant of Room: a channel without a buffer, as cleanupGames is.
RoomRunning(g) == gjoins[g] = <<>> /\ run[g] = "running"

Room(g) == Len(gjoins[g]) < GameCap

\* Register, which waits while the channel of the game is full.
LobbyRegister(s) ==
    /\ s \in registering
    /\ Room(gameOf[s])
    /\ gjoins' = [gjoins EXCEPT ![gameOf[s]] = Append(@, s)]
    /\ registering' = {}
    /\ UNCHANGED <<sockets, join, gamejoin, clients, asked, games, summary, told, run, held>>

Left(u) == InLobby(u) = {}

\* handleLeave: the last socket of a client is gone.
LobbyLeave(u) ==
    /\ Free
    /\ u \in clients
    /\ Left(u)
    /\ u \notin asked
    /\ clients' = clients \ {u}
    /\ UNCHANGED <<sockets, join, gamejoin, registering, asked, games, summary, told>>
    /\ UNCHANGED <<rooms, held>>

\* handleTick
LobbyTick ==
    /\ Free
    /\ summary' = Range(games)
    /\ told' = [u \in Users |-> IF u \in clients THEN summary' ELSE told[u]]
    /\ UNCHANGED <<sockets, join, gamejoin, registering, clients, asked, games>>
    /\ UNCHANGED <<rooms, held>>

\* handleCreateGame: the game starts to run before the lobby goes on.
LobbyCreateGame(u) ==
    LET g == Cardinality({h \in GameIds : run[h] # "none"}) + 1
    IN /\ Free
       /\ u \in clients \cap asked
       /\ g \in GameIds
       /\ asked' = asked \ {u}
       /\ games' = <<g>> \o games
       /\ run' = [run EXCEPT ![g] = "running"]
       /\ summary' = Range(games')
       /\ UNCHANGED <<sockets, join, gamejoin, registering, clients, told, gjoins, held>>

\* Mutant of Without: the game stays in the list.
WithoutNone(g) == games

\* The games without g, which is taken out where it is found first.
Without(g) == RemoveFirst(games, g)

\* handleCleanup: the lobby takes the id of a game that is over, over a channel
\* without a buffer.
LobbyCleanup(g) ==
    /\ Free
    /\ run[g] = "over"
    /\ run' = [run EXCEPT ![g] = "gone"]
    /\ games' = Without(g)
    /\ UNCHANGED <<sockets, join, gamejoin, registering, clients, asked, summary, told>>
    /\ UNCHANGED <<gjoins, held>>

----------------------------------------------------------------------------
(***************************************************************************)
(* The goroutines of the games.                                            *)
(***************************************************************************)
\* The user of socket s has a client in the game: another socket of his got in.
\* (The game keeps the client of a player whose sockets are all gone.)
Consumes(s) ==
    \E t \in Sockets \ {s} :
       UserOf[t] = UserOf[s] /\ gameOf[t] = gameOf[s] /\ place[t] \in {"game", "closed"}

\* handleJoin of the game.
GameJoin(g) ==
    LET s == Head(gjoins[g])
    IN /\ run[g] = "running"
       /\ g \notin held
       /\ gjoins[g] # <<>>
       /\ gjoins' = [gjoins EXCEPT ![g] = Tail(@)]
       /\ Consume(s, g, "game", Consumes(s))
       /\ UNCHANGED <<gameOf, lobby, run>>

\* The loop of Run ends, which it does only when nobody is in the game. Sockets
\* may be waiting in joins.
GameOver(g) ==
    /\ run[g] = "running"
    /\ g \notin held
    /\ InGame(g) = {}
    /\ run' = [run EXCEPT ![g] = "over"]
    /\ UNCHANGED <<sockets, lobby, gjoins, held>>

Next ==
    \/ \E s \in Sockets :
         \/ \E g \in 0..MaxGames : Open(s, g)
         \/ HandleWs(s) \/ Close(s) \/ LobbyRegister(s)
    \/ \E u \in Users :
         AskGame(u) \/ LobbyLeave(u) \/ LobbyCreateGame(u)
    \/ LobbyJoin \/ LobbyGameJoin \/ LobbyTick
    \/ \E g \in GameIds : LobbyCleanup(g) \/ GameJoin(g) \/ GameOver(g)

(***************************************************************************)
(* The lobby and the games run; their select statements pick at random     *)
(* among what is ready. The goroutines of requests send when they can, the *)
(* ticker ticks. Nothing makes users act or games end. (Each socket is     *)
(* opened once, so fairness to the requests as a whole reaches them all.)  *)
(***************************************************************************)
Fairness ==
    /\ SF_vars(\E s \in Sockets : HandleWs(s))
    /\ WF_vars(\E s \in Sockets : LobbyRegister(s))
    /\ SF_vars(LobbyJoin) /\ SF_vars(LobbyGameJoin) /\ SF_vars(LobbyTick)
    /\ \A g \in GameIds : SF_vars(LobbyCleanup(g)) /\ WF_vars(GameJoin(g))

Spec == Init /\ [][Next]_vars

FairSpec == Spec /\ Fairness

----------------------------------------------------------------------------
(***************************************************************************)
(* Properties.                                                             *)
(***************************************************************************)

\* Every variable has its type; the channels keep to their capacity.
TypeOK ==
    /\ place \in [Sockets -> Places]
    /\ gameOf \in [Sockets -> 0..MaxGames]
    /\ join \in Seq(Sockets) /\ Len(join) <= LobbyCap
    /\ gamejoin \in Seq(Sockets) /\ Len(gamejoin) <= LobbyCap
    /\ registering \subseteq Sockets /\ Cardinality(registering) <= 1
    /\ clients \subseteq Users
    /\ asked \subseteq Users
    /\ games \in Seq(GameIds)
    /\ summary \subseteq GameIds
    /\ told \in [Users -> SUBSET GameIds]
    /\ \A g \in GameIds : gjoins[g] \in Seq(Sockets) /\ Len(gjoins[g]) <= GameCap
    /\ run \in [GameIds -> {"none", "running", "over", "gone"}]
    /\ held \subseteq {0} \cup GameIds

\* The lobby's list holds exactly the games whose goroutine has not ended, each
\* once, and the lobby never waits to send a socket to one that has: nothing
\* would ever receive it (handleCreateGame, handleCleanup, handleGameJoin).
ListedGamesRun ==
    /\ Range(games) = {g \in GameIds : run[g] \in {"running", "over"}}
    /\ IsInjective(games)
    /\ \A s \in registering : gameOf[s] \in Range(games)

\* Game g reads no more sockets: its goroutine is past the loop or waits in Consume.
Deaf(g) == run[g] = "over" \/ g \in held

\* The lobby does nothing more. It waits in Consume, or it waits to send a socket to
\* a game whose channel is full and that reads no more: a game that is over waits
\* in turn for the lobby.
Blocked ==
    \/ 0 \in held
    \/ \E s \in registering :
         Deaf(gameOf[s]) /\ Len(gjoins[gameOf[s]]) = GameCap

\* Sending a socket to a game holds up the lobby for ever in no other case. (That a
\* game that runs takes the next socket rests on its Consume returning: where it
\* does not, the game is in held.)
RegisterEnds == (registering # {}) ~> (registering = {} \/ Blocked)

\* A socket that asks for the lobby or for a game gets into the one or the other
\* or to the user handler, unless the game ends first, the game or the lobby waits
\* in Consume for ever, or the lobby is blocked by a game.
JoinSettles ==
    \A s \in Sockets :
      (place[s] = "handler")
        ~> \/ place[s] \in {"lobby", "game", "user", "closed"}
           \/ gameOf[s] \in GameIds /\ (Deaf(gameOf[s]) \/ run[gameOf[s]] = "gone")
           \/ Blocked

\* The comment of handleWs (server.go 118-121): its goroutine registers the socket
\* in some other component, "but then complete[s] quickly". It fails: when the lobby
\* sends one socket more to a game that is over than its channel takes, lobby and
\* game wait for each other, and no socket gets into the lobby any more. (It fails
\* though every Consume returns, which is the last disjunct.)
LobbyTakesSockets ==
    \A s \in Sockets :
      (place[s] = "handler" /\ gameOf[s] = 0) ~> (place[s] \in {"lobby", "closed"} \/ held # {})

=============================================================================
