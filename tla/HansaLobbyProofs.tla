-------------------------- MODULE HansaLobbyProofs --------------------------
(***************************************************************************)
(* Theorems about HansaLobby, for every number of users, sockets and games *)
(* and every capacity of the channels: the types and the list of games.    *)
(***************************************************************************)
EXTENDS HansaLobby, DataLemmas, FiniteSetTheorems

(***************************************************************************)
(* The invariant. A socket that has been handed over is not new any more,  *)
(* so that it keeps the game it asked for; the games created so far have   *)
(* the first numbers.                                                      *)
(***************************************************************************)
LobbyTypes ==
    /\ place \in [Sockets -> Places]
    /\ gameOf \in [Sockets -> 0..MaxGames]
    /\ join \in Seq(Sockets) /\ Len(join) <= LobbyCap
    /\ gamejoin \in Seq(Sockets) /\ Len(gamejoin) <= LobbyCap
    /\ registering = {} \/ \E s \in Sockets : registering = {s}
    /\ clients \subseteq Users
    /\ asked \subseteq Users
    /\ games \in Seq(GameIds)
    /\ summary \subseteq GameIds
    /\ told \in [Users -> SUBSET GameIds]
    /\ gjoins \in [GameIds -> Seq(Sockets)]
    /\ \A g \in GameIds : Len(gjoins[g]) <= GameCap
    /\ run \in [GameIds -> {"none", "running", "over", "gone"}]
    /\ held \subseteq {0} \cup GameIds

HandedOver ==
    /\ \A i \in DOMAIN gamejoin : place[gamejoin[i]] # "new"
    /\ \A s \in registering : place[s] # "new"

Numbered ==
    \E k \in 0..MaxGames : \A g \in GameIds : run[g] # "none" <=> g <= k

LobbyInv ==
    /\ LobbyTypes
    /\ HandedOver
    /\ Numbered
    /\ ListedGamesRun

LEMMA LobbyInit == Init => LobbyInv
<1> SUFFICES ASSUME Init PROVE LobbyInv
  OBVIOUS
<1>1. LobbyTypes
  BY LobbyAssumption DEF Init, LobbyTypes, Places, GameIds
<1>2. HandedOver
  BY DEF Init, HandedOver
<1>3. Numbered
  <2>1. 0 \in 0..MaxGames /\ \A g \in GameIds : ~ (g <= 0)
    BY LobbyAssumption DEF GameIds
  <2>2. \A g \in GameIds : run[g] = "none"
    BY DEF Init
  <2> QED
    BY <2>1, <2>2 DEF Numbered
<1>4. ListedGamesRun
  BY DEF Init, ListedGamesRun, Range, IsInjective
<1> QED
  BY <1>1, <1>2, <1>3, <1>4 DEF LobbyInv

-----------------------------------------------------------------------------
(* Steps that leave the games alone.                                       *)

\* No socket becomes new.
NoneNew ==
    \A s \in Sockets : place'[s] = "new" => place[s] = "new"

LEMMA GamesKept ==
    ASSUME ListedGamesRun, UNCHANGED <<games, run, registering>>,
           \A s \in registering : gameOf'[s] = gameOf[s]
    PROVE  ListedGamesRun'
BY DEF ListedGamesRun

LEMMA Outsiders ==
    ASSUME LobbyInv, NEW s \in Sockets,
           (\E g \in 0..MaxGames : Open(s, g)) \/ HandleWs(s) \/ Close(s)
    PROVE  LobbyInv'
<1> USE DEF LobbyInv
<1>1. NoneNew
  BY DEF Open, HandleWs, Close, NoneNew, LobbyTypes
<1>2. UNCHANGED <<registering, clients, asked, games, summary, told, gjoins, run, held>>
  BY DEF Open, HandleWs, Close, lobby, rooms
<1>4. \A x \in registering : x \in Sockets
  BY DEF LobbyTypes
<1>5. \A x \in registering : gameOf'[x] = gameOf[x]
  BY <1>4 DEF Open, HandleWs, Close, HandedOver, LobbyTypes
<1>6. ListedGamesRun'
  BY <1>2, <1>5, GamesKept
<1>7. Numbered'
  BY <1>2 DEF Numbered
<1>8. place' \in [Sockets -> Places] /\ gameOf' \in [Sockets -> 0..MaxGames]
  BY DEF Open, HandleWs, Close, LobbyTypes, Places
<1>9. CASE HandleWs(s) /\ gameOf[s] # 0
  <2>1. /\ gamejoin' = Append(gamejoin, s) /\ Len(gamejoin) < LobbyCap
        /\ join' = join /\ place'[s] # "new" /\ gamejoin \in Seq(Sockets)
    BY <1>9 DEF HandleWs, LobbyTypes
  <2>2. /\ gamejoin' \in Seq(Sockets)
        /\ Len(gamejoin') = Len(gamejoin) + 1
        /\ DOMAIN gamejoin' = DOMAIN gamejoin \cup {Len(gamejoin) + 1}
        /\ \A i \in DOMAIN gamejoin : gamejoin'[i] = gamejoin[i] /\ gamejoin[i] \in Sockets
        /\ gamejoin'[Len(gamejoin) + 1] = s
    BY <2>1
  <2>3. HandedOver'
    BY <1>1, <1>2, <1>4, <2>1, <2>2 DEF HandedOver, NoneNew
  <2>4. Len(gamejoin') <= LobbyCap
    BY <2>1, <2>2, LobbyAssumption
  <2>5. LobbyTypes'
    BY <1>2, <1>8, <2>1, <2>2, <2>4 DEF LobbyTypes
  <2> QED
    BY <1>6, <1>7, <2>3, <2>5
<1>10. CASE ~ (HandleWs(s) /\ gameOf[s] # 0)
  <2>1. gamejoin' = gamejoin /\ \A i \in DOMAIN gamejoin : gamejoin[i] \in Sockets
    BY <1>10 DEF Open, HandleWs, Close, LobbyTypes, lobby
  <2>2. HandedOver'
    BY <1>1, <1>2, <1>4, <2>1 DEF HandedOver, NoneNew
  <2>3. join' \in Seq(Sockets) /\ Len(join') <= LobbyCap
    <3>1. join \in Seq(Sockets) /\ Len(join) <= LobbyCap
      BY DEF LobbyTypes
    <3>2. join' = join \/ (join' = Append(join, s) /\ Len(join) < LobbyCap)
      BY DEF Open, HandleWs, Close, lobby
    <3> QED
      BY <3>1, <3>2, LobbyAssumption
  <2>4. LobbyTypes'
    BY <1>2, <1>8, <2>1, <2>3 DEF LobbyTypes
  <2> QED
    BY <1>6, <1>7, <2>2, <2>4
<1> QED
  BY <1>9, <1>10

LEMMA Quiet ==
    ASSUME LobbyInv,
           UNCHANGED <<sockets, join, gamejoin, registering, games, gjoins, run, held>>,
           clients' \subseteq clients,
           asked' \subseteq Users, summary' \subseteq GameIds,
           told' \in [Users -> SUBSET GameIds]
    PROVE  LobbyInv'
<1> USE DEF LobbyInv
<1>1. LobbyTypes'
  BY DEF LobbyTypes, sockets
<1>2. HandedOver' /\ Numbered' /\ ListedGamesRun'
  BY DEF HandedOver, Numbered, ListedGamesRun, sockets
<1> QED
  BY <1>1, <1>2

LEMMA ListedTypes ==
    ASSUME LobbyTypes
    PROVE  Range(games) \subseteq GameIds
BY DEF LobbyTypes, Range

LEMMA QuietSteps ==
    ASSUME LobbyInv,
           \/ \E u \in Users : AskGame(u) \/ LobbyLeave(u)
           \/ LobbyTick
           \/ UNCHANGED vars
    PROVE  LobbyInv'
<1>0. LobbyTypes
  BY DEF LobbyInv
<1>1. CASE \E u \in Users : AskGame(u)
  BY <1>0, <1>1, Quiet DEF AskGame, LobbyTypes, rooms
<1>2. CASE \E u \in Users : LobbyLeave(u)
  BY <1>0, <1>2, Quiet DEF LobbyLeave, LobbyTypes, rooms
<1>3. CASE LobbyTick
  <2>1. summary' \subseteq GameIds
    BY <1>0, <1>3, ListedTypes DEF LobbyTick
  <2>2. told' \in [Users -> SUBSET GameIds]
    BY <1>0, <1>3, <2>1 DEF LobbyTick, LobbyTypes
  <2> QED
    BY <1>0, <1>3, <2>1, <2>2, Quiet DEF LobbyTick, LobbyTypes, rooms
<1>4. CASE UNCHANGED vars
  BY <1>0, <1>4, Quiet DEF vars, lobby, rooms, LobbyTypes
<1> QED
  BY <1>1, <1>2, <1>3, <1>4

-----------------------------------------------------------------------------
(* Steps of the lobby and of the games.                                    *)

LEMMA Joining ==
    ASSUME LobbyInv, LobbyJoin
    PROVE  LobbyInv'
<1> USE DEF LobbyInv
<1> DEFINE s == Head(join)
           u == UserOf[s]
<1>1. join \in Seq(Sockets) /\ join # <<>> /\ join' = Tail(join) /\ Len(join) <= LobbyCap
  BY DEF LobbyJoin, LobbyTypes
<1>2. s \in Sockets /\ join' \in Seq(Sockets) /\ Len(join') <= LobbyCap
  BY <1>1, LobbyAssumption
<1>3. u \in Users
  BY <1>2, LobbyAssumption
<1>4. /\ \/ place' = [place EXCEPT ![s] = "lobby"] /\ held' = held
         \/ place' = place /\ held' = held \cup {0}
      /\ clients' = clients \cup {u}
      /\ told' = [told EXCEPT ![u] = summary]
      /\ UNCHANGED <<gameOf, gamejoin, registering, asked, games, summary, gjoins, run>>
  BY DEF LobbyJoin, Consume, rooms
<1> HIDE DEF s, u
<1>5. LobbyTypes'
  BY <1>2, <1>3, <1>4 DEF LobbyTypes, Places
<1>6. HandedOver'
  <2>1. \A x \in Sockets : place'[x] = "new" => place[x] = "new"
    BY <1>4 DEF LobbyTypes
  <2>2. /\ \A i \in DOMAIN gamejoin : gamejoin[i] \in Sockets
        /\ \A x \in registering : x \in Sockets
    BY DEF LobbyTypes
  <2> QED
    BY <1>4, <2>1, <2>2 DEF HandedOver
<1>7. Numbered' /\ ListedGamesRun'
  BY <1>4 DEF Numbered, ListedGamesRun
<1> QED
  BY <1>5, <1>6, <1>7

LEMMA GameJoining ==
    ASSUME LobbyInv, LobbyGameJoin
    PROVE  LobbyInv'
<1> USE DEF LobbyInv
<1> DEFINE s == Head(gamejoin)
<1>1. /\ gamejoin \in Seq(Sockets) /\ gamejoin # <<>> /\ gamejoin' = Tail(gamejoin)
      /\ Len(gamejoin) <= LobbyCap
  BY DEF LobbyGameJoin, LobbyTypes
<1>2. /\ s \in Sockets /\ gamejoin' \in Seq(Sockets) /\ Len(gamejoin') <= LobbyCap
      /\ s = gamejoin[1] /\ 1 \in DOMAIN gamejoin
      /\ \A i \in DOMAIN gamejoin' : i + 1 \in DOMAIN gamejoin /\ gamejoin'[i] = gamejoin[i + 1]
      /\ \A i \in DOMAIN gamejoin : gamejoin[i] \in Sockets
  BY <1>1, LobbyAssumption
<1>3. /\ registering = {}
      /\ UNCHANGED <<gameOf, join, clients, asked, games, summary, told, gjoins, run, held>>
      /\ \/ gameOf[s] \in Range(games) /\ registering' = {s} /\ place' = place
         \/ registering' = {} /\ place' = [place EXCEPT ![s] = "user"]
  BY DEF LobbyGameJoin, Free, rooms, NotFound
<1> HIDE DEF s
<1>4. LobbyTypes'
  BY <1>2, <1>3 DEF LobbyTypes, Places
<1>5. NoneNew
  BY <1>2, <1>3 DEF NoneNew, LobbyTypes
<1>6. HandedOver'
  BY <1>2, <1>3, <1>5 DEF HandedOver, NoneNew
<1>7. Numbered'
  BY <1>3 DEF Numbered
<1>8. ListedGamesRun'
  BY <1>3 DEF ListedGamesRun
<1> QED
  BY <1>4, <1>6, <1>7, <1>8

LEMMA Registering ==
    ASSUME LobbyInv, NEW s \in Sockets, LobbyRegister(s)
    PROVE  LobbyInv'
<1> USE DEF LobbyInv
<1>1. gameOf[s] \in GameIds
  BY ListedTypes DEF LobbyRegister, ListedGamesRun
<1>2. /\ gjoins' = [gjoins EXCEPT ![gameOf[s]] = Append(@, s)]
      /\ Len(gjoins[gameOf[s]]) < GameCap
      /\ registering' = {}
      /\ UNCHANGED <<place, gameOf, join, gamejoin, clients, asked, games, summary, told, run, held>>
  BY DEF LobbyRegister, Room, sockets
<1>3. gjoins[gameOf[s]] \in Seq(Sockets)
  BY <1>1 DEF LobbyTypes
<1>4. /\ Append(gjoins[gameOf[s]], s) \in Seq(Sockets)
      /\ Len(Append(gjoins[gameOf[s]], s)) <= GameCap
  BY <1>2, <1>3, LobbyAssumption
<1>5. LobbyTypes'
  BY <1>1, <1>2, <1>4 DEF LobbyTypes
<1>6. HandedOver' /\ Numbered' /\ ListedGamesRun'
  BY <1>2 DEF HandedOver, Numbered, ListedGamesRun
<1> QED
  BY <1>5, <1>6

LEMMA Creating ==
    ASSUME LobbyInv, NEW u \in Users, LobbyCreateGame(u)
    PROVE  LobbyInv'
<1> USE DEF LobbyInv
<1> DEFINE made == {h \in GameIds : run[h] # "none"}
           g == Cardinality(made) + 1
<1>1. PICK k \in 0..MaxGames : \A h \in GameIds : run[h] # "none" <=> h <= k
  BY DEF Numbered
<1>2. made = 1..k
  BY <1>1, LobbyAssumption DEF GameIds
<1>3. g = k + 1
  <2>1. k \in Int /\ 1 \in Int
    OBVIOUS
  <2>2. Cardinality(1..k) = IF 1 > k THEN 0 ELSE k - 1 + 1
    BY <2>1, FS_Interval
  <2>3. Cardinality(1..k) = k
    BY <2>2
  <2> QED
    BY <1>2, <2>3
<1>4. /\ registering = {} /\ g \in GameIds
      /\ asked' = asked \ {u}
      /\ games' = <<g>> \o games
      /\ run' = [run EXCEPT ![g] = "running"]
      /\ summary' = Range(games')
      /\ UNCHANGED <<place, gameOf, join, gamejoin, registering, clients, told, gjoins, held>>
  BY DEF LobbyCreateGame, Free, sockets
<1> HIDE DEF made, g
<1>5. run[g] = "none" /\ g \notin Range(games)
  <2>1. run[g] = "none"
    BY <1>1, <1>3, <1>4 DEF GameIds
  <2> QED
    BY <2>1 DEF ListedGamesRun
<1>6. /\ games \in Seq(GameIds) /\ games' \in Seq(GameIds)
      /\ Len(games') = Len(games) + 1
      /\ games'[1] = g
      /\ \A i \in 1..Len(games) : games'[i + 1] = games[i]
  BY <1>4 DEF LobbyTypes
<1>7. /\ DOMAIN games' = 1..(Len(games) + 1) /\ DOMAIN games = 1..Len(games)
      /\ Len(games) \in Nat
      /\ \A i \in DOMAIN games' : i = 1 \/ (i - 1 \in DOMAIN games /\ games'[i] = games[i - 1])
  BY <1>6
<1>8. Range(games') = Range(games) \cup {g}
  <2>1. Range(games') \subseteq Range(games) \cup {g}
    BY <1>6, <1>7 DEF Range
  <2>2. ASSUME NEW i \in DOMAIN games
        PROVE  games[i] \in Range(games')
    <3>1. i + 1 \in DOMAIN games' /\ games'[i + 1] = games[i]
      BY <1>6, <1>7
    <3> QED
      BY <3>1 DEF Range
  <2>3. g \in Range(games')
    BY <1>6, <1>7 DEF Range
  <2> QED
    BY <2>1, <2>2, <2>3 DEF Range
<1>9. IsInjective(games')
  <2>1. \A i \in DOMAIN games : games[i] # g
    BY <1>5 DEF Range
  <2>2. \A i, j \in DOMAIN games : games[i] = games[j] => i = j
    BY DEF ListedGamesRun, IsInjective
  <2>3. ASSUME NEW i \in DOMAIN games', NEW j \in DOMAIN games', games'[i] = games'[j]
        PROVE  i = j
    <3>1. CASE i = 1 \/ j = 1
      BY <1>6, <1>7, <2>1, <2>3, <3>1
    <3>2. CASE i # 1 /\ j # 1
      <4>1. i - 1 = j - 1
        BY <1>7, <2>2, <2>3, <3>2
      <4> QED
        BY <1>7, <4>1
    <3> QED
      BY <3>1, <3>2
  <2> QED
    BY <2>3 DEF IsInjective
<1>10. LobbyTypes'
  <2>1. summary' \subseteq GameIds
    BY <1>4, <1>8, ListedTypes
  <2> QED
    BY <1>4, <1>6, <2>1 DEF LobbyTypes
<1>11. Numbered'
  <2>1. k + 1 \in 0..MaxGames
    BY <1>3, <1>4, LobbyAssumption DEF GameIds
  <2>2. ASSUME NEW h \in GameIds
        PROVE  run'[h] # "none" <=> h <= k + 1
    BY <1>1, <1>3, <1>4 DEF LobbyTypes, GameIds
  <2> QED
    BY <2>1, <2>2 DEF Numbered
<1>12. ListedGamesRun'
  <2> DEFINE L == {h \in GameIds : run[h] \in {"running", "over"}}
             M == {h \in GameIds : run'[h] \in {"running", "over"}}
  <2>1. Range(games') = M
    <3>1. Range(games) = L
      BY DEF ListedGamesRun
    <3>2. g \in GameIds /\ run' = [run EXCEPT ![g] = "running"] /\ run \in [GameIds -> {"none", "running", "over", "gone"}]
      BY <1>4 DEF LobbyTypes
    <3>3. M = L \cup {g}
      BY <3>2
    <3> HIDE DEF L, M
    <3> QED
      BY <1>8, <3>1, <3>3
  <2> QED
    BY <1>4, <1>9, <2>1 DEF ListedGamesRun
<1>13. HandedOver'
  BY <1>4 DEF HandedOver
<1> QED
  BY <1>10, <1>11, <1>12, <1>13

LEMMA CleaningUp ==
    ASSUME LobbyInv, NEW g \in GameIds, LobbyCleanup(g)
    PROVE  LobbyInv'
<1> USE DEF LobbyInv
<1>1. /\ registering = {} /\ run[g] = "over"
      /\ run' = [run EXCEPT ![g] = "gone"]
      /\ games' = RemoveFirst(games, g)
      /\ UNCHANGED <<place, gameOf, join, gamejoin, registering, clients, asked, summary, told, gjoins, held>>
  BY DEF LobbyCleanup, Free, Without, sockets
<1>2. games \in Seq(GameIds) /\ IsInjective(games) /\ g \in Range(games)
  BY <1>1 DEF ListedGamesRun, LobbyTypes
<1>3. /\ games' \in Seq(GameIds) /\ IsInjective(games')
      /\ Range(games') = Range(games) \ {g}
  BY <1>1, <1>2, RemovedFirst
<1>4. LobbyTypes'
  BY <1>1, <1>3 DEF LobbyTypes
<1>5. Numbered'
  BY <1>1 DEF Numbered, LobbyTypes
<1>6. ListedGamesRun'
  <2>1. Range(games') = {h \in GameIds : run'[h] \in {"running", "over"}}
    BY <1>1, <1>3 DEF ListedGamesRun, LobbyTypes
  <2> QED
    BY <1>1, <1>3, <2>1 DEF ListedGamesRun
<1>7. HandedOver'
  BY <1>1 DEF HandedOver
<1> QED
  BY <1>4, <1>5, <1>6, <1>7

LEMMA Gaming ==
    ASSUME LobbyInv, NEW g \in GameIds, GameJoin(g) \/ GameOver(g)
    PROVE  LobbyInv'
<1> USE DEF LobbyInv
<1>1. CASE GameJoin(g)
  <2> DEFINE s == Head(gjoins[g])
  <2>1. gjoins[g] \in Seq(Sockets) /\ gjoins[g] # <<>> /\ Len(gjoins[g]) <= GameCap
    BY <1>1 DEF GameJoin, LobbyTypes
  <2>2. s \in Sockets /\ Tail(gjoins[g]) \in Seq(Sockets) /\ Len(Tail(gjoins[g])) <= GameCap
    BY <2>1, LobbyAssumption
  <2>3. /\ gjoins' = [gjoins EXCEPT ![g] = Tail(@)]
        /\ \/ place' = [place EXCEPT ![s] = "game"] /\ held' = held
           \/ place' = place /\ held' = held \cup {g}
        /\ UNCHANGED <<gameOf, join, gamejoin, registering, clients, asked, games, summary, told, run>>
    BY <1>1 DEF GameJoin, Consume, lobby
  <2> HIDE DEF s
  <2>4. LobbyTypes'
    BY <2>2, <2>3 DEF LobbyTypes, Places
  <2>5. NoneNew
    BY <2>2, <2>3 DEF NoneNew, LobbyTypes
  <2>6. HandedOver'
    <3>1. /\ \A i \in DOMAIN gamejoin : gamejoin[i] \in Sockets
          /\ \A x \in registering : x \in Sockets
      BY DEF LobbyTypes
    <3> QED
      BY <2>3, <2>5, <3>1 DEF HandedOver, NoneNew
  <2>7. Numbered' /\ ListedGamesRun'
    BY <2>3 DEF Numbered, ListedGamesRun
  <2> QED
    BY <2>4, <2>6, <2>7
<1>2. CASE GameOver(g)
  <2>1. /\ run[g] = "running" /\ run' = [run EXCEPT ![g] = "over"]
        /\ UNCHANGED <<place, gameOf, join, gamejoin, registering, clients, asked, games, summary, told, gjoins, held>>
    BY <1>2 DEF GameOver, sockets, lobby
  <2>2. LobbyTypes' /\ Numbered'
    BY <2>1 DEF LobbyTypes, Numbered
  <2>3. ListedGamesRun'
    BY <2>1 DEF ListedGamesRun, LobbyTypes
  <2>4. HandedOver'
    BY <2>1 DEF HandedOver
  <2> QED
    BY <2>2, <2>3, <2>4
<1> QED
  BY <1>1, <1>2

LEMMA LobbyStep ==
    ASSUME LobbyInv, [Next]_vars
    PROVE  LobbyInv'
<1>1. \/ \E s \in Sockets : (\E g \in 0..MaxGames : Open(s, g)) \/ HandleWs(s) \/ Close(s)
      \/ \E s \in Sockets : LobbyRegister(s)
      \/ \E u \in Users : LobbyCreateGame(u)
      \/ LobbyJoin \/ LobbyGameJoin
      \/ \E g \in GameIds : LobbyCleanup(g)
      \/ \E g \in GameIds : GameJoin(g) \/ GameOver(g)
      \/ \/ \E u \in Users : AskGame(u) \/ LobbyLeave(u)
         \/ LobbyTick
         \/ UNCHANGED vars
  BY Zenon DEF Next
<1> QED
  BY <1>1, Outsiders, Registering, Creating, Joining, GameJoining, CleaningUp, Gaming, QuietSteps

LEMMA LobbyAlways == Spec => []LobbyInv
BY LobbyInit, LobbyStep, PTL DEF Spec

-----------------------------------------------------------------------------
(* The theorems.                                                           *)

\* The lobby's channels never hold more than they can, it sends at most one socket
\* at a time, and everything keeps its type (Run, handleGameJoin, Register).
THEOREM LobbyTypeCorrect == Spec => []TypeOK
<1>1. LobbyInv => TypeOK
  <2> SUFFICES ASSUME LobbyTypes PROVE TypeOK
    BY DEF LobbyInv
  <2>1. registering \subseteq Sockets /\ Cardinality(registering) <= 1
    <3>1. CASE registering = {}
      <4>1. Cardinality(registering) = 0
        BY <3>1, FS_EmptySet
      <4> QED
        BY <3>1, <4>1
    <3>2. ASSUME NEW s \in Sockets, registering = {s}
          PROVE  registering \subseteq Sockets /\ Cardinality(registering) <= 1
      <4>1. Cardinality(registering) = 1
        BY <3>2, FS_Singleton
      <4> QED
        BY <3>2, <4>1
    <3> QED
      BY <3>1, <3>2 DEF LobbyTypes
  <2> QED
    BY <2>1 DEF LobbyTypes, TypeOK
<1> QED
  BY <1>1, LobbyAlways, PTL

\* With any number of games, whenever they begin and end, the lobby lists exactly
\* those whose goroutine has not ended, each once, and waits to send a socket only
\* to a listed one (handleCreateGame, handleCleanup, handleGameJoin).
THEOREM ListedAreRunning == Spec => []ListedGamesRun
<1>1. LobbyInv => ListedGamesRun
  BY DEF LobbyInv
<1> QED
  BY <1>1, LobbyAlways, PTL

=============================================================================
