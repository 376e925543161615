-------------------------- MODULE HansaRoomProofs --------------------------
(***************************************************************************)
(* Theorems about HansaRoom, for every number of people, bots, seats and   *)
(* scores: seats, players and observers; who is read from; when the room   *)
(* goes away; and the final scores.                                        *)
(***************************************************************************)
EXTENDS HansaRoom, FiniteSetTheorems, FunctionTheorems, TLAPS

(***************************************************************************)
(* Types, without the bounds.                                              *)
(***************************************************************************)
RoomTypes ==
    /\ status \in Statuses
    /\ seat \in [Seats -> Ids \cup {NoOne}]
    /\ players \in Seq(Ids)
    /\ observers \subseteq Users
    /\ disconnects \subseteq DOMAIN players
    /\ joins \in Seq(Users)
    /\ conns \in [Users -> Nat]
    /\ inbox \in [Ids -> Seq(Requests)]

\* Before the start there are no players.
NotStarted == status = "Creating" => players = <<>>

LEMMA InitTypes == Init => RoomTypes /\ NotStarted
BY RoomAssumption DEF Init, RoomTypes, NotStarted, Statuses, Ids

LEMMA AskedType ==
    ASSUME RoomTypes, NEW id \in Ids, Receive(id)
    PROVE  /\ Asked(id) \in Requests
           /\ inbox' \in [Ids -> Seq(Requests)]
           /\ Asked(id).kind \in {"Sit", "Stand"} => Asked(id).seat \in Seats
           /\ Asked(id).kind \in {"SitBot", "StandBot"} =>
                Asked(id).seat \in Seats /\ Asked(id).bot \in Bots
<1>1. inbox[id] \in Seq(Requests) /\ inbox[id] # <<>>
  BY DEF RoomTypes, Receive
<1>2. Asked(id) \in Requests
  BY <1>1 DEF Asked
<1>3. Tail(inbox[id]) \in Seq(Requests)
  BY <1>1
<1>4. inbox' \in [Ids -> Seq(Requests)]
  BY <1>3 DEF Receive, RoomTypes
<1> QED
  BY <1>2, <1>4 DEF Requests

\* The players when the game starts: one for every seat that is taken.
\* Nobody has two of the player boards.
OneSeat ==
    \A s, t \in Seats : seat[s] = seat[t] /\ s # t => seat[s] = NoOne

LEMMA StartPlayers ==
    ASSUME RoomTypes, OneSeat, NEW u \in Users, HandleStartGame(u)
    PROVE  /\ players' \in Seq(Ids)
           /\ Range(players') = {seat[s] : s \in Occupied}
           /\ Len(players') = Cardinality(Occupied)
           /\ DOMAIN players' = 1..Cardinality(Occupied)
<1> DEFINE n == Cardinality(Occupied)
<1>1. IsFiniteSet(Occupied)
  BY RoomAssumption, FS_Subset DEF Occupied
<1>2. n \in Nat
  BY <1>1, FS_CardinalityType
<1>3. PICK order \in Injection(1..n, Occupied) :
        players' = [i \in 1..n |-> seat[order[i]]]
  BY DEF HandleStartGame
<1>4. IsFiniteSet(1..n) /\ Cardinality(1..n) = n
  BY <1>2, FS_Interval
<1>5. order \in Surjection(1..n, Occupied)
  BY <1>1, <1>2, <1>3, <1>4, FS_Injection
<1>6. /\ order \in [1..n -> Occupied]
      /\ \A s \in Occupied : \E i \in 1..n : order[i] = s
  BY <1>5 DEF Surjection
<1>7. \A s \in Occupied : seat[s] \in Ids
  BY DEF Occupied, RoomTypes
<1>8. players' \in [1..n -> Ids]
  BY <1>3, <1>6, <1>7
<1>9. players' \in Seq(Ids) /\ DOMAIN players' = 1..n /\ Len(players') = n
  <2>1. players' \in Seq(Ids)
    BY <1>2, <1>8
  <2> QED
    BY <1>2, <1>8, <2>1
<1>10. Range(players') = {seat[s] : s \in Occupied}
  BY <1>3, <1>6, <1>9 DEF Range
<1> QED
  BY <1>9, <1>10

(***************************************************************************)
(* What a step does to the part of the state the properties are about.     *)
(***************************************************************************)

\* The goroutines outside the room.
Outside ==
    \/ \E u \in Users : Register(u) \/ Disconnect(u) \/ \E m \in Requests : Request(u, m)
    \/ \E b \in Bots, m \in BotRequests : BotRequest(b, m)

\* A message that leaves seats, players and observers alone.
Plays(id) == HandleDoSubaction(id) \/ HandleEndTurn(id) \/ Refuse(id)

\* Somebody sits down or stands up, or a bot does.
Reseats(u) == HandleRequestSitdown(u) \/ HandleRequestSitdownBot(u)

LEMMA NextSplit ==
    ASSUME Next
    PROVE  \/ Outside
           \/ HandleJoin
           \/ \E u \in Users : HandleClosed(u)
           \/ \E u \in Users : Reseats(u) \/ HandleStartGame(u)
           \/ \E id \in Ids : Plays(id)
           \/ HandleScoring
BY Zenon DEF Next, Outside, Plays, Reseats, HandleMessage, Ids

LEMMA OutsideTypes ==
    ASSUME RoomTypes, Outside
    PROVE  /\ UNCHANGED <<room, scoring, gone>>
           /\ joins' \in Seq(Users)
           /\ conns' \in [Users -> Nat]
           /\ inbox' \in [Ids -> Seq(Requests)]
           /\ \A u \in Users : conns'[u] > 0 => conns[u] > 0
<1>1. CASE \E u \in Users : Register(u)
  BY <1>1 DEF Register, RoomTypes
<1>2. CASE \E u \in Users : Disconnect(u)
  BY <1>2 DEF Disconnect, Connected, RoomTypes
<1>3. CASE \E u \in Users, m \in Requests : Request(u, m)
  <2>1. PICK u \in Users, m \in Requests : Request(u, m)
    BY <1>3
  <2>2. u \in Ids
    BY DEF Ids
  <2>3. Append(inbox[u], m) \in Seq(Requests)
    BY <2>2 DEF RoomTypes
  <2> QED
    BY <2>1, <2>2, <2>3 DEF Request, RoomTypes
<1>4. CASE \E b \in Bots, m \in BotRequests : BotRequest(b, m)
  <2>1. PICK b \in Bots, m \in BotRequests : BotRequest(b, m)
    BY <1>4
  <2>2. b \in Ids /\ m \in Requests
    BY DEF Ids, Requests, BotRequests
  <2>3. Append(inbox[b], m) \in Seq(Requests)
    BY <2>2 DEF RoomTypes
  <2> QED
    BY <2>1, <2>2, <2>3 DEF BotRequest, RoomTypes
<1> QED
  BY <1>1, <1>2, <1>3, <1>4 DEF Outside

LEMMA ReseatTypes ==
    ASSUME RoomTypes, NEW u \in Users, Reseats(u)
    PROVE  /\ UNCHANGED <<status, players, observers, disconnects, joins, conns, scoring>>
           /\ status = "Creating"
           /\ inbox' \in [Ids -> Seq(Requests)]
           /\ \E id \in Ids, s \in Seats : TakeSeat(id, s) \/ LeaveSeat(id, s)
<1>1. Receive(u) /\ u \in Ids
  BY DEF Reseats, HandleRequestSitdown, HandleRequestSitdownBot, Ids
<1>2. /\ inbox' \in [Ids -> Seq(Requests)]
      /\ Asked(u).kind \in {"Sit", "Stand"} => Asked(u).seat \in Seats
      /\ Asked(u).kind \in {"SitBot", "StandBot"} =>
           Asked(u).seat \in Seats /\ Asked(u).bot \in Bots
  BY <1>1, AskedType
<1>3. \E id \in Ids, s \in Seats : TakeSeat(id, s) \/ LeaveSeat(id, s)
  <2>1. CASE HandleRequestSitdown(u)
    BY <1>1, <1>2, <2>1 DEF HandleRequestSitdown
  <2>2. CASE HandleRequestSitdownBot(u)
    BY <1>2, <2>2 DEF HandleRequestSitdownBot, Ids
  <2> QED
    BY <2>1, <2>2 DEF Reseats
<1>4. status = "Creating"
  BY <1>3 DEF TakeSeat, LeaveSeat, MaySit, MayStand
<1>5. UNCHANGED <<status, players, observers, disconnects, joins, conns, scoring>>
  BY DEF Reseats, HandleRequestSitdown, HandleRequestSitdownBot, SeatsOnly, Receive
<1> QED
  BY <1>2, <1>3, <1>4, <1>5

LEMMA PlayTypes ==
    ASSUME RoomTypes, NotStarted, NEW id \in Ids, Plays(id)
    PROVE  /\ UNCHANGED <<seat, players, observers, disconnects, joins, conns>>
           /\ inbox' \in [Ids -> Seq(Requests)]
           /\ status' \in {status, "Scoring"}
           /\ status = "Creating" => status' = "Creating"
<1>1. Receive(id)
  BY DEF Plays, HandleDoSubaction, HandleEndTurn, Refuse
<1>2. inbox' \in [Ids -> Seq(Requests)]
  BY <1>1, AskedType
<1>3. CASE HandleDoSubaction(id)
  BY <1>1, <1>2, <1>3 DEF HandleDoSubaction, Receive
<1>4. CASE HandleEndTurn(id)
  <2>1. Index(id) # {}
    BY <1>4 DEF HandleEndTurn
  <2>2. status # "Creating"
    BY <2>1 DEF Index, NotStarted
  <2>3. UNCHANGED <<seat, players, observers, disconnects, joins, conns>>
    BY <1>4 DEF HandleEndTurn, Receive
  <2>4. status' \in {status, "Scoring"}
    BY <1>4 DEF HandleEndTurn
  <2> QED
    BY <1>2, <2>2, <2>3, <2>4
<1>5. CASE Refuse(id)
  BY <1>1, <1>2, <1>5 DEF Refuse, Receive, room
<1> QED
  BY <1>3, <1>4, <1>5 DEF Plays

(***************************************************************************)
(* The invariant of seats and presence.                                    *)
(***************************************************************************)

\* The room has gone away only when nobody was left to read from.
GoneEmpty == gone => observers = {} /\ \A i \in DOMAIN players : i \in disconnects

RoomInv ==
    /\ RoomTypes
    /\ NotStarted
    /\ OneSeat
    /\ PlayersSettled
    /\ ConnectedMeansHeard
    /\ GoneEmpty

LEMMA RoomInit == Init => RoomInv
<1> SUFFICES ASSUME Init PROVE RoomInv
  OBVIOUS
<1>1. RoomTypes /\ NotStarted
  BY InitTypes
<1> QED
  BY <1>1 DEF Init, RoomInv, OneSeat, PlayersSettled, ConnectedMeansHeard, Connected, GoneEmpty

LEMMA RoomOutside ==
    ASSUME RoomInv, Outside
    PROVE  RoomInv'
<1>1. RoomTypes
  BY DEF RoomInv
<1>2. /\ UNCHANGED <<room, scoring, gone>>
      /\ joins' \in Seq(Users)
      /\ conns' \in [Users -> Nat]
      /\ inbox' \in [Ids -> Seq(Requests)]
      /\ \A u \in Users : conns'[u] > 0 => conns[u] > 0
  BY <1>1, OutsideTypes
<1>3. RoomTypes' /\ NotStarted'
  BY <1>1, <1>2 DEF RoomInv, RoomTypes, NotStarted, room
<1>4. OneSeat' /\ PlayersSettled' /\ GoneEmpty'
  BY <1>2 DEF RoomInv, OneSeat, PlayersSettled, GoneEmpty, Occupied, room
<1>5. ConnectedMeansHeard'
  BY <1>2 DEF RoomInv, ConnectedMeansHeard, Connected, Heard, Index, room
<1> QED
  BY <1>3, <1>4, <1>5 DEF RoomInv

LEMMA RoomJoin ==
    ASSUME RoomInv, HandleJoin
    PROVE  RoomInv'
<1> DEFINE u == Head(joins)
           sits == u \notin observers /\ Index(u) # {}
<1>1. RoomTypes /\ NotStarted /\ PlayersSettled /\ ConnectedMeansHeard
  BY DEF RoomInv
<1>2. /\ UNCHANGED <<status, seat, players, turn, gameend, scoring>>
      /\ u \in Users /\ joins' \in Seq(Users)
      /\ conns' = [conns EXCEPT ![u] = @ + 1]
      /\ observers' = IF sits THEN observers ELSE observers \cup {u}
      /\ disconnects' = IF sits THEN disconnects \ Index(u) ELSE disconnects
      /\ inbox' = IF Connected(u) THEN inbox ELSE [inbox EXCEPT ![u] = <<>>]
      /\ gone' = ~ Leftover(observers', disconnects')
  BY <1>1 DEF HandleJoin, RoomTypes, Back, GoOn
<1>3. inbox' \in [Ids -> Seq(Requests)]
  <2>1. u \in Ids /\ <<>> \in Seq(Requests)
    BY <1>2 DEF Ids
  <2>2. CASE Connected(u)
    BY <1>1, <1>2, <2>2 DEF RoomTypes
  <2>3. CASE ~ Connected(u)
    BY <1>1, <1>2, <2>1, <2>3 DEF RoomTypes
  <2> QED
    BY <2>2, <2>3
<1>4. RoomTypes' /\ NotStarted'
  <2>1. conns' \in [Users -> Nat]
    BY <1>1, <1>2 DEF RoomTypes
  <2>2. observers' \subseteq Users /\ disconnects' \subseteq DOMAIN players'
    BY <1>1, <1>2 DEF RoomTypes
  <2> QED
    BY <1>1, <1>2, <1>3, <2>1, <2>2 DEF RoomTypes, NotStarted
<1>5. OneSeat'
  BY <1>2 DEF RoomInv, OneSeat
<1>6. PlayersSettled'
  <2>1. ~ sits => u \in observers \/ u \notin Range(players)
    BY DEF Index, Range
  <2> QED
    BY <1>1, <1>2, <2>1 DEF PlayersSettled, Occupied
<1>7. ConnectedMeansHeard'
  <2> SUFFICES ASSUME NEW w \in Users, Connected(w)'
               PROVE  Heard(w)'
    BY DEF ConnectedMeansHeard
  <2>1. CASE w = u
    BY <1>2, <2>1 DEF Heard, Index
  <2>2. CASE w # u
    <3>1. Connected(w)
      BY <1>1, <1>2, <2>2 DEF Connected, RoomTypes
    <3>2. Heard(w)
      BY <1>1, <3>1 DEF ConnectedMeansHeard
    <3> QED
      BY <1>2, <3>2 DEF Heard, Index
  <2> QED
    BY <2>1, <2>2
<1>8. GoneEmpty'
  BY <1>2 DEF GoneEmpty, Leftover
<1> QED
  BY <1>4, <1>5, <1>6, <1>7, <1>8 DEF RoomInv

LEMMA RoomClosed ==
    ASSUME RoomInv, NEW u \in Users, HandleClosed(u)
    PROVE  RoomInv'
<1>1. RoomTypes /\ NotStarted /\ PlayersSettled /\ ConnectedMeansHeard
  BY DEF RoomInv
<1>2. /\ UNCHANGED <<status, seat, players, turn, gameend, scoring, net>>
      /\ ~ Connected(u)
      /\ observers' \subseteq observers
      /\ observers \subseteq observers' \cup {u}
      /\ disconnects' \subseteq disconnects \cup Index(u)
      /\ gone' = ~ Leftover(observers', disconnects')
  BY DEF HandleClosed, Parted, GoOn
<1>3. RoomTypes' /\ NotStarted'
  BY <1>1, <1>2 DEF RoomTypes, NotStarted, net, Index
<1>4. OneSeat' /\ PlayersSettled'
  BY <1>1, <1>2 DEF RoomInv, OneSeat, PlayersSettled, Occupied
<1>5. ConnectedMeansHeard'
  <2> SUFFICES ASSUME NEW w \in Users, Connected(w)'
               PROVE  Heard(w)'
    BY DEF ConnectedMeansHeard
  <2>1. Connected(w) /\ w # u
    BY <1>2 DEF Connected, net
  <2>2. Heard(w)
    BY <1>1, <2>1 DEF ConnectedMeansHeard
  <2> QED
    BY <1>2, <2>1, <2>2 DEF Heard, Index
<1>6. GoneEmpty'
  BY <1>2 DEF GoneEmpty, Leftover
<1> QED
  BY <1>3, <1>4, <1>5, <1>6 DEF RoomInv

LEMMA RoomReseat ==
    ASSUME RoomInv, NEW u \in Users, Reseats(u)
    PROVE  RoomInv'
<1>1. RoomTypes /\ NotStarted /\ OneSeat /\ ConnectedMeansHeard
  BY DEF RoomInv
<1>2. /\ UNCHANGED <<status, players, observers, disconnects, joins, conns, scoring>>
      /\ status = "Creating"
      /\ inbox' \in [Ids -> Seq(Requests)]
      /\ \E id \in Ids, s \in Seats : TakeSeat(id, s) \/ LeaveSeat(id, s)
  BY <1>1, ReseatTypes
<1>3. PICK id \in Ids, s \in Seats : TakeSeat(id, s) \/ LeaveSeat(id, s)
  BY <1>2
<1>4. seat' \in [Seats -> Ids \cup {NoOne}]
  BY <1>1, <1>3 DEF RoomTypes, TakeSeat, LeaveSeat
<1>5. RoomTypes' /\ NotStarted'
  BY <1>1, <1>2, <1>4 DEF RoomTypes, NotStarted
<1>6. OneSeat'
  <2>1. seat \in [Seats -> Ids \cup {NoOne}]
    BY <1>1 DEF RoomTypes
  <2>2. CASE TakeSeat(id, s)
    <3>1. seat' = [seat EXCEPT ![s] = id] /\ \A t \in Seats : seat[t] # id
      BY <2>2 DEF TakeSeat, MaySit, Sitting
    <3> QED
      BY <1>1, <2>1, <3>1 DEF OneSeat
  <2>3. CASE LeaveSeat(id, s)
    <3>1. seat' = [seat EXCEPT ![s] = NoOne]
      BY <2>3 DEF LeaveSeat
    <3> QED
      BY <1>1, <2>1, <3>1 DEF OneSeat
  <2> QED
    BY <1>3, <2>2, <2>3
<1>7. PlayersSettled'
  BY <1>2 DEF PlayersSettled
<1>8. ConnectedMeansHeard'
  BY <1>1, <1>2 DEF ConnectedMeansHeard, Connected, Heard, Index
<1>9. GoneEmpty'
  <2>1. Receive(u)
    BY DEF Reseats, HandleRequestSitdown, HandleRequestSitdownBot
  <2> QED
    BY <1>2, <2>1 DEF GoneEmpty, Receive, GoOn, Leftover
<1> QED
  BY <1>5, <1>6, <1>7, <1>8, <1>9 DEF RoomInv

LEMMA RoomStart ==
    ASSUME RoomInv, NEW u \in Users, HandleStartGame(u)
    PROVE  RoomInv'
<1>1. RoomTypes /\ NotStarted /\ OneSeat /\ ConnectedMeansHeard
  BY DEF RoomInv
<1>2. /\ Receive(u) /\ MayStart(u)
      /\ status' = "Running"
      /\ observers' = observers \ {seat[s] : s \in Occupied}
      /\ UNCHANGED <<seat, disconnects, joins, conns>>
  BY DEF HandleStartGame, Watchers, Receive
<1>3. inbox' \in [Ids -> Seq(Requests)]
  BY <1>1, <1>2, AskedType DEF Ids
<1>4. /\ players' \in Seq(Ids)
      /\ Range(players') = {seat[s] : s \in Occupied}
      /\ Len(players') = Cardinality(Occupied)
  BY <1>1, StartPlayers
<1>5. players = <<>> /\ disconnects = {}
  BY <1>1, <1>2 DEF MayStart, NotStarted, RoomTypes
<1>6. RoomTypes' /\ NotStarted'
  BY <1>1, <1>2, <1>3, <1>4, <1>5 DEF RoomTypes, NotStarted, Statuses
<1>7. OneSeat'
  BY <1>1, <1>2 DEF OneSeat
<1>8. PlayersSettled'
  BY <1>2, <1>4 DEF PlayersSettled, Occupied, MayStart
<1>9. ConnectedMeansHeard'
  <2> SUFFICES ASSUME NEW w \in Users, Connected(w)'
               PROVE  Heard(w)'
    BY DEF ConnectedMeansHeard
  <2>1. Heard(w)
    BY <1>1, <1>2 DEF ConnectedMeansHeard, Connected
  <2>2. w \in observers
    BY <1>5, <2>1 DEF Heard, Index
  <2>3. CASE w \in observers'
    BY <2>3 DEF Heard
  <2>4. CASE w \notin observers'
    <3>1. w \in Range(players')
      BY <1>2, <1>4, <2>2, <2>4
    <3> QED
      BY <1>2, <1>5, <3>1 DEF Heard, Index, Range
  <2> QED
    BY <2>3, <2>4
<1>10. GoneEmpty'
  BY <1>2 DEF GoneEmpty, MayStart, Receive, GoOn, Leftover
<1> QED
  BY <1>6, <1>7, <1>8, <1>9, <1>10 DEF RoomInv

LEMMA RoomPlay ==
    ASSUME RoomInv, NEW id \in Ids, Plays(id)
    PROVE  RoomInv'
<1>1. RoomTypes /\ NotStarted
  BY DEF RoomInv
<1>2. /\ UNCHANGED <<seat, players, observers, disconnects, joins, conns>>
      /\ inbox' \in [Ids -> Seq(Requests)]
      /\ status' \in {status, "Scoring"}
      /\ status = "Creating" => status' = "Creating"
  BY <1>1, PlayTypes
<1>3. RoomTypes' /\ NotStarted'
  BY <1>1, <1>2 DEF RoomTypes, NotStarted, Statuses
<1>4. OneSeat' /\ PlayersSettled'
  BY <1>2 DEF RoomInv, OneSeat, PlayersSettled, Occupied
<1>5. ConnectedMeansHeard'
  BY <1>2 DEF RoomInv, ConnectedMeansHeard, Connected, Heard, Index
<1>6. GoneEmpty'
  <2>1. gone' = ~ Leftover(observers, disconnects)
    BY DEF Plays, HandleDoSubaction, HandleEndTurn, Refuse, Receive, GoOn
  <2> QED
    BY <1>2, <2>1 DEF GoneEmpty, Leftover
<1> QED
  BY <1>3, <1>4, <1>5, <1>6 DEF RoomInv

(***************************************************************************)
(* The invariant of the final scoring: every score of every player has     *)
(* reached the room or is in a message still due, which at completion is   *)
(* one of the last.                                                        *)
(***************************************************************************)
Scores == Range(ScoreTypes)

Delivered ==
    /\ finals \in [DOMAIN players -> SUBSET Scores]
    /\ \A i \in DOMAIN players : \A t \in Scores :
          t \in finals[i] \/ \E k \in due : ScoreMessages[k] = Announce(i, t)

ScoreInv ==
    /\ status \in {"Creating", "Running"} => finals = <<>> /\ due = {}
    /\ status \in {"Scoring", "Complete"} => Delivered
    /\ status = "Complete" => scored /\ \A k \in due : k + Lag > Len(ScoreMessages)
    /\ due \subseteq DOMAIN ScoreMessages

LEMMA Quotient ==
    ASSUME NEW N \in Nat \ {0}, NEW T \in Nat, NEW a \in 0..(T * N - 1)
    PROVE  a % N \in 0..(N - 1) /\ a \div N \in 0..(T - 1)
<1>1. a % N \in 0..(N - 1) /\ a \div N \in Nat /\ a = (a \div N) * N + (a % N)
  BY Z3
<1>2. (a \div N) * N < T * N
  BY <1>1
<1> QED
  BY <1>1, <1>2

LEMMA Composed ==
    ASSUME NEW N \in Nat \ {0}, NEW T \in Nat, NEW q \in 0..(T - 1), NEW r \in 0..(N - 1)
    PROVE  /\ q * N + r \in 0..(T * N - 1)
           /\ (q * N + r) % N = r
           /\ (q * N + r) \div N = q
BY Z3

\* Between message a, counted from zero, and completion there are P messages for
\* each type that follows, and more with more players.
LEMMA Ahead ==
    ASSUME NEW N \in Nat \ {0}, NEW P \in Nat, P <= N, NEW T \in Nat,
           NEW a \in 0..(T * N - 1), NEW L \in Nat,
           L <= (T - ((a \div N) + 1)) * P + 1
    PROVE  a + 1 + L <= T * N + 1
<1> DEFINE q == a \div N
           r == a % N
           d == T - (q + 1)
<1>1. r \in 0..(N - 1) /\ q \in 0..(T - 1)
  BY Quotient
<1>2. a = q * N + r
  BY Z3
<1>3. L <= d * P + 1 /\ d \in Nat /\ T = d + q + 1
  BY <1>1
<1> HIDE DEF q, r, d
<1>4. d * P <= d * N
  BY <1>3
<1>5. T * N = d * N + q * N + N
  <2>1. (d + q + 1) * N = d * N + q * N + N
    BY <1>1, <1>3
  <2> QED
    BY <1>3, <2>1
<1>6. d * P \in Nat /\ d * N \in Nat /\ q * N \in Nat
  BY <1>1, <1>3
<1> DEFINE x == d * P
           y == d * N
           z == q * N
<1>7. x \in Nat /\ y \in Nat /\ z \in Nat /\ x <= y /\ a = z + r /\ L <= x + 1 /\ T * N = y + z + N
  BY <1>2, <1>3, <1>4, <1>5, <1>6
<1> HIDE DEF x, y, z
<1> QED
  BY <1>1, <1>7

\* The timers announce every score of every player and completion last, and the
\* totals Lag timers before it at least.
LEMMA Announced ==
    ASSUME players \in Seq(Ids), Len(players) >= MinPlayers
    PROVE  /\ Len(ScoreMessages) \in Nat
           /\ DOMAIN ScoreMessages = 1..Len(ScoreMessages)
           /\ \A k \in DOMAIN ScoreMessages :
                 ScoreMessages[k].kind = "Complete" <=> k = Len(ScoreMessages)
           /\ \A k \in DOMAIN ScoreMessages : ScoreMessages[k].kind = "Score" =>
                 /\ ScoreMessages[k].player \in DOMAIN players
                 /\ ScoreMessages[k].type \in Scores
                 /\ ScoreMessages[k] = Announce(ScoreMessages[k].player, ScoreMessages[k].type)
                 /\ ScoreMessages[k].type = "Total" => k + Lag <= Len(ScoreMessages)
           /\ \A i \in DOMAIN players : \A t \in Scores :
                 \E k \in DOMAIN ScoreMessages : ScoreMessages[k] = Announce(i, t)
<1> DEFINE N == NPlayers
           T == Len(ScoreTypes)
           n == T * N
           M == ScoreMessages
<1>1. /\ N \in Nat \ {0} /\ DOMAIN players = 1..N /\ T \in Nat /\ DOMAIN ScoreTypes = 1..T
      /\ MinPlayers <= N
  BY RoomAssumption DEF NPlayers
<1>2. n \in Nat
  BY <1>1
<1>3. M = [k \in 1..(n + 1) |->
             IF k > n THEN [kind |-> "Complete"]
             ELSE Announce(((k - 1) % N) + 1, ScoreTypes[((k - 1) \div N) + 1])]
  BY DEF ScoreMessages, Announce
<1> HIDE DEF n, M, N, T
<1>4. ASSUME NEW k \in 1..n
      PROVE  /\ ((k - 1) % N) + 1 \in 1..N
             /\ ((k - 1) \div N) + 1 \in 1..T
  <2>1. k - 1 \in 0..(T * N - 1)
    BY <1>2 DEF n
  <2>2. (k - 1) % N \in 0..(N - 1) /\ (k - 1) \div N \in 0..(T - 1)
    BY <1>1, <2>1, Quotient
  <2> QED
    BY <1>1, <2>2
<1>5. ASSUME NEW k \in 1..(n + 1)
      PROVE  /\ M[k].kind = "Complete" <=> k = n + 1
             /\ M[k].kind = "Score" =>
                   /\ M[k].player \in DOMAIN players
                   /\ M[k].type \in Scores
                   /\ M[k] = Announce(M[k].player, M[k].type)
                   /\ M[k].type = "Total" => k + Lag <= n + 1
  <2>1. CASE k = n + 1
    <3>1. M[k] = [kind |-> "Complete"]
      BY <1>2, <1>3, <2>1
    <3> QED
      BY <2>1, <3>1
  <2>2. CASE k \in 1..n
    <3> DEFINE i == ((k - 1) % N) + 1
               j == ((k - 1) \div N) + 1
    <3>1. i \in 1..N /\ j \in 1..T
      BY <1>4, <2>2
    <3>2. M[k] = Announce(i, ScoreTypes[j])
      BY <1>2, <1>3, <2>2
    <3>3. ASSUME ScoreTypes[j] = "Total"
          PROVE  k + Lag <= n + 1
      <4>1. Lag <= (T - j) * MinPlayers + 1
        BY <1>1, <3>1, <3>3, LagAssumption DEF T
      <4>2. k - 1 \in 0..(T * N - 1) /\ Lag \in Nat /\ MinPlayers \in Nat
        BY <1>2, <2>2, RoomAssumption DEF n
      <4>3. (k - 1) + 1 + Lag <= T * N + 1
        BY <1>1, <4>1, <4>2, Ahead
      <4> QED
        BY <1>2, <2>2, <4>2, <4>3 DEF n
    <3> HIDE DEF i, j
    <3>4. ScoreTypes[j] \in Scores
      BY <1>1, <3>1 DEF Scores, Range
    <3>5. k # n + 1
      BY <1>2, <2>2
    <3> QED
      BY <1>1, <3>1, <3>2, <3>3, <3>4, <3>5 DEF Announce
  <2> QED
    BY <1>2, <2>1, <2>2
<1>7. DOMAIN M = 1..(n + 1) /\ Len(M) = n + 1 /\ Len(M) \in Nat
  BY <1>2, <1>3
<1>8. ASSUME NEW i \in DOMAIN players, NEW t \in Scores
      PROVE  \E k \in DOMAIN M : M[k] = Announce(i, t)
  <2>1. PICK j \in 1..T : t = ScoreTypes[j]
    BY <1>1 DEF Scores, Range
  <2> DEFINE a == (j - 1) * N + (i - 1)
  <2>2. a \in 0..(T * N - 1) /\ a % N = i - 1 /\ a \div N = j - 1
    <3> DEFINE q == j - 1
               r == i - 1
    <3>1. q \in 0..(T - 1) /\ r \in 0..(N - 1) /\ N \in Nat \ {0} /\ T \in Nat
      BY <1>1
    <3> HIDE DEF q, r
    <3>2. q * N + r \in 0..(T * N - 1) /\ (q * N + r) % N = r /\ (q * N + r) \div N = q
      BY ONLY <3>1, Composed
    <3> QED
      BY <3>2 DEF q, r
  <2> HIDE DEF a
  <2> DEFINE k == a + 1
  <2>3. k \in 1..n /\ k - 1 = a
    BY <1>2, <2>2 DEF n
  <2>4. M[k] = Announce(((k - 1) % N) + 1, ScoreTypes[((k - 1) \div N) + 1])
    BY <1>2, <1>3, <2>3
  <2>5. (a % N) + 1 = i /\ (a \div N) + 1 = j
    BY <1>1, <2>2
  <2>6. M[k] = Announce(i, t)
    BY <2>1, <2>3, <2>4, <2>5
  <2>7. k \in DOMAIN M
    BY <1>2, <1>7, <2>3
  <2> QED
    BY <2>6, <2>7
<1> QED
  BY <1>5, <1>7, <1>8 DEF M

LEMMA ScoreInit == Init => ScoreInv
BY DEF Init, ScoreInv

\* The messages depend on the number of players only.
LEMMA SameMessages ==
    ASSUME players' = players
    PROVE  ScoreMessages' = ScoreMessages
BY DEF ScoreMessages, NPlayers, Announce

LEMMA ScoreUnchanged ==
    ASSUME ScoreInv, UNCHANGED <<status, players, scoring>>
    PROVE  ScoreInv'
BY SameMessages DEF ScoreInv, Delivered, scoring

LEMMA ScoreStart ==
    ASSUME RoomInv, ScoreInv, NEW u \in Users, HandleStartGame(u)
    PROVE  ScoreInv'
BY DEF HandleStartGame, MayStart, ScoreInv, scoring

LEMMA ScoreEndTurn ==
    ASSUME RoomInv, ScoreInv, NEW id \in Ids, HandleEndTurn(id)
    PROVE  ScoreInv'
<1>1. players \in Seq(Ids) /\ players # <<>> /\ players' = players /\ scored' = scored
  BY DEF HandleEndTurn, Index, RoomInv, RoomTypes
<1>2. status \in {"Running", "Scoring", "Complete"} /\ Len(players) >= MinPlayers
  BY <1>1 DEF RoomInv, RoomTypes, NotStarted, Statuses, PlayersSettled
<1>3. ScoreMessages' = ScoreMessages
  BY <1>1, SameMessages
<1>4. CASE ~ gameend
  <2>1. UNCHANGED <<status, finals, due>>
    BY <1>4 DEF HandleEndTurn
  <2> QED
    BY <1>1, <2>1, ScoreUnchanged DEF scoring
<1>5. CASE gameend /\ status = "Running"
  <2>1. /\ status' = "Scoring" /\ due' = DOMAIN ScoreMessages
        /\ finals' = [i \in 1..NPlayers |-> {}]
    BY <1>5 DEF HandleEndTurn, Unscored
  <2>2. \A i \in DOMAIN players : \A t \in Scores :
           \E k \in DOMAIN ScoreMessages : ScoreMessages[k] = Announce(i, t)
    BY <1>1, <1>2, Announced
  <2>3. DOMAIN players = 1..NPlayers
    BY <1>1 DEF NPlayers
  <2>4. Delivered'
    BY <1>1, <1>3, <2>1, <2>2, <2>3 DEF Delivered
  <2> QED
    BY <1>3, <2>1, <2>4 DEF ScoreInv
<1>6. CASE gameend /\ status # "Running"
  <2>1. status' = "Scoring" /\ UNCHANGED <<finals, due>>
    BY <1>6 DEF HandleEndTurn, Unscored
  <2> QED
    BY <1>1, <1>2, <1>3, <1>6, <2>1 DEF ScoreInv, Delivered
<1> QED
  BY <1>4, <1>5, <1>6

LEMMA ScoreDelivered ==
    ASSUME RoomInv, ScoreInv, HandleScoring
    PROVE  /\ ScoreInv'
           /\ \A i \in DOMAIN finals : i \in DOMAIN finals' /\ finals[i] \subseteq finals'[i]
<1> DEFINE M == ScoreMessages
<1>1. PICK k \in due : HandleScore(k) \/ HandleComplete(k)
  BY DEF HandleScoring
<1>2. /\ due' = due \ {k} /\ players' = players /\ Arrives(k)
      /\ due \subseteq DOMAIN M
  BY <1>1 DEF HandleScore, HandleComplete, ScoreInv, room
<1>3. status \in {"Scoring", "Complete"} /\ Delivered
  BY <1>1 DEF ScoreInv, RoomInv, RoomTypes, Statuses
<1>4. players \in Seq(Ids) /\ Len(players) >= MinPlayers
  BY <1>3 DEF RoomInv, RoomTypes, PlayersSettled
<1>5. ScoreMessages' = M
  BY <1>2, SameMessages
<1>6. /\ Len(M) \in Nat
      /\ DOMAIN M = 1..Len(M)
      /\ \A j \in DOMAIN M : M[j].kind = "Complete" <=> j = Len(M)
      /\ \A j \in DOMAIN M : M[j].kind = "Score" =>
            /\ M[j].player \in DOMAIN players
            /\ M[j].type \in Scores
            /\ M[j] = Announce(M[j].player, M[j].type)
            /\ M[j].type = "Total" => j + Lag <= Len(M)
  BY <1>4, Announced
<1> HIDE DEF M
<1>7. CASE HandleScore(k)
  <2> DEFINE i == M[k].player
             t == M[k].type
  <2>1. i \in DOMAIN players /\ t \in Scores /\ M[k] = Announce(i, t)
    BY <1>2, <1>6, <1>7 DEF HandleScore, M
  <2>2. finals' = [finals EXCEPT ![i] = @ \cup {t}] /\ status' = status /\ scored' = scored
    BY <1>7 DEF HandleScore, room, M
  <2> HIDE DEF i, t
  <2>3. /\ finals' \in [DOMAIN players -> SUBSET Scores]
        /\ \A p \in DOMAIN players : finals[p] \subseteq finals'[p]
        /\ t \in finals'[i]
    BY <1>3, <2>1, <2>2 DEF Delivered
  <2>4. ASSUME NEW p \in DOMAIN players, NEW x \in Scores, x \notin finals'[p]
        PROVE  \E j \in due' : M[j] = Announce(p, x)
    <3>1. PICK j \in due : M[j] = Announce(p, x)
      BY <1>3, <2>3, <2>4 DEF Delivered, M
    <3>2. j # k
      BY <2>1, <2>3, <2>4, <3>1 DEF Announce
    <3> QED
      BY <1>2, <3>1, <3>2
  <2>5. Delivered'
    BY <1>2, <1>5, <2>3, <2>4 DEF Delivered
  <2>6. status = "Complete" => scored /\ \A j \in due : j + Lag > Len(M)
    BY DEF ScoreInv, M
  <2>7. ScoreInv'
    BY <1>2, <1>3, <1>5, <2>2, <2>5, <2>6 DEF ScoreInv
  <2> QED
    BY <1>3, <2>3, <2>7 DEF Delivered
<1>8. CASE HandleComplete(k)
  <2>1. /\ M[k].kind = "Complete" /\ status' = "Complete" /\ finals' = finals
        /\ scored' = \A i \in DOMAIN finals : "Total" \in finals[i]
    BY <1>8 DEF HandleComplete, M
  <2>2. k = Len(M) /\ \A j \in due : k < j + Lag
    BY <1>2, <1>6, <2>1 DEF Arrives
  <2>3. \A i \in DOMAIN players : "Total" \in finals[i]
    <3> SUFFICES ASSUME NEW i \in DOMAIN players, "Total" \notin finals[i]
                 PROVE  FALSE
      OBVIOUS
    <3>1. "Total" \in Scores
      BY RoomAssumption DEF Scores
    <3>2. PICK j \in due : M[j] = Announce(i, "Total")
      BY <1>3, <3>1 DEF Delivered, M
    <3>3. j + Lag <= Len(M) /\ j \in Nat
      BY <1>2, <1>6, <3>2 DEF Announce
    <3> QED
      BY <1>6, <2>2, <3>3, RoomAssumption
  <2>4. scored'
    BY <1>3, <2>1, <2>3 DEF Delivered
  <2>5. ASSUME NEW i \in DOMAIN players, NEW t \in Scores, t \notin finals[i]
        PROVE  \E j \in due' : M[j] = Announce(i, t)
    <3>1. PICK j \in due : M[j] = Announce(i, t)
      BY <1>3, <2>5 DEF Delivered, M
    <3>2. j # k
      BY <2>1, <3>1 DEF Announce
    <3> QED
      BY <1>2, <3>1, <3>2
  <2>6. Delivered'
    BY <1>2, <1>3, <1>5, <2>1, <2>5 DEF Delivered
  <2>7. \A j \in due' : j + Lag > Len(M)
    <3>1. ASSUME NEW j \in due
          PROVE  j + Lag > Len(M)
      BY <1>2, <1>6, <2>2, RoomAssumption
    <3> QED
      BY <1>2, <3>1
  <2> QED
    BY <1>2, <1>5, <2>1, <2>4, <2>6, <2>7 DEF ScoreInv
<1> QED
  BY <1>1, <1>7, <1>8

LEMMA RoomScore ==
    ASSUME RoomInv, ScoreInv, HandleScoring
    PROVE  RoomInv'
<1>1. /\ UNCHANGED <<seat, players, observers, disconnects, net>>
      /\ gone' = ~ Leftover(observers, disconnects)
      /\ status' \in {status, "Complete"}
      /\ status # "Creating"
  BY DEF HandleScoring, HandleScore, HandleComplete, GoOn, room, ScoreInv
<1>2. RoomTypes' /\ NotStarted'
  BY <1>1 DEF RoomInv, RoomTypes, NotStarted, Statuses, net
<1>3. OneSeat' /\ PlayersSettled'
  BY <1>1 DEF RoomInv, OneSeat, PlayersSettled, Occupied
<1>4. ConnectedMeansHeard'
  BY <1>1 DEF RoomInv, ConnectedMeansHeard, Connected, Heard, Index, net
<1>5. GoneEmpty'
  BY <1>1 DEF GoneEmpty, Leftover
<1> QED
  BY <1>2, <1>3, <1>4, <1>5 DEF RoomInv

(***************************************************************************)
(* The bounds: a connection that was opened waits in joins, is open or has *)
(* been closed, and no channel holds more than it can.                     *)
(***************************************************************************)
BoundsInv ==
    /\ turn \in Nat \ {0}
    /\ gameend \in BOOLEAN
    /\ scored \in BOOLEAN
    /\ gone \in BOOLEAN
    /\ Len(joins) <= JoinsCap
    /\ \A id \in Ids : Len(inbox[id]) <= QueueBound
    /\ arrivals \in 0..MaxArrivals
    /\ \A u \in Users : conns[u] + Len(joins) <= arrivals

LEMMA BoundsInit == Init => BoundsInv
<1> SUFFICES ASSUME Init PROVE BoundsInv
  OBVIOUS
<1>1. \A u \in Users : conns[u] = 0
  BY DEF Init
<1>2. \A id \in Ids : inbox[id] = <<>>
  BY DEF Init
<1>3. /\ turn = 1 /\ gameend = FALSE /\ scored = FALSE /\ gone = FALSE
      /\ Len(joins) = 0 /\ arrivals = 0
  BY DEF Init
<1>4. \A u \in Users : conns[u] + Len(joins) <= arrivals
  BY <1>1, <1>3
<1>5. \A id \in Ids : Len(inbox[id]) <= QueueBound
  BY <1>2, RoomAssumption
<1>6. arrivals \in 0..MaxArrivals /\ turn \in Nat \ {0} /\ Len(joins) <= JoinsCap
  BY <1>3, RoomAssumption DEF JoinsCap
<1> QED
  BY <1>3, <1>4, <1>5, <1>6 DEF BoundsInv

LEMMA ReceiveBounds ==
    ASSUME RoomTypes, BoundsInv, NEW id \in Ids, Receive(id)
    PROVE  /\ gone' \in BOOLEAN
           /\ UNCHANGED <<joins, conns, arrivals>>
           /\ \A x \in Ids : Len(inbox'[x]) <= QueueBound
<1>1. inbox[id] \in Seq(Requests) /\ inbox[id] # <<>>
  BY DEF RoomTypes, Receive
<1>2. Len(Tail(inbox[id])) <= QueueBound
  BY <1>1, RoomAssumption DEF BoundsInv
<1> QED
  BY <1>2 DEF Receive, RoomTypes, BoundsInv, GoOn, Leftover

LEMMA BoundsOutside ==
    ASSUME RoomTypes, BoundsInv, Outside
    PROVE  BoundsInv'
<1>0. UNCHANGED <<turn, gameend, scored, gone>>
  BY OutsideTypes DEF room, scoring
<1>1. CASE \E u \in Users : Register(u)
  <2>1. PICK u \in Users : Register(u)
    BY <1>1
  <2>2. joins' = Append(joins, u) /\ Len(joins) < JoinsCap /\ joins \in Seq(Users)
    BY <2>1 DEF Register, RoomTypes
  <2>3. Len(joins') = Len(joins) + 1 /\ Len(joins) \in Nat
    BY <2>2
  <2> QED
    BY <1>0, <2>1, <2>2, <2>3, RoomAssumption DEF Register, RoomTypes, BoundsInv, JoinsCap
<1>2. CASE \E u \in Users : Disconnect(u)
  <2>1. PICK u \in Users : Disconnect(u)
    BY <1>2
  <2>2. ASSUME NEW x \in Users
        PROVE  conns'[x] \in Nat /\ conns'[x] <= conns[x]
    BY <2>1 DEF Disconnect, Connected, RoomTypes
  <2>3. Len(joins) \in Nat /\ joins' = joins /\ arrivals' = arrivals /\ inbox' = inbox
    BY <2>1 DEF Disconnect, RoomTypes
  <2> QED
    BY <1>0, <2>2, <2>3 DEF BoundsInv, RoomTypes
<1>3. CASE \E u \in Users, m \in Requests : Request(u, m)
  <2>1. PICK u \in Users, m \in Requests : Request(u, m)
    BY <1>3
  <2>2. u \in Ids /\ inbox[u] \in Seq(Requests)
    BY DEF Ids, RoomTypes
  <2>3. Len(Append(inbox[u], m)) <= QueueBound
    BY <2>1, <2>2, RoomAssumption DEF Request
  <2> QED
    BY <1>0, <2>1, <2>2, <2>3 DEF Request, RoomTypes, BoundsInv
<1>4. CASE \E b \in Bots, m \in BotRequests : BotRequest(b, m)
  <2>1. PICK b \in Bots, m \in BotRequests : BotRequest(b, m)
    BY <1>4
  <2>2. b \in Ids /\ inbox[b] \in Seq(Requests) /\ m \in Requests
    BY DEF Ids, RoomTypes, BotRequests, Requests
  <2>3. Len(Append(inbox[b], m)) <= QueueBound
    BY <2>1, <2>2, RoomAssumption DEF BotRequest
  <2> QED
    BY <1>0, <2>1, <2>2, <2>3 DEF BotRequest, RoomTypes, BoundsInv
<1> QED
  BY <1>1, <1>2, <1>3, <1>4 DEF Outside

LEMMA BoundsJoin ==
    ASSUME RoomTypes, BoundsInv, HandleJoin
    PROVE  BoundsInv'
<1>1. joins \in Seq(Users) /\ joins # <<>> /\ joins' = Tail(joins)
  BY DEF HandleJoin, RoomTypes
<1>2. Len(joins) \in Nat \ {0} /\ Len(joins') = Len(joins) - 1 /\ Head(joins) \in Users
  BY <1>1
<1>3. conns' = [conns EXCEPT ![Head(joins)] = @ + 1] /\ arrivals' = arrivals
  BY DEF HandleJoin
<1>4. ASSUME NEW u \in Users
      PROVE  conns'[u] + Len(joins') <= arrivals'
  <2>1. conns[u] \in Nat /\ conns[u] + Len(joins) <= arrivals /\ arrivals \in Nat
    BY DEF RoomTypes, BoundsInv
  <2>2. conns'[u] \in {conns[u], conns[u] + 1}
    BY <1>2, <1>3 DEF RoomTypes
  <2> QED
    BY <1>2, <1>3, <2>1, <2>2
<1>5. ASSUME NEW id \in Ids
      PROVE  Len(inbox'[id]) <= QueueBound
  <2>1. inbox'[id] \in {inbox[id], <<>>}
    BY <1>2 DEF HandleJoin, RoomTypes, Ids
  <2> QED
    BY <2>1, RoomAssumption DEF BoundsInv
<1>6. gone' \in BOOLEAN
  BY DEF HandleJoin, GoOn
<1> QED
  BY <1>2, <1>3, <1>4, <1>5, <1>6 DEF HandleJoin, BoundsInv, scoring, JoinsCap

LEMMA BoundsMessage ==
    ASSUME RoomTypes, BoundsInv, NEW id \in Ids, HandleMessage(id)
    PROVE  BoundsInv'
<1>1. Receive(id)
  BY DEF HandleMessage, HandleDoSubaction, HandleEndTurn, Refuse,
         HandleRequestSitdown, HandleRequestSitdownBot, HandleStartGame
<1>2. /\ gone' \in BOOLEAN
      /\ UNCHANGED <<joins, conns, arrivals>>
      /\ \A x \in Ids : Len(inbox'[x]) <= QueueBound
  BY <1>1, ReceiveBounds
<1>3. turn' \in Nat \ {0} /\ gameend' \in BOOLEAN /\ scored' = scored
  <2>1. CASE HandleDoSubaction(id)
    BY <2>1 DEF HandleDoSubaction, BoundsInv, scoring
  <2>2. CASE HandleEndTurn(id)
    <3>1. turn \in DOMAIN players /\ players \in Seq(Ids)
      BY <2>2 DEF HandleEndTurn, Index, RoomTypes
    <3>2. NPlayers \in Nat \ {0}
      BY <3>1 DEF NPlayers
    <3>3. (turn % NPlayers) + 1 \in Nat \ {0}
      BY <3>2 DEF BoundsInv
    <3> QED
      BY <2>2, <3>3 DEF HandleEndTurn, BoundsInv
  <2>3. CASE Refuse(id)
    BY <2>3 DEF Refuse, BoundsInv, room, scoring
  <2>4. CASE id \in Users /\ (HandleRequestSitdown(id) \/ HandleRequestSitdownBot(id))
    BY <2>4 DEF HandleRequestSitdown, HandleRequestSitdownBot, SeatsOnly, BoundsInv, scoring
  <2>5. CASE HandleStartGame(id)
    BY <2>5 DEF HandleStartGame, BoundsInv, scoring
  <2> QED
    BY <2>1, <2>2, <2>3, <2>4, <2>5 DEF HandleMessage
<1> QED
  BY <1>2, <1>3 DEF BoundsInv

LEMMA BoundsRest ==
    ASSUME BoundsInv, \/ \E u \in Users : HandleClosed(u)
                      \/ HandleScoring
                      \/ UNCHANGED vars
    PROVE  BoundsInv'
<1>1. UNCHANGED <<turn, gameend, joins, conns, inbox, arrivals>>
  BY DEF HandleClosed, HandleScoring, HandleScore, HandleComplete, room, net, vars
<1>2. gone' \in BOOLEAN
  BY DEF HandleClosed, HandleScoring, HandleScore, HandleComplete, GoOn, vars, BoundsInv
<1>3. scored' \in BOOLEAN
  BY DEF HandleClosed, HandleScoring, HandleScore, HandleComplete, scoring, vars, BoundsInv
<1> QED
  BY <1>1, <1>2, <1>3 DEF BoundsInv

LEMMA BoundsStep ==
    ASSUME RoomTypes, BoundsInv, [Next]_vars
    PROVE  BoundsInv'
<1>1. \/ Outside
      \/ HandleJoin
      \/ \E id \in Ids : HandleMessage(id)
      \/ \/ \E u \in Users : HandleClosed(u)
         \/ HandleScoring
         \/ UNCHANGED vars
  BY Zenon DEF Next, Outside
<1> QED
  BY <1>1, BoundsOutside, BoundsJoin, BoundsMessage, BoundsRest

(***************************************************************************)
(* The theorems.                                                           *)
(***************************************************************************)
LEMMA StutterInv ==
    ASSUME RoomInv, ScoreInv, UNCHANGED vars
    PROVE  RoomInv' /\ ScoreInv'
<1>1. /\ UNCHANGED <<status, seat, players, observers, disconnects, joins, conns, inbox, gone>>
      /\ UNCHANGED <<status, players, scoring>>
  BY DEF vars, room, net
<1>2. RoomTypes' /\ NotStarted' /\ OneSeat'
  BY <1>1 DEF RoomInv, RoomTypes, NotStarted, OneSeat
<1>3. PlayersSettled' /\ GoneEmpty'
  BY <1>1 DEF RoomInv, PlayersSettled, Occupied, GoneEmpty
<1>4. ConnectedMeansHeard'
  BY <1>1 DEF RoomInv, ConnectedMeansHeard, Connected, Heard, Index
<1> QED
  BY <1>1, <1>2, <1>3, <1>4, ScoreUnchanged DEF RoomInv

LEMMA StepInv ==
    ASSUME RoomInv, ScoreInv, Next
    PROVE  RoomInv' /\ ScoreInv'
<1>0. RoomTypes
  BY DEF RoomInv
<1>1. CASE Outside
  <2>1. UNCHANGED <<status, players, scoring>>
    BY <1>0, <1>1, OutsideTypes DEF room
  <2> QED
    BY <1>1, <2>1, RoomOutside, ScoreUnchanged
<1>2. CASE HandleJoin
  <2>1. UNCHANGED <<status, players, scoring>>
    BY <1>2 DEF HandleJoin
  <2> QED
    BY <1>2, <2>1, RoomJoin, ScoreUnchanged
<1>3. CASE \E u \in Users : HandleClosed(u)
  <2>1. UNCHANGED <<status, players, scoring>>
    BY <1>3 DEF HandleClosed
  <2> QED
    BY <1>3, <2>1, RoomClosed, ScoreUnchanged
<1>4. CASE \E u \in Users : Reseats(u)
  <2>1. UNCHANGED <<status, players, scoring>>
    BY <1>0, <1>4, ReseatTypes
  <2> QED
    BY <1>4, <2>1, RoomReseat, ScoreUnchanged
<1>5. CASE \E u \in Users : HandleStartGame(u)
  BY <1>5, RoomStart, ScoreStart
<1>6. CASE \E id \in Ids : Plays(id)
  <2>1. PICK id \in Ids : Plays(id)
    BY <1>6
  <2>2. CASE HandleEndTurn(id)
    BY <2>1, <2>2, RoomPlay, ScoreEndTurn
  <2>3. CASE ~ HandleEndTurn(id)
    <3>1. UNCHANGED <<status, players, scoring>>
      BY <2>1, <2>3 DEF Plays, HandleDoSubaction, Refuse, room
    <3> QED
      BY <2>1, <3>1, RoomPlay, ScoreUnchanged
  <2> QED
    BY <2>2, <2>3
<1>7. CASE HandleScoring
  BY <1>7, RoomScore, ScoreDelivered
<1> QED
  BY <1>1, <1>2, <1>3, <1>4, <1>5, <1>6, <1>7, NextSplit

LEMMA InvAlways == Spec => [](RoomInv /\ ScoreInv)
<1>1. Init => RoomInv /\ ScoreInv
  BY RoomInit, ScoreInit
<1>2. RoomInv /\ ScoreInv /\ [Next]_vars => RoomInv' /\ ScoreInv'
  BY StutterInv, StepInv
<1> QED
  BY <1>1, <1>2, PTL DEF Spec

\* No channel holds more than it can, and nothing the room counts with leaves its
\* range, whatever people, bots and timers send (handleJoin, handleMsg, checkStatus).
THEOREM RoomTypeCorrect == Spec => []TypeOK
<1>1. RoomInv /\ ScoreInv /\ BoundsInv => TypeOK
  <2> SUFFICES ASSUME RoomInv, ScoreInv, BoundsInv
               PROVE  TypeOK
    OBVIOUS
  <2>0. RoomTypes
    BY DEF RoomInv
  <2>1. \A i \in DOMAIN finals : finals[i] \subseteq Range(ScoreTypes)
    <3>1. finals = <<>> \/ Delivered
      BY <2>0 DEF ScoreInv, RoomTypes, Statuses
    <3> QED
      BY <3>1 DEF Delivered, Scores
  <2>2. due \subseteq DOMAIN ScoreMessages
    BY DEF ScoreInv
  <2>3. conns \in [Users -> 0..MaxArrivals]
    <3>1. ASSUME NEW u \in Users
          PROVE  conns[u] \in 0..MaxArrivals
      <4>1. /\ conns[u] \in Nat /\ Len(joins) \in Nat /\ arrivals \in 0..MaxArrivals
            /\ conns[u] + Len(joins) <= arrivals
        BY <2>0 DEF RoomTypes, BoundsInv
      <4> QED
        BY <4>1, RoomAssumption
    <3> QED
      BY <2>0, <3>1 DEF RoomTypes
  <2>4. \A id \in Ids : \A k \in DOMAIN inbox[id] : inbox[id][k] \in Requests
    BY <2>0 DEF RoomTypes
  <2> QED
    BY <2>0, <2>1, <2>2, <2>3, <2>4 DEF RoomTypes, BoundsInv, TypeOK
<1>2. Init => BoundsInv
  BY BoundsInit
<1>3. RoomInv /\ ScoreInv /\ BoundsInv /\ [Next]_vars => BoundsInv'
  BY BoundsStep DEF RoomInv
<1> QED
  BY <1>1, <1>2, <1>3, InvAlways, PTL DEF Spec

\* The players of a started game are those who had a seat, one each, and none of
\* them observes besides (handleStartGame, checkStatus, handleJoin).
THEOREM SeatedArePlayers == Spec => []PlayersSettled
<1>1. RoomInv /\ ScoreInv => PlayersSettled
  BY DEF RoomInv
<1> QED
  BY <1>1, InvAlways, PTL

\* Whoever has an open connection is read from (handleJoin, handleMsg).
THEOREM ConnectedAreHeard == Spec => []ConnectedMeansHeard
<1>1. RoomInv /\ ScoreInv => ConnectedMeansHeard
  BY DEF RoomInv
<1> QED
  BY <1>1, InvAlways, PTL

\* The room does not go away under somebody who is connected (Run, handleMsg).
THEOREM NobodyIsCutOff == Spec => []NobodyCutOff
<1>1. RoomInv /\ ScoreInv => NobodyCutOff
  BY DEF RoomInv, GoneEmpty, ConnectedMeansHeard, Heard, Index, NobodyCutOff
<1> QED
  BY <1>1, InvAlways, PTL

\* A complete game has the totals as its scores, and lacks only final scores whose
\* timers are less than Lag ahead of the last one (checkStatus, handleScoring).
THEOREM CompleteHasAllScores == Spec => []CompleteIsScored
<1>1. RoomInv /\ ScoreInv => CompleteIsScored
  <2> SUFFICES ASSUME RoomInv, ScoreInv, status = "Complete"
               PROVE  /\ scored
                      /\ \A i \in DOMAIN players : Scores = finals[i] \cup Pending(i)
                      /\ \A k \in due : k + Lag > Len(ScoreMessages)
    BY DEF CompleteIsScored, Scores
  <2>1. Delivered /\ scored /\ \A k \in due : k + Lag > Len(ScoreMessages)
    BY DEF ScoreInv
  <2>2. ASSUME NEW i \in DOMAIN players
        PROVE  Scores = finals[i] \cup Pending(i)
    BY <2>1 DEF Delivered, Pending, Scores
  <2> QED
    BY <2>1, <2>2
<1> QED
  BY <1>1, InvAlways, PTL

\* An announced score is never taken back (handleEndTurn, checkStatus).
THEOREM AnnouncedIsKept == Spec => ScoresKept
<1> DEFINE Kept == \A i \in DOMAIN finals :
                      i \in DOMAIN finals' /\ finals[i] \subseteq finals'[i]
<1>1. ASSUME RoomInv, ScoreInv, Next
      PROVE  Kept
  <2>1. CASE UNCHANGED finals
    BY <2>1
  <2>2. CASE HandleScoring
    BY <1>1, <2>2, ScoreDelivered
  <2>3. CASE \E id \in Ids : HandleEndTurn(id)
    <3>1. CASE status = "Running"
      BY <1>1, <3>1 DEF ScoreInv
    <3>2. CASE status # "Running"
      BY <2>3, <3>2 DEF HandleEndTurn, Unscored
    <3> QED
      BY <3>1, <3>2
  <2>4. CASE ~ HandleScoring /\ ~ \E id \in Ids : HandleEndTurn(id)
    <3>1. CASE Outside
      BY <1>1, <3>1, OutsideTypes DEF RoomInv, scoring
    <3>2. CASE HandleJoin
      BY <3>2 DEF HandleJoin, scoring
    <3>3. CASE \E u \in Users : HandleClosed(u)
      BY <3>3 DEF HandleClosed, scoring
    <3>4. CASE \E u \in Users : Reseats(u) \/ HandleStartGame(u)
      BY <3>4 DEF Reseats, HandleRequestSitdown, HandleRequestSitdownBot, SeatsOnly,
                  HandleStartGame, scoring
    <3>5. CASE \E id \in Ids : Plays(id)
      BY <2>4, <3>5 DEF Plays, HandleDoSubaction, Refuse, scoring
    <3> QED
      BY <1>1, <2>4, <3>1, <3>2, <3>3, <3>4, <3>5, NextSplit
  <2> QED
    BY <2>2, <2>3, <2>4
<1>2. RoomInv /\ ScoreInv /\ [Next]_vars => [Kept]_vars
  BY <1>1
<1> QED
  BY <1>2, InvAlways, PTL DEF Spec, ScoresKept
=============================================================================
