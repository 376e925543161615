SPECIFICATION FairSpec
CONSTANTS
    Users = {u1, u2}
    Bots = {b1}
    u1 = u1
    u2 = u2
    b1 = b1
    Creator = u1
    NoOne = NoOne
    Seats <- TwoSeats
    MinPlayers = 1
    ScoreTypes <- LastScores
    Lag = 2
    MaxArrivals = 2
    QueueBound = 1
INVARIANTS
    TypeOK
    PlayersSettled
    ConnectedMeansHeard
    NobodyCutOff
    CompleteIsScored
PROPERTIES
    ScoresKept
    LastOneOut
CHECK_DEADLOCK FALSE
