SPECIFICATION FairSpec
CONSTANTS
    u1 = u1
    u2 = u2
    s1 = s1
    s2 = s2
    s3 = s3
    s4 = s4
    Users = {u1, u2}
    Sockets = {s1, s2, s3}
    UserOf <- ThreeSockets
    MaxGames = 1
    LobbyCap = 1
    GameCap = 1
INVARIANTS
    TypeOK
    ListedGamesRun
PROPERTIES
    RegisterEnds
    JoinSettles
CHECK_DEADLOCK FALSE
