SPECIFICATION FairSpec
CONSTANTS
    u1 = u1
    u2 = u2
    s1 = s1
    s2 = s2
    s3 = s3
    s4 = s4
    Users = {u1, u2}
    Sockets = {s1, s2, s3, s4}
    UserOf <- FourSockets
    MaxGames = 1
    LobbyCap = 1
    GameCap = 1
PROPERTIES
    LobbyTakesSockets
CHECK_DEADLOCK FALSE
