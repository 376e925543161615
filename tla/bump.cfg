SPECIFICATION Spec
CONSTANTS
    NPlayers = 2
    Cities <- ChainCities
    Routes <- ChainRoutes
    LeftCity <- ChainLeft
    RightCity <- ChainRight
    Spots <- ChainSpots
    Offices <- BumpOffices
    Coellen <- NoCoellen
    Award <- NoAwards
    BonusTermini = {}
    StartTrack <- FullTracks
    StartCubes = 2
    FirstSupply = 2
    EndScore = 1
    EndCities = 1
INVARIANTS
    TypeOK
    PieceConservation
    BumpPayable
    CountersInPhase
PROPERTIES
    TurnProtocol
CHECK_DEADLOCK FALSE
