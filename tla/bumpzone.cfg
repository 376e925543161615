SPECIFICATION Spec
CONSTANTS
    NPlayers = 3
    Cities <- ChainCities
    Routes <- ChainRoutes
    LeftCity <- ChainLeft
    RightCity <- ChainRight
    Spots <- ChainSpots
    Offices <- BumpOffices
    Coellen <- NoCoellen
    Award <- NoAwards
    BonusTermini = {}
    StartTrack <- FullTracks
    StartCubes = 1
    FirstSupply = 1
    EndScore = 1
    EndCities = 1
INVARIANTS
    BumpZoneFree
CHECK_DEADLOCK FALSE
