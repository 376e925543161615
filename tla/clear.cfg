SPECIFICATION Spec
CONSTANTS
    NPlayers = 2
    Cities <- ChainCities
    Routes <- ChainRoutes
    LeftCity <- ChainLeft
    RightCity <- ChainRight
    Spots <- ChainSpots
    Offices <- ClearOffices
    Coellen <- ClearCoellen
    Award <- ClearAwards
    BonusTermini = {0, 2}
    StartTrack <- ClearTracks
    StartCubes = 1
    FirstSupply = 1
    EndScore = 2
    EndCities = 2
INVARIANTS
    GameEndStops
    ClearingNotWedged
    NoExtraActions
PROPERTIES
    OneReward
    OfficesKept
CHECK_DEADLOCK FALSE
