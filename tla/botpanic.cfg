SPECIFICATION BotSpec
CONSTANTS
    NPlayers = 2
    Cities <- ChainCities
    Routes <- ChainRoutes
    LeftCity <- ChainLeft
    RightCity <- ChainRight
    Spots <- LongSpots
    Offices <- BotOffices
    Coellen <- BotCoellen
    Award <- BotAwards
    BonusTermini = {}
    StartTrack <- BotTracks
    StartCubes = 2
    FirstSupply = 1
    EndScore = 1
    EndCities = 4
    Bot = 0
    NSlots = 20
    InCap = 2
    OutCap = 1
    Habits <- BumpHabits
INVARIANT PlansUndone
CHECK_DEADLOCK FALSE
