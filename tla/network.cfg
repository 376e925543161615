SPECIFICATION Spec
CONSTANTS
    NPlayers = 2
    Cities <- BaseCities
    Routes <- BaseRoutes
    LeftCity <- BaseLeftCity
    RightCity <- BaseRightCity
    Spots <- BaseSpots
    Offices <- BaseOffices
    Coellen <- BaseCoellen
    Award <- BaseAward
    BonusTermini <- BaseBonusTermini
    StartTrack <- MCTrack
    Contested <- MCContested
    GamePoints = {0, 7}
INVARIANTS
    NetworkIsLargest
    BonusRouteLinks
    PlacesFollowTotals
CHECK_DEADLOCK FALSE
