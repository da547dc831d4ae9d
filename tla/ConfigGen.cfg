SPECIFICATION Spec
CONSTANTS
    None = none
    Names <- MCNames
    Addrs <- MCAddrs
    Covers <- MCCovers
    Confs <- MCConfs
    Links <- MCLinks
    Chains <- MCChains
    GeoData <- MCGeoData
    MaxRuns = 2
CHECK_DEADLOCK FALSE
INVARIANTS
    TypeOK
    RouteIsDefined
    ServerFoundWithoutTunnel
    ForcedIsTunnelled
    DnsRulesFollowRoute
    EnginesAgree
    ChainPassesEveryHop
PROPERTIES
    RulesStay
