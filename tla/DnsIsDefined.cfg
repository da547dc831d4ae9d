SPECIFICATION Spec
CONSTANTS
    None = none
    Names <- MCNames
    Addrs <- MCAddrs
    Covers <- MCCovers
    Confs <- MCLocalConfs
    Links <- MCLinks
    Chains <- MCChains
    GeoData <- MCGeoData
    MaxRuns = 2
CHECK_DEADLOCK FALSE
INVARIANTS
    DnsIsDefined
