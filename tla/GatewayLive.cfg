SPECIFICATION FairSpec
CONSTANTS
    p1 = p1  p2 = p2
    d1 = d1
    Pids = {p1, p2}
    Dhcp = {d1}
    Loopy = {}
    MaxUser = 1
    Gw = gw
    Nil = nil
    Configs <- LiveConfigs
    MaxOthers = 0
    FullBuild = FALSE
    Installed = TRUE
    WritesFail = FALSE
PROPERTIES
    SignalEnds
    CrashHeals
