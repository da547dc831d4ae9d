SPECIFICATION StopSpec
CONSTANTS
    p1 = p1  p2 = p2
    d1 = d1
    Pids = {p1, p2}
    Dhcp = {d1}
    Loopy = {}
    MaxUser = 0
    Gw = gw
    Nil = nil
    Configs <- StopConfigs
    MaxOthers = 0
    FullBuild = FALSE
    Installed = TRUE
    WritesFail = TRUE
SYMMETRY PidSymmetry
INVARIANTS
    TypeOK
    ResolvRecoverable
    ChildrenKnown
    StopReleases
    SelfHealed
PROPERTIES
    ImplementsLoan
