SPECIFICATION Spec
CONSTANTS
    p1 = p1  p2 = p2
    d1 = d1
    Pids = {p1, p2}
    Dhcp = {d1}
    Loopy = {}
    MaxUser = 0
    Gw = gw
    Nil = nil
    Configs <- AllConfigs
    MaxOthers = 1
    FullBuild = TRUE
    Installed = TRUE
    WritesFail = FALSE
SYMMETRY PidSymmetry
INVARIANTS
    FailedStartLeavesNoEngine
    NativeIsSingBox
    StopUndoesStart
    RulesHaveTun
