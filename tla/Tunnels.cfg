SPECIFICATION FairSpec
CONSTANTS
    p1 = p1  p2 = p2  p3 = p3
    Procs = {p1, p2, p3}
    Nil = nil
    Links = {"relay", "exit", "fast"}
    Protocol <- MCProtocol
    Chains <- MixedChains
    Installed = TRUE
INVARIANTS
    TypeOK
    Accounted
    Stoppable
PROPERTIES
    ChainsTried
