SPECIFICATION Spec
CONSTANTS
    p1 = p1  p2 = p2
    Procs = {p1, p2}
    Nil = nil
    Links = {"relay", "exit", "fast"}
    Protocol <- MCProtocol
    Chains <- SshChain
    Installed = TRUE
INVARIANT TrafficFlowsThroughHops
