--------------------------- MODULE MCStopCommand ---------------------------
(* An instance of StopCommand for TLC.                                     *)
EXTENDS StopCommand, TLC

(* Legacy mode on xray, which has the most processes to leave behind.      *)
StopConfigs ==
    {[enabled |-> TRUE, nativeTun |-> FALSE, localDNS |-> FALSE,
      fallback |-> FALSE, preferred |-> "xray", order |-> << >>]}

PidSymmetry == Permutations(Pids)
=============================================================================
