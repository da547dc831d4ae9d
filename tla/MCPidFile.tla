----------------------------- MODULE MCPidFile -----------------------------
(* Instances of PidFile for TLC.                                           *)
EXTENDS PidFile, TLC

ProcSymmetry == Permutations(Procs)
=============================================================================
