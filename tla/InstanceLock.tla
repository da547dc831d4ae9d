---------------------------- MODULE InstanceLock ----------------------------
(***************************************************************************)
(* What the pidfile is for: "only one instance can run at a time". A       *)
(* process comes inside only when nobody is. It leaves whenever it likes,  *)
(* is killed, or loses its place to somebody who takes it for dead.        *)
(***************************************************************************)
CONSTANT Procs
VARIABLE inside

Init == inside = {}

Take(p)  == inside = {} /\ inside' = {p}
Leave(p) == p \in inside /\ inside' = inside \ {p}

Next == \E p \in Procs : Take(p) \/ Leave(p)

Spec == Init /\ [][Next]_inside
=============================================================================
