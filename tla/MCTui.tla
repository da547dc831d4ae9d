------------------------------- MODULE MCTui -------------------------------
(* Instances of Tui for TLC.                                               *)
EXTENDS Tui

CONSTANTS a, def, z, l1, l2, bad

MCNames == <<a, def, z>>
MCFetched == <<bad, l2, l1>>

Plain(links) == [links |-> links, sub |-> FALSE]
Sub(links)   == [links |-> links, sub |-> TRUE]

(* A subscription beside the default group; only the subscription.         *)
MCProfiles ==
    { [g \in {a, def, z} |-> CASE g = a   -> Sub(<<bad, l1, l2>>)
                               [] g = def -> IF manual THEN Plain(<<l2>>) ELSE None
                               [] OTHER   -> None] : manual \in BOOLEAN }
=============================================================================
