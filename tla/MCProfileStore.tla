--------------------------- MODULE MCProfileStore --------------------------
(* Instances of ProfileStore for TLC.                                      *)
EXTENDS ProfileStore

CONSTANTS a, b, def, l1, l2, bad, url

File(links, subs, g) == [links |-> links, subs |-> subs, tag |-> g]

(* A fresh directory; a subscription and links added by hand.              *)
MCStores ==
    { [g \in {a, b, def} |-> None],
      [g \in {a, b, def} |-> CASE g = a   -> File(<<l1, l2, l1>>, <<url>>, a)
                               [] g = def -> File(<<bad, l1>>, <<>>, def)
                               [] OTHER   -> None] }

MCFetches == {<<l2>>, <<l1, l1>>}

MCOutcomes == { [passed |-> FALSE, https |-> FALSE, ms |-> 9],
                [passed |-> TRUE, https |-> FALSE, ms |-> 1],
                [passed |-> TRUE, https |-> TRUE, ms |-> 2] }
=============================================================================
