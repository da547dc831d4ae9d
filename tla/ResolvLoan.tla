----------------------------- MODULE ResolvLoan -----------------------------
(***************************************************************************)
(* What bypath promises about a host's resolv.conf: it borrows the file.   *)
(* It keeps what it found before the file names bypath itself, and when it *)
(* gives the file back it is with exactly what it kept. Only the others    *)
(* who write the file can change it to something else in between.          *)
(*                                                                         *)
(* The promise is as good as the writes it rests on. When one of them      *)
(* fails the loan is broken: nothing need be kept any more. It is sound    *)
(* again when the file is readable and no longer lent.                     *)
(***************************************************************************)
CONSTANTS
    Others,   \* contents a DHCP client or the user writes
    Lent,     \* the content that names bypath
    Stub,     \* a link to the stub of systemd-resolved
    Public,   \* public servers, for when systemd-resolved is turned off
    Fallback, \* public servers, for when there is nothing to give back
    Empty,    \* the file is empty or missing
    None      \* nothing is kept

VARIABLES
    content,  \* what the file holds
    kept,     \* what it held when it was borrowed, or None
    broken    \* a write has failed

vars == <<content, kept, broken>>

Init == content \in Others \cup {Stub} /\ kept = None /\ broken = FALSE

(* Somebody else writes the file, at any time: also while it is lent.      *)
Rewrite == content' \in Others /\ UNCHANGED <<kept, broken>>

(* The stub is of no use any more: its service is turned off.              *)
Unstub == content = Stub /\ content' = Public /\ UNCHANGED <<kept, broken>>

Keep == /\ kept = None /\ content \notin {Lent, Empty}
        /\ kept' = content /\ UNCHANGED <<content, broken>>

(* Not before something is kept.                                           *)
Lend == /\ kept # None \/ broken
        /\ content' = Lent /\ UNCHANGED <<kept, broken>>

(* The file is readable and nobody's but the host's: the loan is sound.    *)
Mended == broken' \in {broken, FALSE}

GiveBack == kept # None /\ content' = kept /\ UNCHANGED kept /\ Mended

(* What is kept is thrown away only while the file is not lent.            *)
Forget == /\ content # Lent \/ broken
          /\ kept' = None /\ UNCHANGED <<content, broken>>

(* There is nothing to give back, and the file is replaced nevertheless.   *)
Replace == kept = None /\ content' = Fallback /\ UNCHANGED kept /\ Mended

(* The file is found in order, nothing is kept.                            *)
Mend == /\ kept = None /\ content \notin {Lent, Empty}
        /\ Mended /\ UNCHANGED <<content, kept>>

(* A write fails: the file or what is kept may be lost, or the fallback    *)
(* may have to do.                                                         *)
Break == /\ broken' = TRUE
         /\ content' \in {content, Empty, Fallback}
         /\ kept' \in {kept, None}

Next == \/ Rewrite \/ Unstub \/ Keep \/ Lend \/ GiveBack \/ Forget \/ Replace
        \/ Mend \/ Break

Spec == Init /\ [][Next]_vars
=============================================================================
