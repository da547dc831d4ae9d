----------------------------- MODULE MCGateway -----------------------------
(* Instances of Gateway for TLC.                                           *)
EXTENDS Gateway, TLC

Conf(enabled, native, local, fb, pref) ==
    [enabled |-> enabled, nativeTun |-> native, localDNS |-> local,
     fallback |-> fb, preferred |-> pref, order |-> << >>]

(* Legacy mode: xray, an external DNS proxy and tun2socks, no fallback.    *)
Legacy == Conf(TRUE, FALSE, FALSE, FALSE, "xray")

(* Native TUN asked for: with fallback to xray, and as a plain proxy.      *)
Native == {Conf(TRUE, TRUE, TRUE, TRUE, ""), Conf(FALSE, TRUE, FALSE, FALSE, "")}

AllConfigs == Native \cup {Legacy}

(* Every step of a Start is on the way: native TUN, then the legacy mode.  *)
LiveConfigs == {Conf(TRUE, TRUE, TRUE, FALSE, "")}

PidSymmetry == Permutations(Pids)
=============================================================================
