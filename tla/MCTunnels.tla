----------------------------- MODULE MCTunnels -----------------------------
(* Instances of Tunnels for TLC.                                           *)
EXTENDS Tunnels

MCProtocol ==
    [l \in {"relay", "exit", "fast"} |->
        CASE l = "relay" -> "ssh" [] l = "exit" -> "vless" [] l = "fast" -> "hysteria2"]

ChainOf(name, profiles) ==
    [name |-> name,
     hops |-> [i \in DOMAIN profiles |-> [profile |-> profiles[i], engine |-> Nil]]]

(* A chain over ssh, the same name again with a profile that is gone, and  *)
(* one in a single process.                                                *)
MixedChains ==
    << ChainOf("a", <<"relay", "fast">>), ChainOf("a", <<"fast", "deleted">>),
       ChainOf("s", <<"exit", "exit">>) >>

(* Two hops over ssh.                                                      *)
SshChain == << ChainOf("a", <<"relay", "relay">>) >>
=============================================================================
