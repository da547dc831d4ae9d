------------------------------ MODULE HostNet ------------------------------
(***************************************************************************)
(* The Linux host bypath runs on, as far as gateway.go and cmd_system.go   *)
(* read or change it: the OS processes and the ports they hold, the tun0   *)
(* device, the packet-filter and routing rules, /etc/resolv.conf with its  *)
(* backup, the pins in /etc/hosts and the file of child PIDs.              *)
(*                                                                         *)
(* Nothing here is bypath's own control flow: Gateway and StopCommand      *)
(* extend this module and change the host through the operators below;     *)
(* HostNext is what the host does on its own.                              *)
(***************************************************************************)
EXTENDS Naturals, FiniteSets

CONSTANTS
    Pids,     \* process ids the kernel can hand out
    Dhcp,     \* resolv.conf contents a DHCP client or the user writes
    Loopy,    \* those of them that contain 127.0.0.1
    MaxUser,  \* sing-boxes of the user's that run at once, at most
    Gw,       \* the gateway process itself, as the holder of a port
    Nil       \* no process, no file, no device

VARIABLES
    proc,       \* proc[p]: what runs under pid p
    socks,      \* who listens on the SOCKS port
    dns53,      \* who listens on port 53
    tun0,       \* Nil, "tuntap" (persistent device) or the process that opened it
    fw,         \* the rule groups bypath has installed
    pins,       \* /etc/hosts holds a "# bypath-pin" line
    resolv,     \* content of /etc/resolv.conf; Empty also when it is missing
    backup,     \* content of /etc/resolv.conf.bypath-backup, or Nil
    immutable,  \* chattr +i is set on /etc/resolv.conf
    dnsmasqUnit,\* systemd knows a dnsmasq unit
    children    \* pids listed in the children file

procVars   == <<proc, socks, dns53, tun0>>
resolvVars == <<resolv, backup, immutable>>
hostVars   == <<procVars, fw, pins, resolvVars, dnsmasqUnit, children>>

Engines  == {"sing-box", "xray"}
DnsKinds == {"dns2socks", "dnsmasq"}
Kinds    == Engines \cup DnsKinds \cup {"tun2socks"}

(* Contents of resolv.conf that bypath writes, and the systemd stub.       *)
Loopback == "127.0.0.1"
Fallback == "8.8.8.8 1.1.1.1"
Public   == "1.1.1.1 8.8.8.8"
Stub     == "127.0.0.53"
Empty    == "empty"

Contents == Dhcp \cup {Loopback, Fallback, Public, Stub}

ASSUME HostAssumption ==
    /\ Gw # Nil /\ Gw \notin Pids /\ Nil \notin Pids
    /\ Pids \cap {"tuntap", "dnsmasq", "resolved"} = {}
    /\ {Gw, Nil} \cap {"tuntap", "dnsmasq", "resolved"} = {}
    /\ Loopy \subseteq Dhcp
    /\ MaxUser \in Nat
    /\ Dhcp \cap {Loopback, Fallback, Public, Stub, Empty, Nil} = {}
    /\ Nil \notin {Loopback, Fallback, Public, Stub, Empty}

(***************************************************************************)
(* A process: a child of the running gateway, an orphan a dead gateway     *)
(* left, or a program of the user's. "term" has got SIGTERM and has not    *)
(* exited yet; a "zombie" has exited and its parent has not waited for it. *)
(* native: the engine was given a config with a TUN and a DNS inbound.     *)
(***************************************************************************)
Process == [kind   : Kinds \cup {"none"},
            owner  : {"gateway", "orphan", "user", "none"},
            status : {"free", "live", "term", "zombie"},
            native : BOOLEAN]

Free == [kind |-> "none", owner |-> "none", status |-> "free", native |-> FALSE]

Child(kind, native) ==
    [kind |-> kind, owner |-> "gateway", status |-> "live", native |-> native]

FreePids == {p \in Pids : proc[p].status = "free"}
Running(p) == proc[p].status \in {"live", "term"}

HostTypeOK ==
    /\ proc \in [Pids -> Process]
    /\ socks \in Pids \cup {Nil, Gw}
    /\ dns53 \in Pids \cup {Nil, Gw, "dnsmasq", "resolved"}
    /\ tun0 \in Pids \cup {Nil, Gw, "tuntap"}
    /\ fw \subseteq {"mangle", "natpre", "natpost", "forward", "iprule", "table100"}
    /\ pins \in BOOLEAN
    /\ resolv \in Contents \cup {Empty}
    /\ backup \in Contents \cup {Nil, Empty}
    /\ immutable \in BOOLEAN
    /\ dnsmasqUnit \in BOOLEAN
    /\ children \subseteq Pids

HostInit ==
    /\ proc = [p \in Pids |-> Free]
    /\ socks = Nil
    /\ dnsmasqUnit \in BOOLEAN
    /\ \/ dns53 = Nil /\ resolv \in Dhcp
       \/ dns53 = "dnsmasq" /\ dnsmasqUnit /\ resolv \in Dhcp
       \/ dns53 = "resolved" /\ resolv \in Dhcp \cup {Stub}
    /\ tun0 = Nil
    /\ fw = {}
    /\ pins = FALSE
    /\ backup = Nil
    /\ immutable = FALSE
    /\ children = {}

-----------------------------------------------------------------------------
(* A holder in S loses its ports, and a TUN device it had opened.          *)
Release(h, S) == IF h \in S THEN Nil ELSE h

Released(S) ==
    /\ socks' = Release(socks, S)
    /\ dns53' = Release(dns53, S)
    /\ tun0'  = Release(tun0, S)

(* Processes S end without their parent waiting for them: a child of the   *)
(* gateway stays a zombie, any other is reaped by init.                    *)
Die(S) ==
    /\ proc' = [p \in Pids |->
                  IF p \notin S THEN proc[p]
                  ELSE IF proc[p].owner = "gateway"
                       THEN [proc[p] EXCEPT !.status = "zombie"]
                       ELSE Free]
    /\ Released(S)

(* Process.Kill followed by Wait on children S of the gateway.             *)
KillAndWait(S) ==
    /\ proc' = [p \in Pids |-> IF p \in S THEN Free ELSE proc[p]]
    /\ Released(S)

(* The gateway process is gone: what it listened on is closed, zombies are *)
(* reaped, and its children are orphaned, or killed with it when systemd   *)
(* supervises the unit (KillMode=control-group).                           *)
Abandon(supervised) ==
    LET mine == {p \in Pids : proc[p].owner = "gateway"}
        gone == {p \in mine : supervised \/ proc[p].status = "zombie"}
    IN  /\ proc' = [p \in Pids |->
                      IF p \in gone THEN Free
                      ELSE IF p \in mine THEN [proc[p] EXCEPT !.owner = "orphan"]
                      ELSE proc[p]]
        /\ Released(gone \cup {Gw})

-----------------------------------------------------------------------------
(* An engine gets to its listeners: it binds the SOCKS port, and in native *)
(* mode port 53 and tun0 unless the kernel refuses the device. It exits    *)
(* when the SOCKS port is taken.                                           *)
EngineUp(p) ==
    /\ proc[p].kind \in Engines /\ proc[p].status = "live"
    /\ proc[p].owner # "user" /\ socks # p
    /\ \/ /\ socks = Nil
          /\ socks' = p
          /\ dns53' = IF proc[p].native /\ dns53 = Nil THEN p ELSE dns53
          /\ \/ UNCHANGED tun0
             \/ proc[p].native /\ tun0 = Nil /\ tun0' = p
          /\ UNCHANGED proc
       \/ socks # Nil /\ Die({p})
    /\ UNCHANGED <<fw, pins, resolvVars, dnsmasqUnit, children>>

(* dns2socks or a dnsmasq child binds port 53, and exits when it is taken. *)
DnsUp(p) ==
    /\ proc[p].kind \in DnsKinds /\ proc[p].status = "live" /\ dns53 # p
    /\ \/ dns53 = Nil /\ dns53' = p /\ UNCHANGED <<proc, socks, tun0>>
       \/ dns53 # Nil /\ Die({p})
    /\ UNCHANGED <<fw, pins, resolvVars, dnsmasqUnit, children>>

(* Any process may exit or crash at any time.                              *)
Exit(p) ==
    /\ Running(p)
    /\ Die({p})
    /\ UNCHANGED <<fw, pins, resolvVars, dnsmasqUnit, children>>

(* The user starts a sing-box of their own, under any pid that is free.    *)
UserStarts(p) ==
    /\ p \in FreePids
    /\ Cardinality({q \in Pids : proc[q].owner = "user"}) < MaxUser
    /\ proc' = [proc EXCEPT ![p] = [kind |-> "sing-box", owner |-> "user",
                                    status |-> "live", native |-> FALSE]]
    /\ UNCHANGED <<socks, dns53, tun0, fw, pins, resolvVars, dnsmasqUnit, children>>

(* A DHCP client rewrites resolv.conf whenever the file lets it.           *)
DhcpWrites ==
    /\ ~immutable
    /\ \E d \in Dhcp : resolv' = d
    /\ UNCHANGED <<procVars, fw, pins, backup, immutable, dnsmasqUnit, children>>

HostNext ==
    \/ \E p \in Pids : EngineUp(p) \/ DnsUp(p) \/ Exit(p) \/ UserStarts(p)
    \/ DhcpWrites
=============================================================================
