------------------------------ MODULE Tunnels ------------------------------
(***************************************************************************)
(* internal/tunnel's Manager and internal/engine's Process as the gateway  *)
(* uses them: Start ends by starting the auto-start chains one after the   *)
(* other (startAutoChains); only then is the API served, which lists and   *)
(* stops tunnels. The engines are processes of their own: they read their  *)
(* config, take their port and exit when they like.                        *)
(*                                                                         *)
(* A Tunnel is made together with its Process and never gets another one:  *)
(* both are one record here, and a pointer to either is its index.         *)
(***************************************************************************)
EXTENDS Naturals, Sequences, Functions

CONSTANTS
    Procs,       \* bounds the processes there are at a time
    Nil,
    Links,       \* the profiles GetLink finds
    Protocol,    \* Protocol[l]: the protocol of a link
    Chains,      \* the chains with auto_start, as the config lists them
    Installed    \* cleanupPreviousRun knows the engines by their config path

VARIABLES
    proc,      \* proc[p]: a process and its Tunnel
    files,     \* files[e]: the config file all links of engine e are written to
    link,      \* link[l]: ListenPort and ChainProxy of the link in memory
    tunnels,   \* tunnels[n]: the Tunnel of that name
    chains,    \* chains[n]: the Chain of that name
    pc,        \* where startAutoChains is
    at,        \* the chain and the hop it is starting
    hops,      \* the Hops of that chain
    awaited    \* the ssh whose port startSSHTunnel waits for

managerVars == <<link, tunnels, chains>>
vars == <<proc, files, managerVars, pc, at, hops, awaited>>

ChainNames == {Chains[c].name : c \in DOMAIN Chains}
HopNumbers == UNION {DOMAIN Chains[c].hops : c \in DOMAIN Chains}
TunnelNames == ChainNames \X HopNumbers

(* Hop i listens on port 10799 + i; i stands for it. All hops of a single- *)
(* process chain are one tunnel, number 0, on the port of hop 1.           *)
Single == 0
Confs == [port : HopNumbers \cup {Nil}, via : HopNumbers \cup {Nil}]
NoConf == [port |-> Nil, via |-> Nil]

(* The engines that get a file named after the engine.                     *)
FileEngines == {"sing-box", "xray"}
Engines == FileEngines \cup {"ssh", "wireguard-go", "openvpn"}

Processes ==
    [engine : Engines, name : ChainNames \X (HopNumbers \cup {Single}),
     state : {"loading", "up", "exited"}, conf : Confs,
     listens : BOOLEAN,
     told : BOOLEAN,       \* to stop, by Process.Stop or the gateway's context
     ours : BOOLEAN,       \* a child of the gateway that runs
     status : {"running", "stopped"}]

ASSUME TunnelsAssumption ==
    /\ Nil \notin Processes /\ Nil \notin Procs /\ Nil \notin HopNumbers
    /\ Nil \notin [hops : SUBSET Procs, status : {"running", "error"}]
    /\ Len(Chains) \in Nat /\ DOMAIN Chains = 1..Len(Chains)
    /\ \A c \in DOMAIN Chains : /\ Len(Chains[c].hops) \in Nat
                               /\ DOMAIN Chains[c].hops = 1..Len(Chains[c].hops)
    /\ Installed \in BOOLEAN

TypeOK ==
    /\ proc \in [Procs -> Processes \cup {Nil}]
    /\ files \in [FileEngines -> Confs]
    /\ link \in [Links -> Confs]
    /\ tunnels \in [TunnelNames -> Procs \cup {Nil}]
    /\ chains \in [ChainNames ->
          [hops : SUBSET Procs, status : {"running", "error"}] \cup {Nil}]
    /\ pc \in {"off", "chain", "hop", "port", "done", "leaving"}
    /\ at \in [chain : 1..Len(Chains) + 1, hop : Nat \ {0}]
    /\ hops \in SUBSET Procs /\ awaited \in Procs \cup {Nil}

NewManager ==
    /\ link = [l \in Links |-> NoConf]
    /\ tunnels = [n \in TunnelNames |-> Nil]
    /\ chains = [n \in ChainNames |-> Nil]

Init ==
    /\ proc = [p \in Procs |-> Nil]
    /\ files = [e \in FileEngines |-> NoConf]
    /\ NewManager
    /\ pc = "off" /\ at = [chain |-> 1, hop |-> 1] /\ hops = {} /\ awaited = Nil

-----------------------------------------------------------------------------
(* Chains                                                                  *)

Compatible ==
    {"vmess", "vless", "trojan", "shadowsocks", "wireguard", "socks5", "http"}

resolveChainStrategy(chain) ==
    IF \A i \in DOMAIN chain.hops :
          /\ chain.hops[i].engine \in {Nil, "sing-box"}
          /\ chain.hops[i].profile \in Links
          /\ Protocol[chain.hops[i].profile] \in Compatible
    THEN "single-process" ELSE "multi-process"

(* "bypath chain add" refuses a name twice. In a config written by hand,   *)
(* chains of one name are taken to be of one strategy: a multi-process     *)
(* chain would take the entry of a single-process one that is running.     *)
ASSUME ChainsAssumption ==
    \A c, d \in DOMAIN Chains : Chains[c].name = Chains[d].name =>
        resolveChainStrategy(Chains[c]) = resolveChainStrategy(Chains[d])

-----------------------------------------------------------------------------
(* Processes                                                               *)

Live == {p \in Procs : proc[p] # Nil /\ proc[p].state # "exited"}

Listening(port) == \E p \in Live : proc[p].listens /\ proc[p].conf.port = port

(* Process and Tunnel objects something still points to.                   *)
Referenced ==
    Range(tunnels) \cup hops \cup {awaited}
        \cup UNION {chains[n].hops : n \in {m \in ChainNames : chains[m] # Nil}}

Unused == Procs \ (Live \cup Referenced)

(* Which index a new process gets makes no difference.                     *)
NewProc == CHOOSE p \in Unused : TRUE

NewProcess(engine, name, conf) ==
    [engine |-> engine, name |-> name, state |-> "loading", conf |-> conf,
     listens |-> FALSE, told |-> FALSE, ours |-> TRUE, status |-> "running"]

(* Process.Stop cancels the context of the processes, and does not wait.   *)
Told(ps) ==
    [p \in Procs |-> IF p \in ps \cap Live THEN [proc[p] EXCEPT !.told = TRUE]
                                           ELSE proc[p]]

Gone(ps) ==
    [p \in Procs |-> IF p \in ps \cap Live
                     THEN [proc[p] EXCEPT !.state = "exited", !.listens = FALSE,
                                          !.conf = NoConf]
                     ELSE proc[p]]

(* The engine reads its config, whatever the file holds by now, and takes  *)
(* its port. ssh goes on without it, the others exit; wireguard-go and     *)
(* openvpn have none.                                                      *)
Load(p) ==
    /\ p \in Live /\ proc[p].state = "loading"
    /\ LET engine == proc[p].engine
           conf == IF engine \in FileEngines /\ proc[p].name[2] # Single
                   THEN files[engine] ELSE proc[p].conf
           taken == Listening(conf.port)
       IN proc' = IF taken /\ engine \in FileEngines THEN Gone({p})
                  ELSE [proc EXCEPT ![p].conf = conf, ![p].state = "up",
                                    ![p].listens = conf.port # Nil /\ ~taken]
    /\ UNCHANGED <<files, managerVars, pc, at, hops, awaited>>

(* It is told to stop, it crashes, its server is gone; the goroutine that  *)
(* waits for it resets running.                                            *)
Exit(p) ==
    /\ p \in Live
    /\ proc' = Gone({p})
    /\ UNCHANGED <<files, managerVars, pc, at, hops, awaited>>

-----------------------------------------------------------------------------
(* startAutoChains                                                         *)

Chain == Chains[at.chain]
Hop == Chain.hops[at.hop]
HopName == <<Chain.name, at.hop>>

resolveEngine(protocol) ==
    CASE protocol = "wireguard" -> "wireguard-go"
      [] protocol = "openvpn" -> "openvpn"
      [] OTHER -> "sing-box"

(* An engine that is forced on an ssh link is ignored.                     *)
HopEngine ==
    IF Protocol[Hop.profile] = "ssh" THEN "ssh"
    ELSE IF Hop.engine # Nil THEN Hop.engine
    ELSE resolveEngine(Protocol[Hop.profile])

(* ChainProxy is set for the first hop too.                                *)
SlipLinkedHop ==
    IF Hop.profile \notin Links THEN link
    ELSE [link EXCEPT ![Hop.profile].port = at.hop, ![Hop.profile].via = at.hop - 1]

(* StartChain writes the ports of the hop into the link it was given a     *)
(* pointer to. The first hop leaves ChainProxy as it is.                   *)
LinkedHop ==
    IF Hop.profile \notin Links THEN link
    ELSE [link EXCEPT ![Hop.profile].port = at.hop,
                      ![Hop.profile].via = IF at.hop > 1 THEN at.hop - 1 ELSE @]

(* What the generator makes of them: only sing-box is given the proxy.     *)
ConfOf(engine) ==
    CASE engine = "sing-box" -> LinkedHop[Hop.profile]
      [] engine \in {"xray", "ssh"} -> [port |-> at.hop, via |-> Nil]
      [] OTHER -> NoConf

NextChain ==
    /\ pc' = "chain"
    /\ at' = [chain |-> at.chain + 1, hop |-> 1]
    /\ hops' = {} /\ awaited' = Nil

NextHop(p) ==
    /\ pc' = "hop"
    /\ at' = [at EXCEPT !.hop = @ + 1]
    /\ hops' = hops \cup {p} /\ awaited' = Nil

-----------------------------------------------------------------------------
(* StartChainSingleProcess                                                 *)

(* A chain that was stopped or failed may be started again.                *)
ChainIsRunning == chains[Chain.name] # Nil /\ chains[Chain.name].status = "running"

AtSingle ==
    /\ pc = "chain" /\ at.chain \in DOMAIN Chains
    /\ resolveChainStrategy(Chain) = "single-process"

StartSingle ==
    /\ AtSingle /\ Chain.hops # << >> /\ ~ChainIsRunning /\ Unused # {}
    /\ proc' = [proc EXCEPT ![NewProc] = NewProcess("sing-box", <<Chain.name, Single>>,
                                               [port |-> 1, via |-> Nil])]
    /\ chains' = [chains EXCEPT ![Chain.name] = [hops |-> {NewProc}, status |-> "running"]]
    /\ NextChain
    /\ UNCHANGED <<files, link, tunnels>>

(* No hop, no sing-box, no config, no process; or the chain is running.    *)
SingleFails ==
    /\ AtSingle
    /\ chains' = IF ChainIsRunning THEN chains
                 ELSE [chains EXCEPT ![Chain.name] = [hops |-> {}, status |-> "error"]]
    /\ NextChain
    /\ UNCHANGED <<proc, files, link, tunnels>>

-----------------------------------------------------------------------------
(* StartChain of hops that need a process each                             *)

StartMulti ==
    /\ pc = "chain" /\ at.chain \in DOMAIN Chains
    /\ resolveChainStrategy(Chain) = "multi-process"
    /\ pc' = "hop"
    /\ UNCHANGED <<proc, files, managerVars, at, hops, awaited>>

AtHop == pc = "hop" /\ at.hop \in DOMAIN Chain.hops

(* The status of a tunnel is not looked after: one whose process exited    *)
(* by itself is running until GetStatus is called.                         *)
SlipTunnelIsRunning(n) == FALSE

TunnelIsRunning(n) == tunnels[n] # Nil /\ proc[tunnels[n]].status = "running"

(* generateConfig: every tunnel of an engine writes the one file of it.    *)
generateConfig == [e \in FileEngines |-> IF e = HopEngine THEN ConfOf(e) ELSE files[e]]

(* StartTunnel of a link that is not ssh.                                  *)
StartTunnel ==
    /\ AtHop /\ Hop.profile \in Links /\ HopEngine \in Engines \ {"ssh"}
    /\ ~TunnelIsRunning(HopName) /\ Unused # {}
    /\ link' = LinkedHop
    /\ files' = generateConfig
    /\ proc' = [proc EXCEPT ![NewProc] = NewProcess(HopEngine, HopName, ConfOf(HopEngine))]
    /\ tunnels' = [tunnels EXCEPT ![HopName] = NewProc]
    /\ NextHop(NewProc)
    /\ UNCHANGED chains

(* startSSHTunnel up to the wait, which leaves the manager's lock; nobody  *)
(* else takes it before the API is served.                                 *)
startSSHTunnel ==
    /\ AtHop /\ Hop.profile \in Links /\ Protocol[Hop.profile] = "ssh"
    /\ ~TunnelIsRunning(HopName) /\ Unused # {}
    /\ link' = LinkedHop
    /\ proc' = [proc EXCEPT ![NewProc] = NewProcess("ssh", HopName, ConfOf("ssh"))]
    /\ pc' = "port" /\ awaited' = NewProc
    /\ UNCHANGED <<files, tunnels, chains, at, hops>>

(* stopChainHops forgets the hops.                                         *)
SlipstopChainHops == proc

(* Only hops whose process runs are stopped, and marked as stopped.        *)
stopChainHops ==
    [p \in Procs |-> IF p \in hops \cap Live
                     THEN [proc[p] EXCEPT !.told = TRUE, !.status = "stopped"]
                     ELSE proc[p]]

(* The profile is missing, the tunnel is running already, the engine or    *)
(* its log file cannot be opened; the chain is not listed. The config may  *)
(* have been written by then, also over one that a process has yet to load.*)
HopFails ==
    /\ AtHop
    /\ link' = LinkedHop
    /\ \/ files' = files
       \/ /\ Hop.profile \in Links /\ HopEngine \in FileEngines /\ ~TunnelIsRunning(HopName)
          /\ files' = generateConfig
    /\ proc' = stopChainHops
    /\ NextChain
    /\ UNCHANGED <<tunnels, chains>>

(* waitForPort connects, whoever listens there.                            *)
PortReady ==
    /\ pc = "port" /\ Listening(at.hop)
    /\ tunnels' = [tunnels EXCEPT ![HopName] = awaited]
    /\ NextHop(awaited)
    /\ UNCHANGED <<proc, files, link, chains>>

(* No deadline: the wait ends when the port is open or ssh is gone.        *)
SlipPortTimeout ==
    /\ pc = "port" /\ awaited \notin Live
    /\ proc' = stopChainHops
    /\ NextChain
    /\ UNCHANGED <<files, managerVars>>

(* 10 s are over, perhaps just before the port opens. ssh is told to stop, *)
(* then the hops before it.                                                *)
PortTimeout ==
    /\ pc = "port"
    /\ proc' = [stopChainHops EXCEPT ![awaited] = Told({awaited})[awaited]]
    /\ NextChain
    /\ UNCHANGED <<files, managerVars>>

ChainStarted ==
    /\ pc = "hop" /\ at.hop \notin DOMAIN Chain.hops
    /\ chains' = [chains EXCEPT ![Chain.name] = [hops |-> hops, status |-> "running"]]
    /\ NextChain
    /\ UNCHANGED <<proc, files, link, tunnels>>

AllTried ==
    /\ pc = "chain" /\ at.chain \notin DOMAIN Chains
    /\ pc' = "done"
    /\ UNCHANGED <<proc, files, managerVars, at, hops, awaited>>

-----------------------------------------------------------------------------
(* The API, and the life of the gateway                                    *)

StopTunnel(n) ==
    /\ pc = "done" /\ tunnels[n] # Nil
    /\ proc' = [Told({tunnels[n]}) EXCEPT ![tunnels[n]].status = "stopped"]
    /\ UNCHANGED <<files, managerVars, pc, at, hops, awaited>>

GetStatus ==
    /\ pc = "done"
    /\ proc' = [p \in Procs |-> IF p \in Range(tunnels) \ (Live \cup {Nil})
                                THEN [proc[p] EXCEPT !.status = "stopped"]
                                ELSE proc[p]]
    /\ UNCHANGED <<files, managerVars, pc, at, hops, awaited>>

(* Start has come to startAutoChains; cleanupPreviousRun, at its begin,    *)
(* has killed the engines whose command line it knows.                     *)
Launch ==
    /\ pc = "off" /\ pc' = "chain"
    /\ proc' = Gone({p \in Live : Installed /\ proc[p].engine \in FileEngines})
    /\ UNCHANGED <<files, managerVars, at, hops, awaited>>

(* Gateway.Stop cancels the context of every process and returns.          *)
Stop ==
    /\ pc = "done" /\ pc' = "leaving"
    /\ proc' = Told({p \in Live : proc[p].ours})
    /\ UNCHANGED <<files, managerVars, at, hops, awaited>>

(* The gateway ends, after Stop or without. A process that was not killed  *)
(* yet goes on, unless systemd ends the control group.                     *)
Ends ==
    /\ pc # "off" /\ pc' = "off"
    /\ at' = [chain |-> 1, hop |-> 1] /\ hops' = {} /\ awaited' = Nil
    /\ link' = [l \in Links |-> NoConf]
    /\ tunnels' = [n \in TunnelNames |-> Nil]
    /\ chains' = [n \in ChainNames |-> Nil]
    /\ \E group \in BOOLEAN :
          proc' = [p \in Procs |-> IF p \in Live /\ ~group
                                   THEN [proc[p] EXCEPT !.ours = FALSE] ELSE Nil]
    /\ UNCHANGED files

-----------------------------------------------------------------------------
StartStep ==
    \/ StartSingle \/ StartTunnel \/ startSSHTunnel
    \/ SingleFails \/ StartMulti \/ HopFails
    \/ PortReady \/ PortTimeout \/ ChainStarted \/ AllTried

Next ==
    \/ StartStep
    \/ \E p \in Procs : Load(p) \/ Exit(p)
    \/ \E n \in TunnelNames : StopTunnel(n)
    \/ GetStatus \/ Launch \/ Stop \/ Ends

Spec == Init /\ [][Next]_vars

(* Every wait of startAutoChains has a deadline.                           *)
FairSpec == Spec /\ WF_vars(StartStep)

-----------------------------------------------------------------------------
(* The processes nobody has told to stop.                                  *)
Wanted == {p \in Live : proc[p].ours /\ ~proc[p].told}

(* Every process that nobody has told to stop belongs to the chain that is *)
(* being started or to one that is listed as running: a chain that fails   *)
(* at any hop, whichever way, leaves no hop behind (stopChainHops, the     *)
(* Stop after a timeout), and no second start of a chain takes its place.  *)
Accounted ==
    \A p \in Wanted :
        \/ p \in hops \cup {awaited}
        \/ \E n \in ChainNames :
              chains[n] # Nil /\ chains[n].status = "running" /\ p \in chains[n].hops

(* StopTunnel finds every hop that has a process of its own: no entry of   *)
(* the map is overwritten while its process is to go on.                   *)
Stoppable ==
    \A p \in Wanted :
        proc[p].name[2] = Single \/ p = awaited \/ tunnels[proc[p].name] = p

(* No hop, dead, hung or missing, keeps the gateway in startAutoChains,    *)
(* where it serves no API and hears no signal.                             *)
ChainsTried == pc \in {"chain", "hop", "port"} ~> pc \in {"done", "off"}

(* "Traffic flows through each hop" of a chain whose processes are up: the *)
(* first dials out, each later one through the port the one before it has. *)
TrafficFlowsThroughHops ==
    \A n \in ChainNames :
        LET c == chains[n]
        IN /\ c # Nil /\ c.status = "running"
           /\ \A p \in c.hops : p \in Wanted /\ proc[p].state = "up"
           => \A p \in c.hops :
                 IF proc[p].name[2] \in {Single, 1} THEN proc[p].conf.via = Nil
                 ELSE \E q \in c.hops :
                         /\ proc[q].name[2] = proc[p].name[2] - 1
                         /\ proc[q].listens /\ proc[q].conf.port = proc[p].conf.via
=============================================================================
