------------------------------ MODULE Gateway ------------------------------
(***************************************************************************)
(* "bypath run": the retry loop of cmd_run.go around Gateway.Start, and    *)
(* Gateway.Stop. The process is sequential (gw.mu is held for the whole of *)
(* Start, Stop and Reload); pc names the step it is about to take. Steps   *)
(* are cut where another process, a signal or a crash in between makes a   *)
(* difference to the host.                                                 *)
(*                                                                         *)
(* A definition named Slip... is a plausible mistake in the definition     *)
(* after it. The specification does not use it; it stands for a bug some   *)
(* property below has to notice.                                           *)
(***************************************************************************)
EXTENDS HostNet, Sequences

CONSTANTS
    Configs,    \* the configurations config.Load may return
    MaxOthers,  \* other testable links in the active link's group, at most
    FullBuild,  \* build.Variant = "full": engines are embedded
    Installed,  \* paths.Detect found the installed mode: TmpDir is /tmp/bypath-<pid>
    WritesFail  \* writes of resolv.conf, its backup and /etc/hosts may fail

VARIABLES
    pc,         \* the step the process takes next; "down" when there is none
    gw,         \* the fields of the Gateway struct
    cfg,        \* *gw.config
    search,     \* what Start's engine search has left to try
    sig,        \* a SIGINT or SIGTERM waits in sigCh
    supervised, \* systemd started the process
    restart,    \* systemd is going to start it again
    orig        \* the resolv.conf setResolvConf has read and not saved yet

(* Read by the properties only: a write of resolv.conf, of its backup or   *)
(* of the hosts file without the pins has failed, and cleanupPreviousRun   *)
(* has not brought resolv.conf in order since.                             *)
VARIABLE etcFailed

gwVars == <<pc, gw, cfg, search, sig, supervised, restart, orig, etcFailed>>
vars   == <<hostVars, gwVars>>

(* FallbackController.engineOrder: the preferred engine first.             *)
EngineOrder(c) ==
    LET order == IF c.order = << >> THEN <<"sing-box", "xray">> ELSE c.order
        other(e) == e # c.preferred
    IN  IF c.preferred = "" THEN order
        ELSE <<c.preferred>> \o SelectSeq(order, other)

Config == [enabled : BOOLEAN, nativeTun : BOOLEAN, localDNS : BOOLEAN,
           fallback : BOOLEAN, preferred : Engines \cup {""},
           order : Seq(Engines)]

(* A cmd field is Nil, a process, or a command whose Start failed: then    *)
(* the field is set and its Process is nil.                                *)
NoProcess == "no process"

ASSUME GatewayAssumption ==
    /\ FullBuild \in BOOLEAN /\ Installed \in BOOLEAN /\ WritesFail \in BOOLEAN
    /\ MaxOthers \in Nat
    /\ Configs # {}
    /\ \A c \in Configs : /\ c \in Config
                          /\ EngineOrder(c) \in Seq(Engines)
                          /\ EngineOrder(c) # << >>
    /\ NoProcess \notin Pids \cup {Nil}

NewGateway == [nativeTUN |-> FALSE, activeEngine |-> "", engineProc |-> Nil,
               embedded |-> "", tunProc |-> Nil, dnsProc |-> Nil,
               builtin |-> FALSE]

(* The engine search of Start. stage "config": native TUN is off in the    *)
(* config; "native", then "again" in a full build: the native attempts;    *)
(* "legacy": restartEngineAsLegacy. todo counts the links of the group     *)
(* still to try, engines are those still to try for the current link, pid  *)
(* is the process whose port is being polled.                              *)
NoSearch == [stage |-> "config", others |-> 0, todo |-> 0,
             engines |-> << >>, pid |-> Nil]

StartSteps == {"cleanEngines", "cleanChildren", "cleanRules", "cleanTun",
               "cleanResolv", "cleanBackup", "cleanHosts", "detect", "engine",
               "spawn", "poll", "verify", "nextLink", "waitTun", "dns", "dnsWait", "tun",
               "tunTrack", "route", "intercept", "saveResolv", "fillBackup",
               "writeResolv", "lockResolv"}
StopSteps == {"stopRules", "stopDevice", "stopResolv", "stopBackup", "stopHosts",
              "stopTun", "stopDns", "stopEngine", "stopDone"}

TypeOK ==
    /\ HostTypeOK
    /\ pc \in StartSteps \cup StopSteps \cup {"down", "retry", "running"}
    /\ gw \in [nativeTUN : BOOLEAN, activeEngine : Engines \cup {""},
               engineProc : Pids \cup {Nil}, embedded : Engines \cup {""},
               tunProc : Pids \cup {Nil, NoProcess},
               dnsProc : Pids \cup {Nil, NoProcess}, builtin : BOOLEAN]
    /\ cfg \in Configs
    /\ search \in [stage : {"config", "native", "again", "legacy"},
                   others : 0..MaxOthers, todo : 0..MaxOthers,
                   engines : Seq(Engines), pid : Pids \cup {Nil}]
    /\ sig \in BOOLEAN /\ supervised \in BOOLEAN /\ restart \in BOOLEAN
    /\ orig \in Contents \cup {Nil, Empty}
    /\ etcFailed \in BOOLEAN

Init ==
    /\ HostInit
    /\ pc = "down"
    /\ gw = NewGateway
    /\ cfg \in Configs
    /\ search = NoSearch
    /\ sig = FALSE /\ supervised = FALSE /\ restart = FALSE
    /\ orig = Nil
    /\ etcFailed = FALSE

Goto(from, to) == pc = from /\ pc' = to

(* os.WriteFile of resolv.conf fails: the file stays as it was, or it was  *)
(* truncated and is empty. A process killed in the middle of the write is  *)
(* the same, with a crash after it. The files are short enough to be       *)
(* written whole or not at all.                                            *)
ResolvWriteFails ==
    WritesFail /\ resolv' \in {resolv, Empty} /\ etcFailed' = TRUE

-----------------------------------------------------------------------------
(* The process comes and goes.                                             *)

(* The memory of the process: empty before it starts and after it ends.    *)
Blank == gw' = NewGateway /\ search' = NoSearch /\ sig' = FALSE /\ orig' = Nil

(* The unit has Conflicts=dnsmasq.service.                                 *)
DisplaceDnsmasq(bySystemd) ==
    /\ dns53' = IF bySystemd /\ dns53 = "dnsmasq" THEN Nil ELSE dns53
    /\ UNCHANGED <<proc, socks, tun0, fw, pins, resolvVars, dnsmasqUnit, children>>

(* A start by hand takes the place of the one systemd has scheduled.       *)
SlipLaunch(bySystemd) ==
    /\ Goto("down", "cleanEngines")
    /\ Blank
    /\ cfg' \in Configs
    /\ supervised' = bySystemd
    /\ restart' = FALSE
    /\ DisplaceDnsmasq(bySystemd)
    /\ UNCHANGED etcFailed

(* cmdRun up to the retry loop. A signal that comes before signal.Notify   *)
(* kills the process, which is Crash.                                      *)
Launch(bySystemd) ==
    /\ Goto("down", "cleanEngines")
    /\ Blank
    /\ cfg' \in Configs
    /\ supervised' = bySystemd
    /\ restart' = (restart /\ ~bySystemd)
    /\ DisplaceDnsmasq(bySystemd)
    /\ UNCHANGED etcFailed

(* The unit has Restart=on-failure: systemd starts bypath again after a    *)
(* crash or a SIGKILL, not after an exit with status 0. While a gateway    *)
(* started by hand runs, each attempt fails on the pidfile and is repeated.*)
SystemdRestarts == restart /\ Launch(TRUE)

(* The process ends without another line of its code: kill -9, a panic.    *)
Abort ==
    /\ pc' = "down"
    /\ Abandon(supervised)
    /\ Blank
    /\ restart' = (restart \/ supervised)
    /\ UNCHANGED <<fw, pins, resolvVars, dnsmasqUnit, children, cfg, supervised, etcFailed>>

Crash == pc # "down" /\ Abort

(* cmdRun returns, with status 0; deferred calls remove the pidfile.       *)
Return ==
    /\ pc' = "down"
    /\ Blank
    /\ UNCHANGED <<cfg, supervised, restart, etcFailed>>

Signal ==
    /\ pc # "down" /\ ~sig
    /\ sig' = TRUE
    /\ UNCHANGED <<orig, etcFailed, hostVars, pc, gw, cfg, search, supervised, restart>>

(* SIGHUP: Reload waits for gw.mu, which Start and Stop hold throughout.   *)
(* It replaces the config and nothing else.                                *)
Reload ==
    /\ pc \in {"running", "retry"}
    /\ cfg' \in Configs
    /\ UNCHANGED <<orig, etcFailed, hostVars, pc, gw, search, sig, supervised, restart>>

-----------------------------------------------------------------------------
(* Start, step 0: cleanupPreviousRun.                                      *)

(* pkill -f "<engine> run -c /tmp/bypath": SIGTERM to every engine whose   *)
(* config is in the TmpDir of the installed mode.                          *)
CleanEngines ==
    /\ Goto("cleanEngines", "cleanChildren")
    /\ proc' = [p \in Pids |->
                  IF /\ Installed /\ proc[p].status = "live"
                     /\ proc[p].kind \in Engines /\ proc[p].owner # "user"
                  THEN [proc[p] EXCEPT !.status = "term"]
                  ELSE proc[p]]
    /\ UNCHANGED <<socks, dns53, tun0, fw, pins, resolvVars, dnsmasqUnit, children>>
    /\ UNCHANGED <<orig, etcFailed, gw, cfg, search, sig, supervised, restart>>

(* killTrackedChildren: SIGKILL whatever runs under a listed pid.          *)
CleanChildren ==
    /\ Goto("cleanChildren", "cleanRules")
    /\ Die({p \in children : Running(p)})
    /\ children' = {}
    /\ UNCHANGED <<fw, pins, resolvVars, dnsmasqUnit>>
    /\ UNCHANGED <<orig, etcFailed, gw, cfg, search, sig, supervised, restart>>

(* The DNS intercept, which v2.5.8 added, is forgotten.                    *)
SlipCleanedRules == {"mangle", "natpost", "forward", "iprule", "table100"}

(* The groups cleanupPreviousRun flushes.                                  *)
CleanedRules == {"mangle", "natpre", "natpost", "forward", "iprule", "table100"}

CleanRules ==
    /\ Goto("cleanRules", "cleanTun")
    /\ fw' = fw \ CleanedRules
    /\ UNCHANGED <<procVars, pins, resolvVars, dnsmasqUnit, children>>
    /\ UNCHANGED <<orig, etcFailed, gw, cfg, search, sig, supervised, restart>>

CleanTun ==
    /\ Goto("cleanTun", "cleanResolv")
    /\ tun0' = Nil
    /\ UNCHANGED <<proc, socks, dns53, fw, pins, resolvVars, dnsmasqUnit, children>>
    /\ UNCHANGED <<orig, etcFailed, gw, cfg, search, sig, supervised, restart>>

HasBackup == backup \notin {Nil, Empty}

(* The backup is not looked at.                                            *)
SlipCleanedResolv == IF resolv = Loopback THEN Fallback ELSE resolv

(* The backup wins; without one only bypath's own content is replaced.     *)
CleanedResolv == IF HasBackup THEN backup
                 ELSE IF resolv = Loopback THEN Fallback ELSE resolv

(* The write's error is ignored, and the backup is removed all the same.   *)
CleanResolv ==
    /\ Goto("cleanResolv", IF HasBackup THEN "cleanBackup" ELSE "cleanHosts")
    /\ immutable' = FALSE
    /\ \/ resolv' = CleanedResolv /\ etcFailed' = (resolv' = Empty)
       \/ (HasBackup \/ resolv = Loopback) /\ ResolvWriteFails
    /\ UNCHANGED <<procVars, fw, pins, backup, dnsmasqUnit, children>>
    /\ UNCHANGED <<orig, gw, cfg, search, sig, supervised, restart>>

CleanBackup ==
    /\ Goto("cleanBackup", "cleanHosts")
    /\ backup' = Nil
    /\ UNCHANGED <<procVars, fw, pins, resolv, immutable, dnsmasqUnit, children>>
    /\ UNCHANGED <<orig, etcFailed, gw, cfg, search, sig, supervised, restart>>

(* unpinHostsFromEtcHosts, whose write may fail as well.                   *)
Unpin ==
    \/ pins' = FALSE /\ UNCHANGED etcFailed
    \/ WritesFail /\ pins' = pins /\ etcFailed' = TRUE

CleanHosts ==
    /\ Goto("cleanHosts", "detect")
    /\ Unpin
    /\ UNCHANGED <<procVars, fw, resolvVars, dnsmasqUnit, children>>
    /\ UNCHANGED <<orig, gw, cfg, search, sig, supervised, restart>>

-----------------------------------------------------------------------------
(* Start, steps 1 to 2b.                                                   *)

(* systemd-resolved is stopped and disabled for good, and a resolv.conf    *)
(* that is a link to its stub is removed and written anew.                 *)
DisableSystemdResolved ==
    IF dns53 = "resolved" /\ resolv = Stub
    THEN \/ resolv' = Public /\ UNCHANGED etcFailed
         \/ WritesFail /\ resolv' = Empty /\ etcFailed' = TRUE
    ELSE UNCHANGED <<resolv, etcFailed>>

Detect ==
    /\ Goto("detect", "engine")
    /\ IF cfg.enabled
       THEN /\ DisableSystemdResolved
            /\ dns53' = IF dns53 = "resolved" THEN Nil ELSE dns53
       ELSE UNCHANGED <<dns53, resolv, etcFailed>>
    /\ \E n \in 0..MaxOthers :
         search' = [stage |-> IF cfg.nativeTun THEN "native" ELSE "config",
                    others |-> n, todo |-> n,
                    engines |-> EngineOrder(cfg), pid |-> Nil]
    /\ gw' = IF cfg.nativeTun THEN gw ELSE [gw EXCEPT !.nativeTUN = FALSE]
    /\ UNCHANGED <<proc, socks, tun0, fw, pins, backup, immutable, dnsmasqUnit, children>>
    /\ UNCHANGED <<orig, cfg, sig, supervised, restart>>

(* No default route, no local address, or no active link.                  *)
DetectFails ==
    /\ Goto("detect", "retry")
    /\ UNCHANGED <<orig, etcFailed, hostVars, gw, cfg, search, sig, supervised, restart>>

-----------------------------------------------------------------------------
(* Start, step 3: the search for a link and an engine that work.           *)

(* Gateway.Enabled && Gateway.NativeTUN as startEngine reads them:         *)
(* restartEngineAsLegacy sets the second to false while it runs.           *)
GatewayMode == cfg.enabled /\ cfg.nativeTun /\ search.stage \in {"native", "again"}

MarkNative(e) == gw.nativeTUN \/ (GatewayMode /\ e = "sing-box")

(* startEngine pins the link's host, if it resolves, whatever comes next.  *)
(* A write that fails may leave the hosts file empty, without pins.        *)
Pinned == pins' \in {TRUE, pins} \cup (IF WritesFail THEN {FALSE} ELSE {})

(* A full build runs the preferred engine in its own process.              *)
StartEmbedded ==
    LET e == Head(EngineOrder(cfg))
    IN  /\ FullBuild /\ socks = Nil
        /\ Goto("engine", "verify")
        /\ Pinned
        /\ gw' = [gw EXCEPT !.embedded = e, !.activeEngine = e,
                            !.nativeTUN = MarkNative(e)]
        /\ socks' = Gw
        /\ dns53' = IF GatewayMode /\ e = "sing-box" /\ dns53 = Nil THEN Gw ELSE dns53
        /\ \/ UNCHANGED tun0
           \/ GatewayMode /\ e = "sing-box" /\ tun0 = Nil /\ tun0' = Gw
        /\ UNCHANGED <<proc, fw, resolvVars, dnsmasqUnit, children>>
        /\ UNCHANGED <<orig, etcFailed, cfg, search, sig, supervised, restart>>

(* Without an embedded engine, or when it fails: FallbackController.       *)
StartBinary ==
    /\ Goto("engine", "spawn")
    /\ Pinned
    /\ search' = [search EXCEPT !.engines = EngineOrder(cfg)]
    /\ UNCHANGED <<procVars, fw, resolvVars, dnsmasqUnit, children>>
    /\ UNCHANGED <<orig, etcFailed, gw, cfg, sig, supervised, restart>>

(* The engine after Head(search.engines): none when fallback is disabled.  *)
MoreEngines ==
    /\ Len(search.engines) > 1
    /\ cfg.fallback \/ Len(search.engines) < Len(EngineOrder(cfg))

NextEngine(from) ==
    /\ Goto(from, IF MoreEngines THEN "spawn" ELSE "nextLink")
    /\ search' = [search EXCEPT !.pid = Nil,
                                !.engines = IF MoreEngines THEN Tail(@) ELSE @]

Spawn ==
    /\ Goto("spawn", "poll")
    /\ \E p \in FreePids :
         /\ proc' = [proc EXCEPT ![p] =
                       Child(Head(search.engines),
                             GatewayMode /\ Head(search.engines) = "sing-box")]
         /\ search' = [search EXCEPT !.pid = p]
    /\ UNCHANGED <<socks, dns53, tun0, fw, pins, resolvVars, dnsmasqUnit, children>>
    /\ UNCHANGED <<orig, etcFailed, gw, cfg, sig, supervised, restart>>

(* Engine not installed, no config for this link, or exec fails.           *)
SpawnFails ==
    /\ NextEngine("spawn")
    /\ UNCHANGED <<orig, etcFailed, hostVars, gw, cfg, sig, supervised, restart>>

(* The dial of 127.0.0.1:socksPort succeeds, whoever listens there.        *)
PollReady ==
    /\ Goto("poll", "verify")
    /\ socks # Nil
    /\ gw' = [gw EXCEPT !.engineProc = search.pid,
                        !.activeEngine = Head(search.engines),
                        !.nativeTUN = MarkNative(Head(search.engines))]
    /\ search' = [search EXCEPT !.pid = Nil]
    /\ UNCHANGED <<orig, etcFailed, hostVars, cfg, sig, supervised, restart>>

PollTimeout ==
    /\ socks = Nil
    /\ KillAndWait({search.pid})
    /\ NextEngine("poll")
    /\ UNCHANGED <<fw, pins, resolvVars, dnsmasqUnit, children>>
    /\ UNCHANGED <<orig, etcFailed, gw, cfg, sig, supervised, restart>>

(* Only the embedded engine, or only the process, is thought of.           *)
SlipNoProcess  == IF gw.embedded # "" THEN {Gw} ELSE {}
SlipNoEmbedded == {gw.engineProc} \ {Nil}

(* if embedded != nil { Stop } else if engineProc != nil { Kill; Wait }    *)
EngineHolder == IF gw.embedded # "" THEN {Gw} ELSE {gw.engineProc} \ {Nil}

AfterVerify == IF gw.nativeTUN THEN "waitTun" ELSE "dns"

(* verifyConnection: three attempts through the SOCKS port.                *)
VerifyOK ==
    /\ socks # Nil
    /\ Goto("verify", AfterVerify)
    /\ search' = IF AfterVerify = "waitTun" THEN search ELSE NoSearch
    /\ UNCHANGED <<orig, etcFailed, hostVars, gw, cfg, sig, supervised, restart>>

(* The engine is dropped; nativeTUN keeps the value startEngine gave it.   *)
VerifyFails ==
    /\ Goto("verify", "nextLink")
    /\ KillAndWait(EngineHolder)
    /\ gw' = [gw EXCEPT !.embedded = "", !.engineProc = Nil, !.activeEngine = ""]
    /\ UNCHANGED <<fw, pins, resolvVars, dnsmasqUnit, children>>
    /\ UNCHANGED <<orig, etcFailed, cfg, search, sig, supervised, restart>>

SlipMoreLinks == search.todo >= 0

MoreLinks == search.todo > 0

(* The next candidate of startEngineWithLinkFallback, else the next stage  *)
(* of startEngineWithFallback, else Start returns an error.                *)
NextLink ==
    /\ pc = "nextLink"
    /\ \/ /\ MoreLinks
          /\ pc' = "engine"
          /\ search' = [search EXCEPT !.todo = @ - 1]
          /\ UNCHANGED gw
       \/ /\ ~MoreLinks /\ search.stage = "native" /\ FullBuild
          /\ pc' = "engine"
          /\ search' = [search EXCEPT !.stage = "again", !.todo = search.others]
          /\ UNCHANGED gw
       \/ /\ ~MoreLinks
          /\ search.stage = IF FullBuild THEN "again" ELSE "native"
          /\ pc' = "engine"
          /\ search' = [search EXCEPT !.stage = "legacy", !.todo = search.others]
          /\ gw' = [gw EXCEPT !.nativeTUN = FALSE]
       \/ /\ ~MoreLinks /\ search.stage \in {"config", "legacy"}
          /\ pc' = "retry"
          /\ search' = NoSearch
          /\ UNCHANGED gw
    /\ UNCHANGED <<orig, etcFailed, hostVars, cfg, sig, supervised, restart>>

-----------------------------------------------------------------------------
(* Start, step 4, native TUN: wait for the device, fall back without it.   *)

SlipTunPresent == TRUE

(* net.InterfaceByName("tun0"): whoever made the device.                   *)
TunPresent == tun0 # Nil

TunReady ==
    /\ TunPresent
    /\ Goto("waitTun", IF cfg.enabled THEN "route" ELSE "running")
    /\ search' = NoSearch
    /\ UNCHANGED <<orig, etcFailed, hostVars, gw, cfg, sig, supervised, restart>>

(* restartEngineAsLegacy after the 10 s are over.                          *)
TunTimeout ==
    /\ ~TunPresent
    /\ Goto("waitTun", "engine")
    /\ KillAndWait(EngineHolder)
    /\ gw' = [gw EXCEPT !.embedded = "", !.engineProc = Nil, !.nativeTUN = FALSE]
    /\ search' = [search EXCEPT !.stage = "legacy", !.todo = search.others]
    /\ UNCHANGED <<fw, pins, resolvVars, dnsmasqUnit, children>>
    /\ UNCHANGED <<orig, etcFailed, cfg, sig, supervised, restart>>

-----------------------------------------------------------------------------
(* Start, step 4a: startDNS, in legacy mode.                               *)

(* Port 53 after systemd-resolved and dnsmasq have been stopped.           *)
FreedPort53 == IF dns53 \in {"resolved", "dnsmasq"} THEN Nil ELSE dns53

(* The built-in forwarder listens in the gateway process, if it can.       *)
StartBuiltinDNS ==
    /\ Goto("dns", "tun")
    /\ DisableSystemdResolved
    /\ dns53' = IF FreedPort53 = Nil THEN Gw ELSE FreedPort53
    /\ gw' = [gw EXCEPT !.builtin = (FreedPort53 = Nil)]
    /\ UNCHANGED <<proc, socks, tun0, fw, pins, backup, immutable, dnsmasqUnit, children>>
    /\ UNCHANGED <<orig, cfg, search, sig, supervised, restart>>

(* dns2socks is found: it is started and its port awaited. Else dnsmasq is *)
(* found: it is started and tracked at once.                               *)
StartDNSProcess ==
    /\ ~cfg.localDNS
    /\ DisableSystemdResolved
    /\ dns53' = FreedPort53
    /\ \E p \in FreePids :
         /\ gw' = [gw EXCEPT !.dnsProc = p]
         /\ \/ /\ Goto("dns", "dnsWait")
               /\ proc' = [proc EXCEPT ![p] = Child("dns2socks", FALSE)]
               /\ UNCHANGED children
            \/ /\ Goto("dns", "tun")
               /\ proc' = [proc EXCEPT ![p] = Child("dnsmasq", FALSE)]
               /\ children' = children \cup {p}
    /\ UNCHANGED <<socks, tun0, fw, pins, backup, immutable, dnsmasqUnit>>
    /\ UNCHANGED <<orig, cfg, search, sig, supervised, restart>>

(* dnsProc is assigned before its Start fails.                             *)
StartDNSFails ==
    /\ Goto("dns", "tun")
    /\ ~cfg.localDNS
    /\ DisableSystemdResolved
    /\ dns53' = FreedPort53
    /\ gw' = [gw EXCEPT !.dnsProc = NoProcess]
    /\ UNCHANGED <<proc, socks, tun0, fw, pins, backup, immutable, dnsmasqUnit, children>>
    /\ UNCHANGED <<orig, cfg, search, sig, supervised, restart>>

(* waitForPort, then the look at /proc/<pid>, then trackChildPID. A child  *)
(* that exited is a zombie, which still has its entry in /proc.            *)
DNSReady ==
    /\ Goto("dnsWait", "tun")
    /\ dns53 # Nil
    /\ proc[gw.dnsProc].status # "free"
    /\ children' = children \cup {gw.dnsProc}
    /\ UNCHANGED <<procVars, fw, pins, resolvVars, dnsmasqUnit>>
    /\ UNCHANGED <<orig, etcFailed, gw, cfg, search, sig, supervised, restart>>

(* The error is logged and Start goes on; the child is not tracked.        *)
DNSTimeout ==
    /\ Goto("dnsWait", "tun")
    /\ dns53 = Nil
    /\ UNCHANGED <<orig, etcFailed, hostVars, gw, cfg, search, sig, supervised, restart>>

-----------------------------------------------------------------------------
(* Start, step 4b: startTun, in legacy mode.                               *)

(* Gateway mode off, or no tun2socks: the gateway is a proxy only.         *)
ProxyOnly ==
    /\ Goto("tun", "running")
    /\ UNCHANGED <<orig, etcFailed, hostVars, gw, cfg, search, sig, supervised, restart>>

StartTun ==
    /\ Goto("tun", "tunTrack")
    /\ cfg.enabled
    /\ tun0' = "tuntap"
    /\ \E p \in FreePids :
         /\ proc' = [proc EXCEPT ![p] = Child("tun2socks", FALSE)]
         /\ gw' = [gw EXCEPT !.tunProc = p]
    /\ UNCHANGED <<socks, dns53, fw, pins, resolvVars, dnsmasqUnit, children>>
    /\ UNCHANGED <<orig, etcFailed, cfg, search, sig, supervised, restart>>

(* ip cannot add or set up tun0, or tun2socks fails to start: an error     *)
(* that is logged, and no routing. tunProc is assigned before its Start.   *)
StartTunFails ==
    /\ Goto("tun", "running")
    /\ cfg.enabled
    /\ \/ tun0' \in {Nil, "tuntap"} /\ UNCHANGED gw
       \/ tun0' = "tuntap" /\ gw' = [gw EXCEPT !.tunProc = NoProcess]
    /\ UNCHANGED <<proc, socks, dns53, fw, pins, resolvVars, dnsmasqUnit, children>>
    /\ UNCHANGED <<orig, etcFailed, cfg, search, sig, supervised, restart>>

TrackTun ==
    /\ Goto("tunTrack", "route")
    /\ children' = children \cup {gw.tunProc}
    /\ UNCHANGED <<procVars, fw, pins, resolvVars, dnsmasqUnit>>
    /\ UNCHANGED <<orig, etcFailed, gw, cfg, search, sig, supervised, restart>>

-----------------------------------------------------------------------------
(* setupRouting.                                                           *)

ModeRules == {"natpost", "forward"}
               \cup (IF gw.nativeTUN THEN {} ELSE {"table100", "mangle", "iprule"})

Route ==
    /\ Goto("route", "intercept")
    /\ fw' = fw \cup ModeRules
    /\ UNCHANGED <<procVars, pins, resolvVars, dnsmasqUnit, children>>
    /\ UNCHANGED <<orig, etcFailed, gw, cfg, search, sig, supervised, restart>>

(* setupDNSIntercept; in legacy mode the active link's host is pinned      *)
(* before the host's own resolver is switched.                             *)
Intercept ==
    /\ Goto("intercept", IF gw.nativeTUN THEN "running" ELSE "saveResolv")
    /\ fw' = fw \cup {"natpre"}
    /\ IF gw.nativeTUN \/ EngineHolder = {} THEN UNCHANGED pins ELSE Pinned
    /\ UNCHANGED <<procVars, resolvVars, dnsmasqUnit, children>>
    /\ UNCHANGED <<orig, etcFailed, gw, cfg, search, sig, supervised, restart>>

(* The fallback bypath itself wrote looks not worth saving.                *)
SlipNotSaved == Loopy \cup {Loopback, Fallback}

NotSaved == Loopy \cup {Loopback}

(* setResolvConf: a content that names 127.0.0.1 is not saved. os.WriteFile*)
(* truncates the backup before it fills it; a crash may come in between.   *)
(* An error, of the file that cannot be read (none is there when resolv is *)
(* Empty) or of the backup that cannot be opened, is ignored.              *)
SaveResolv ==
    /\ immutable' = FALSE
    /\ \/ /\ Goto("saveResolv", "fillBackup")
          /\ resolv \notin NotSaved
          /\ backup' = Empty /\ orig' = resolv
          /\ UNCHANGED etcFailed
       \/ /\ Goto("saveResolv", "writeResolv")
          /\ resolv \in NotSaved \/ WritesFail
          /\ etcFailed' = (etcFailed \/ resolv \notin NotSaved)
          /\ UNCHANGED <<backup, orig>>
    /\ UNCHANGED <<procVars, fw, pins, resolv, dnsmasqUnit, children>>
    /\ UNCHANGED <<gw, cfg, search, sig, supervised, restart>>

(* What follows does not depend on whether the backup was filled.          *)
FillBackup ==
    /\ Goto("fillBackup", "writeResolv")
    /\ \/ backup' = orig /\ UNCHANGED etcFailed
       \/ WritesFail /\ UNCHANGED backup /\ etcFailed' = TRUE
    /\ orig' = Nil
    /\ UNCHANGED <<procVars, fw, pins, resolv, immutable, dnsmasqUnit, children>>
    /\ UNCHANGED <<gw, cfg, search, sig, supervised, restart>>

WriteResolv ==
    /\ \/ Goto("writeResolv", "lockResolv") /\ resolv' = Loopback /\ UNCHANGED etcFailed
       \/ Goto("writeResolv", "running") /\ ResolvWriteFails
    /\ UNCHANGED <<procVars, fw, pins, backup, immutable, dnsmasqUnit, children>>
    /\ UNCHANGED <<orig, gw, cfg, search, sig, supervised, restart>>

(* chattr +i, which not every file system has.                             *)
LockResolv ==
    /\ Goto("lockResolv", "running")
    /\ immutable' \in BOOLEAN
    /\ UNCHANGED <<procVars, fw, pins, resolv, backup, dnsmasqUnit, children>>
    /\ UNCHANGED <<orig, etcFailed, gw, cfg, search, sig, supervised, restart>>

-----------------------------------------------------------------------------
(* cmdRun's wait after a failed Start, and the way to Stop.                *)

(* A plain sleep, where the code selects on the signal channel as well.    *)
SlipRetryTimer ==
    /\ Goto("retry", "cleanEngines")
    /\ UNCHANGED <<hostVars, orig, etcFailed, gw, cfg, search, sig, supervised, restart>>

RetryTimer ==
    /\ Goto("retry", "cleanEngines")
    /\ ~sig
    /\ UNCHANGED <<hostVars, orig, etcFailed, gw, cfg, search, sig, supervised, restart>>

(* A signal during the wait: cmdRun returns, Stop is not called.           *)
RetryQuit ==
    /\ pc = "retry" /\ sig
    /\ Return
    /\ Abandon(FALSE)
    /\ UNCHANGED <<fw, pins, resolvVars, dnsmasqUnit, children>>

Shutdown ==
    /\ Goto("running", "stopRules")
    /\ sig
    /\ UNCHANGED <<hostVars, orig, etcFailed, gw, cfg, search, sig, supervised, restart>>

-----------------------------------------------------------------------------
(* Stop: cleanupRouting.                                                   *)

(* The policy routing of the legacy mode is left.                          *)
SlipStoppedRules == {"mangle", "natpre", "natpost", "forward"}

StoppedRules == {"mangle", "natpre", "natpost", "forward"}
                  \cup (IF gw.nativeTUN THEN {} ELSE {"iprule", "table100"})

StopRules ==
    /\ Goto("stopRules", IF gw.nativeTUN THEN "stopResolv" ELSE "stopDevice")
    /\ fw' = fw \ StoppedRules
    /\ UNCHANGED <<procVars, pins, resolvVars, dnsmasqUnit, children>>
    /\ UNCHANGED <<orig, etcFailed, gw, cfg, search, sig, supervised, restart>>

(* The device goes after the rules that point at it.                       *)
StopDevice ==
    /\ Goto("stopDevice", "stopResolv")
    /\ tun0' = Nil
    /\ UNCHANGED <<proc, socks, dns53, fw, pins, resolvVars, dnsmasqUnit, children>>
    /\ UNCHANGED <<orig, etcFailed, gw, cfg, search, sig, supervised, restart>>

(* restoreResolvConf: the backup, which stays when it cannot be written;   *)
(* then, or without one, a fallback over whatever is there.                *)
StopResolv ==
    /\ immutable' = FALSE
    /\ \/ /\ Goto("stopResolv", "stopBackup")
          /\ HasBackup
          /\ resolv' = backup /\ UNCHANGED etcFailed
       \/ /\ Goto("stopResolv", "stopHosts")
          /\ HasBackup => WritesFail
          /\ \/ resolv' = Fallback /\ etcFailed' = (etcFailed \/ HasBackup)
             \/ ResolvWriteFails
    /\ UNCHANGED <<procVars, fw, pins, backup, dnsmasqUnit, children>>
    /\ UNCHANGED <<orig, gw, cfg, search, sig, supervised, restart>>

StopBackup ==
    /\ Goto("stopBackup", "stopHosts")
    /\ backup' = Nil
    /\ UNCHANGED <<procVars, fw, pins, resolv, immutable, dnsmasqUnit, children>>
    /\ UNCHANGED <<orig, etcFailed, gw, cfg, search, sig, supervised, restart>>

(* unpinHostsFromEtcHosts and restartDnsmasq: the unit comes up when port  *)
(* 53 is free for it.                                                      *)
StopHosts ==
    /\ Goto("stopHosts", "stopTun")
    /\ Unpin
    /\ dns53' = IF dnsmasqUnit /\ dns53 = Nil THEN "dnsmasq" ELSE dns53
    /\ UNCHANGED <<proc, socks, tun0, fw, resolvVars, dnsmasqUnit, children>>
    /\ UNCHANGED <<orig, gw, cfg, search, sig, supervised, restart>>

(* Kill and Wait of a cmd field that is set.                               *)
StopTun ==
    /\ Goto("stopTun", "stopDns")
    /\ gw.tunProc # NoProcess
    /\ KillAndWait({gw.tunProc} \ {Nil})
    /\ UNCHANGED <<fw, pins, resolvVars, dnsmasqUnit, children>>
    /\ UNCHANGED <<orig, etcFailed, gw, cfg, search, sig, supervised, restart>>

(* The external DNS proxy, then the built-in servers.                      *)
StopDns ==
    /\ Goto("stopDns", "stopEngine")
    /\ gw.dnsProc # NoProcess
    /\ LET S == ({gw.dnsProc} \ {Nil})
       IN  /\ proc' = [p \in Pids |-> IF p \in S THEN Free ELSE proc[p]]
           /\ dns53' = Release(dns53, IF gw.builtin THEN S \cup {Gw} ELSE S)
    /\ gw' = [gw EXCEPT !.builtin = FALSE]
    /\ UNCHANGED <<socks, tun0, fw, pins, resolvVars, dnsmasqUnit, children>>
    /\ UNCHANGED <<orig, etcFailed, cfg, search, sig, supervised, restart>>

(* A command whose Start failed has no Process: Kill panics.               *)
StopPanics ==
    /\ \/ pc = "stopTun" /\ gw.tunProc = NoProcess
       \/ pc = "stopDns" /\ gw.dnsProc = NoProcess
    /\ Abort

StopEngine ==
    /\ Goto("stopEngine", "stopDone")
    /\ KillAndWait(EngineHolder)
    /\ gw' = [gw EXCEPT !.embedded = ""]
    /\ UNCHANGED <<fw, pins, resolvVars, dnsmasqUnit, children>>
    /\ UNCHANGED <<orig, etcFailed, cfg, search, sig, supervised, restart>>

(* The children file is removed, gw.cancel has run, cmdRun returns.        *)
StopDone ==
    /\ pc = "stopDone"
    /\ Return
    /\ children' = {}
    /\ Abandon(FALSE)
    /\ UNCHANGED <<fw, pins, resolvVars, dnsmasqUnit>>

-----------------------------------------------------------------------------
StartStep ==
    \/ CleanEngines \/ CleanChildren \/ CleanRules \/ CleanTun
    \/ CleanResolv \/ CleanBackup \/ CleanHosts
    \/ Detect \/ DetectFails
    \/ StartEmbedded \/ StartBinary \/ Spawn \/ SpawnFails
    \/ PollReady \/ PollTimeout \/ VerifyOK \/ VerifyFails \/ NextLink
    \/ TunReady \/ TunTimeout
    \/ StartBuiltinDNS \/ StartDNSProcess \/ StartDNSFails \/ DNSReady \/ DNSTimeout
    \/ ProxyOnly \/ StartTun \/ StartTunFails \/ TrackTun
    \/ Route \/ Intercept
    \/ SaveResolv \/ FillBackup \/ WriteResolv \/ LockResolv

StopStep ==
    \/ StopRules \/ StopDevice \/ StopResolv \/ StopBackup \/ StopHosts
    \/ StopTun \/ StopDns \/ StopPanics \/ StopEngine \/ StopDone

(* What the process does by itself, given the time.                        *)
RunStep == StartStep \/ StopStep \/ RetryTimer \/ RetryQuit \/ Shutdown

GatewayNext ==
    \/ RunStep
    \/ \E s \in BOOLEAN : Launch(s)
    \/ SystemdRestarts
    \/ Crash \/ Signal \/ Reload

HostStep == HostNext /\ UNCHANGED gwVars

Next == GatewayNext \/ HostStep

Spec == Init /\ [][Next]_vars

(* The scheduler runs the process, every wait in RunStep has a timeout, and *)
(* systemd starts the unit again after RestartSec.                         *)
FairSpec == Spec /\ WF_vars(RunStep) /\ WF_vars(SystemdRestarts)

-----------------------------------------------------------------------------
(* Safety.                                                                 *)

(* Whenever the host resolves through bypath, a filled backup of what was  *)
(* there before exists, wherever a crash hits: setResolvConf saves before  *)
(* it overwrites, and both restores write before they remove. It is so as  *)
(* long as no write of these files has failed (the errors of the backup's  *)
(* write and of the restore's are ignored), and about hosts whose own      *)
(* resolv.conf does not name 127.0.0.1 (Loopy).                            *)
ResolvRecoverable == resolv = Loopback /\ ~etcFailed => backup \in Contents

(* What bypath has kept of the host's own resolv.conf: the backup once it  *)
(* is filled, and what setResolvConf is about to fill it with.             *)
Saved == IF pc = "fillBackup" /\ orig # Empty THEN orig
         ELSE IF HasBackup THEN backup ELSE Nil

Loan == INSTANCE ResolvLoan WITH
            Others <- Dhcp, Lent <- Loopback, None <- Nil,
            content <- resolv, kept <- Saved, broken <- etcFailed

(* Start, Stop, the healing of the next Start and a crash in any of their  *)
(* steps borrow resolv.conf: what is put back is what was taken, with no   *)
(* content lost between the save and the write or between the restore and  *)
(* the removal of the backup. A write that fails breaks the loan: what was *)
(* kept may be lost then, and it stays broken until a cleanup leaves the   *)
(* file readable and in other hands. Like ResolvRecoverable, it is about   *)
(* hosts whose own resolv.conf does not name 127.0.0.1 (Loopy).            *)
ImplementsLoan == Loan!Spec

(* "A crash or kill -9 no longer leaves the network broken": once          *)
(* cleanupPreviousRun is through, nothing a previous run installed in the  *)
(* rules is left, resolv.conf is not immutable, its backup and the list of *)
(* children are gone, whatever the run died of; nor does resolv.conf name  *)
(* bypath or /etc/hosts hold a pin, unless this very cleanup could not     *)
(* write them. It stays so until Detect.                                   *)
SelfHealed ==
    pc = "detect" => /\ fw = {} /\ ~immutable /\ ~HasBackup /\ children = {}
                     /\ etcFailed \/ (resolv # Loopback /\ ~pins)

(* No child is lost: every process whose parent is the gateway is in one   *)
(* of the fields Stop looks at, or is being polled by tryEngine.           *)
ChildrenKnown ==
    \A p \in Pids : proc[p].owner = "gateway" =>
        p \in {gw.engineProc, gw.tunProc, gw.dnsProc, search.pid}

(* A Start that failed left no engine behind that would hold the SOCKS     *)
(* port against the next attempt.                                          *)
FailedStartLeavesNoEngine ==
    pc = "retry" => /\ \A p \in Pids : proc[p].owner # "gateway"
                    /\ gw.engineProc = Nil /\ gw.embedded = "" /\ socks # Gw
                    /\ ~gw.nativeTUN

(* Policy routing never points LAN traffic at a tun0 that does not exist,  *)
(* not even between two steps or after a crash.                            *)
RulesHaveTun == "iprule" \in fw => tun0 = "tuntap"

(* A gateway that says it is in native TUN mode was started on a sing-box, *)
(* although nativeTUN is not reset when a sing-box fails verification and  *)
(* an xray takes over: waitForTUNDevice finds no tun0 then.                *)
NativeIsSingBox ==
    pc = "running" /\ gw.nativeTUN => gw.activeEngine = "sing-box"

(* A Stop that gets to its end, in whatever mode Start ended up, leaves no *)
(* child, no listener of bypath's own, no device and no rule of bypath's;  *)
(* resolv.conf does not name bypath, its backup and the pins are gone,     *)
(* unless a write of them failed. It does not say that the host is as it   *)
(* was: systemd-resolved stays disabled, which startDNS means to do; the   *)
(* dnsmasq unit, started before bypath has closed port 53, may not come    *)
(* back; and a Stop that panics (StopPanics) leaves its rest to the next   *)
(* Start, whose cleanup SelfHealed is about.                               *)
StopUndoesStart ==
    pc = "stopDone" => /\ \A p \in Pids : proc[p].owner # "gateway"
                       /\ {Gw, "tuntap"} \cap {socks, dns53, tun0} = {}
                       /\ fw = {}
                       /\ etcFailed \/ (~pins /\ resolv # Loopback /\ ~HasBackup)

-----------------------------------------------------------------------------
(* Liveness: a SIGTERM ends the process, from any step of a Start, from    *)
(* the retry wait and from a running gateway.                              *)
SignalEnds == sig ~> pc = "down"

(* A crashed gateway that systemd supervises comes to the point where the  *)
(* host is clean again, as soon as it is left alone to do it.              *)
CrashHeals == <>[][~Crash]_vars => (restart /\ pc = "down" ~> pc = "detect")
=============================================================================
