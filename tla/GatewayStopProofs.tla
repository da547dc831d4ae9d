--------------------------- MODULE GatewayStopProofs -------------------------
(***************************************************************************)
(* What a gateway leaves of itself: its children, the ports it listens on, *)
(* the mode it believes to be in, after a Start that failed, after a Stop, *)
(* and after "bypath stop".                                                *)
(***************************************************************************)
EXTENDS StopCommand, GatewayHostProofs

(* The children of the running gateway.                                    *)
Mine == {p \in Pids : proc[p].owner = "gateway"}

(* The steps of a run at which it has no engine, and no process, yet.      *)
NoEngine == {"down", "cleanEngines", "cleanChildren", "cleanRules", "cleanTun",
             "cleanResolv", "cleanBackup", "cleanHosts", "detect", "engine", "spawn",
             "nextLink", "retry"}
NoHelper == NoEngine \cup {"poll", "verify", "waitTun", "dns"}

(* What the gateway itself listens on, and what the fields of the struct   *)
(* say of it.                                                              *)
OwnPorts ==
    /\ gw.embedded # "" => gw.engineProc = Nil
    /\ socks = Gw \/ tun0 = Gw => gw.embedded # ""
    /\ dns53 = Gw => gw.embedded # "" \/ gw.builtin
    /\ pc \in NoEngine \cup {"poll"} => gw.engineProc = Nil /\ gw.embedded = ""
    /\ pc \in NoHelper => gw.tunProc = Nil /\ gw.dnsProc = Nil /\ ~gw.builtin
    /\ pc \in {"stopEngine", "stopDone"} => ~gw.builtin
    /\ pc = "stopDone" => gw.embedded = ""

(* Each child is in the field that this step of Start or Stop looks at.    *)
InTheirFields ==
    /\ pc \in NoEngine \cup {"stopDone"} => Mine = {}
    /\ pc = "poll" => Mine \subseteq {search.pid}
    /\ pc \in {"verify", "waitTun", "dns", "stopEngine"} => Mine \subseteq {gw.engineProc}
    /\ pc \in {"dnsWait", "tun", "stopDns"} => Mine \subseteq {gw.engineProc, gw.dnsProc}
    /\ pc # "poll" => Mine \subseteq {gw.engineProc, gw.tunProc, gw.dnsProc}

(* nativeTUN is set in no other stage than the native ones.                *)
NativeStages ==
    /\ pc \in {"down", "cleanEngines", "cleanChildren", "cleanRules", "cleanTun",
               "cleanResolv", "cleanBackup", "cleanHosts", "detect", "retry", "dns",
               "dnsWait", "tun", "tunTrack"} => ~gw.nativeTUN
    /\ pc \in {"engine", "spawn", "poll", "verify", "nextLink"}
         /\ search.stage \in {"config", "legacy"} => ~gw.nativeTUN

(* What Stop has undone so far.                                            *)
Undone ==
    /\ pc \in {"intercept", "saveResolv", "fillBackup", "writeResolv", "lockResolv",
               "running", "stopRules"}
         /\ gw.nativeTUN => fw \cap {"mangle", "iprule", "table100"} = {}
    /\ pc \in StopSteps \ {"stopRules"} => fw = {}
    /\ pc \in {"stopBackup", "stopHosts", "stopTun", "stopDns", "stopEngine", "stopDone"}
         => etcFailed \/ resolv # Loopback
    /\ pc \in {"stopHosts", "stopTun", "stopDns", "stopEngine", "stopDone"}
         => etcFailed \/ ~HasBackup
    /\ pc \in {"stopTun", "stopDns", "stopEngine", "stopDone"} => etcFailed \/ ~pins

(* Only the legacy mode makes the device, and cleanupPreviousRun or Stop   *)
(* has deleted it where neither is going to come back to it.               *)
DeviceGone ==
    /\ pc \in {"cleanResolv", "cleanBackup", "cleanHosts", "detect", "engine", "spawn",
               "poll", "verify", "nextLink", "waitTun", "dns", "dnsWait", "tun", "retry"}
         => tun0 # "tuntap"
    /\ pc \in {"route", "intercept", "saveResolv", "fillBackup", "writeResolv",
               "lockResolv", "running", "stopRules"}
         /\ gw.nativeTUN => tun0 # "tuntap"
    /\ pc \in StopSteps \ {"stopRules", "stopDevice"} => tun0 # "tuntap"

SlotInv == OwnPorts /\ InTheirFields /\ NativeStages

(* Only sing-box gets a config with a TUN.                                 *)
KindsKnown ==
    \A p \in Pids : /\ proc[p].native => proc[p].kind = "sing-box"
                    /\ proc[p].status = "free" => proc[p] = Free

(* The engines that crashes left have been told to end.                    *)
OrphansEnd ==
    pc \notin {"down", "cleanEngines"} =>
        \A p \in Pids : proc[p].status = "live" /\ proc[p].kind \in Engines
                          /\ proc[p].owner # "user" => p \in Mine

(* The engine of the fields is the one that runs.                          *)
ActiveRuns ==
    /\ pc = "poll" /\ search.pid \in Mine => proc[search.pid].kind = Head(search.engines)
    /\ pc \in {"verify", "waitTun"} /\ gw.engineProc \in Mine
         => proc[gw.engineProc].kind = gw.activeEngine
    /\ pc \in {"verify", "waitTun"} /\ gw.embedded # "" => gw.embedded = gw.activeEngine

(* Who has opened tun0 since cleanupPreviousRun removed it.                *)
DeviceHolder ==
    pc \in {"cleanResolv", "cleanBackup", "cleanHosts", "detect", "engine", "spawn", "poll",
            "verify", "nextLink", "waitTun"}
      => \/ tun0 = Nil
         \/ tun0 = Gw /\ gw.embedded = "sing-box"
         \/ tun0 \in Mine /\ proc[tun0].native

NativeSingBox ==
    pc \in {"route", "intercept", "saveResolv", "fillBackup", "writeResolv", "lockResolv",
            "running"} /\ gw.nativeTUN => gw.activeEngine = "sing-box"

NativeInv == KindsKnown /\ OrphansEnd /\ ActiveRuns /\ DeviceHolder /\ NativeSingBox

-----------------------------------------------------------------------------
(* What becomes of the children and of the ports when processes end.       *)

Freed(S) ==
    /\ socks' \in {socks, Nil} /\ dns53' \in {dns53, Nil} /\ tun0' \in {tun0, Nil}
    /\ \A h \in S : h # Nil => h \notin {socks', dns53', tun0'}

LEMMA MineDie ==
    ASSUME ProcTypeOK, NEW S, Die(S)
    PROVE  Mine' \subseteq Mine /\ Freed(S)
  BY DEF ProcTypeOK, Die, Released, Release, Mine, Free, Process, Freed

LEMMA MineKill ==
    ASSUME ProcTypeOK, NEW S, KillAndWait(S)
    PROVE  Mine' \subseteq Mine \ S /\ Freed(S)
  BY DEF ProcTypeOK, KillAndWait, Released, Release, Mine, Free, Process, Freed

LEMMA MineAbandon ==
    ASSUME ProcTypeOK, NEW b \in BOOLEAN, Abandon(b)
    PROVE  Mine' = {} /\ Freed({Gw})
  BY HostAssumption DEF HostAssumption, ProcTypeOK, Abandon, Released, Release, Mine, Free,
     Process, Freed

(* Nothing the host does on its own makes a child of the gateway, or opens *)
(* a port of the gateway process.                                          *)
LEMMA MineHost ==
    ASSUME ProcTypeOK, HostNext
    PROVE  /\ Mine' \subseteq Mine
           /\ socks' = Gw => socks = Gw
           /\ dns53' = Gw => dns53 = Gw
           /\ tun0' = Gw => tun0 = Gw
  <1> USE HostAssumption DEF HostAssumption, Freed
  <1>1. ASSUME NEW p \in Pids, EngineUp(p) \/ DnsUp(p) \/ Exit(p)
        PROVE  /\ Mine' \subseteq Mine
               /\ socks' = Gw => socks = Gw
               /\ dns53' = Gw => dns53 = Gw
               /\ tun0' = Gw => tun0 = Gw
    <2>1. CASE Die({p})
      BY <2>1, MineDie
    <2>2. CASE UNCHANGED proc
      BY <1>1, <2>2, MineDie DEF EngineUp, DnsUp, Exit, Mine
    <2> QED
      BY <1>1, <2>1, <2>2 DEF EngineUp, DnsUp, Exit
  <1>2. ASSUME NEW p \in Pids, UserStarts(p)
        PROVE  Mine' \subseteq Mine /\ UNCHANGED <<socks, dns53, tun0>>
    BY <1>2 DEF UserStarts, Mine, ProcTypeOK
  <1>3. CASE DhcpWrites
    BY <1>3 DEF DhcpWrites, Mine, procVars
  <1> QED
    BY <1>1, <1>2, <1>3 DEF HostNext

LEMMA MineSpawn ==
    ASSUME ProcTypeOK, NEW p \in Pids, NEW k, NEW n,
           proc' = [proc EXCEPT ![p] = Child(k, n)]
    PROVE  Mine' = Mine \cup {p}
  BY DEF ProcTypeOK, Child, Mine

-----------------------------------------------------------------------------
(* The ports of the gateway process itself.                                *)
LEMMA NextOwnPorts == TypeInv /\ OwnPorts /\ [Next]_vars => OwnPorts'
  <1> SUFFICES ASSUME TypeInv, OwnPorts, [Next]_vars PROVE OwnPorts'
    OBVIOUS
  <1>0. ProcTypeOK /\ GwTypeOK
    BY DEF TypeInv, TypeOK, HostTypeOK, ProcTypeOK, GwTypeOK
  <1> USE <1>0, HostAssumption
      DEF HostAssumption, GwTypeOK, OwnPorts, NoHelper, NoEngine, Goto, hostVars, procVars,
          gwVars
  <1>1. CASE CleanChildren
    <2>1. Freed({p \in children : Running(p)})
      BY <1>1, MineDie DEF CleanChildren
    <2> QED
      BY <1>1, <2>1 DEF CleanChildren, Freed
  <1>2. CASE Detect
    BY <1>2 DEF Detect, DisableSystemdResolved
  <1>3. CASE StartEmbedded
    <2>1. Head(EngineOrder(cfg)) \in Engines
      BY ConfigType, HeadTailProperties DEF TypeInv, TypeOK
    <2>2. gw'.embedded # "" /\ UNCHANGED <<gw.engineProc, gw.tunProc, gw.dnsProc, gw.builtin>>
      BY <1>3, <2>1 DEF StartEmbedded, Engines
    <2> QED
      BY <1>3, <2>2 DEF StartEmbedded
  <1>4. CASE PollReady
    BY <1>4 DEF PollReady, MarkNative
  <1>5. CASE PollTimeout
    <2>1. Freed({search.pid})
      BY <1>5, MineKill DEF PollTimeout
    <2> QED
      BY <1>5, <2>1 DEF PollTimeout, NextEngine, MoreEngines, Freed
  <1>6. CASE VerifyFails \/ TunTimeout \/ StopEngine
    <2>1. Freed(EngineHolder)
      BY <1>6, MineKill DEF VerifyFails, TunTimeout, StopEngine
    <2>2. Gw \notin {socks', tun0'}
      BY <2>1 DEF EngineHolder, Freed
    <2>3. gw'.embedded = "" /\ gw'.builtin = gw.builtin /\ gw'.tunProc = gw.tunProc
            /\ gw'.dnsProc = gw.dnsProc
      <3>1. CASE VerifyFails
        BY <3>1 DEF VerifyFails
      <3>2. CASE TunTimeout
        BY <3>2 DEF TunTimeout
      <3>3. CASE StopEngine
        BY <3>3 DEF StopEngine
      <3> QED
        BY <1>6, <3>1, <3>2, <3>3
    <2>4. dns53' = Gw => gw.builtin
      BY <2>1 DEF EngineHolder, Freed
    <2>5. CASE VerifyFails \/ TunTimeout
      BY <2>2, <2>3, <2>4, <2>5 DEF VerifyFails, TunTimeout
    <2>6. CASE StopEngine
      BY <2>2, <2>3, <2>4, <2>6 DEF StopEngine
    <2> QED
      BY <1>6, <2>5, <2>6
  <1>7. CASE StartBuiltinDNS
    BY <1>7 DEF StartBuiltinDNS, FreedPort53
  <1>8. CASE StartDNSProcess \/ StartDNSFails
    BY <1>8 DEF StartDNSProcess, StartDNSFails, FreedPort53, FreePids
  <1>9. CASE StartTun \/ StartTunFails
    BY <1>9 DEF StartTun, StartTunFails, FreePids
  <1>10. CASE StopHosts \/ StopDevice \/ CleanTun
    BY <1>10 DEF StopHosts, StopDevice, CleanTun
  <1>11. CASE StopTun
    <2>1. Freed({gw.tunProc} \ {Nil})
      BY <1>11, MineKill DEF StopTun
    <2> QED
      BY <1>11, <2>1 DEF StopTun, Freed
  <1>12. CASE StopDns
    BY <1>12 DEF StopDns, Release
  <1>13. CASE RetryQuit \/ StopDone \/ StopPanics \/ Crash
    <2>1. Freed({Gw}) /\ pc' = "down" /\ gw' = NewGateway
      BY <1>13, MineAbandon
      DEF RetryQuit, StopDone, StopPanics, Crash, Return, Abort, Blank, RunTypeOK, TypeInv,
          TypeOK
    <2> QED
      BY <2>1 DEF Freed, NewGateway
  <1>14. CASE CleanEngines \/ CleanRules \/ CleanResolv \/ CleanBackup \/ CleanHosts
           \/ DetectFails \/ StartBinary \/ Spawn \/ SpawnFails \/ VerifyOK \/ NextLink
    BY <1>14 DEF CleanEngines, CleanRules, CleanResolv, CleanBackup, CleanHosts,
       DetectFails, StartBinary, Spawn, SpawnFails, NextEngine, VerifyOK, AfterVerify,
       NextLink
  <1>15. CASE TunReady \/ DNSReady \/ DNSTimeout \/ ProxyOnly \/ TrackTun \/ Route
           \/ Intercept \/ SaveResolv \/ FillBackup \/ WriteResolv \/ LockResolv
    BY <1>15 DEF TunReady, DNSReady, DNSTimeout, ProxyOnly, TrackTun, Route, Intercept,
       SaveResolv, FillBackup, WriteResolv, LockResolv
  <1>16. CASE RetryTimer \/ Shutdown \/ StopRules \/ StopResolv \/ StopBackup \/ Signal
           \/ Reload
    BY <1>16 DEF RetryTimer, Shutdown, StopRules, StopResolv, StopBackup, Signal, Reload
  <1>17. ASSUME NEW b \in BOOLEAN, Launch(b) PROVE OwnPorts'
    BY <1>17 DEF Launch, DisplaceDnsmasq, Blank, NewGateway
  <1>18. CASE HostStep
    BY <1>18, MineHost DEF HostStep
  <1>19. CASE UNCHANGED vars
    BY <1>19 DEF vars
  <1> QED
    BY <1>1, <1>2, <1>3, <1>4, <1>5, <1>6, <1>7, <1>8, <1>9, <1>10, <1>11, <1>12, <1>13,
       <1>14, <1>15, <1>16, <1>17, <1>18, <1>19
    DEF Next, GatewayNext, RunStep, StartStep, StopStep, SystemdRestarts

(* Every child that is started gets a field, and every field that is set   *)
(* anew names no child any more.                                           *)
LEMMA NextInTheirFields ==
    TypeInv /\ OwnPorts /\ InTheirFields /\ [Next]_vars => InTheirFields'
  <1> SUFFICES ASSUME TypeInv, OwnPorts, InTheirFields, [Next]_vars PROVE InTheirFields'
    OBVIOUS
  <1>0. ProcTypeOK /\ GwTypeOK /\ SearchTypeOK
    BY DEF TypeInv, TypeOK, HostTypeOK, ProcTypeOK, GwTypeOK, SearchTypeOK
  <1> USE <1>0, HostAssumption
      DEF HostAssumption, GwTypeOK, InTheirFields, NoEngine, Goto, hostVars, procVars,
          gwVars
  <1>1. CASE CleanEngines
    <2>1. ASSUME NEW p \in Pids PROVE proc'[p].owner = proc[p].owner
      <3>1. proc'[p] = proc[p] \/ proc'[p] = [proc[p] EXCEPT !.status = "term"]
        BY <1>1 DEF CleanEngines
      <3>2. proc[p] \in Process
        BY DEF ProcTypeOK
      <3> QED
        BY <3>1, <3>2 DEF Process
    <2>2. Mine' = Mine
      BY <2>1 DEF Mine
    <2>3. pc = "cleanEngines" /\ pc' = "cleanChildren"
      BY <1>1 DEF CleanEngines
    <2> QED
      BY <2>2, <2>3
  <1>2. CASE CleanChildren
    BY <1>2, MineDie DEF CleanChildren
  <1>3. CASE Spawn
    <2>1. PICK p \in FreePids, native \in BOOLEAN :
            /\ proc' = [proc EXCEPT ![p] = Child(Head(search.engines), native)]
            /\ search' = [search EXCEPT !.pid = p]
      BY <1>3, Zenon DEF Spawn
    <2>2. Mine' = Mine \cup {p}
      BY <2>1, MineSpawn DEF FreePids
    <2> QED
      BY <1>3, <2>1, <2>2 DEF Spawn, SearchTypeOK, FreePids
  <1>4. CASE PollReady
    BY <1>4 DEF PollReady, MarkNative, Mine
  <1>5. CASE PollTimeout
    <2>1. Mine' \subseteq Mine \ {search.pid}
      BY <1>5, MineKill DEF PollTimeout
    <2>2. pc = "poll" /\ pc' \in {"spawn", "nextLink"}
      BY <1>5 DEF PollTimeout, NextEngine
    <2> QED
      BY <2>1, <2>2
  <1>6. CASE VerifyFails \/ TunTimeout \/ StopEngine
    <2>1. Mine' \subseteq Mine \ EngineHolder
      BY <1>6, MineKill DEF VerifyFails, TunTimeout, StopEngine
    <2>2. Mine \subseteq EngineHolder
      <3>1. Mine \subseteq {gw.engineProc} /\ Nil \notin Mine
        BY <1>6 DEF VerifyFails, TunTimeout, StopEngine, Mine
      <3>2. CASE gw.embedded # ""
        BY <3>1, <3>2 DEF OwnPorts
      <3>3. CASE gw.embedded = ""
        BY <3>1, <3>3 DEF EngineHolder
      <3> QED
        BY <3>2, <3>3
    <2>3. Mine' = {}
      BY <2>1, <2>2
    <2> QED
      BY <2>3
  <1>7. CASE StartDNSProcess
    <2>1. PICK p \in FreePids, kind \in {"dns2socks", "dnsmasq"} :
            /\ proc' = [proc EXCEPT ![p] = Child(kind, FALSE)]
            /\ gw' = [gw EXCEPT !.dnsProc = p]
      BY <1>7 DEF StartDNSProcess
    <2>2. Mine' = Mine \cup {p}
      BY <2>1, MineSpawn DEF FreePids
    <2>3. pc = "dns" /\ pc' \in {"dnsWait", "tun"}
      BY <1>7 DEF StartDNSProcess
    <2> QED
      BY <2>1, <2>2, <2>3 DEF FreePids
  <1>8. CASE StartTun
    <2>1. PICK p \in FreePids :
            /\ proc' = [proc EXCEPT ![p] = Child("tun2socks", FALSE)]
            /\ gw' = [gw EXCEPT !.tunProc = p]
      BY <1>8 DEF StartTun
    <2>2. Mine' = Mine \cup {p}
      BY <2>1, MineSpawn DEF FreePids
    <2> QED
      BY <1>8, <2>1, <2>2 DEF StartTun, FreePids
  <1>9. CASE StopTun
    <2>1. Mine' \subseteq Mine \ ({gw.tunProc} \ {Nil})
      BY <1>9, MineKill DEF StopTun
    <2>2. Nil \notin Mine
      BY DEF Mine
    <2> QED
      BY <1>9, <2>1, <2>2 DEF StopTun
  <1>10. CASE StopDns
    <2>1. Mine' \subseteq Mine \ {gw.dnsProc}
      BY <1>10 DEF StopDns, Mine, Free, ProcTypeOK
    <2> QED
      BY <1>10, <2>1 DEF StopDns
  <1>11. CASE RetryQuit \/ StopDone \/ StopPanics \/ Crash
    <2>1. Mine' = {} /\ pc' = "down"
      BY <1>11, MineAbandon
      DEF RetryQuit, StopDone, StopPanics, Crash, Return, Abort, Blank, TypeInv, TypeOK
    <2> QED
      BY <2>1
  <1>12. CASE CleanRules \/ CleanTun \/ CleanResolv \/ CleanBackup \/ CleanHosts \/ Detect
           \/ DetectFails \/ StartEmbedded \/ StartBinary \/ SpawnFails \/ VerifyOK
           \/ NextLink
    <2> HIDE <1>0
    <2>1. CASE CleanRules \/ CleanTun \/ CleanResolv \/ CleanBackup \/ CleanHosts
      BY <2>1 DEF CleanRules, CleanTun, CleanResolv, CleanBackup, CleanHosts, Mine
    <2>2. CASE Detect \/ DetectFails
      BY <2>2 DEF Detect, DetectFails, Mine
    <2>3. CASE StartEmbedded \/ StartBinary
      BY <2>3 DEF StartEmbedded, StartBinary, Mine
    <2>4. CASE SpawnFails
      BY <2>4 DEF SpawnFails, NextEngine, Mine
    <2>5. CASE VerifyOK
      BY <2>5 DEF VerifyOK, AfterVerify, Mine
    <2>6. CASE NextLink
      BY <2>6, <1>0 DEF NextLink, Mine
    <2> QED
      BY <1>12, <2>1, <2>2, <2>3, <2>4, <2>5, <2>6
  <1>13. CASE TunReady \/ StartBuiltinDNS \/ StartDNSFails \/ DNSReady \/ DNSTimeout
           \/ ProxyOnly \/ StartTunFails \/ TrackTun \/ Route
    <2>1. CASE TunReady \/ ProxyOnly
      BY <2>1 DEF TunReady, ProxyOnly, Mine, OwnPorts, NoHelper
    <2>2. CASE StartBuiltinDNS \/ StartDNSFails
      <3>1. proc' = proc /\ pc = "dns" /\ pc' = "tun"
        BY <2>2 DEF StartBuiltinDNS, StartDNSFails
      <3>2. gw'.engineProc = gw.engineProc
        <4>1. CASE StartBuiltinDNS
          BY <4>1 DEF StartBuiltinDNS
        <4>2. CASE StartDNSFails
          BY <4>2 DEF StartDNSFails
        <4> QED
          BY <2>2, <4>1, <4>2
      <3>3. Mine' = Mine
        BY <3>1 DEF Mine
      <3> QED
        BY <3>1, <3>2, <3>3
    <2>3. CASE DNSReady \/ DNSTimeout
      BY <2>3 DEF DNSReady, DNSTimeout, Mine
    <2>4. CASE StartTunFails
      <3>1. /\ Mine' = Mine /\ pc = "tun" /\ pc' = "running"
            /\ UNCHANGED <<gw.engineProc, gw.dnsProc>>
        BY <2>4 DEF StartTunFails, Mine
      <3> QED
        BY <3>1
    <2>5. CASE TrackTun \/ Route
      <3>1. Mine' = Mine /\ gw' = gw
        BY <2>5 DEF TrackTun, Route, Mine
      <3> HIDE <1>0
      <3> QED
        BY <2>5, <3>1 DEF TrackTun, Route
    <2> QED
      BY <1>13, <2>1, <2>2, <2>3, <2>4, <2>5
  <1>14. CASE Intercept \/ SaveResolv \/ FillBackup \/ WriteResolv \/ LockResolv
           \/ RetryTimer \/ Shutdown \/ StopRules \/ StopDevice \/ StopResolv \/ StopBackup
           \/ StopHosts \/ Signal \/ Reload
    <2> HIDE <1>0
    <2>1. CASE Intercept \/ SaveResolv \/ FillBackup \/ WriteResolv \/ LockResolv
      BY <2>1 DEF Intercept, SaveResolv, FillBackup, WriteResolv, LockResolv, Mine
    <2>2. CASE StopRules \/ StopDevice \/ StopResolv \/ StopBackup \/ StopHosts
      BY <2>2 DEF StopRules, StopDevice, StopResolv, StopBackup, StopHosts, Mine
    <2>3. CASE RetryTimer \/ Shutdown \/ Signal \/ Reload
      BY <2>3 DEF RetryTimer, Shutdown, Signal, Reload, Mine
    <2> QED
      BY <1>14, <2>1, <2>2, <2>3
  <1>15. ASSUME NEW b \in BOOLEAN, Launch(b) PROVE InTheirFields'
    BY <1>15 DEF Launch, DisplaceDnsmasq, Mine
  <1>16. CASE HostStep
    BY <1>16, MineHost DEF HostStep
  <1>17. CASE UNCHANGED vars
    BY <1>17 DEF vars, Mine
  <1> QED
    BY <1>1, <1>2, <1>3, <1>4, <1>5, <1>6, <1>7, <1>8, <1>9, <1>10, <1>11, <1>12, <1>13,
       <1>14, <1>15, <1>16, <1>17
    DEF Next, GatewayNext, RunStep, StartStep, StopStep, SystemdRestarts

(* nativeTUN is reset before the search leaves the native stages.          *)
LEMMA NextNativeStages ==
    TypeInv /\ DeviceFirst /\ NativeStages /\ [Next]_vars => NativeStages'
  <1> SUFFICES ASSUME TypeInv, NativeStages, [Next]_vars PROVE NativeStages'
    OBVIOUS
  <1>0. GwTypeOK /\ SearchTypeOK
    BY DEF TypeInv, TypeOK, GwTypeOK, SearchTypeOK
  <1> USE <1>0 DEF GwTypeOK, SearchTypeOK, NativeStages, Goto, gwVars
  <1>1. CASE Detect
    BY <1>1 DEF Detect
  <1>2. CASE StartEmbedded \/ PollReady
    BY <1>2 DEF StartEmbedded, PollReady, MarkNative, GatewayMode
  <1>3. CASE StartBinary \/ Spawn \/ SpawnFails \/ PollTimeout
    BY <1>3 DEF StartBinary, Spawn, SpawnFails, PollTimeout, NextEngine, MoreEngines
  <1>4. CASE VerifyOK \/ VerifyFails \/ NextLink \/ TunReady \/ TunTimeout
    BY <1>4 DEF VerifyOK, AfterVerify, VerifyFails, NextLink, NoSearch, TunReady, TunTimeout
  <1>5. CASE StartBuiltinDNS \/ StartDNSProcess \/ StartDNSFails \/ DNSReady \/ DNSTimeout
           \/ ProxyOnly \/ StartTun \/ StartTunFails \/ TrackTun
    BY <1>5 DEF StartBuiltinDNS, StartDNSProcess, StartDNSFails, DNSReady, DNSTimeout,
       ProxyOnly, StartTun, StartTunFails, TrackTun
  <1>6. CASE CleanEngines \/ CleanChildren \/ CleanRules \/ CleanTun \/ CleanResolv
           \/ CleanBackup \/ CleanHosts \/ DetectFails \/ RetryTimer
    BY <1>6 DEF CleanEngines, CleanChildren, CleanRules, CleanTun, CleanResolv,
       CleanBackup, CleanHosts, DetectFails, RetryTimer
  <1>7. CASE Route \/ Intercept \/ SaveResolv \/ FillBackup \/ WriteResolv \/ LockResolv
           \/ Shutdown
    BY <1>7 DEF Route, Intercept, SaveResolv, FillBackup, WriteResolv, LockResolv, Shutdown
  <1>8. CASE StopRules \/ StopDevice \/ StopResolv \/ StopBackup \/ StopHosts \/ StopTun
           \/ StopDns \/ StopEngine
    BY <1>8 DEF StopRules, StopDevice, StopResolv, StopBackup, StopHosts, StopTun, StopDns,
       StopEngine
  <1>9. CASE RetryQuit \/ StopDone \/ StopPanics \/ Crash
    <2>1. pc' = "down" /\ gw' = NewGateway
      BY <1>9 DEF RetryQuit, StopDone, StopPanics, Crash, Return, Abort, Blank
    <2> QED
      BY <2>1 DEF NewGateway
  <1>10. ASSUME NEW b \in BOOLEAN, Launch(b) PROVE NativeStages'
    BY <1>10 DEF Launch, Blank, NewGateway
  <1>11. CASE Signal \/ Reload \/ HostStep
    BY <1>11 DEF Signal, Reload, HostStep
  <1>12. CASE UNCHANGED vars
    BY <1>12 DEF vars
  <1> QED
    BY <1>1, <1>2, <1>3, <1>4, <1>5, <1>6, <1>7, <1>8, <1>9, <1>10, <1>11, <1>12
    DEF Next, GatewayNext, RunStep, StartStep, StopStep, SystemdRestarts

(* Stop undoes one thing after the other, in the mode Start ended up in.   *)
LEMMA NextUndone ==
    HostInv /\ Undone /\ [Next]_vars => Undone'
  <1> SUFFICES ASSUME HostInv, Undone, [Next]_vars PROVE Undone'
    OBVIOUS
  <1>0. NetTypeOK /\ GwTypeOK /\ BackupIsForeign /\ Healing
    BY DEF HostInv, HealInv, TypeInv, TypeOK, HostTypeOK, NetTypeOK, GwTypeOK
  <1> USE <1>0, HostAssumption
      DEF HostAssumption, NetTypeOK, GwTypeOK, Undone, StopSteps, HasBackup, Contents,
          Loopback, Fallback, Empty, Goto, hostVars, resolvVars, gwVars
  <1>1. CASE Route
    BY <1>1 DEF Route, ModeRules, Healing, Untouched
  <1>2. CASE Intercept
    BY <1>2 DEF Intercept
  <1>3. CASE SaveResolv \/ FillBackup \/ WriteResolv \/ LockResolv
    BY <1>3 DEF SaveResolv, FillBackup, WriteResolv, LockResolv
  <1>4. CASE Shutdown
    BY <1>4 DEF Shutdown
  <1>5. CASE StopRules
    BY <1>5 DEF StopRules, StoppedRules
  <1>6. CASE StopDevice
    BY <1>6 DEF StopDevice
  <1>7. CASE StopResolv
    BY <1>7 DEF StopResolv, BackupIsForeign, ResolvWriteFails
  <1>8. CASE StopBackup
    BY <1>8 DEF StopBackup
  <1>9. CASE StopHosts
    BY <1>9 DEF StopHosts, Unpin
  <1>10. CASE StopTun
    BY <1>10 DEF StopTun
  <1>11. CASE StopDns
    BY <1>11 DEF StopDns
  <1>12. CASE StopEngine
    BY <1>12 DEF StopEngine
  <1>13. CASE RetryQuit \/ StopDone \/ StopPanics \/ Crash
    <2>1. pc' = "down"
      BY <1>13 DEF RetryQuit, StopDone, StopPanics, Crash, Return, Abort
    <2> QED
      BY <2>1
  <1>14. CASE CleanEngines \/ CleanChildren \/ CleanRules \/ CleanTun \/ CleanResolv
           \/ CleanBackup \/ CleanHosts \/ Detect \/ DetectFails \/ RetryTimer
    BY <1>14 DEF CleanEngines, CleanChildren, CleanRules, CleanTun, CleanResolv,
       CleanBackup, CleanHosts, Detect, DetectFails, RetryTimer
  <1>15. CASE StartEmbedded \/ StartBinary \/ Spawn \/ SpawnFails \/ PollReady
           \/ PollTimeout \/ VerifyOK \/ VerifyFails \/ NextLink \/ TunReady \/ TunTimeout
    BY <1>15 DEF StartEmbedded, StartBinary, Spawn, SpawnFails, NextEngine, PollReady,
       PollTimeout, VerifyOK, AfterVerify, VerifyFails, NextLink, TunReady, TunTimeout,
       DeviceFirst, HostInv, HealInv, Healing, Untouched
  <1>16. CASE StartBuiltinDNS \/ StartDNSProcess \/ StartDNSFails \/ DNSReady
           \/ DNSTimeout \/ ProxyOnly \/ StartTun \/ StartTunFails \/ TrackTun
    BY <1>16 DEF StartBuiltinDNS, StartDNSProcess, StartDNSFails, DNSReady, DNSTimeout,
       ProxyOnly, StartTun, StartTunFails, TrackTun, Healing, Untouched
  <1>17. ASSUME NEW b \in BOOLEAN, Launch(b) PROVE Undone'
    BY <1>17 DEF Launch
  <1>18. CASE Signal \/ Reload
    <2>1. UNCHANGED <<pc, gw, fw, resolv, backup, pins, etcFailed>>
      BY <1>18 DEF Signal, Reload
    <2> QED
      BY <2>1
  <1>19. CASE HostStep
    <2>1. UNCHANGED <<pc, gw, fw, backup, pins, etcFailed>> /\ resolv' \in {resolv} \cup Dhcp
      BY <1>19 DEF HostStep, HostNext, EngineUp, DnsUp, Exit, UserStarts, DhcpWrites
    <2> QED
      BY <2>1
  <1>20. CASE UNCHANGED vars
    BY <1>20 DEF vars
  <1> QED
    BY <1>1, <1>2, <1>3, <1>4, <1>5, <1>6, <1>7, <1>8, <1>9, <1>10, <1>11, <1>12, <1>13,
       <1>14, <1>15, <1>16, <1>17, <1>18, <1>19, <1>20
    DEF Next, GatewayNext, RunStep, StartStep, StopStep, SystemdRestarts

(* The device is made after cleanupPreviousRun, in the legacy mode, and    *)
(* deleted by Stop in that mode.                                           *)
LEMMA NextDeviceGone ==
    TypeInv /\ NativeStages /\ DeviceGone /\ [Next]_vars => DeviceGone'
  <1> SUFFICES ASSUME TypeInv, NativeStages, DeviceGone, [Next]_vars PROVE DeviceGone'
    OBVIOUS
  <1> USE HostAssumption
      DEF HostAssumption, DeviceGone, StopSteps, Released, Release, Goto, hostVars,
          procVars, gwVars
  <1>1. CASE CleanEngines \/ CleanRules \/ CleanTun \/ CleanResolv \/ CleanBackup
           \/ CleanHosts
    BY <1>1 DEF CleanEngines, CleanRules, CleanTun, CleanResolv, CleanBackup, CleanHosts
  <1>2. CASE CleanChildren
    BY <1>2 DEF CleanChildren, Die
  <1>3. CASE Detect \/ DetectFails
    BY <1>3 DEF Detect, DetectFails
  <1>4. CASE StartEmbedded
    BY <1>4 DEF StartEmbedded
  <1>5. CASE StartBinary \/ Spawn \/ SpawnFails \/ PollReady
    BY <1>5 DEF StartBinary, Spawn, SpawnFails, NextEngine, MoreEngines, PollReady
  <1>6. CASE PollTimeout \/ VerifyFails
    BY <1>6 DEF PollTimeout, NextEngine, MoreEngines, VerifyFails, KillAndWait
  <1>7. CASE VerifyOK \/ NextLink \/ TunReady
    BY <1>7 DEF VerifyOK, AfterVerify, NextLink, TunReady
  <1>8. CASE TunTimeout
    BY <1>8 DEF TunTimeout, KillAndWait
  <1>9. CASE StartBuiltinDNS \/ StartDNSProcess \/ StartDNSFails \/ DNSReady
           \/ DNSTimeout
    BY <1>9 DEF StartBuiltinDNS, StartDNSProcess, StartDNSFails, DNSReady, DNSTimeout
  <1>10. CASE ProxyOnly \/ StartTun \/ StartTunFails \/ TrackTun
    <2>1. ~gw'.nativeTUN
      <3>1. ~gw.nativeTUN /\ GwTypeOK
        BY <1>10 DEF ProxyOnly, StartTun, StartTunFails, TrackTun, NativeStages, TypeInv,
           TypeOK, GwTypeOK
      <3> QED
        BY <1>10, <3>1 DEF ProxyOnly, StartTun, StartTunFails, TrackTun, GwTypeOK
    <2> QED
      BY <1>10, <2>1 DEF ProxyOnly, StartTun, StartTunFails, TrackTun
  <1>11. CASE Route \/ Intercept \/ SaveResolv \/ FillBackup \/ WriteResolv
           \/ LockResolv
    BY <1>11 DEF Route, Intercept, SaveResolv, FillBackup, WriteResolv, LockResolv
  <1>12. CASE RetryTimer \/ Shutdown
    BY <1>12 DEF RetryTimer, Shutdown
  <1>13. CASE StopRules \/ StopDevice \/ StopResolv \/ StopBackup \/ StopHosts
    BY <1>13 DEF StopRules, StopDevice, StopResolv, StopBackup, StopHosts
  <1>14. CASE StopTun \/ StopDns \/ StopEngine
    BY <1>14 DEF StopTun, StopDns, StopEngine, KillAndWait
  <1>15. CASE RetryQuit \/ StopDone \/ StopPanics \/ Crash
    <2>1. pc' = "down"
      BY <1>15 DEF RetryQuit, StopDone, StopPanics, Crash, Return, Abort
    <2> QED
      BY <2>1
  <1>16. ASSUME NEW b \in BOOLEAN, Launch(b) PROVE DeviceGone'
    BY <1>16 DEF Launch
  <1>17. CASE Signal \/ Reload
    BY <1>17 DEF Signal, Reload
  <1>18. CASE HostStep
    <2>1. UNCHANGED <<pc, gw>> /\ tun0' \in {tun0, Nil} \cup Pids
      BY <1>18 DEF HostStep, HostNext, EngineUp, DnsUp, Exit, UserStarts, DhcpWrites, Die
    <2> QED
      BY <2>1
  <1>19. CASE UNCHANGED vars
    BY <1>19 DEF vars
  <1> QED
    BY <1>1, <1>2, <1>3, <1>4, <1>5, <1>6, <1>7, <1>8, <1>9, <1>10, <1>11, <1>12, <1>13,
       <1>14, <1>15, <1>16, <1>17, <1>18, <1>19
    DEF Next, GatewayNext, RunStep, StartStep, StopStep, SystemdRestarts

LEMMA InitSlotInv == Init => SlotInv /\ Undone /\ DeviceGone
  <1> SUFFICES ASSUME Init PROVE SlotInv /\ Undone /\ DeviceGone
    OBVIOUS
  <1>1. pc = "down" /\ gw = NewGateway /\ Mine = {}
    BY DEF Init, HostInit, Free, Mine
  <1>2. Gw \notin {socks, dns53, tun0}
    BY HostAssumption DEF HostAssumption, Init, HostInit
  <1> QED
    BY <1>1, <1>2
    DEF NewGateway, SlotInv, OwnPorts, InTheirFields, NativeStages, Undone, DeviceGone,
        StopSteps

LEMMA SlotInvariance == Spec => [](HostInv /\ SlotInv /\ Undone /\ DeviceGone)
  <1>1. HostInv /\ SlotInv /\ Undone /\ DeviceGone /\ [Next]_vars
          => SlotInv' /\ Undone' /\ DeviceGone'
    BY NextOwnPorts, NextInTheirFields, NextNativeStages, NextUndone, NextDeviceGone
    DEF HostInv, HealInv, SlotInv
  <1> QED
    BY InitSlotInv, <1>1, HostInvariance, PTL DEF Spec

-----------------------------------------------------------------------------
(* At any step of any Start or Stop, every process the gateway is the      *)
(* parent of is in a field Stop looks at, or is being polled.              *)
THEOREM ChildrenAreKnown == Spec => []ChildrenKnown
  <1>1. InTheirFields => ChildrenKnown
    BY DEF InTheirFields, ChildrenKnown, Mine
  <1> QED
    BY <1>1, SlotInvariance, PTL DEF SlotInv

(* A Start that gave up has left no engine, embedded or not, no child and  *)
(* no claim to be in native TUN mode to the next attempt.                  *)
THEOREM FailedStartIsClean == Spec => []FailedStartLeavesNoEngine
  <1>1. SlotInv => FailedStartLeavesNoEngine
    BY DEF SlotInv, OwnPorts, InTheirFields, NativeStages, NoEngine, Mine,
       FailedStartLeavesNoEngine
  <1> QED
    BY <1>1, SlotInvariance, PTL

(* Once Stop is through, no child, no listener of bypath's own, no device  *)
(* that it made and no rule is left of the gateway, in whatever mode it    *)
(* ran; unless a write failed, no pin and nothing of resolv.conf either.   *)
(* A Stop that panics does not get there.                                  *)
THEOREM StopIsComplete == Spec => []StopUndoesStart
  <1>1. TypeInv /\ SlotInv /\ Undone /\ DeviceGone => StopUndoesStart
    <2> SUFFICES ASSUME TypeInv, SlotInv, Undone, DeviceGone, pc = "stopDone"
                 PROVE  /\ \A p \in Pids : proc[p].owner # "gateway"
                        /\ {Gw, "tuntap"} \cap {socks, dns53, tun0} = {}
                        /\ fw = {}
                        /\ etcFailed \/ (~pins /\ resolv # Loopback /\ ~HasBackup)
      BY DEF StopUndoesStart
    <2>1. Mine = {}
      BY DEF SlotInv, InTheirFields
    <2>2. gw.embedded = "" /\ ~gw.builtin
      BY DEF SlotInv, OwnPorts
    <2>3. Gw \notin {socks, dns53, tun0}
      BY <2>2 DEF SlotInv, OwnPorts
    <2>4. "tuntap" \notin {socks, dns53, tun0}
      <3>1. ProcTypeOK
        BY DEF TypeInv, TypeOK, HostTypeOK, ProcTypeOK
      <3>2. tun0 # "tuntap"
        BY DEF DeviceGone, StopSteps
      <3> QED
        BY <3>1, <3>2, HostAssumption DEF HostAssumption, ProcTypeOK
    <2>5. fw = {} /\ (etcFailed \/ (~pins /\ resolv # Loopback /\ ~HasBackup))
      BY DEF Undone, StopSteps
    <2> QED
      BY <2>1, <2>3, <2>4, <2>5 DEF Mine
  <1> QED
    BY <1>1, SlotInvariance, PTL DEF HostInv, HealInv

-----------------------------------------------------------------------------
(* The engine of a gateway in native mode. All of this is about the        *)
(* installed mode, in which a Start ends the engines of earlier runs.      *)

(* What becomes of a pid: it is freed, it keeps what it was, or something  *)
(* is started under a pid that was free.                                   *)
Fate(p) ==
    \/ proc'[p] = Free
    \/ /\ proc'[p].kind = proc[p].kind /\ proc'[p].native = proc[p].native
       /\ \/ proc'[p].status = proc[p].status
          \/ Running(p) /\ proc'[p].status \in {"term", "zombie"}
       /\ \/ proc'[p].owner = proc[p].owner
          \/ proc[p].owner = "gateway" /\ proc'[p].owner = "orphan" /\ pc' = "down"
    \/ /\ proc[p].status = "free"
       /\ \/ proc'[p] = [kind |-> "sing-box", owner |-> "user", status |-> "live",
                         native |-> FALSE]
          \/ \E k \in Kinds, n \in BOOLEAN :
               proc'[p] = Child(k, n) /\ (n => k = "sing-box")

LEMMA DieFate ==
    ASSUME ProcTypeOK, NEW S, \A p \in S \cap Pids : Running(p), Die(S)
    PROVE  \A p \in Pids : Fate(p)
  BY DEF ProcTypeOK, Die, Fate

LEMMA KillFate ==
    ASSUME ProcTypeOK, NEW S, KillAndWait(S)
    PROVE  \A p \in Pids : Fate(p)
  BY DEF ProcTypeOK, KillAndWait, Fate

LEMMA AbandonFate ==
    ASSUME ProcTypeOK, NEW b \in BOOLEAN, Abandon(b), pc' = "down"
    PROVE  \A p \in Pids : Fate(p)
  BY DEF ProcTypeOK, Abandon, Fate

LEMMA SameFate == ASSUME UNCHANGED proc PROVE \A p \in Pids : Fate(p)
  BY DEF Fate

LEMMA NextFate == TypeInv /\ [Next]_vars => \A p \in Pids : Fate(p)
  <1> SUFFICES ASSUME TypeInv, [Next]_vars PROVE \A p \in Pids : Fate(p)
    OBVIOUS
  <1>0. ProcTypeOK /\ SearchTypeOK
    BY DEF TypeInv, TypeOK, HostTypeOK, ProcTypeOK, SearchTypeOK
  <1> USE <1>0 DEF Goto, hostVars, procVars
  <1>1. CASE CleanEngines
    BY <1>1 DEF CleanEngines, ProcTypeOK, Process, Fate, Running
  <1>2. CASE CleanChildren
    BY <1>2, DieFate DEF CleanChildren
  <1>3. CASE Spawn
    <2>1. PICK p \in FreePids :
            proc' = [proc EXCEPT ![p] =
                       Child(Head(search.engines),
                             GatewayMode /\ Head(search.engines) = "sing-box")]
      BY <1>3, Zenon DEF Spawn
    <2>2. Head(search.engines) \in Kinds
      BY <1>3, HeadTailProperties DEF Spawn, SearchTypeOK, EngineLeft, Kinds
    <2>3. (GatewayMode /\ Head(search.engines) = "sing-box") \in BOOLEAN
      OBVIOUS
    <2> HIDE DEF GatewayMode
    <2> QED
      BY <2>1, <2>2, <2>3 DEF FreePids, Fate, ProcTypeOK
  <1>4. CASE PollTimeout \/ VerifyFails \/ TunTimeout \/ StopTun \/ StopEngine
    BY <1>4, KillFate DEF PollTimeout, VerifyFails, TunTimeout, StopTun, StopEngine
  <1>5. CASE StartDNSProcess
    <2>1. PICK p \in FreePids, kind \in {"dns2socks", "dnsmasq"} :
            proc' = [proc EXCEPT ![p] = Child(kind, FALSE)]
      BY <1>5 DEF StartDNSProcess
    <2> QED
      BY <2>1 DEF FreePids, Fate, ProcTypeOK, Kinds, DnsKinds
  <1>6. CASE StartTun
    <2>1. PICK p \in FreePids : proc' = [proc EXCEPT ![p] = Child("tun2socks", FALSE)]
      BY <1>6 DEF StartTun
    <2> QED
      BY <2>1 DEF FreePids, Fate, ProcTypeOK, Kinds
  <1>7. CASE StopDns
    BY <1>7 DEF StopDns, Fate, ProcTypeOK
  <1>8. CASE RetryQuit \/ StopDone \/ StopPanics \/ Crash
    BY <1>8, AbandonFate
    DEF RetryQuit, StopDone, StopPanics, Crash, Return, Abort, Blank, TypeInv, TypeOK
  <1>9. CASE CleanRules \/ CleanTun \/ CleanResolv \/ CleanBackup \/ CleanHosts \/ Detect
           \/ DetectFails \/ StartEmbedded \/ StartBinary \/ SpawnFails \/ PollReady
           \/ VerifyOK \/ NextLink \/ TunReady \/ StartBuiltinDNS \/ StartDNSFails
    <2>1. UNCHANGED proc
      BY <1>9 DEF CleanRules, CleanTun, CleanResolv, CleanBackup, CleanHosts, Detect,
         DetectFails, StartEmbedded, StartBinary, SpawnFails, PollReady, VerifyOK, NextLink,
         TunReady, StartBuiltinDNS, StartDNSFails
    <2> QED
      BY <2>1, SameFate
  <1>10. CASE DNSReady \/ DNSTimeout \/ ProxyOnly \/ StartTunFails \/ TrackTun \/ Route
           \/ Intercept \/ SaveResolv \/ FillBackup \/ WriteResolv \/ LockResolv
           \/ RetryTimer \/ Shutdown \/ StopRules \/ StopDevice \/ StopResolv \/ StopBackup
           \/ StopHosts \/ Signal \/ Reload
    <2>1. UNCHANGED proc
      BY <1>10 DEF DNSReady, DNSTimeout, ProxyOnly, StartTunFails, TrackTun, Route,
         Intercept, SaveResolv, FillBackup, WriteResolv, LockResolv, RetryTimer, Shutdown,
         StopRules, StopDevice, StopResolv, StopBackup, StopHosts, Signal, Reload
    <2> QED
      BY <2>1, SameFate
  <1>11. ASSUME NEW b \in BOOLEAN, Launch(b) PROVE \A p \in Pids : Fate(p)
    BY <1>11, SameFate DEF Launch, DisplaceDnsmasq
  <1>12. CASE HostStep
    <2>1. ASSUME NEW p \in Pids, EngineUp(p) \/ DnsUp(p) \/ Exit(p)
          PROVE  \A q \in Pids : Fate(q)
      BY <2>1, DieFate, SameFate DEF EngineUp, DnsUp, Exit, Running
    <2>2. ASSUME NEW p \in Pids, UserStarts(p) PROVE \A q \in Pids : Fate(q)
      BY <2>2 DEF UserStarts, FreePids, Fate, ProcTypeOK
    <2>3. CASE DhcpWrites
      BY <2>3, SameFate DEF DhcpWrites
    <2> QED
      BY <1>12, <2>1, <2>2, <2>3 DEF HostStep, HostNext
  <1>13. CASE UNCHANGED vars
    BY <1>13, SameFate DEF vars
  <1> QED
    BY <1>1, <1>2, <1>3, <1>4, <1>5, <1>6, <1>7, <1>8, <1>9, <1>10, <1>11, <1>12, <1>13
    DEF Next, GatewayNext, RunStep, StartStep, StopStep, SystemdRestarts

LEMMA FateKindsKnown ==
    ASSUME ProcTypeOK, ProcTypeOK', KindsKnown, \A p \in Pids : Fate(p)
    PROVE  KindsKnown'
  <1> SUFFICES ASSUME NEW p \in Pids
               PROVE  /\ proc'[p].native => proc'[p].kind = "sing-box"
                      /\ proc'[p].status = "free" => proc'[p] = Free
    BY DEF KindsKnown
  <1>1. Fate(p)
    OBVIOUS
  <1>2. proc[p] \in Process /\ proc'[p] \in Process
    BY DEF ProcTypeOK
  <1>3. proc'[p] = [kind |-> proc'[p].kind, owner |-> proc'[p].owner,
                    status |-> proc'[p].status, native |-> proc'[p].native]
    BY <1>2 DEF Process
  <1>4. CASE /\ proc'[p].kind = proc[p].kind /\ proc'[p].native = proc[p].native
             /\ \/ proc'[p].status = proc[p].status
                \/ Running(p) /\ proc'[p].status \in {"term", "zombie"}
             /\ \/ proc'[p].owner = proc[p].owner
                \/ proc[p].owner = "gateway" /\ proc'[p].owner = "orphan" /\ pc' = "down"
    <2>1. proc'[p].native => proc'[p].kind = "sing-box"
      BY <1>4 DEF KindsKnown
    <2>2. ASSUME proc'[p].status = "free" PROVE proc'[p] = Free
      <3>1. proc[p] = Free
        BY <1>4, <2>2 DEF KindsKnown
      <3>2. /\ proc[p].kind = "none" /\ proc[p].owner = "none" /\ ~proc[p].native
            /\ proc[p].native \in BOOLEAN
        BY <3>1 DEF Free
      <3>3. /\ proc'[p].kind = "none" /\ proc'[p].owner = "none"
            /\ proc'[p].native = FALSE
        BY <1>4, <3>2
      <3> QED
        BY <1>3, <2>2, <3>3 DEF Free
    <2> QED
      BY <2>1, <2>2
  <1>5. CASE proc'[p] = Free
    BY <1>5 DEF Free
  <1>6. CASE \E k \in Kinds, n \in BOOLEAN : proc'[p] = Child(k, n) /\ (n => k = "sing-box")
    BY <1>6 DEF Child
  <1>7. CASE proc'[p] = [kind |-> "sing-box", owner |-> "user", status |-> "live",
                         native |-> FALSE]
    BY <1>7
  <1> QED
    BY <1>1, <1>4, <1>5, <1>6, <1>7 DEF Fate

LEMMA NextKindsKnown == TypeInv /\ KindsKnown /\ [Next]_vars => KindsKnown'
  BY NextFate, NextTypeInv, FateKindsKnown DEF TypeInv, TypeOK, HostTypeOK, ProcTypeOK

(* A child that stays a child stays what it is.                            *)
LEMMA MineSame ==
    ASSUME TypeInv, KindsKnown, [Next]_vars, NEW p \in Mine, p \in Mine'
    PROVE  proc'[p].kind = proc[p].kind /\ proc'[p].native = proc[p].native
  <1>1. Fate(p) /\ p \in Pids
    BY NextFate DEF Mine
  <1>2. proc'[p].owner = "gateway" /\ proc[p].owner = "gateway"
    BY DEF Mine
  <1>3. proc[p].status # "free"
    BY <1>1, <1>2 DEF KindsKnown, Free
  <1> QED
    BY <1>1, <1>2, <1>3 DEF Fate, Free

(* The orphans of earlier runs were told to end by cleanupPreviousRun.     *)
LEMMA NextOrphansEnd ==
    ASSUME Installed
    PROVE  TypeInv /\ KindsKnown /\ OrphansEnd /\ [Next]_vars => OrphansEnd'
  <1> SUFFICES ASSUME TypeInv, KindsKnown, OrphansEnd, [Next]_vars,
                      pc' \notin {"down", "cleanEngines"},
                      NEW p \in Pids, proc'[p].status = "live", proc'[p].kind \in Engines,
                      proc'[p].owner # "user"
               PROVE  proc'[p].owner = "gateway"
    BY DEF OrphansEnd, Mine
  <1>1. Fate(p) /\ proc \in [Pids -> Process]
    BY NextFate DEF TypeInv, TypeOK, HostTypeOK
  <1>2. CASE CleanEngines
    <2>1. proc[p].status # "live" \/ proc[p].owner = "user" \/ proc[p].kind \notin Engines
      BY <1>1, <1>2 DEF CleanEngines
    <2> QED
      BY <1>1, <1>2, <2>1 DEF CleanEngines
  <1>3. CASE pc \notin {"down", "cleanEngines"}
    <2>1. \/ proc'[p].owner = "gateway"
          \/ /\ proc[p].kind = proc'[p].kind /\ proc[p].owner = proc'[p].owner
             /\ proc[p].status = "live"
      <3>1. proc'[p] # Free
        BY DEF Free
      <3>2. ASSUME NEW k, NEW n, proc'[p] = Child(k, n) PROVE proc'[p].owner = "gateway"
        BY <3>2 DEF Child
      <3> QED
        BY <1>1, <3>1, <3>2 DEF Fate
    <2> QED
      BY <1>3, <2>1 DEF OrphansEnd, Mine
  <1>4. CASE pc \in {"down", "cleanEngines"} /\ ~CleanEngines
    <2>1. CASE RunStep
      BY <1>4, <2>1
      DEF RunStep, StartStep, StopStep, Goto, CleanChildren, CleanRules, CleanTun,
          CleanResolv, CleanBackup, CleanHosts, Detect, DetectFails, StartEmbedded,
          StartBinary, Spawn, SpawnFails, NextEngine, PollReady, PollTimeout, VerifyOK,
          VerifyFails, NextLink, TunReady, TunTimeout, StartBuiltinDNS, StartDNSProcess,
          StartDNSFails, DNSReady, DNSTimeout, ProxyOnly, StartTun, StartTunFails,
          TrackTun, Route, Intercept, SaveResolv, FillBackup, WriteResolv, LockResolv,
          StopRules, StopDevice, StopResolv, StopBackup, StopHosts, StopTun, StopDns,
          StopPanics, StopEngine, StopDone, RetryTimer, RetryQuit, Shutdown
    <2>2. CASE Crash \/ Signal \/ Reload \/ HostStep \/ UNCHANGED vars
      BY <1>4, <2>2 DEF Crash, Abort, Signal, Reload, HostStep, gwVars, vars
    <2>3. ASSUME NEW b \in BOOLEAN, Launch(b) PROVE pc' = "cleanEngines"
      BY <2>3 DEF Launch, Goto
    <2> QED
      BY <2>1, <2>2, <2>3 DEF Next, GatewayNext, SystemdRestarts
  <1> QED
    BY <1>2, <1>3, <1>4

(* What the fields of the struct say of the engine is so.                  *)
LEMMA NextActiveRuns ==
    TypeInv /\ SlotInv /\ KindsKnown /\ ActiveRuns /\ [Next]_vars => ActiveRuns'
  <1> SUFFICES ASSUME TypeInv, SlotInv, KindsKnown, ActiveRuns, [Next]_vars
               PROVE  ActiveRuns'
    OBVIOUS
  <1>0. ProcTypeOK /\ GwTypeOK /\ SearchTypeOK /\ OwnPorts /\ InTheirFields
    BY DEF TypeInv, TypeOK, HostTypeOK, ProcTypeOK, GwTypeOK, SearchTypeOK, SlotInv
  <1> USE <1>0, HostAssumption
      DEF HostAssumption, GwTypeOK, ActiveRuns, Goto, hostVars, procVars, gwVars
  <1>1. CASE Spawn
    <2>1. PICK p \in FreePids, native \in BOOLEAN :
            /\ proc' = [proc EXCEPT ![p] = Child(Head(search.engines), native)]
            /\ search' = [search EXCEPT !.pid = p]
      BY <1>1, Zenon DEF Spawn
    <2>2. search'.pid = p /\ search'.engines = search.engines /\ pc' = "poll"
      BY <1>1, <2>1 DEF Spawn, SearchTypeOK
    <2>3. proc'[p].kind = Head(search.engines)
      BY <2>1 DEF FreePids, ProcTypeOK, Child
    <2> QED
      BY <2>2, <2>3
  <1>2. CASE PollReady
    <2>1. /\ pc = "poll" /\ pc' = "verify" /\ gw'.engineProc = search.pid
          /\ gw'.activeEngine = Head(search.engines) /\ gw'.embedded = gw.embedded
          /\ UNCHANGED proc
      BY <1>2 DEF PollReady
    <2>2. gw.embedded = "" /\ Mine' = Mine
      BY <2>1 DEF OwnPorts, Mine
    <2> QED
      BY <2>1, <2>2
  <1>3. CASE StartEmbedded
    <2>1. /\ pc = "engine" /\ pc' = "verify" /\ gw'.engineProc = gw.engineProc
          /\ gw'.embedded = gw'.activeEngine
      BY <1>3 DEF StartEmbedded
    <2>2. gw.engineProc = Nil /\ Nil \notin Mine'
      BY <2>1 DEF OwnPorts, NoEngine, Mine
    <2> QED
      BY <2>1, <2>2
  <1>4. CASE VerifyOK
    BY <1>4 DEF VerifyOK, AfterVerify, Mine
  <1>5. CASE Signal \/ Reload
    <2>1. UNCHANGED <<pc, gw, search, proc>>
      BY <1>5 DEF Signal, Reload
    <2> QED
      BY <2>1 DEF Mine
  <1>6. CASE HostStep
    <2>1. UNCHANGED <<pc, gw, search>> /\ Mine' \subseteq Mine
      BY <1>6, MineHost DEF HostStep
    <2>2. \A p \in Mine' : proc'[p].kind = proc[p].kind
      BY <2>1, MineSame
    <2> QED
      BY <2>1, <2>2
  <1>7. CASE UNCHANGED vars
    BY <1>7 DEF vars, Mine
  <1>8. CASE CleanEngines \/ CleanChildren \/ CleanRules \/ CleanTun \/ CleanResolv
           \/ CleanBackup \/ CleanHosts \/ Detect \/ DetectFails \/ RetryTimer
    BY <1>8 DEF CleanEngines, CleanChildren, CleanRules, CleanTun, CleanResolv,
       CleanBackup, CleanHosts, Detect, DetectFails, RetryTimer
  <1>9. CASE StartBinary \/ SpawnFails \/ PollTimeout \/ VerifyFails \/ NextLink \/ TunReady
           \/ TunTimeout
    BY <1>9 DEF StartBinary, SpawnFails, PollTimeout, NextEngine, VerifyFails, NextLink,
       TunReady, TunTimeout
  <1>10. CASE StartBuiltinDNS \/ StartDNSProcess \/ StartDNSFails \/ DNSReady
           \/ DNSTimeout \/ ProxyOnly \/ StartTun \/ StartTunFails \/ TrackTun
    BY <1>10 DEF StartBuiltinDNS, StartDNSProcess, StartDNSFails, DNSReady, DNSTimeout,
       ProxyOnly, StartTun, StartTunFails, TrackTun
  <1>11. CASE Route \/ Intercept \/ SaveResolv \/ FillBackup \/ WriteResolv \/ LockResolv
           \/ Shutdown
    BY <1>11 DEF Route, Intercept, SaveResolv, FillBackup, WriteResolv, LockResolv, Shutdown
  <1>12. CASE StopRules \/ StopDevice \/ StopResolv \/ StopBackup \/ StopHosts \/ StopTun
           \/ StopDns \/ StopEngine
    BY <1>12 DEF StopRules, StopDevice, StopResolv, StopBackup, StopHosts, StopTun, StopDns,
       StopEngine
  <1>13. CASE RetryQuit \/ StopDone \/ StopPanics \/ Crash
    <2>1. pc' = "down"
      BY <1>13 DEF RetryQuit, StopDone, StopPanics, Crash, Return, Abort
    <2> QED
      BY <2>1
  <1>14. ASSUME NEW b \in BOOLEAN, Launch(b) PROVE ActiveRuns'
    BY <1>14 DEF Launch
  <1> QED
    BY <1>1, <1>2, <1>3, <1>4, <1>5, <1>6, <1>7, <1>8, <1>9, <1>10, <1>11, <1>12, <1>13,
       <1>14
    DEF Next, GatewayNext, RunStep, StartStep, StopStep, SystemdRestarts

(* A free pid is nobody's.                                                 *)
LEMMA FreeIsNobodys == KindsKnown => \A p \in FreePids : p \notin Mine
  BY DEF KindsKnown, FreePids, Mine, Free

(* Between the removal of tun0 and the wait for it, only an engine of this *)
(* Start opens it, and one that is dropped gives it back.                  *)
LEMMA NextDeviceHolder ==
    TypeInv /\ SlotInv /\ KindsKnown /\ OrphansEnd /\ DeviceHolder /\ [Next]_vars
      => DeviceHolder'
  <1> DEFINE Awaiting == {"cleanResolv", "cleanBackup", "cleanHosts", "detect", "engine",
                          "spawn", "poll", "verify", "nextLink", "waitTun"}
             Known == \/ tun0 = Nil
                      \/ tun0 = Gw /\ gw.embedded = "sing-box"
                      \/ tun0 \in Mine /\ proc[tun0].native
  <1> SUFFICES ASSUME TypeInv, SlotInv, KindsKnown, OrphansEnd, DeviceHolder, [Next]_vars,
                      pc' \in Awaiting
               PROVE  Known'
    BY DEF DeviceHolder
  <1>0. ProcTypeOK /\ GwTypeOK /\ OwnPorts /\ InTheirFields
    BY DEF TypeInv, TypeOK, HostTypeOK, ProcTypeOK, GwTypeOK, SlotInv
  <1>a. pc \in Awaiting => Known
    BY DEF DeviceHolder
  <1>b. ASSUME tun0 \in Mine, tun0' = tun0, tun0 \in Mine' PROVE proc'[tun0'].native = proc[tun0].native
    BY <1>b, MineSame
  <1> HIDE DEF Known
  <1> USE <1>0, HostAssumption DEF HostAssumption, GwTypeOK, Goto, hostVars, procVars, gwVars
  <1>c. ASSUME UNCHANGED <<proc, tun0>>, UNCHANGED gw.embedded, pc \in Awaiting
        PROVE  Known'
    BY <1>a, <1>c DEF Known, Mine
  <1>1. CASE CleanTun
    BY <1>1 DEF CleanTun, Known
  <1>2. CASE StartEmbedded
    <2>1. tun0 = Nil
      <3>1. Mine = {} /\ gw.embedded = "" /\ pc \in Awaiting
        BY <1>2 DEF StartEmbedded, InTheirFields, OwnPorts, NoEngine
      <3> QED
        BY <3>1, <1>a DEF Known
    <2>2. tun0' = Nil \/ (tun0' = Gw /\ gw'.embedded = "sing-box")
      BY <1>2, <2>1 DEF StartEmbedded
    <2> QED
      BY <2>2 DEF Known
  <1>3. CASE Spawn
    <2>1. Mine = {} /\ gw.embedded = "" /\ pc \in Awaiting /\ UNCHANGED tun0
      BY <1>3 DEF Spawn, InTheirFields, OwnPorts, NoEngine
    <2> QED
      BY <2>1, <1>a DEF Known
  <1>4. CASE PollTimeout
    <2>1. /\ pc = "poll" /\ Mine' \subseteq Mine \ {search.pid} /\ Freed({search.pid})
          /\ gw.embedded = ""
      BY <1>4, MineKill DEF PollTimeout, NextEngine, OwnPorts
    <2>2. Mine \subseteq {search.pid} /\ search.pid # Nil
      BY <2>1 DEF InTheirFields, TypeInv, WaitedFor
    <2> QED
      BY <1>a, <2>1, <2>2 DEF Known, Freed
  <1>5. CASE VerifyFails \/ TunTimeout
    <2>1. pc \in {"verify", "waitTun"} /\ Freed(EngineHolder)
      BY <1>5, MineKill DEF VerifyFails, TunTimeout
    <2>2. Mine \subseteq {gw.engineProc} /\ Nil \notin Mine
      BY <2>1 DEF InTheirFields, Mine
    <2>3. tun0 # Nil => tun0 \in EngineHolder
      BY <1>a, <2>1, <2>2 DEF Known, EngineHolder, OwnPorts
    <2> QED
      BY <2>1, <2>3 DEF Known, Freed
  <1>6. CASE CleanResolv \/ CleanBackup \/ CleanHosts \/ Detect \/ StartBinary \/ SpawnFails
           \/ PollReady \/ VerifyOK \/ NextLink
    <2>1. UNCHANGED <<proc, tun0>> /\ UNCHANGED gw.embedded /\ pc \in Awaiting
      BY <1>6 DEF CleanResolv, CleanBackup, CleanHosts, Detect, StartBinary, SpawnFails,
         NextEngine, PollReady, VerifyOK, NextLink
    <2> QED
      BY <2>1, <1>c
  <1>7. CASE Signal \/ Reload
    <2>1. UNCHANGED <<proc, tun0, gw, pc>>
      BY <1>7 DEF Signal, Reload
    <2> QED
      BY <2>1, <1>c
  <1>8. CASE HostStep
    <2> USE DEF HostStep
    <2>1. pc \in Awaiting /\ UNCHANGED gw
      BY <1>8
    <2>2. ASSUME NEW p \in Pids, EngineUp(p), ~Die({p}) PROVE Known'
      <3>1. p \in Mine /\ UNCHANGED proc
        BY <2>1, <2>2 DEF EngineUp, OrphansEnd
      <3>2. tun0' = tun0 \/ (tun0' = p /\ proc[p].native)
        BY <2>2 DEF EngineUp
      <3> QED
        BY <1>c, <2>1, <3>1, <3>2 DEF Known, Mine
    <2>3. ASSUME NEW p \in Pids, Die({p}) PROVE Known'
      <3>1. tun0' = Nil \/ (tun0' = tun0 /\ tun0 # p)
        BY <2>3 DEF Die, Released, Release
      <3>2. \A q \in Pids : q # p => proc'[q] = proc[q]
        BY <2>3 DEF Die
      <3> QED
        BY <1>a, <2>1, <3>1, <3>2 DEF Known, Mine
    <2>4. ASSUME NEW p \in Pids, UserStarts(p) PROVE Known'
      <3>1. p \notin Mine
        BY <2>4, FreeIsNobodys DEF UserStarts
      <3>2. UNCHANGED tun0 /\ \A q \in Pids : q # p => proc'[q] = proc[q]
        BY <2>4 DEF UserStarts, ProcTypeOK
      <3> QED
        BY <1>a, <2>1, <3>1, <3>2 DEF Known, Mine
    <2>5. CASE UNCHANGED <<proc, tun0>>
      BY <2>1, <2>5, <1>c
    <2> QED
      BY <1>8, <2>2, <2>3, <2>4, <2>5 DEF HostNext, DnsUp, Exit, DhcpWrites
  <1>9. CASE UNCHANGED vars
    BY <1>9, <1>c DEF vars
  <1>10. CASE CleanEngines \/ CleanChildren \/ CleanRules \/ DetectFails \/ TunReady
           \/ StartBuiltinDNS \/ StartDNSProcess \/ StartDNSFails \/ DNSReady
           \/ DNSTimeout \/ ProxyOnly \/ StartTun \/ StartTunFails \/ TrackTun
    BY <1>10 DEF CleanEngines, CleanChildren, CleanRules, DetectFails, TunReady,
       StartBuiltinDNS, StartDNSProcess, StartDNSFails, DNSReady, DNSTimeout, ProxyOnly,
       StartTun, StartTunFails, TrackTun
  <1>11. CASE Route \/ Intercept \/ SaveResolv \/ FillBackup \/ WriteResolv \/ LockResolv
           \/ RetryTimer \/ Shutdown \/ StopStep
    BY <1>11 DEF Route, Intercept, SaveResolv, FillBackup, WriteResolv, LockResolv,
       RetryTimer, Shutdown, StopStep, StopRules, StopDevice, StopResolv, StopBackup,
       StopHosts, StopTun, StopDns, StopPanics, StopEngine, StopDone, Return, Abort
  <1>12. CASE RetryQuit \/ Crash
    BY <1>12 DEF RetryQuit, Return, Crash, Abort
  <1>13. ASSUME NEW b \in BOOLEAN, Launch(b) PROVE FALSE
    BY <1>13 DEF Launch
  <1> QED
    BY <1>1, <1>2, <1>3, <1>4, <1>5, <1>6, <1>7, <1>8, <1>9, <1>10, <1>11, <1>12, <1>13
    DEF Next, GatewayNext, RunStep, StartStep, SystemdRestarts

(* A gateway that has found its tun0 runs on the engine that opened it.    *)
LEMMA NextNativeSingBox ==
    TypeInv /\ SlotInv /\ NativeInv /\ [Next]_vars => NativeSingBox'
  <1> SUFFICES ASSUME TypeInv, SlotInv, NativeInv, [Next]_vars PROVE NativeSingBox'
    OBVIOUS
  <1>0. ProcTypeOK /\ GwTypeOK /\ InTheirFields /\ OwnPorts
    BY DEF TypeInv, TypeOK, HostTypeOK, ProcTypeOK, GwTypeOK, SlotInv
  <1> USE <1>0 DEF GwTypeOK, NativeSingBox, Goto, gwVars
  <1>1. CASE TunReady
    <2>1. pc = "waitTun" /\ tun0 # Nil /\ UNCHANGED gw
      BY <1>1 DEF TunReady, TunPresent
    <2>2. CASE tun0 = Gw /\ gw.embedded = "sing-box"
      BY <2>1, <2>2 DEF NativeInv, ActiveRuns
    <2>3. CASE tun0 \in Mine /\ proc[tun0].native
      <3>1. tun0 = gw.engineProc /\ tun0 \in Pids
        BY <2>1, <2>3 DEF InTheirFields, Mine
      <3> QED
        BY <2>1, <2>3, <3>1 DEF NativeInv, ActiveRuns, KindsKnown
    <2> QED
      BY <2>1, <2>2, <2>3 DEF NativeInv, DeviceHolder
  <1>2. CASE TrackTun
    BY <1>2 DEF TrackTun, SlotInv, NativeStages
  <1>3. CASE ProxyOnly \/ StartTunFails
    BY <1>3 DEF ProxyOnly, StartTunFails, SlotInv, NativeStages
  <1>4. CASE Route \/ Intercept \/ SaveResolv \/ FillBackup \/ WriteResolv \/ LockResolv
    BY <1>4 DEF Route, Intercept, SaveResolv, FillBackup, WriteResolv, LockResolv,
       NativeInv
  <1>5. CASE Signal \/ Reload \/ HostStep \/ UNCHANGED vars
    <2>1. UNCHANGED <<pc, gw>>
      BY <1>5 DEF Signal, Reload, HostStep, vars
    <2> QED
      BY <2>1 DEF NativeInv
  <1>6. CASE CleanEngines \/ CleanChildren \/ CleanRules \/ CleanTun \/ CleanResolv
           \/ CleanBackup \/ CleanHosts \/ Detect \/ DetectFails \/ StartEmbedded
           \/ StartBinary \/ Spawn \/ SpawnFails \/ PollReady \/ PollTimeout
    BY <1>6 DEF CleanEngines, CleanChildren, CleanRules, CleanTun, CleanResolv,
       CleanBackup, CleanHosts, Detect, DetectFails, StartEmbedded, StartBinary, Spawn,
       SpawnFails, NextEngine, PollReady, PollTimeout
  <1>7. CASE VerifyOK \/ VerifyFails \/ NextLink \/ TunTimeout \/ StartBuiltinDNS
           \/ StartDNSProcess \/ StartDNSFails \/ DNSReady \/ DNSTimeout \/ StartTun
           \/ RetryTimer \/ Shutdown
    BY <1>7 DEF VerifyOK, AfterVerify, VerifyFails, NextLink, TunTimeout, StartBuiltinDNS,
       StartDNSProcess, StartDNSFails, DNSReady, DNSTimeout, StartTun, RetryTimer, Shutdown
  <1>8. CASE StopStep \/ RetryQuit \/ Crash
    BY <1>8 DEF StopStep, StopRules, StopDevice, StopResolv, StopBackup, StopHosts,
       StopTun, StopDns, StopPanics, StopEngine, StopDone, RetryQuit, Return, Crash, Abort
  <1>9. ASSUME NEW b \in BOOLEAN, Launch(b) PROVE NativeSingBox'
    BY <1>9 DEF Launch
  <1> QED
    BY <1>1, <1>2, <1>3, <1>4, <1>5, <1>6, <1>7, <1>8, <1>9
    DEF Next, GatewayNext, RunStep, StartStep, SystemdRestarts

LEMMA InitNativeInv == Init => NativeInv
  BY DEF Init, HostInit, Free, NativeInv, KindsKnown, OrphansEnd, ActiveRuns, DeviceHolder,
     NativeSingBox

(* In the installed mode, a gateway that believes to be in native TUN mode *)
(* runs on sing-box, after any number of links and engines that failed     *)
(* verification, and whatever earlier runs left behind.                    *)
THEOREM NativeRunsSingBox == ASSUME Installed PROVE Spec => []NativeIsSingBox
  <1>1. TypeInv /\ SlotInv /\ NativeInv /\ [Next]_vars => NativeInv'
    BY NextKindsKnown, NextOrphansEnd, NextActiveRuns, NextDeviceHolder, NextNativeSingBox
    DEF NativeInv
  <1>2. NativeInv => NativeIsSingBox
    BY DEF NativeInv, NativeSingBox, NativeIsSingBox
  <1> QED
    BY InitNativeInv, SlotInvariance, <1>1, <1>2, PTL DEF Spec, HostInv, HealInv

-----------------------------------------------------------------------------
(* "bypath stop".                                                          *)

(* A helper process that a field names is a child, and of its kind.        *)
Helpers ==
    /\ pc \notin {"stopEngine", "stopDone"} /\ gw.dnsProc \in Pids
         => proc[gw.dnsProc].owner = "gateway" /\ proc[gw.dnsProc].kind \in DnsKinds
    /\ pc \notin {"stopDns", "stopEngine", "stopDone"} /\ gw.tunProc \in Pids
         => proc[gw.tunProc].owner = "gateway" /\ proc[gw.tunProc].kind = "tun2socks"

(* A pid that holds the SOCKS port is that of an engine bypath started.    *)
IsEngine(p) == Running(p) /\ proc[p].kind \in Engines /\ proc[p].owner # "user"
PortHolder == socks \in Pids => IsEngine(socks)

(* The processes of bypath's that run.                                     *)
Left == {p \in Pids : Running(p) /\ proc[p].owner # "user"}

(* What cmdStop has ended and removed so far.                              *)
Quietly(steps) == quiet = "yes" \/ (quiet = "stopping" /\ stop \in steps)
ReleasedSoFar ==
    /\ quiet \in {"stopping", "yes"} => pc = "down"
    /\ quiet = "stopping" => stop \in {"engines", "helpers", "device", "rules"}
    /\ Quietly({"helpers", "device", "rules"}) => \A p \in Left : proc[p].kind \notin Engines
    /\ Quietly({"device", "rules"}) => \A p \in Left : proc[p].kind = "dnsmasq"
    /\ Quietly({"rules"}) => tun0 = Nil
    /\ quiet = "yes" => fw \cap FlushedByStop = {}

(* What runs is of one of the kinds bypath knows.                          *)
RunningKinds == \A p \in Pids : Running(p) => proc[p].kind \in Kinds

HolderInv == TypeInv /\ OwnPorts /\ KindsKnown /\ RunningKinds /\ Helpers /\ PortHolder

LEMMA FateRunningKinds ==
    ASSUME RunningKinds, \A p \in Pids : Fate(p)
    PROVE  RunningKinds'
  <1> SUFFICES ASSUME NEW p \in Pids, Running(p)' PROVE proc'[p].kind \in Kinds
    BY DEF RunningKinds
  <1>1. Fate(p)
    OBVIOUS
  <1>2. CASE proc'[p] = Free
    BY <1>2 DEF Free, Running
  <1>3. CASE /\ proc'[p].kind = proc[p].kind
             /\ proc'[p].status = proc[p].status \/ Running(p)
    BY <1>3 DEF Running, RunningKinds
  <1>4. CASE \E k \in Kinds, n \in BOOLEAN : proc'[p] = Child(k, n)
    BY <1>4 DEF Child
  <1>5. CASE proc'[p].kind = "sing-box"
    BY <1>5 DEF Kinds, Engines
  <1> QED
    BY <1>1, <1>2, <1>3, <1>4, <1>5 DEF Fate

(* Only KillAndWait, and the end of the gateway, end a child for good.     *)
LEMMA ChildKept ==
    ASSUME ProcTypeOK, NEW S, KillAndWait(S), NEW q \in Pids \ S
    PROVE  proc'[q] = proc[q]
  BY DEF ProcTypeOK, KillAndWait

LEMMA ChildWaits ==
    ASSUME ProcTypeOK, NEW S, Die(S), NEW q \in Pids, proc[q].owner = "gateway"
    PROVE  proc'[q].owner = "gateway" /\ proc'[q].kind = proc[q].kind
  BY DEF ProcTypeOK, Process, Die

LEMMA NextHelpers == TypeInv /\ OwnPorts /\ KindsKnown /\ Helpers /\ [Next]_vars => Helpers'
  <1> SUFFICES ASSUME TypeInv, OwnPorts, KindsKnown, Helpers, [Next]_vars PROVE Helpers'
    OBVIOUS
  <1>0. ProcTypeOK /\ GwTypeOK /\ Nil \notin Pids /\ NoProcess \notin Pids
    BY HostAssumption, GatewayAssumption
    DEF HostAssumption, GatewayAssumption, TypeInv, TypeOK, HostTypeOK, ProcTypeOK, GwTypeOK
  <1>n. Nil \notin Pids
    BY <1>0
  <1> USE <1>0 DEF GwTypeOK, Goto, hostVars, procVars, gwVars
  <1>a. ASSUME UNCHANGED <<gw.dnsProc, gw.tunProc>>, UNCHANGED proc,
               pc' \in {"stopEngine", "stopDone"} \/ pc \notin {"stopEngine", "stopDone"},
               pc' \in {"stopDns", "stopEngine", "stopDone"}
                 \/ pc \notin {"stopDns", "stopEngine", "stopDone"}
        PROVE  Helpers'
    BY <1>a DEF Helpers
  <1>b. ASSUME gw'.dnsProc \notin Pids, gw'.tunProc \notin Pids PROVE Helpers'
    BY <1>b DEF Helpers
  <1>c. \A p \in FreePids : p # gw.dnsProc \/ pc \in {"stopEngine", "stopDone"}
    BY FreeIsNobodys DEF Helpers, Mine, FreePids
  <1>d. \A p \in FreePids : p # gw.tunProc \/ pc \in {"stopDns", "stopEngine", "stopDone"}
    BY FreeIsNobodys DEF Helpers, Mine, FreePids
  <1>1. CASE CleanEngines \/ CleanChildren \/ PollTimeout \/ VerifyFails \/ TunTimeout
           \/ Spawn
    <2>1. gw.dnsProc = Nil /\ gw.tunProc = Nil
      BY <1>1 DEF OwnPorts, NoHelper, NoEngine, CleanEngines, CleanChildren, PollTimeout,
         NextEngine, VerifyFails, TunTimeout, Spawn
    <2>2. gw'.dnsProc = gw.dnsProc /\ gw'.tunProc = gw.tunProc
      BY <1>1 DEF CleanEngines, CleanChildren, PollTimeout, VerifyFails, TunTimeout, Spawn
    <2>3. gw'.dnsProc \notin Pids /\ gw'.tunProc \notin Pids
      <3> HIDE <1>0
      <3> QED
        BY <2>1, <2>2, <1>n
    <2> QED
      BY <2>3, <1>b
  <1>2. CASE StartDNSProcess
    <2>1. gw.tunProc = Nil /\ gw'.tunProc = gw.tunProc /\ pc = "dns"
      BY <1>2 DEF OwnPorts, NoHelper, NoEngine, StartDNSProcess
    <2>2. PICK p \in FreePids, kind \in {"dns2socks", "dnsmasq"} :
            gw'.dnsProc = p /\ proc' = [proc EXCEPT ![p] = Child(kind, FALSE)]
      BY <1>2 DEF StartDNSProcess
    <2>3. proc'[p].owner = "gateway" /\ proc'[p].kind \in DnsKinds
      BY <2>2 DEF FreePids, ProcTypeOK, Child, DnsKinds
    <2> QED
      BY <2>1, <2>2, <2>3 DEF Helpers
  <1>3. CASE StartTun
    <2>1. PICK p \in FreePids :
            /\ gw'.tunProc = p /\ gw'.dnsProc = gw.dnsProc
            /\ proc' = [proc EXCEPT ![p] = Child("tun2socks", FALSE)]
      BY <1>3 DEF StartTun
    <2>2. proc'[p].owner = "gateway" /\ proc'[p].kind = "tun2socks"
      BY <2>1 DEF FreePids, ProcTypeOK, Child
    <2>3. p # gw.dnsProc /\ pc = "tun"
      BY <1>3, <1>c DEF StartTun
    <2> QED
      BY <2>1, <2>2, <2>3 DEF Helpers, ProcTypeOK
  <1>4. CASE StopTun
    <2>1. pc = "stopTun" /\ pc' = "stopDns" /\ UNCHANGED gw
      BY <1>4 DEF StopTun
    <2>2. ASSUME gw.dnsProc \in Pids
          PROVE  proc'[gw.dnsProc].owner = "gateway" /\ proc'[gw.dnsProc].kind \in DnsKinds
      <3>1. proc[gw.dnsProc].owner = "gateway" /\ proc[gw.dnsProc].kind \in DnsKinds
        BY <2>1, <2>2 DEF Helpers
      <3>2. gw.dnsProc # gw.tunProc
        BY <2>1, <2>2, <3>1 DEF Helpers, DnsKinds
      <3>3. KillAndWait({gw.tunProc} \ {Nil}) /\ gw.dnsProc \in Pids \ ({gw.tunProc} \ {Nil})
        BY <1>4, <2>2, <3>2 DEF StopTun
      <3>4. proc'[gw.dnsProc] = proc[gw.dnsProc]
        BY <3>3, ChildKept
      <3> QED
        BY <3>1, <3>4
    <2> QED
      BY <2>1, <2>2 DEF Helpers
  <1>5. CASE StopDns
    BY <1>5 DEF StopDns, Helpers
  <1>6. CASE StopEngine
    BY <1>6 DEF StopEngine, Helpers
  <1>7. CASE RetryQuit \/ StopDone \/ StopPanics \/ Crash
    <2>1. gw' = NewGateway
      BY <1>7 DEF RetryQuit, StopDone, StopPanics, Crash, Return, Abort, Blank
    <2> QED
      BY <2>1, <1>b DEF NewGateway
  <1>8. ASSUME NEW b \in BOOLEAN, Launch(b) PROVE Helpers'
    BY <1>8, <1>b DEF Launch, Blank, NewGateway
  <1>9. CASE HostStep
    <2>1. UNCHANGED <<gw, pc>>
      BY <1>9 DEF HostStep
    <2>2. ASSUME NEW q \in Pids, proc[q].owner = "gateway"
          PROVE  proc'[q].owner = "gateway" /\ proc'[q].kind = proc[q].kind
      <3>1. ASSUME NEW p \in Pids, Die({p}) PROVE proc'[q].owner = "gateway" /\ proc'[q].kind = proc[q].kind
        BY <2>2, <3>1, ChildWaits
      <3>2. ASSUME NEW p \in Pids, UserStarts(p) PROVE UNCHANGED proc[q]
        <4>1. p # q
          BY <2>2, <3>2, FreeIsNobodys DEF UserStarts, Mine
        <4> QED
          BY <2>2, <3>2, <4>1 DEF UserStarts, ProcTypeOK
      <3>3. CASE UNCHANGED proc
        BY <2>2, <3>3
      <3> QED
        BY <1>9, <2>2, <3>1, <3>2, <3>3
        DEF HostStep, HostNext, EngineUp, DnsUp, Exit, DhcpWrites
    <2> QED
      BY <2>1, <2>2 DEF Helpers
  <1>10. CASE UNCHANGED vars
    BY <1>10, <1>a DEF vars
  <1>11. CASE CleanRules \/ CleanTun \/ CleanResolv \/ CleanBackup \/ CleanHosts \/ Detect
           \/ DetectFails \/ StartEmbedded \/ StartBinary \/ SpawnFails \/ PollReady
           \/ VerifyOK \/ NextLink \/ TunReady \/ StartBuiltinDNS
    <2>1. gw.dnsProc = Nil /\ gw.tunProc = Nil
      BY <1>11 DEF OwnPorts, NoHelper, NoEngine, CleanRules, CleanTun, CleanResolv,
         CleanBackup, CleanHosts, Detect, DetectFails, StartEmbedded, StartBinary,
         SpawnFails, NextEngine, PollReady, VerifyOK, NextLink, TunReady, StartBuiltinDNS
    <2>2. gw'.dnsProc = gw.dnsProc /\ gw'.tunProc = gw.tunProc
      BY <1>11 DEF CleanRules, CleanTun, CleanResolv, CleanBackup, CleanHosts, Detect,
         DetectFails, StartEmbedded, StartBinary, SpawnFails, PollReady, VerifyOK, NextLink,
         TunReady, StartBuiltinDNS
    <2>3. gw'.dnsProc \notin Pids /\ gw'.tunProc \notin Pids
      <3> HIDE <1>0
      <3> QED
        BY <2>1, <2>2, <1>n
    <2> QED
      BY <2>3, <1>b
  <1>12. CASE StartDNSFails
    BY <1>12 DEF StartDNSFails, OwnPorts, NoHelper, NoEngine, Helpers
  <1>13. CASE StartTunFails
    BY <1>13 DEF StartTunFails, Helpers
  <1>14. CASE DNSReady \/ DNSTimeout \/ ProxyOnly \/ TrackTun \/ Route \/ Intercept
           \/ SaveResolv \/ FillBackup \/ WriteResolv \/ LockResolv \/ RetryTimer \/ Shutdown
           \/ StopRules \/ StopDevice \/ StopResolv \/ StopBackup \/ StopHosts
    <2>1. UNCHANGED <<gw, proc>> /\ pc \notin {"stopDns", "stopEngine", "stopDone"}
      BY <1>14 DEF DNSReady, DNSTimeout, ProxyOnly, TrackTun, Route, Intercept, SaveResolv,
         FillBackup, WriteResolv, LockResolv, RetryTimer, Shutdown, StopRules, StopDevice,
         StopResolv, StopBackup, StopHosts
    <2> QED
      BY <2>1, <1>a
  <1>15. CASE Signal \/ Reload
    <2>1. UNCHANGED <<gw, proc, pc>>
      BY <1>15 DEF Signal, Reload
    <2> QED
      BY <2>1, <1>a
  <1> QED
    BY <1>1, <1>2, <1>3, <1>4, <1>5, <1>6, <1>7, <1>8, <1>9, <1>10, <1>11, <1>12, <1>13,
       <1>14, <1>15
    DEF Next, GatewayNext, RunStep, StartStep, StopStep, SystemdRestarts

(* Whoever ends gives the SOCKS port back.                                 *)
LEMMA HolderEnds ==
    ASSUME ProcTypeOK, PortHolder, NEW S, Die(S) \/ KillAndWait(S)
    PROVE  PortHolder'
  <1> SUFFICES ASSUME socks' \in Pids PROVE IsEngine(socks)'
    BY DEF PortHolder
  <1> USE HostAssumption DEF HostAssumption
  <1>1. socks' = socks /\ socks \notin S
    BY DEF Die, KillAndWait, Released, Release
  <1>2. proc'[socks] = proc[socks]
    BY <1>1 DEF Die, KillAndWait
  <1> QED
    BY <1>1, <1>2 DEF PortHolder, IsEngine, Running

LEMMA HolderAbandon ==
    ASSUME ProcTypeOK, PortHolder, NEW b \in BOOLEAN, Abandon(b)
    PROVE  PortHolder'
  <1> SUFFICES ASSUME socks' \in Pids PROVE IsEngine(socks)'
    BY DEF PortHolder
  <1> USE HostAssumption DEF HostAssumption
  <1>1. socks' = socks
    BY DEF Abandon, Released, Release
  <1>2. \/ proc'[socks] = proc[socks]
        \/ proc'[socks] = [proc[socks] EXCEPT !.owner = "orphan"]
    BY <1>1 DEF Abandon, Released, Release
  <1> QED
    BY <1>1, <1>2 DEF PortHolder, IsEngine, Running, ProcTypeOK, Process

LEMMA HolderStays ==
    ASSUME ProcTypeOK, PortHolder, UNCHANGED socks, NEW p \in FreePids, NEW r,
           proc' = [proc EXCEPT ![p] = r]
    PROVE  PortHolder'
  BY DEF ProcTypeOK, PortHolder, IsEngine, Running, FreePids

LEMMA HolderSame == ASSUME PortHolder, UNCHANGED proc, socks' \in {socks, Nil, Gw} PROVE PortHolder'
  BY HostAssumption DEF HostAssumption, PortHolder, IsEngine, Running

LEMMA NextPortHolder == TypeInv /\ Helpers /\ PortHolder /\ [Next]_vars => PortHolder'
  <1> SUFFICES ASSUME TypeInv, Helpers, PortHolder, [Next]_vars PROVE PortHolder'
    OBVIOUS
  <1>0. ProcTypeOK
    BY DEF TypeInv, TypeOK, HostTypeOK, ProcTypeOK
  <1> USE <1>0 DEF Goto, hostVars, procVars
  <1>1. CASE CleanEngines
    <2>1. socks' = socks /\ \A p \in Pids : \/ proc'[p] = proc[p]
                                            \/ proc'[p] = [proc[p] EXCEPT !.status = "term"]
      BY <1>1 DEF CleanEngines
    <2> QED
      BY <2>1 DEF PortHolder, IsEngine, Running, ProcTypeOK, Process
  <1>2. CASE CleanChildren \/ PollTimeout \/ VerifyFails \/ TunTimeout \/ StopTun \/ StopEngine
    BY <1>2, HolderEnds
    DEF CleanChildren, PollTimeout, VerifyFails, TunTimeout, StopTun, StopEngine
  <1>3. CASE Spawn
    <2>1. UNCHANGED socks /\ \E p \in FreePids, r \in {proc'[p] : p \in Pids} :
             proc' = [proc EXCEPT ![p] = r]
      <3>1. PICK p \in FreePids :
              proc' = [proc EXCEPT ![p] =
                         Child(Head(search.engines),
                               GatewayMode /\ Head(search.engines) = "sing-box")]
        BY <1>3, Zenon DEF Spawn
      <3>2. UNCHANGED socks
        BY <1>3 DEF Spawn
      <3> QED
        BY <3>1, <3>2 DEF FreePids, ProcTypeOK
    <2> QED
      BY <2>1, HolderStays
  <1>4. CASE StartDNSProcess
    BY <1>4, HolderStays DEF StartDNSProcess
  <1>5. CASE StartTun
    BY <1>5, HolderStays DEF StartTun
  <1>6. CASE StopDns
    <2>1. UNCHANGED socks /\ \A p \in Pids : p # gw.dnsProc => proc'[p] = proc[p]
      BY <1>6 DEF StopDns
    <2>2. gw.dnsProc \in Pids => proc[gw.dnsProc].kind \in DnsKinds
      BY <1>6 DEF Helpers, StopDns
    <2>3. socks \in Pids => socks # gw.dnsProc
      BY <2>2 DEF PortHolder, IsEngine, DnsKinds, Engines
    <2> QED
      BY <2>1, <2>3 DEF PortHolder, IsEngine, Running
  <1>7. CASE RetryQuit \/ StopDone \/ StopPanics \/ Crash
    BY <1>7, HolderAbandon
    DEF RetryQuit, StopDone, StopPanics, Crash, Return, Abort, Blank, TypeInv, TypeOK
  <1>8. CASE HostStep
    <2>1. ASSUME NEW p \in Pids, Die({p}) PROVE PortHolder'
      BY <2>1, HolderEnds
    <2>2. ASSUME NEW p \in Pids, UserStarts(p) PROVE PortHolder'
      BY <2>2, HolderStays DEF UserStarts
    <2>3. ASSUME NEW p \in Pids, EngineUp(p), ~Die({p}) PROVE PortHolder'
      BY <2>3 DEF EngineUp, PortHolder, IsEngine, Running
    <2>4. CASE UNCHANGED <<proc, socks>>
      BY <2>4, HolderSame
    <2> QED
      BY <1>8, <2>1, <2>2, <2>3, <2>4 DEF HostStep, HostNext, DnsUp, Exit, DhcpWrites
  <1>9. CASE CleanRules \/ CleanTun \/ CleanResolv \/ CleanBackup \/ CleanHosts \/ Detect
           \/ DetectFails \/ StartEmbedded \/ StartBinary \/ SpawnFails \/ PollReady
           \/ VerifyOK \/ NextLink \/ TunReady \/ StartBuiltinDNS \/ StartDNSFails
    <2>1. UNCHANGED proc /\ socks' \in {socks, Gw}
      BY <1>9 DEF CleanRules, CleanTun, CleanResolv, CleanBackup, CleanHosts, Detect,
         DetectFails, StartEmbedded, StartBinary, SpawnFails, PollReady, VerifyOK, NextLink,
         TunReady, StartBuiltinDNS, StartDNSFails
    <2> QED
      BY <2>1, HolderSame
  <1>10. CASE DNSReady \/ DNSTimeout \/ ProxyOnly \/ StartTunFails \/ TrackTun \/ Route
           \/ Intercept \/ SaveResolv \/ FillBackup \/ WriteResolv \/ LockResolv
           \/ RetryTimer \/ Shutdown \/ StopRules \/ StopDevice \/ StopResolv \/ StopBackup
           \/ StopHosts \/ Signal \/ Reload
    <2>1. UNCHANGED <<proc, socks>>
      BY <1>10 DEF DNSReady, DNSTimeout, ProxyOnly, StartTunFails, TrackTun, Route,
         Intercept, SaveResolv, FillBackup, WriteResolv, LockResolv, RetryTimer, Shutdown,
         StopRules, StopDevice, StopResolv, StopBackup, StopHosts, Signal, Reload
    <2> QED
      BY <2>1, HolderSame
  <1>11. ASSUME NEW b \in BOOLEAN, Launch(b) PROVE PortHolder'
    BY <1>11, HolderSame DEF Launch, DisplaceDnsmasq
  <1>12. CASE UNCHANGED vars
    BY <1>12, HolderSame DEF vars
  <1> QED
    BY <1>1, <1>2, <1>3, <1>4, <1>5, <1>6, <1>7, <1>8, <1>9, <1>10, <1>11, <1>12
    DEF Next, GatewayNext, RunStep, StartStep, StopStep, SystemdRestarts

LEMMA NextHolderInv == HolderInv /\ [Next]_vars => HolderInv'
  BY NextTypeInv, NextOwnPorts, NextFate, NextKindsKnown, FateRunningKinds, NextHelpers,
     NextPortHolder DEF HolderInv

LEMMA InitHolderInv == Init => HolderInv
  <1> SUFFICES ASSUME Init PROVE HolderInv
    OBVIOUS
  <1>1. TypeInv /\ OwnPorts /\ KindsKnown
    BY InitTypeInv, InitSlotInv, InitNativeInv DEF SlotInv, NativeInv
  <1>2. RunningKinds /\ PortHolder /\ Helpers
    BY HostAssumption, GatewayAssumption
    DEF HostAssumption, GatewayAssumption, Init, HostInit, Free, NewGateway, RunningKinds,
        Running, PortHolder, Helpers
  <1> QED
    BY <1>1, <1>2 DEF HolderInv

-----------------------------------------------------------------------------
(* What holds of the processes and ports holds through a cmdStop as well.  *)
LEMMA HostChanges ==
    ASSUME TypeInv, UNCHANGED gwVars, ProcTypeOK', NetTypeOK'
    PROVE  TypeInv'
  <1>1. EngineLeft' /\ WaitedFor'
    BY DEF TypeInv, EngineLeft, WaitedFor, gwVars
  <1>2. HostTypeOK'
    BY DEF HostTypeOK, ProcTypeOK, NetTypeOK
  <1>3. GwTypeOK /\ SearchTypeOK /\ RunTypeOK
    BY DEF TypeInv, TypeOK, GwTypeOK, SearchTypeOK, RunTypeOK
  <1>4. GwTypeOK' /\ SearchTypeOK' /\ RunTypeOK'
    <2>1. UNCHANGED gw /\ UNCHANGED search /\ UNCHANGED <<pc, cfg, sig, supervised, restart>>
      BY DEF gwVars
    <2>2. GwTypeOK'
      BY <1>3, <2>1 DEF GwTypeOK
    <2>3. SearchTypeOK'
      BY <1>1, <1>3, <2>1 DEF SearchTypeOK
    <2>4. RunTypeOK'
      BY <1>1, <1>3, <2>1 DEF RunTypeOK
    <2> QED
      BY <2>2, <2>3, <2>4
  <1> QED
    BY <1>1, <1>2, <1>4
    DEF TypeInv, TypeOK, GwTypeOK, SearchTypeOK, RunTypeOK, NetTypeOK

LEMMA StopKillIsNext == StopKill => [Next]_vars
  BY DEF StopKill, Next, GatewayNext, Crash

(* pkill ends processes of certain kinds, and lets every other be.         *)
LEMMA PkillEnds ==
    ASSUME TypeInv, NEW step, NEW next, NEW kinds, StopPkill(step, next, kinds)
    PROVE  \E S \in SUBSET Pids :
             /\ Die(S) /\ \A p \in S : Running(p)
             /\ \A p \in Pids \ S : Running(p) /\ proc[p].owner # "user"
                  => \/ proc[p].kind \notin kinds
                     \/ proc[p].kind \notin KilledByName
                        /\ (proc[p].kind = "xray" => ~Installed)
  <1> DEFINE S == {p \in Pids :
                     /\ Running(p) /\ proc[p].kind \in kinds
                     /\ \/ proc[p].kind \in KilledByName
                        \/ proc[p].kind = "xray" /\ Installed /\ proc[p].owner # "user"}
  <1>1. Die(S) /\ S \in SUBSET Pids /\ \A p \in S : Running(p)
    BY DEF StopPkill
  <1>2. \A p \in Pids \ S : Running(p) /\ proc[p].owner # "user"
                  => \/ proc[p].kind \notin kinds
                     \/ proc[p].kind \notin KilledByName
                        /\ (proc[p].kind = "xray" => ~Installed)
    OBVIOUS
  <1> HIDE DEF S
  <1> QED
    BY <1>1, <1>2

LEMMA PkillHolderInv ==
    ASSUME HolderInv, NEW step, NEW next, NEW kinds, StopPkill(step, next, kinds)
    PROVE  HolderInv'
  <1>0. ProcTypeOK /\ NetTypeOK
    BY DEF HolderInv, TypeInv, TypeOK, HostTypeOK, ProcTypeOK, NetTypeOK
  <1>1. PICK S \in SUBSET Pids : Die(S) /\ \A p \in S : Running(p)
    BY PkillEnds DEF HolderInv
  <1>2. UNCHANGED gwVars /\ UNCHANGED <<fw, pins, resolvVars, dnsmasqUnit, children>>
    BY DEF StopPkill
  <1>3. ProcTypeOK' /\ NetTypeOK'
    BY <1>0, <1>1, <1>2, DieType DEF NetTypeOK, Contents, resolvVars, gwVars
  <1>4. TypeInv'
    BY <1>2, <1>3, HostChanges DEF HolderInv
  <1>5. OwnPorts'
    <2>1. Freed(S)
      BY <1>0, <1>1, MineDie
    <2>2. UNCHANGED <<gw, pc>>
      BY <1>2 DEF gwVars
    <2> QED
      BY <2>1, <2>2, HostAssumption DEF HostAssumption, HolderInv, OwnPorts, Freed
  <1>6. \A p \in Pids : Fate(p)
    BY <1>0, <1>1, DieFate
  <1>7. KindsKnown' /\ RunningKinds'
    BY <1>0, <1>3, <1>6, FateKindsKnown, FateRunningKinds DEF HolderInv
  <1>8. Helpers'
    BY <1>0, <1>1, <1>2, ChildWaits DEF HolderInv, Helpers, gwVars
  <1>9. PortHolder'
    BY <1>0, <1>1, HolderEnds DEF HolderInv
  <1> QED
    BY <1>4, <1>5, <1>7, <1>8, <1>9 DEF HolderInv

LEMMA StopHolderInv == HolderInv /\ [StopNext]_stopVars => HolderInv'
  <1> SUFFICES ASSUME HolderInv, [StopNext]_stopVars PROVE HolderInv'
    OBVIOUS
  <1>1. CASE StopKill
    BY <1>1, StopKillIsNext, NextHolderInv
  <1>2. CASE StopEngines \/ StopHelpers
    BY <1>2, PkillHolderInv DEF StopEngines, StopHelpers
  <1>3. CASE StopDeleteTun \/ StopFlush
    <2>1. /\ UNCHANGED <<proc, socks, dns53, pins, resolvVars, dnsmasqUnit, children, gwVars>>
          /\ tun0' \in {tun0, Nil} /\ fw' \subseteq fw
      BY <1>3 DEF StopDeleteTun, StopFlush, procVars
    <2>2. ProcTypeOK' /\ NetTypeOK'
      <3>1. ProcTypeOK /\ NetTypeOK
        BY DEF HolderInv, TypeInv, TypeOK, HostTypeOK, ProcTypeOK, NetTypeOK
      <3>2. ProcTypeOK'
        BY <2>1, <3>1 DEF ProcTypeOK
      <3>3. NetTypeOK'
        BY <2>1, <3>1 DEF NetTypeOK, Contents, resolvVars, gwVars
      <3> QED
        BY <3>2, <3>3
    <2>3. TypeInv'
      BY <2>1, <2>2, HostChanges DEF HolderInv
    <2>4. OwnPorts'
      BY <2>1, HostAssumption DEF HostAssumption, HolderInv, OwnPorts, gwVars
    <2>5. KindsKnown' /\ RunningKinds' /\ Helpers' /\ PortHolder'
      BY <2>1 DEF HolderInv, KindsKnown, RunningKinds, Helpers, PortHolder, IsEngine, Running,
         gwVars
    <2> QED
      BY <2>3, <2>4, <2>5 DEF HolderInv
  <1>4. CASE [Next]_vars
    BY <1>4, NextHolderInv
  <1> QED
    BY <1>1, <1>2, <1>3, <1>4 DEF StopNext, StopCommandStep, OtherStep, stopVars

-----------------------------------------------------------------------------
(* Without a gateway, a launch aside, only the host moves.                 *)
LEMMA DownStep == Next /\ pc = "down" /\ pc' = "down" => HostStep
  BY DEF Next, GatewayNext, RunStep, StartStep, StopStep, SystemdRestarts, Launch, Signal,
     Reload, Crash, RetryTimer, RetryQuit, Shutdown, Goto, NextEngine, CleanEngines,
     CleanChildren, CleanRules, CleanTun, CleanResolv, CleanBackup, CleanHosts, Detect,
     DetectFails, StartEmbedded, StartBinary, Spawn, SpawnFails, PollReady, PollTimeout,
     VerifyOK, VerifyFails, NextLink, TunReady, TunTimeout, StartBuiltinDNS,
     StartDNSProcess, StartDNSFails, DNSReady, DNSTimeout, ProxyOnly, StartTun,
     StartTunFails, TrackTun, Route, Intercept, SaveResolv, FillBackup, WriteResolv,
     LockResolv, StopRules, StopDevice, StopResolv, StopBackup, StopHosts, StopTun,
     StopDns, StopPanics, StopEngine, StopDone

(* The host starts nothing of bypath's, and opens tun0 for an engine only. *)
LEMMA LeftDie ==
    ASSUME ProcTypeOK, NEW S, Die(S)
    PROVE  /\ \A p \in Left' : p \in Left \ S /\ proc'[p] = proc[p]
           /\ tun0 = Nil => tun0' = Nil
  BY DEF ProcTypeOK, Process, Die, Free, Left, Running, Released, Release

LEMMA HostLeft ==
    ASSUME ProcTypeOK, HostNext
    PROVE  /\ \A p \in Left' : p \in Left /\ proc'[p] = proc[p]
           /\ tun0 = Nil /\ (\A p \in Left : proc[p].kind \notin Engines) => tun0' = Nil
           /\ UNCHANGED fw
  <1>1. ASSUME NEW p \in Pids, EngineUp(p) \/ DnsUp(p) \/ Exit(p)
        PROVE  /\ \A q \in Left' : q \in Left /\ proc'[q] = proc[q]
               /\ tun0 = Nil /\ (\A q \in Left : proc[q].kind \notin Engines) => tun0' = Nil
               /\ UNCHANGED fw
    <2>1. CASE Die({p})
      BY <1>1, <2>1, LeftDie DEF EngineUp, DnsUp, Exit
    <2>2. CASE UNCHANGED proc /\ ~Die({p})
      BY <1>1, <2>2 DEF EngineUp, DnsUp, Exit, Left, Running
    <2> QED
      BY <1>1, <2>1, <2>2 DEF EngineUp, DnsUp, Exit
  <1>2. ASSUME NEW p \in Pids, UserStarts(p)
        PROVE  /\ \A q \in Left' : q \in Left /\ proc'[q] = proc[q]
               /\ UNCHANGED <<tun0, fw>>
    BY <1>2 DEF UserStarts, Left, Running, ProcTypeOK
  <1>3. CASE DhcpWrites
    BY <1>3 DEF DhcpWrites, Left, Running, procVars
  <1> QED
    BY <1>1, <1>2, <1>3 DEF HostNext

LEMMA StopReleasedSoFar ==
    ASSUME Installed
    PROVE  HolderInv /\ ReleasedSoFar /\ [StopNext]_stopVars => ReleasedSoFar'
  <1> SUFFICES ASSUME HolderInv, ReleasedSoFar, [StopNext]_stopVars PROVE ReleasedSoFar'
    OBVIOUS
  <1>0. ProcTypeOK
    BY DEF HolderInv, TypeInv, TypeOK, HostTypeOK, ProcTypeOK
  <1>1. CASE StopKill
    <2>1. pc' = "down"
      BY <1>1 DEF StopKill, Abort, vars, gwVars
    <2> QED
      BY <1>1, <2>1 DEF StopKill, ReleasedSoFar, Quietly
  <1>2. CASE StopEngines
    <2>1. PICK S \in SUBSET Pids :
            /\ Die(S)
            /\ \A p \in Pids \ S : Running(p) /\ proc[p].owner # "user"
                 => \/ proc[p].kind \notin Engines
                    \/ proc[p].kind \notin KilledByName
                       /\ (proc[p].kind = "xray" => ~Installed)
      BY <1>2, PkillEnds DEF HolderInv, StopEngines
    <2>2. \A p \in Left' : p \in Left \ S /\ proc'[p] = proc[p]
      BY <1>0, <2>1, LeftDie
    <2>3. \A p \in Left' : proc'[p].kind \notin Engines
      BY <2>1, <2>2 DEF Left, Engines, KilledByName
    <2>4. tun0 = Nil => tun0' = Nil
      BY <1>0, <2>1, LeftDie
    <2> QED
      BY <1>2, <2>2, <2>3, <2>4
      DEF StopEngines, StopPkill, ReleasedSoFar, Quietly, gwVars
  <1>3. CASE StopHelpers
    <2>1. PICK S \in SUBSET Pids :
            /\ Die(S)
            /\ \A p \in Pids \ S : Running(p) /\ proc[p].owner # "user"
                 => \/ proc[p].kind \notin DnsKinds \cup {"tun2socks"}
                    \/ proc[p].kind \notin KilledByName
                       /\ (proc[p].kind = "xray" => ~Installed)
      BY <1>3, PkillEnds DEF HolderInv, StopHelpers
    <2>2. \A p \in Left' : p \in Left \ S /\ proc'[p] = proc[p]
      BY <1>0, <2>1, LeftDie
    <2>3. \A p \in Left' : proc'[p].kind \in Engines \cup {"dnsmasq"}
      <3>1. \A p \in Left' : proc[p].kind \in Kinds
        BY <2>2 DEF HolderInv, RunningKinds, Left
      <3> QED
        BY <2>1, <2>2, <3>1 DEF Left, Kinds, DnsKinds, KilledByName
    <2>4. tun0 = Nil => tun0' = Nil
      BY <1>0, <2>1, LeftDie
    <2> QED
      BY <1>3, <2>2, <2>3, <2>4
      DEF StopHelpers, StopPkill, ReleasedSoFar, Quietly, gwVars
  <1>4. CASE StopDeleteTun \/ StopFlush
    <2>1. UNCHANGED <<pc, Left, proc>>
      BY <1>4 DEF StopDeleteTun, StopFlush, gwVars, procVars, Left, Running
    <2> QED
      BY <1>4, <2>1 DEF StopDeleteTun, StopFlush, ReleasedSoFar, Quietly, procVars
  <1>5. CASE OtherStep
    <2>1. CASE quiet' \notin {"stopping", "yes"}
      BY <2>1 DEF ReleasedSoFar, Quietly
    <2>2. CASE quiet' \in {"stopping", "yes"}
      <3>1. quiet' = quiet /\ stop' = stop /\ pc = "down" /\ pc' = "down"
        BY <1>5, <2>2 DEF OtherStep, ReleasedSoFar
      <3>2. HostNext
        BY <1>5, <3>1, DownStep DEF OtherStep, HostStep
      <3> QED
        BY <1>0, <3>1, <3>2, HostLeft DEF ReleasedSoFar, Quietly
    <2> QED
      BY <2>1, <2>2
  <1>6. CASE UNCHANGED stopVars
    BY <1>6 DEF stopVars, vars, hostVars, procVars, gwVars, ReleasedSoFar, Quietly, Left,
       Running
  <1> QED
    BY <1>1, <1>2, <1>3, <1>4, <1>5, <1>6 DEF StopNext, StopCommandStep

(* "bypath stop", in the installed mode: once it is through, and until a   *)
(* gateway is launched again, no engine, dns2socks or tun2socks runs but   *)
(* the user's own, the SOCKS port and tun0 are free, and no traffic is     *)
(* sent to tun0 -- in whatever step of Start or Stop the gateway was       *)
(* killed, however the host and the processes that are ended interleave    *)
(* with cmdStop. A dnsmasq child, and with it port 53, the intercept of    *)
(* DNS, the routes of table 100 and resolv.conf are left.                  *)
THEOREM StopCommandReleases == ASSUME Installed PROVE StopSpec => []StopReleases
  <1>1. StopInit => HolderInv /\ ReleasedSoFar
    BY InitHolderInv DEF StopInit, ReleasedSoFar, Quietly
  <1>2. HolderInv /\ ReleasedSoFar /\ [StopNext]_stopVars => (HolderInv /\ ReleasedSoFar)'
    BY StopHolderInv, StopReleasedSoFar
  <1>3. HolderInv /\ ReleasedSoFar => StopReleases
    <2> SUFFICES ASSUME HolderInv, ReleasedSoFar, quiet = "yes" PROVE StopReleases
      BY DEF StopReleases
    <2>1. \A p \in Left : proc[p].kind = "dnsmasq"
      BY DEF ReleasedSoFar, Quietly
    <2>2. socks = Nil
      <3>1. socks # Gw
        BY DEF ReleasedSoFar, HolderInv, OwnPorts, NoEngine
      <3>2. socks \notin Pids
        BY <2>1 DEF HolderInv, PortHolder, IsEngine, Left, Engines
      <3> QED
        BY <3>1, <3>2 DEF HolderInv, TypeInv, TypeOK, HostTypeOK
    <2>3. tun0 = Nil /\ "iprule" \notin fw /\ "mangle" \notin fw
      BY DEF ReleasedSoFar, Quietly, FlushedByStop
    <2> QED
      BY <2>1, <2>2, <2>3 DEF StopReleases, Left
  <1> QED
    BY <1>1, <1>2, <1>3, PTL DEF StopSpec

(* The kill is a crash of the gateway, and no other step of cmdStop        *)
(* touches what cleanupPreviousRun heals, but for the rules it removes too.*)
LEMMA StopHealInv ==
    ASSUME HealInv, HolderInv, [StopNext]_stopVars
    PROVE  HealInv' /\ HolderInv'
  <1>1. HolderInv' /\ TypeInv'
    BY StopHolderInv DEF HolderInv
  <1>2. CASE [Next]_vars \/ StopKill
    BY <1>1, <1>2, StopKillIsNext, NextBackupIsForeign, NextHealing DEF HealInv
  <1>3. CASE StopEngines \/ StopHelpers \/ StopDeleteTun \/ StopFlush
    <2>1. UNCHANGED <<gwVars, pins, resolvVars, children>> /\ fw' \subseteq fw
      BY <1>3 DEF StopEngines, StopHelpers, StopPkill, StopDeleteTun, StopFlush
    <2>2. BackupIsForeign' /\ Healing'
      BY <2>1 DEF HealInv, BackupIsForeign, Healing, HasBackup, gwVars, resolvVars
    <2> QED
      BY <1>1, <2>2 DEF HealInv
  <1> QED
    BY <1>1, <1>2, <1>3 DEF StopNext, StopCommandStep, OtherStep, stopVars

LEMMA InitStopInv == StopInit => HealInv /\ HolderInv /\ SavedFirst
  BY InitHostInv, InitHolderInv DEF StopInit, HostInv, HealInv

LEMMA StopInvariance == StopSpec => [](HealInv /\ HolderInv)
  <1>1. HealInv /\ HolderInv /\ [StopNext]_stopVars => (HealInv /\ HolderInv)'
    BY StopHealInv
  <1> QED
    BY <1>1, InitStopInv, PTL DEF StopSpec

(* A "bypath stop" in the middle of a run does not keep the next Start from *)
(* healing the host.                                                        *)
THEOREM StopHeals == StopSpec => []SelfHealed
  <1>1. HealInv => SelfHealed
    BY DEF HealInv, BackupIsForeign, Foreign, Healing, Untouched, SelfHealed
  <1> QED
    BY <1>1, StopInvariance, PTL

(* resolv.conf and its backup change only as the gateway or the host       *)
(* changes them.                                                           *)
LEMMA StopLoan ==
    ASSUME Loopy = {}, HealInv, SavedFirst, [StopNext]_stopVars
    PROVE  SavedFirst' /\ [Loan!Next]_(Loan!vars)
  <1>1. CASE [Next]_vars \/ StopKill
    BY <1>1, StopKillIsNext, NextSavedFirst, NextLoan DEF HealInv
  <1>2. CASE StopEngines \/ StopHelpers \/ StopDeleteTun \/ StopFlush
    <2>1. UNCHANGED <<gwVars, resolvVars>>
      BY <1>2 DEF StopEngines, StopHelpers, StopPkill, StopDeleteTun, StopFlush
    <2>2. UNCHANGED Loan!vars
      BY <2>1 DEF Loan!vars, Saved, HasBackup, gwVars, resolvVars
    <2>3. SavedFirst'
      BY <2>1 DEF SavedFirst, ResolvRecoverable, gwVars, resolvVars
    <2> QED
      BY <2>2, <2>3
  <1> QED
    BY <1>1, <1>2 DEF StopNext, StopCommandStep, OtherStep, stopVars

(* "bypath stop" does not restore resolv.conf, and does not lose it        *)
(* either: in whatever step of Start or Stop it kills the gateway, what    *)
(* was taken stays kept, and a later Start or Stop gives exactly that      *)
(* back, as long as no write has failed.                                   *)
THEOREM StopKeepsTheLoan == ASSUME Loopy = {} PROVE StopSpec => ImplementsLoan
  <1>1. StopInit => Loan!Init
    BY DEF StopInit, Init, HostInit, Loan!Init, Saved, HasBackup
  <1>2. HealInv /\ SavedFirst /\ [StopNext]_stopVars
          => SavedFirst' /\ [Loan!Next]_(Loan!vars)
    BY StopLoan
  <1> QED
    BY <1>1, <1>2, InitStopInv, StopInvariance, PTL DEF StopSpec, ImplementsLoan, Loan!Spec
=============================================================================
