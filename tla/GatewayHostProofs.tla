------------------------- MODULE GatewayHostProofs -------------------------
(***************************************************************************)
(* What a gateway leaves on its host: resolv.conf and its backup, the      *)
(* packet-filter and routing rules, the device they point at.              *)
(***************************************************************************)
EXTENDS GatewayProofs

(* From the restore of cleanupPreviousRun to the write of setResolvConf,   *)
(* and while a backup is removed, the host does not resolve through bypath.*)
Foreign == {"cleanBackup", "cleanHosts", "detect", "engine", "spawn", "poll", "verify",
            "nextLink", "waitTun", "dns", "dnsWait", "tun", "tunTrack", "route",
            "intercept", "saveResolv", "fillBackup", "writeResolv", "retry",
            "stopBackup"}

(* What is backed up is never bypath's own resolv.conf. As long as every   *)
(* write has succeeded, the file is readable, and where cleanupPreviousRun *)
(* has been through it does not name bypath.                               *)
BackupIsForeign ==
    /\ backup # Loopback
    /\ pc = "fillBackup" => orig \in (Contents \cup {Empty}) \ {Loopback}
    /\ \/ etcFailed
       \/ /\ resolv # Empty
          /\ pc \in Foreign => resolv # Loopback
          /\ pc = "fillBackup" => orig # Empty

(* The backup is there before resolv.conf is written, and stays.           *)
SavedFirst ==
    /\ ResolvRecoverable
    /\ pc = "writeResolv" /\ ~etcFailed => backup \in Contents

(* What cleanupPreviousRun has done so far, step by step.                  *)
Untouched == {"detect", "engine", "spawn", "poll", "verify", "nextLink", "waitTun",
              "dns", "dnsWait", "tun", "tunTrack", "route", "retry"}
Healing ==
    /\ pc \in {"cleanRules", "cleanTun", "cleanResolv", "cleanBackup", "cleanHosts",
               "detect"} => children = {}
    /\ pc \in {"cleanTun", "cleanResolv", "cleanBackup", "cleanHosts"} \cup Untouched
          => fw = {}
    /\ pc \in {"cleanBackup", "cleanHosts", "detect"} => ~immutable
    /\ pc \in {"cleanHosts", "intercept", "saveResolv", "fillBackup"} \cup Untouched
          => ~HasBackup
    /\ pc = "detect" => etcFailed \/ ~pins

(* The rule that sends traffic to tun0 is only there with the device.      *)
DeviceFirst ==
    /\ RulesHaveTun
    /\ pc = "waitTun" => gw.nativeTUN
    /\ pc \in {"tunTrack", "route"} => tun0 = "tuntap" \/ gw.nativeTUN
    /\ pc = "stopDevice" => "iprule" \notin fw

HealInv == TypeInv /\ BackupIsForeign /\ Healing
HostInv == HealInv /\ DeviceFirst

-----------------------------------------------------------------------------
LEMMA InitHostInv == Init => HostInv /\ SavedFirst
  <1> SUFFICES ASSUME Init PROVE HostInv /\ SavedFirst
    OBVIOUS
  <1>1. TypeInv
    BY InitTypeInv
  <1>2. BackupIsForeign /\ SavedFirst
    BY HostAssumption DEF HostAssumption, Init, HostInit, BackupIsForeign, SavedFirst,
       ResolvRecoverable, Foreign, Loopback, Stub, Empty
  <1>3. Healing /\ DeviceFirst
    BY DEF Init, HostInit, Healing, Untouched, DeviceFirst, RulesHaveTun
  <1> QED
    BY <1>1, <1>2, <1>3 DEF HostInv, HealInv

(* Every write of the backup or of resolv.conf keeps the backup foreign.   *)
LEMMA NextBackupIsForeign == TypeInv /\ BackupIsForeign /\ [Next]_vars => BackupIsForeign'
  <1> SUFFICES ASSUME TypeInv, BackupIsForeign, [Next]_vars PROVE BackupIsForeign'
    OBVIOUS
  <1>0. ProcTypeOK /\ NetTypeOK
    BY DEF TypeInv, TypeOK, HostTypeOK, ProcTypeOK, NetTypeOK
  <1> USE <1>0, HostAssumption
      DEF HostAssumption, NetTypeOK, BackupIsForeign, Foreign, ResolvWriteFails, Unpin,
          Goto, Contents, Loopback, Fallback, Public, Stub, Empty, hostVars, resolvVars,
          gwVars
  <1>1. CASE CleanResolv
    BY <1>1 DEF CleanResolv, CleanedResolv, HasBackup
  <1>2. CASE CleanBackup
    BY <1>2 DEF CleanBackup
  <1>3. CASE Detect
    BY <1>3 DEF Detect, DisableSystemdResolved
  <1>4. CASE StartBuiltinDNS
    BY <1>4 DEF StartBuiltinDNS, DisableSystemdResolved, FreedPort53
  <1>5. CASE StartDNSProcess
    BY <1>5 DEF StartDNSProcess, DisableSystemdResolved, FreedPort53, FreePids
  <1>6. CASE StartDNSFails
    BY <1>6 DEF StartDNSFails, DisableSystemdResolved, FreedPort53
  <1>7. CASE SaveResolv
    BY <1>7 DEF SaveResolv, NotSaved
  <1>8. CASE FillBackup
    BY <1>8 DEF FillBackup
  <1>9. CASE WriteResolv
    BY <1>9 DEF WriteResolv
  <1>10. CASE StopResolv
    BY <1>10 DEF StopResolv, HasBackup
  <1>11. CASE StopBackup
    BY <1>11 DEF StopBackup
  <1>12. CASE CleanEngines \/ CleanChildren \/ CleanRules \/ CleanTun
           \/ CleanHosts \/ DetectFails \/ StartEmbedded \/ StartBinary
           \/ Spawn \/ SpawnFails \/ PollReady \/ PollTimeout \/ VerifyOK
           \/ VerifyFails
    BY <1>12 DEF CleanEngines, Process, CleanChildren, CleanRules, CleanTun, CleanHosts,
       DetectFails, StartEmbedded, Pinned, MarkNative, GatewayMode, StartBinary, Spawn,
       FreePids, SpawnFails, NextEngine, MoreEngines, PollReady, PollTimeout, VerifyOK,
       AfterVerify, NoSearch, VerifyFails
  <1>13. CASE NextLink \/ TunReady \/ TunTimeout \/ DNSReady \/ DNSTimeout
           \/ ProxyOnly \/ StartTun \/ StartTunFails \/ TrackTun \/ Route
           \/ Intercept \/ LockResolv \/ RetryTimer \/ RetryQuit
    BY <1>13 DEF NextLink, MoreLinks, NoSearch, TunReady, TunTimeout, DNSReady,
       DNSTimeout, ProxyOnly, StartTun, FreePids, StartTunFails, TrackTun, Route,
       ModeRules, Intercept, Pinned, LockResolv, RetryTimer, RetryQuit, Return, Blank
  <1>14. CASE Shutdown \/ StopRules \/ StopDevice \/ StopHosts \/ StopTun
           \/ StopDns \/ StopPanics \/ StopEngine \/ StopDone \/ Crash
           \/ Signal \/ Reload
    BY <1>14 DEF Shutdown, StopRules, StopDevice, StopHosts, StopTun, StopDns, Release,
       StopPanics, Abort, Blank, StopEngine, StopDone, Return, Crash, Signal, Reload
  <1>15. ASSUME NEW b \in BOOLEAN, Launch(b) PROVE BackupIsForeign'
    BY <1>15 DEF Launch, DisplaceDnsmasq, Blank
  <1>16. CASE HostStep
    <2>1. UNCHANGED <<pc, backup, orig, etcFailed>> /\ resolv' \in Dhcp \cup {resolv}
      BY <1>16 DEF HostStep, HostNext, EngineUp, DnsUp, Exit, UserStarts, DhcpWrites
    <2> QED
      BY <2>1
  <1>17. CASE UNCHANGED vars
    BY <1>17 DEF vars
  <1> QED
    BY <1>1, <1>2, <1>3, <1>4, <1>5, <1>6, <1>7, <1>8, <1>9, <1>10, <1>11, <1>12, <1>13,
       <1>14, <1>15, <1>16, <1>17
    DEF Next, GatewayNext, RunStep, StartStep, StopStep, SystemdRestarts

(* setResolvConf saves what it overwrites, unless that names 127.0.0.1.    *)
LEMMA NextSavedFirst ==
    ASSUME Loopy = {}
    PROVE  TypeInv /\ BackupIsForeign /\ SavedFirst /\ [Next]_vars => SavedFirst'
  <1> SUFFICES ASSUME TypeInv, BackupIsForeign, SavedFirst, [Next]_vars PROVE SavedFirst'
    OBVIOUS
  <1>0. ProcTypeOK /\ NetTypeOK
    BY DEF TypeInv, TypeOK, HostTypeOK, ProcTypeOK, NetTypeOK
  <1> USE <1>0, HostAssumption, Loopy = {}
      DEF HostAssumption, NetTypeOK, BackupIsForeign, SavedFirst, ResolvRecoverable,
          Foreign, ResolvWriteFails, Unpin, Goto, Contents, Loopback, Fallback,
          Public, Stub, Empty, hostVars, resolvVars, gwVars
  <1>1. CASE CleanResolv
    <2>1. CASE etcFailed'
      BY <1>1, <2>1 DEF CleanResolv
    <2>2. CASE ~etcFailed'
      <3>1. resolv' = CleanedResolv /\ UNCHANGED backup
        BY <1>1, <2>2 DEF CleanResolv
      <3>2. resolv' # Loopback
        BY <3>1 DEF CleanedResolv
      <3> QED
        BY <1>1, <3>2 DEF CleanResolv
    <2> QED
      BY <2>1, <2>2
  <1>2. CASE CleanBackup
    BY <1>2 DEF CleanBackup
  <1>3. CASE Detect
    BY <1>3 DEF Detect, DisableSystemdResolved
  <1>4. CASE StartBuiltinDNS
    BY <1>4 DEF StartBuiltinDNS, DisableSystemdResolved, FreedPort53
  <1>5. CASE StartDNSProcess
    BY <1>5 DEF StartDNSProcess, DisableSystemdResolved, FreedPort53, FreePids
  <1>6. CASE StartDNSFails
    BY <1>6 DEF StartDNSFails, DisableSystemdResolved, FreedPort53
  <1>7. CASE SaveResolv
    BY <1>7 DEF SaveResolv, NotSaved
  <1>8. CASE FillBackup
    <2>1. CASE etcFailed'
      BY <1>8, <2>1 DEF FillBackup
    <2>2. CASE ~etcFailed'
      <3>1. backup' = orig /\ ~etcFailed /\ pc = "fillBackup"
        BY <1>8, <2>2 DEF FillBackup
      <3>2. orig \in Contents
        BY <3>1
      <3> QED
        BY <3>1, <3>2
    <2> QED
      BY <2>1, <2>2
  <1>9. CASE WriteResolv
    BY <1>9 DEF WriteResolv
  <1>10. CASE StopResolv
    BY <1>10 DEF StopResolv, HasBackup
  <1>11. CASE StopBackup
    <2>1. pc = "stopBackup" /\ pc' = "stopHosts" /\ UNCHANGED <<resolv, etcFailed>>
      BY <1>11 DEF StopBackup
    <2> QED
      BY <2>1
  <1>12. CASE CleanEngines \/ CleanChildren \/ CleanRules \/ CleanTun
           \/ CleanHosts \/ DetectFails \/ StartEmbedded \/ StartBinary
           \/ Spawn \/ SpawnFails \/ PollReady \/ PollTimeout \/ VerifyOK
           \/ VerifyFails
    BY <1>12 DEF CleanEngines, Process, CleanChildren, CleanRules, CleanTun, CleanHosts,
       DetectFails, StartEmbedded, Pinned, MarkNative, GatewayMode, StartBinary, Spawn,
       FreePids, SpawnFails, NextEngine, MoreEngines, PollReady, PollTimeout, VerifyOK,
       AfterVerify, NoSearch, VerifyFails
  <1>13. CASE NextLink \/ TunReady \/ TunTimeout \/ DNSReady \/ DNSTimeout
           \/ ProxyOnly \/ StartTun \/ StartTunFails \/ TrackTun \/ Route
           \/ Intercept \/ LockResolv \/ RetryTimer \/ RetryQuit
    BY <1>13 DEF NextLink, MoreLinks, NoSearch, TunReady, TunTimeout, DNSReady,
       DNSTimeout, ProxyOnly, StartTun, FreePids, StartTunFails, TrackTun, Route,
       ModeRules, Intercept, Pinned, LockResolv, RetryTimer, RetryQuit, Return, Blank
  <1>14. CASE Shutdown \/ StopRules \/ StopDevice \/ StopHosts \/ StopTun
           \/ StopDns \/ StopPanics \/ StopEngine \/ StopDone \/ Crash
           \/ Signal \/ Reload
    BY <1>14 DEF Shutdown, StopRules, StopDevice, StopHosts, StopTun, StopDns, Release,
       StopPanics, Abort, Blank, StopEngine, StopDone, Return, Crash, Signal, Reload
  <1>15. ASSUME NEW b \in BOOLEAN, Launch(b) PROVE SavedFirst'
    BY <1>15 DEF Launch, DisplaceDnsmasq, Blank
  <1>16. CASE HostStep
    BY <1>16 DEF HostStep, HostNext, EngineUp, DnsUp, Exit, UserStarts, DhcpWrites
  <1>17. CASE UNCHANGED vars
    BY <1>17 DEF vars
  <1> QED
    BY <1>1, <1>2, <1>3, <1>4, <1>5, <1>6, <1>7, <1>8, <1>9, <1>10, <1>11, <1>12, <1>13,
       <1>14, <1>15, <1>16, <1>17
    DEF Next, GatewayNext, RunStep, StartStep, StopStep, SystemdRestarts

(* cleanupPreviousRun undoes one thing after the other.                    *)
LEMMA NextHealing == TypeInv /\ BackupIsForeign /\ Healing /\ [Next]_vars => Healing'
  <1> SUFFICES ASSUME TypeInv, BackupIsForeign, Healing, [Next]_vars PROVE Healing'
    OBVIOUS
  <1>0. ProcTypeOK /\ NetTypeOK
    BY DEF TypeInv, TypeOK, HostTypeOK, ProcTypeOK, NetTypeOK
  <1> USE <1>0 DEF NetTypeOK, Healing, Untouched, HasBackup, ResolvWriteFails, Unpin,
               Goto, hostVars, resolvVars, gwVars
  <1>1. CASE CleanChildren
    BY <1>1 DEF CleanChildren
  <1>2. CASE CleanRules
    BY <1>2 DEF CleanRules, CleanedRules
  <1>3. CASE CleanResolv
    BY <1>3 DEF CleanResolv, CleanedResolv, HasBackup
  <1>4. CASE CleanBackup
    BY <1>4 DEF CleanBackup
  <1>5. CASE CleanHosts
    BY <1>5 DEF CleanHosts
  <1>6. CASE DNSReady
    BY <1>6 DEF DNSReady
  <1>7. CASE StartDNSProcess
    BY <1>7 DEF StartDNSProcess, DisableSystemdResolved, FreedPort53, FreePids
  <1>8. CASE TrackTun
    BY <1>8 DEF TrackTun
  <1>9. CASE Route
    BY <1>9 DEF Route, ModeRules
  <1>10. CASE Intercept
    BY <1>10 DEF Intercept, Pinned
  <1>11. CASE SaveResolv
    BY <1>11 DEF SaveResolv, NotSaved
  <1>12. CASE FillBackup
    BY <1>12 DEF FillBackup
  <1>13. CASE LockResolv
    BY <1>13 DEF LockResolv
  <1>14. CASE StopRules
    BY <1>14 DEF StopRules
  <1>15. CASE StopBackup
    BY <1>15 DEF StopBackup
  <1>16. CASE StopHosts
    BY <1>16 DEF StopHosts
  <1>17. CASE StopDone
    BY <1>17 DEF StopDone, Return, Blank
  <1>18. CASE CleanEngines \/ CleanTun \/ Detect \/ DetectFails \/ StartEmbedded
           \/ StartBinary \/ Spawn \/ SpawnFails \/ PollReady \/ PollTimeout
           \/ VerifyOK \/ VerifyFails \/ NextLink \/ TunReady
    BY <1>18 DEF CleanEngines, Process, CleanTun, Detect, DisableSystemdResolved,
       DetectFails, StartEmbedded, Pinned, MarkNative, GatewayMode, StartBinary, Spawn,
       FreePids, SpawnFails, NextEngine, MoreEngines, PollReady, PollTimeout, VerifyOK,
       AfterVerify, NoSearch, VerifyFails, NextLink, MoreLinks, TunReady
  <1>19. CASE TunTimeout \/ StartBuiltinDNS \/ StartDNSFails \/ DNSTimeout
           \/ ProxyOnly \/ StartTun \/ StartTunFails \/ WriteResolv
           \/ RetryTimer \/ RetryQuit \/ Shutdown \/ StopDevice \/ StopResolv
           \/ StopTun
    BY <1>19 DEF TunTimeout, StartBuiltinDNS, DisableSystemdResolved, FreedPort53, StartDNSFails,
       DNSTimeout, ProxyOnly, StartTun, FreePids, StartTunFails, WriteResolv,
       RetryTimer, RetryQuit, Return, Blank, Shutdown, StopDevice, StopResolv,
       HasBackup, StopTun
  <1>20. CASE StopDns \/ StopPanics \/ StopEngine \/ Crash \/ Signal \/ Reload
    <2>1. CASE StopDns
      BY <2>1 DEF StopDns
    <2>2. CASE StopPanics \/ Crash
      <3> pc' = "down"
        BY <2>2 DEF StopPanics, Crash, Abort
      <3> QED
        BY <2>2 DEF StopPanics, Crash, Abort
    <2>3. CASE StopEngine
      BY <2>3 DEF StopEngine
    <2>4. CASE Signal \/ Reload
      <3> UNCHANGED <<pc, fw, pins, backup, immutable, children, etcFailed>>
        BY <2>4 DEF Signal, Reload
      <3> QED
        OBVIOUS
    <2> QED
      BY <1>20, <2>1, <2>2, <2>3, <2>4
  <1>21. ASSUME NEW b \in BOOLEAN, Launch(b) PROVE Healing'
    BY <1>21 DEF Launch, DisplaceDnsmasq, Blank
  <1>22. CASE HostStep
    <2>1. UNCHANGED <<pc, fw, pins, backup, immutable, children, etcFailed>>
      BY <1>22 DEF HostStep, HostNext, EngineUp, DnsUp, Exit, UserStarts, DhcpWrites
    <2> QED
      BY <2>1
  <1>23. CASE UNCHANGED vars
    BY <1>23 DEF vars
  <1> QED
    BY <1>1, <1>2, <1>3, <1>4, <1>5, <1>6, <1>7, <1>8, <1>9, <1>10, <1>11, <1>12, <1>13,
       <1>14, <1>15, <1>16, <1>17, <1>18, <1>19, <1>20, <1>21, <1>22, <1>23
    DEF Next, GatewayNext, RunStep, StartStep, StopStep, SystemdRestarts

(* Ending processes takes away the device only if one of them had opened it. *)
LEMMA DeviceStays ==
    ASSUME NEW S \in SUBSET (Pids \cup {Gw}), KillAndWait(S) \/ Die(S), tun0 = "tuntap"
    PROVE  tun0' = "tuntap"
  BY HostAssumption DEF HostAssumption, KillAndWait, Die, Released, Release

LEMMA HolderPids == ASSUME TypeInv PROVE EngineHolder \in SUBSET (Pids \cup {Gw})
  BY DEF TypeInv, TypeOK, EngineHolder

(* The device is made before the rule and removed after it.                *)
LEMMA NextDeviceFirst == TypeInv /\ Healing /\ DeviceFirst /\ [Next]_vars => DeviceFirst'
  <1> SUFFICES ASSUME TypeInv, Healing, DeviceFirst, [Next]_vars PROVE DeviceFirst'
    OBVIOUS
  <1>0. ProcTypeOK /\ NetTypeOK
    BY DEF TypeInv, TypeOK, HostTypeOK, ProcTypeOK, NetTypeOK
  <1> USE <1>0, HostAssumption
      DEF HostAssumption, ProcTypeOK, DeviceFirst, RulesHaveTun, Goto, hostVars,
          procVars, gwVars
  <1>1. CASE CleanRules
    BY <1>1 DEF CleanRules, CleanedRules, Healing, NetTypeOK
  <1>2. CASE CleanTun
    BY <1>2 DEF CleanTun, Healing, Untouched
  <1>3. CASE StartEmbedded
    BY <1>3 DEF StartEmbedded, Pinned, MarkNative, GatewayMode, Healing, Untouched
  <1>4. CASE PollReady
    BY <1>4 DEF PollReady, MarkNative, GatewayMode
  <1>5. CASE VerifyOK
    BY <1>5 DEF VerifyOK, AfterVerify, NoSearch
  <1>6. CASE PollTimeout
    <2> DEFINE S == {search.pid}
    <2>1. S \in SUBSET (Pids \cup {Gw})
      BY <1>6 DEF PollTimeout, NextEngine, TypeInv, WaitedFor
    <2>2. KillAndWait(S) \/ Die(S)
      BY <1>6 DEF PollTimeout, NextEngine, TypeInv, WaitedFor
    <2> QED
      BY <1>6, <2>1, <2>2, DeviceStays DEF PollTimeout, NextEngine, MoreEngines
  <1>7. CASE VerifyFails
    <2> DEFINE S == EngineHolder
    <2>1. S \in SUBSET (Pids \cup {Gw})
      BY <1>7, HolderPids DEF VerifyFails
    <2>2. KillAndWait(S) \/ Die(S)
      BY <1>7, HolderPids DEF VerifyFails
    <2> QED
      BY <1>7, <2>1, <2>2, DeviceStays DEF VerifyFails
  <1>8. CASE NextLink
    BY <1>8 DEF NextLink, MoreLinks, NoSearch
  <1>9. CASE TunReady
    BY <1>9 DEF TunReady, NoSearch
  <1>10. CASE TunTimeout
    <2> DEFINE S == EngineHolder
    <2>1. S \in SUBSET (Pids \cup {Gw})
      BY <1>10, HolderPids DEF TunTimeout
    <2>2. KillAndWait(S) \/ Die(S)
      BY <1>10, HolderPids DEF TunTimeout
    <2> QED
      BY <1>10, <2>1, <2>2, DeviceStays DEF TunTimeout
  <1>11. CASE StartDNSProcess
    BY <1>11 DEF StartDNSProcess, DisableSystemdResolved, FreedPort53, FreePids
  <1>12. CASE StartDNSFails
    BY <1>12 DEF StartDNSFails, DisableSystemdResolved, FreedPort53
  <1>13. CASE StartBuiltinDNS
    BY <1>13 DEF StartBuiltinDNS, DisableSystemdResolved, FreedPort53
  <1>14. CASE StartTun
    BY <1>14 DEF StartTun, FreePids, Healing, Untouched
  <1>15. CASE StartTunFails
    BY <1>15 DEF StartTunFails, Healing, Untouched
  <1>16. CASE TrackTun
    BY <1>16 DEF TrackTun
  <1>17. CASE Route
    BY <1>17 DEF Route, ModeRules
  <1>18. CASE Intercept
    BY <1>18 DEF Intercept, Pinned
  <1>19. CASE StopRules
    BY <1>19 DEF StopRules, StoppedRules
  <1>20. CASE StopDevice
    BY <1>20 DEF StopDevice
  <1>21. CASE StopTun
    <2> DEFINE S == {gw.tunProc} \ {Nil}
    <2>1. S \in SUBSET (Pids \cup {Gw})
      BY <1>21 DEF StopTun, TypeInv, TypeOK
    <2>2. KillAndWait(S) \/ Die(S)
      BY <1>21 DEF StopTun, TypeInv, TypeOK
    <2> QED
      BY <1>21, <2>1, <2>2, DeviceStays DEF StopTun
  <1>22. CASE StopDns
    BY <1>22 DEF StopDns, Release
  <1>23. CASE StopPanics
    BY <1>23 DEF StopPanics, Abort, Blank, Abandon, Released, Release
  <1>24. CASE StopEngine
    <2> DEFINE S == EngineHolder
    <2>1. S \in SUBSET (Pids \cup {Gw})
      BY <1>24, HolderPids DEF StopEngine
    <2>2. KillAndWait(S) \/ Die(S)
      BY <1>24, HolderPids DEF StopEngine
    <2> QED
      BY <1>24, <2>1, <2>2, DeviceStays DEF StopEngine
  <1>25. CASE StopDone
    BY <1>25 DEF StopDone, Return, Blank, Abandon, Released, Release
  <1>26. CASE RetryQuit
    BY <1>26 DEF RetryQuit, Return, Blank, Abandon, Released, Release
  <1>27. CASE Crash
    BY <1>27 DEF Crash, Abort, Blank, Abandon, Released, Release
  <1>28. CASE CleanChildren
    <2> DEFINE S == {p \in children : Running(p)}
    <2>1. S \in SUBSET (Pids \cup {Gw})
      BY <1>28 DEF CleanChildren, NetTypeOK
    <2>2. KillAndWait(S) \/ Die(S)
      BY <1>28 DEF CleanChildren, NetTypeOK
    <2> QED
      BY <1>28, <2>1, <2>2, DeviceStays DEF CleanChildren
  <1>29. CASE Detect
    BY <1>29 DEF Detect, DisableSystemdResolved
  <1>30. CASE CleanEngines \/ CleanResolv \/ CleanBackup \/ CleanHosts
           \/ DetectFails \/ StartBinary \/ Spawn \/ SpawnFails \/ DNSReady
           \/ DNSTimeout \/ ProxyOnly \/ SaveResolv \/ FillBackup
           \/ WriteResolv
    BY <1>30 DEF CleanEngines, Process, CleanResolv, CleanedResolv, HasBackup,
       CleanBackup, CleanHosts, DetectFails, StartBinary, Pinned, Spawn, FreePids,
       SpawnFails, NextEngine, MoreEngines, DNSReady, DNSTimeout, ProxyOnly, SaveResolv,
       NotSaved, FillBackup, WriteResolv
  <1>31. CASE LockResolv \/ RetryTimer \/ Shutdown \/ StopResolv \/ StopBackup
           \/ StopHosts \/ Signal \/ Reload
    BY <1>31 DEF LockResolv, RetryTimer, Shutdown, StopResolv, HasBackup, StopBackup,
       StopHosts, Signal, Reload
  <1>32. ASSUME NEW b \in BOOLEAN, Launch(b) PROVE DeviceFirst'
    BY <1>32 DEF Launch, DisplaceDnsmasq, Blank
  <1>33. CASE HostStep
    BY <1>33 DEF HostStep, HostNext, EngineUp, DnsUp, Exit, UserStarts, DhcpWrites, Die,
       Released, Release
  <1>34. CASE UNCHANGED vars
    BY <1>34 DEF vars
  <1> QED
    BY <1>1, <1>2, <1>3, <1>4, <1>5, <1>6, <1>7, <1>8, <1>9, <1>10, <1>11, <1>12, <1>13,
       <1>14, <1>15, <1>16, <1>17, <1>18, <1>19, <1>20, <1>21, <1>22, <1>23, <1>24,
       <1>25, <1>26, <1>27, <1>28, <1>29, <1>30, <1>31, <1>32, <1>33, <1>34
    DEF Next, GatewayNext, RunStep, StartStep, StopStep, SystemdRestarts

-----------------------------------------------------------------------------
(* The restores, the save and the write are the steps of a loan; a crash   *)
(* is none, or it drops what was about to be saved.                        *)
LEMMA NextLoan ==
    ASSUME Loopy = {}, HealInv, SavedFirst, [Next]_vars
    PROVE  [Loan!Next]_(Loan!vars)
  <1>0. /\ NetTypeOK /\ BackupIsForeign /\ Healing
        /\ pc = "writeResolv" /\ ~etcFailed => backup \in Contents
    BY DEF HealInv, SavedFirst, TypeInv, TypeOK, HostTypeOK, NetTypeOK
  <1> USE DEF Loan!vars
  <1>1. ASSUME UNCHANGED <<resolv, backup, orig, etcFailed>>,
               pc' = pc \/ (pc # "fillBackup" /\ pc' # "fillBackup")
        PROVE  UNCHANGED <<resolv, Saved, etcFailed>>
    BY <1>1 DEF Saved, HasBackup
  <1>2. CASE CleanResolv
    <2>1. Saved = (IF HasBackup THEN backup ELSE Nil) /\ Saved' = Saved
      BY <1>2 DEF CleanResolv, Goto, Saved, HasBackup
    <2>2. CASE resolv' = CleanedResolv /\ etcFailed' = (resolv' = Empty) /\ HasBackup
      <3>1. Saved # Nil /\ resolv' = Saved /\ resolv' # Empty
        BY <2>1, <2>2 DEF CleanedResolv, HasBackup
      <3> QED
        BY <2>1, <2>2, <3>1 DEF Loan!Next, Loan!GiveBack, Loan!Mended
    <2>3. CASE resolv' = CleanedResolv /\ etcFailed' = (resolv' = Empty) /\ ~HasBackup
      <3>1. CASE resolv = Loopback
        <4>1. resolv' = Fallback /\ etcFailed' = FALSE /\ Saved = Nil
          BY <2>1, <2>3, <3>1 DEF CleanedResolv, Fallback, Empty
        <4> QED
          BY <2>1, <4>1 DEF Loan!Next, Loan!Replace, Loan!Mended
      <3>2. CASE resolv # Loopback /\ resolv # Empty
        <4>1. resolv' = resolv /\ etcFailed' = FALSE /\ Saved = Nil
          BY <2>1, <2>3, <3>2 DEF CleanedResolv
        <4> QED
          BY <2>1, <3>2, <4>1 DEF Loan!Next, Loan!Mend, Loan!Mended
      <3>3. CASE resolv # Loopback /\ resolv = Empty
        <4>1. resolv' = resolv /\ etcFailed' = TRUE
          BY <2>3, <3>3 DEF CleanedResolv
        <4> QED
          BY <2>1, <4>1 DEF Loan!Next, Loan!Break
      <3> QED
        BY <3>1, <3>2, <3>3
    <2>4. CASE ResolvWriteFails
      BY <2>1, <2>4 DEF ResolvWriteFails, Loan!Next, Loan!Break
    <2> QED
      BY <1>2, <2>2, <2>3, <2>4 DEF CleanResolv
  <1>3. CASE CleanBackup \/ StopBackup
    <2>1. UNCHANGED <<resolv, etcFailed>> /\ Saved' = Nil
      BY <1>3 DEF CleanBackup, StopBackup, Goto, Saved, HasBackup
    <2>2. resolv # Loopback \/ etcFailed
      BY <1>0, <1>3 DEF CleanBackup, StopBackup, Goto, BackupIsForeign, Foreign
    <2> QED
      BY <2>1, <2>2 DEF Loan!Next, Loan!Forget
  <1>4. CASE Detect \/ StartBuiltinDNS \/ StartDNSProcess \/ StartDNSFails
    <2>1. UNCHANGED Saved
      BY <1>4 DEF Detect, StartBuiltinDNS, StartDNSProcess, StartDNSFails, Goto, Saved,
         HasBackup
    <2>2. \/ UNCHANGED <<resolv, etcFailed>>
          \/ resolv = Stub /\ resolv' = Public /\ UNCHANGED etcFailed
          \/ resolv' = Empty /\ etcFailed' = TRUE
      BY <1>4 DEF Detect, StartBuiltinDNS, StartDNSProcess, StartDNSFails,
         DisableSystemdResolved
    <2> QED
      BY <2>1, <2>2 DEF Loan!Next, Loan!Unstub, Loan!Break
  <1>5. CASE SaveResolv
    <2>1. pc = "saveResolv" /\ ~HasBackup /\ UNCHANGED resolv
      BY <1>0, <1>5 DEF SaveResolv, Goto, Healing
    <2>2. CASE /\ pc' = "fillBackup" /\ resolv \notin NotSaved
               /\ backup' = Empty /\ orig' = resolv /\ UNCHANGED etcFailed
      <3>1. CASE resolv = Empty
        BY <2>1, <2>2, <3>1 DEF Saved, HasBackup
      <3>2. CASE resolv # Empty
        <4>1. Saved = Nil /\ Saved' = resolv /\ resolv # Loopback
          BY <2>1, <2>2, <3>2 DEF Saved, NotSaved
        <4> QED
          BY <2>1, <2>2, <3>2, <4>1 DEF Loan!Next, Loan!Keep
      <3> QED
        BY <3>1, <3>2
    <2>3. CASE /\ pc' = "writeResolv" /\ UNCHANGED backup
               /\ etcFailed' = (etcFailed \/ resolv \notin NotSaved)
      <3>1. UNCHANGED Saved
        BY <2>1, <2>3 DEF Saved, HasBackup
      <3>2. etcFailed' = etcFailed \/ etcFailed' = TRUE
        BY <1>0, <2>3 DEF NetTypeOK
      <3> QED
        BY <2>1, <3>1, <3>2 DEF Loan!Next, Loan!Break
    <2> QED
      BY <1>5, <2>2, <2>3 DEF SaveResolv, Goto
  <1>6. CASE FillBackup
    <2>1. /\ pc = "fillBackup" /\ pc' = "writeResolv" /\ ~HasBackup /\ UNCHANGED resolv
          /\ orig # Nil
      BY <1>0, <1>6, HostAssumption
      DEF HostAssumption, FillBackup, Goto, Healing, BackupIsForeign, Contents, Loopback,
          Fallback, Public, Stub, Empty
    <2>2. CASE backup' = orig /\ UNCHANGED etcFailed
      BY <2>1, <2>2 DEF Saved, HasBackup
    <2>3. CASE UNCHANGED backup /\ etcFailed' = TRUE
      <3>1. Saved' = Nil
        BY <2>1, <2>3 DEF Saved, HasBackup
      <3> QED
        BY <2>1, <2>3, <3>1 DEF Loan!Next, Loan!Break
    <2> QED
      BY <1>6, <2>2, <2>3 DEF FillBackup
  <1>7. CASE WriteResolv
    <2>1. pc = "writeResolv" /\ UNCHANGED Saved
      BY <1>7 DEF WriteResolv, Goto, Saved, HasBackup
    <2>2. Saved # Nil \/ etcFailed
      BY <1>0, <2>1, HostAssumption
      DEF HostAssumption, Saved, HasBackup, Contents, Loopback, Fallback, Public, Stub,
          Empty
    <2>3. (resolv' = Loopback /\ UNCHANGED etcFailed) \/ ResolvWriteFails
      BY <1>7 DEF WriteResolv
    <2> QED
      BY <2>1, <2>2, <2>3 DEF ResolvWriteFails, Loan!Next, Loan!Lend, Loan!Break
  <1>8. CASE StopResolv
    <2>1. Saved = (IF HasBackup THEN backup ELSE Nil) /\ Saved' = Saved
      BY <1>8 DEF StopResolv, Goto, Saved, HasBackup
    <2>2. CASE HasBackup /\ resolv' = backup /\ UNCHANGED etcFailed
      BY <2>1, <2>2 DEF HasBackup, Loan!Next, Loan!GiveBack, Loan!Mended
    <2>3. CASE resolv' = Fallback /\ etcFailed' = (etcFailed \/ HasBackup)
      <3>1. CASE HasBackup
        <4>1. etcFailed' = TRUE
          BY <2>3, <3>1
        <4> QED
          BY <2>1, <2>3, <4>1 DEF Loan!Next, Loan!Break
      <3>2. CASE ~HasBackup
        <4>1. UNCHANGED etcFailed
          BY <1>0, <2>3, <3>2 DEF NetTypeOK
        <4> QED
          BY <2>1, <2>3, <3>2, <4>1 DEF Loan!Next, Loan!Replace, Loan!Mended
      <3> QED
        BY <3>1, <3>2
    <2>4. CASE ResolvWriteFails
      BY <2>1, <2>4 DEF ResolvWriteFails, Loan!Next, Loan!Break
    <2> QED
      BY <1>8, <2>2, <2>3, <2>4 DEF StopResolv
  <1>9. CASE HostStep
    <2>1. UNCHANGED <<Saved, etcFailed>> /\ resolv' \in Dhcp \cup {resolv}
      BY <1>9 DEF HostStep, HostNext, EngineUp, DnsUp, Exit, UserStarts, DhcpWrites,
         Saved, HasBackup, gwVars, resolvVars
    <2> QED
      BY <2>1 DEF Loan!Next, Loan!Rewrite
  <1>10. CASE Crash \/ StopPanics
    <2>1. UNCHANGED <<resolv, backup, etcFailed>> /\ pc' = "down"
      BY <1>10 DEF Crash, StopPanics, Abort, resolvVars
    <2>2. CASE pc = "fillBackup"
      <3>1. Saved' = Nil
        BY <1>0, <2>1, <2>2 DEF Healing, Saved, HasBackup
      <3>2. resolv # Loopback \/ etcFailed
        BY <1>0, <2>2 DEF BackupIsForeign, Foreign
      <3> QED
        BY <2>1, <3>1, <3>2 DEF Loan!Next, Loan!Forget
    <2>3. CASE pc # "fillBackup"
      BY <2>1, <2>3 DEF Saved, HasBackup
    <2> QED
      BY <2>2, <2>3
  <1>11. CASE CleanHosts \/ StopHosts
    <2>1. UNCHANGED <<resolv, Saved>>
      BY <1>11 DEF CleanHosts, StopHosts, Goto, resolvVars, Saved, HasBackup
    <2>2. UNCHANGED etcFailed \/ etcFailed' = TRUE
      BY <1>11 DEF CleanHosts, StopHosts, Unpin
    <2> QED
      BY <2>1, <2>2 DEF Loan!Next, Loan!Break
  <1>12. CASE CleanEngines \/ CleanChildren \/ CleanRules \/ CleanTun
           \/ DetectFails \/ StartEmbedded \/ StartBinary
           \/ Spawn \/ SpawnFails \/ PollReady \/ PollTimeout \/ VerifyOK
           \/ VerifyFails
    BY <1>1, <1>12 DEF CleanEngines, CleanChildren, CleanRules, CleanTun,
       DetectFails, StartEmbedded, StartBinary, Spawn, SpawnFails, NextEngine,
       PollReady, PollTimeout, VerifyOK, AfterVerify, VerifyFails, Goto, resolvVars,
       hostVars
  <1>13. CASE NextLink \/ TunReady \/ TunTimeout \/ DNSReady \/ DNSTimeout
           \/ ProxyOnly \/ StartTun \/ StartTunFails \/ TrackTun \/ Route
           \/ Intercept \/ LockResolv \/ RetryTimer
    BY <1>1, <1>13 DEF NextLink, TunReady, TunTimeout, DNSReady, DNSTimeout, ProxyOnly,
       StartTun, StartTunFails, TrackTun, Route, Intercept, LockResolv, RetryTimer, Goto,
       resolvVars, hostVars
  <1>14. CASE Shutdown \/ StopRules \/ StopDevice \/ StopTun
           \/ StopDns \/ StopEngine \/ Signal \/ Reload
    BY <1>1, <1>14 DEF Shutdown, StopRules, StopDevice, StopTun, StopDns,
       StopEngine, Signal, Reload, Goto, resolvVars, hostVars
  <1>15. ASSUME NEW b \in BOOLEAN, Launch(b) \/ RetryQuit \/ StopDone
         PROVE  UNCHANGED <<resolv, Saved, etcFailed>>
    BY <1>15 DEF Launch, DisplaceDnsmasq, RetryQuit, StopDone, Return, Goto, resolvVars,
       Saved, HasBackup
  <1>16. CASE UNCHANGED vars
    BY <1>1, <1>16 DEF vars, gwVars, hostVars, resolvVars
  <1> QED
    BY <1>2, <1>3, <1>4, <1>5, <1>6, <1>7, <1>8, <1>9, <1>10, <1>11, <1>12, <1>13, <1>14,
       <1>15, <1>16
    DEF Next, GatewayNext, RunStep, StartStep, StopStep, SystemdRestarts

-----------------------------------------------------------------------------
(* The invariant of every behaviour.                                       *)
LEMMA HostInvariance == Spec => []HostInv
  <1>1. Init => HostInv
    BY InitHostInv
  <1>2. TypeInv /\ [Next]_vars => TypeInv'
    BY NextTypeInv
  <1>3. HostInv /\ [Next]_vars => HostInv'
    BY <1>2, NextBackupIsForeign, NextHealing, NextDeviceFirst DEF HostInv, HealInv
  <1> QED
    BY <1>1, <1>3, PTL DEF Spec

(* Whenever resolv.conf names bypath, the backup is there: at any moment   *)
(* of any run, and so wherever a crash hits, as long as no write of these  *)
(* files has failed and the host's own file does not name 127.0.0.1.       *)
THEOREM ResolvSafe == ASSUME Loopy = {} PROVE Spec => []ResolvRecoverable
  <1>1. Init => SavedFirst
    BY InitHostInv
  <1>2. HostInv /\ SavedFirst /\ [Next]_vars => SavedFirst'
    BY NextSavedFirst DEF HostInv, HealInv
  <1>3. SavedFirst => ResolvRecoverable
    BY DEF SavedFirst
  <1> QED
    BY <1>1, <1>2, <1>3, HostInvariance, PTL DEF Spec

(* The gateway borrows resolv.conf, and gives back what it took: whatever  *)
(* a Start meets, wherever a crash hits, and whoever writes the file in    *)
(* between, until a write fails and breaks the loan. The host's own file   *)
(* does not name 127.0.0.1.                                                *)
THEOREM LoanOfResolv == ASSUME Loopy = {} PROVE Spec => ImplementsLoan
  <1>1. Init => SavedFirst /\ Loan!Init
    BY InitHostInv DEF Init, HostInit, Loan!Init, Saved, HasBackup
  <1>2. HostInv /\ SavedFirst /\ [Next]_vars
          => SavedFirst' /\ [Loan!Next]_(Loan!vars)
    BY NextSavedFirst, NextLoan DEF HostInv, HealInv
  <1> QED
    BY <1>1, <1>2, HostInvariance, PTL DEF Spec, ImplementsLoan, Loan!Spec

(* A Start that is past cleanupPreviousRun works on a clean host, whatever *)
(* the runs before it died of; resolv.conf and the pins are in order       *)
(* unless this cleanup could not write them.                               *)
THEOREM Heals == Spec => []SelfHealed
  <1>1. HostInv => SelfHealed
    BY DEF HostInv, HealInv, BackupIsForeign, Foreign, Healing, Untouched, SelfHealed
  <1> QED
    BY <1>1, HostInvariance, PTL

(* Traffic is sent to tun0 only while there is the device bypath made.     *)
THEOREM RulesFollowDevice == Spec => []RulesHaveTun
  <1>1. HostInv => RulesHaveTun
    BY DEF HostInv, HealInv, DeviceFirst
  <1> QED
    BY <1>1, HostInvariance, PTL
=============================================================================
