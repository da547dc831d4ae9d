--------------------------- MODULE GatewayProofs ---------------------------
(***************************************************************************)
(* Theorems about Gateway, for every set of pids, DHCP contents and        *)
(* configurations, every number of links, either build and either          *)
(* installation mode.                                                      *)
(***************************************************************************)
EXTENDS Gateway, SequenceTheorems, TLAPS

(* What the types rest on beyond TypeOK: tryEngine has an engine to try,   *)
(* and a process that is waited for is known.                              *)
EngineLeft == pc \in {"spawn", "poll"} => search.engines # << >>
WaitedFor ==
    /\ pc = "poll" => search.pid \in Pids
    /\ pc = "dnsWait" => gw.dnsProc \in Pids
    /\ pc = "tunTrack" => gw.tunProc \in Pids

TypeInv == TypeOK /\ EngineLeft /\ WaitedFor

-----------------------------------------------------------------------------
(* The operators that end processes keep the types of what they change.    *)

ProcTypeOK ==
    /\ proc \in [Pids -> Process]
    /\ socks \in Pids \cup {Nil, Gw}
    /\ dns53 \in Pids \cup {Nil, Gw, "dnsmasq", "resolved"}
    /\ tun0 \in Pids \cup {Nil, Gw, "tuntap"}

LEMMA FreeType == Free \in Process
  BY DEF Free, Process

LEMMA ChildType ==
    ASSUME NEW kind \in Kinds, NEW native \in BOOLEAN
    PROVE  Child(kind, native) \in Process
  BY DEF Child, Process

LEMMA DieType == ASSUME ProcTypeOK, NEW S, Die(S) PROVE ProcTypeOK'
  BY FreeType DEF ProcTypeOK, Die, Released, Release, Process

LEMMA KillAndWaitType == ASSUME ProcTypeOK, NEW S, KillAndWait(S) PROVE ProcTypeOK'
  BY FreeType DEF ProcTypeOK, KillAndWait, Released, Release

LEMMA AbandonType ==
    ASSUME ProcTypeOK, NEW b \in BOOLEAN, Abandon(b) PROVE ProcTypeOK'
  BY FreeType DEF ProcTypeOK, Abandon, Released, Release, Process

(* The engines still to try after the first one.                           *)
LEMMA TailEngines ==
    ASSUME NEW s \in Seq(Engines), Len(s) > 1
    PROVE  Tail(s) \in Seq(Engines) /\ Tail(s) # << >>
  <1>1. s # << >> /\ Len(s) \in Nat
    BY EmptySeq, LenProperties
  <1>2. Tail(s) \in Seq(Engines) /\ Len(Tail(s)) = Len(s) - 1
    BY <1>1, HeadTailProperties
  <1>3. Len(Tail(s)) # 0
    BY <1>1, <1>2
  <1>4. Len(<< >>) = 0
    BY EmptySeq
  <1> QED
    BY <1>2, <1>3, <1>4

-----------------------------------------------------------------------------
(* The parts of TypeOK, each kept by every step.                           *)

NetTypeOK ==
    /\ fw \subseteq {"mangle", "natpre", "natpost", "forward", "iprule", "table100"}
    /\ pins \in BOOLEAN
    /\ resolv \in Contents \cup {Empty}
    /\ backup \in Contents \cup {Nil, Empty}
    /\ immutable \in BOOLEAN
    /\ dnsmasqUnit \in BOOLEAN
    /\ children \subseteq Pids
    /\ orig \in Contents \cup {Nil, Empty}
    /\ etcFailed \in BOOLEAN

GwTypeOK ==
    gw \in [nativeTUN : BOOLEAN, activeEngine : Engines \cup {""},
           engineProc : Pids \cup {Nil}, embedded : Engines \cup {""},
           tunProc : Pids \cup {Nil, NoProcess},
           dnsProc : Pids \cup {Nil, NoProcess}, builtin : BOOLEAN]

SearchTypeOK ==
    /\ search \in [stage : {"config", "native", "again", "legacy"},
                   others : 0..MaxOthers, todo : 0..MaxOthers,
                   engines : Seq(Engines), pid : Pids \cup {Nil}]
    /\ EngineLeft

RunTypeOK ==
    /\ pc \in StartSteps \cup StopSteps \cup {"down", "retry", "running"}
    /\ cfg \in Configs
    /\ sig \in BOOLEAN /\ supervised \in BOOLEAN /\ restart \in BOOLEAN
    /\ WaitedFor

(* What the configurations of the model are.                               *)
LEMMA ConfigType ==
    ASSUME NEW c \in Configs
    PROVE  /\ c.enabled \in BOOLEAN /\ c.nativeTun \in BOOLEAN
           /\ EngineOrder(c) \in Seq(Engines) /\ EngineOrder(c) # << >>
  BY GatewayAssumption DEF GatewayAssumption, Config

LEMMA InitTypeInv == Init => TypeInv
  <1> SUFFICES ASSUME Init PROVE TypeInv
    OBVIOUS
  <1> USE HostAssumption, GatewayAssumption
      DEF HostAssumption, GatewayAssumption, Init, HostInit, Contents
  <1>1. HostTypeOK
    BY FreeType DEF HostTypeOK
  <1>2. GwTypeOK
    BY DEF GwTypeOK, NewGateway
  <1>3. SearchTypeOK
    BY EmptySeq DEF SearchTypeOK, EngineLeft, NoSearch
  <1>4. RunTypeOK
    BY DEF RunTypeOK, WaitedFor
  <1>5. orig \in Contents \cup {Nil, Empty} /\ etcFailed \in BOOLEAN
    OBVIOUS
  <1> QED
    BY <1>1, <1>2, <1>3, <1>4, <1>5 DEF TypeInv, TypeOK, GwTypeOK, SearchTypeOK, RunTypeOK

(* Processes, ports and the device.                                        *)
LEMMA NextProcType == TypeInv /\ [Next]_vars => ProcTypeOK'
  <1> SUFFICES ASSUME ProcTypeOK, GwTypeOK, SearchTypeOK, RunTypeOK, [Next]_vars PROVE ProcTypeOK'
    BY DEF TypeInv, TypeOK, HostTypeOK, ProcTypeOK, GwTypeOK, SearchTypeOK, RunTypeOK
  <1> USE ConfigType DEF ProcTypeOK, Goto, hostVars, procVars, RunTypeOK
  <1>1. CASE CleanEngines
    BY <1>1 DEF CleanEngines, Process
  <1>2. CASE CleanChildren
    BY <1>2, DieType DEF CleanChildren
  <1>3. CASE CleanTun
    BY <1>3 DEF CleanTun
  <1>4. CASE Detect
    BY <1>4 DEF Detect, DisableSystemdResolved
  <1>5. CASE StartEmbedded
    BY <1>5 DEF StartEmbedded, Pinned, MarkNative, GatewayMode
  <1>6. CASE Spawn
    <2>1. PICK p \in Pids, native \in BOOLEAN :
            proc' = [proc EXCEPT ![p] = Child(Head(search.engines), native)]
      BY <1>6, Zenon DEF Spawn, FreePids
    <2>2. Head(search.engines) \in Kinds
      BY <1>6, HeadTailProperties DEF Spawn, SearchTypeOK, EngineLeft, Kinds
    <2>3. Child(Head(search.engines), native) \in Process
      BY <2>2, ChildType
    <2> QED
      BY <1>6, <2>1, <2>3 DEF Spawn
  <1>7. CASE PollTimeout
    BY <1>7, KillAndWaitType DEF PollTimeout, NextEngine, MoreEngines
  <1>8. CASE VerifyFails
    BY <1>8, KillAndWaitType DEF VerifyFails
  <1>9. CASE TunTimeout
    BY <1>9, KillAndWaitType DEF TunTimeout
  <1>10. CASE StartBuiltinDNS
    BY <1>10 DEF StartBuiltinDNS, DisableSystemdResolved, FreedPort53
  <1>11. CASE StartDNSProcess
    <2>1. Child("dns2socks", FALSE) \in Process /\ Child("dnsmasq", FALSE) \in Process
      BY ChildType DEF Kinds, DnsKinds
    <2> QED
      BY <1>11, <2>1 DEF StartDNSProcess, FreedPort53, FreePids
  <1>12. CASE StartDNSFails
    BY <1>12 DEF StartDNSFails, DisableSystemdResolved, FreedPort53
  <1>13. CASE StartTun
    <2>1. Child("tun2socks", FALSE) \in Process
      BY ChildType DEF Kinds
    <2> QED
      BY <1>13, <2>1 DEF StartTun, FreePids
  <1>14. CASE StartTunFails
    BY <1>14 DEF StartTunFails
  <1>15. CASE RetryQuit
    BY <1>15, AbandonType DEF RetryQuit, Return, Blank
  <1>16. CASE StopDevice
    BY <1>16 DEF StopDevice
  <1>17. CASE StopHosts
    BY <1>17 DEF StopHosts
  <1>18. CASE StopTun
    BY <1>18, KillAndWaitType DEF StopTun
  <1>19. CASE StopDns
    BY <1>19, FreeType DEF StopDns, Release
  <1>20. CASE StopPanics
    BY <1>20, AbandonType DEF StopPanics, Abort, Blank
  <1>21. CASE StopEngine
    BY <1>21, KillAndWaitType DEF StopEngine
  <1>22. CASE StopDone
    BY <1>22, AbandonType DEF StopDone, Return, Blank
  <1>23. CASE Crash
    BY <1>23, AbandonType DEF Crash, Abort, Blank
  <1>24. CASE CleanRules \/ CleanResolv \/ CleanBackup \/ CleanHosts
           \/ DetectFails \/ StartBinary \/ SpawnFails \/ PollReady
           \/ VerifyOK \/ NextLink \/ TunReady \/ DNSReady \/ DNSTimeout
           \/ ProxyOnly
    BY <1>24 DEF CleanRules, CleanResolv, CleanedResolv, HasBackup, CleanBackup,
       CleanHosts, DetectFails, StartBinary, Pinned, SpawnFails, NextEngine,
       MoreEngines, PollReady, MarkNative, GatewayMode, VerifyOK, AfterVerify, NoSearch,
       NextLink, MoreLinks, TunReady, DNSReady, DNSTimeout, ProxyOnly
  <1>25. CASE TrackTun \/ Route \/ Intercept \/ SaveResolv \/ FillBackup
           \/ WriteResolv \/ LockResolv \/ RetryTimer \/ Shutdown
           \/ StopRules \/ StopResolv \/ StopBackup \/ Signal \/ Reload
    BY <1>25 DEF TrackTun, Route, ModeRules, Intercept, Pinned, SaveResolv, NotSaved,
       FillBackup, WriteResolv, LockResolv, RetryTimer, Shutdown, StopRules, StopResolv,
       HasBackup, StopBackup, Signal, Reload
  <1>26. ASSUME NEW b \in BOOLEAN, Launch(b) PROVE ProcTypeOK'
    BY <1>26 DEF Launch, DisplaceDnsmasq, Blank
  <1>27. CASE HostStep
    <2>1. ASSUME NEW p \in Pids, EngineUp(p) PROVE ProcTypeOK'
      BY <2>1, DieType DEF EngineUp
    <2>2. ASSUME NEW p \in Pids, DnsUp(p) PROVE ProcTypeOK'
      BY <2>2, DieType DEF DnsUp
    <2>3. ASSUME NEW p \in Pids, Exit(p) PROVE ProcTypeOK'
      BY <2>3, DieType DEF Exit
    <2>4. ASSUME NEW p \in Pids, UserStarts(p) PROVE ProcTypeOK'
      BY <2>4 DEF UserStarts, Process, Kinds, Engines
    <2>5. CASE DhcpWrites
      BY <2>5 DEF DhcpWrites
    <2> QED
      BY <1>27, <2>1, <2>2, <2>3, <2>4, <2>5 DEF HostStep, HostNext
  <1>28. CASE UNCHANGED vars
    BY <1>28 DEF vars
  <1> QED
    BY <1>1, <1>2, <1>3, <1>4, <1>5, <1>6, <1>7, <1>8, <1>9, <1>10, <1>11, <1>12, <1>13,
       <1>14, <1>15, <1>16, <1>17, <1>18, <1>19, <1>20, <1>21, <1>22, <1>23, <1>24,
       <1>25, <1>26, <1>27, <1>28
    DEF Next, GatewayNext, RunStep, StartStep, StopStep, SystemdRestarts

(* Rules, pins, resolv.conf and its backup, the children file.             *)
LEMMA NextNetType == TypeInv /\ [Next]_vars => NetTypeOK'
  <1> SUFFICES ASSUME NetTypeOK, WaitedFor, [Next]_vars PROVE NetTypeOK'
    BY DEF TypeInv, TypeOK, HostTypeOK, NetTypeOK
  <1> USE DEF NetTypeOK, Goto, hostVars, resolvVars, gwVars
  <1>1. CASE CleanRules
    BY <1>1 DEF CleanRules
  <1>2. CASE CleanResolv
    BY <1>2 DEF CleanResolv, CleanedResolv, HasBackup, ResolvWriteFails, Contents
  <1>3. CASE Detect
    BY <1>3 DEF Detect, DisableSystemdResolved, Contents
  <1>4. CASE StartDNSProcess
    <2>1. children' \in {children} \cup {children \cup {p} : p \in Pids}
      BY <1>4 DEF StartDNSProcess, FreePids
    <2>2. resolv' \in Contents \cup {Empty} /\ etcFailed' \in BOOLEAN
      BY <1>4 DEF StartDNSProcess, DisableSystemdResolved, Contents
    <2> QED
      BY <1>4, <2>1, <2>2 DEF StartDNSProcess
  <1>5. CASE TrackTun
    BY <1>5 DEF TrackTun, WaitedFor
  <1>6. CASE DNSReady
    BY <1>6 DEF DNSReady, WaitedFor
  <1>7. CASE Route
    BY <1>7 DEF Route, ModeRules
  <1>8. CASE Intercept
    BY <1>8 DEF Intercept, Pinned
  <1>9. CASE SaveResolv
    BY <1>9 DEF SaveResolv
  <1>10. CASE FillBackup
    BY <1>10 DEF FillBackup
  <1>11. CASE WriteResolv
    BY <1>11 DEF WriteResolv, ResolvWriteFails, Contents
  <1>12. CASE LockResolv
    BY <1>12 DEF LockResolv
  <1>13. CASE StopRules
    BY <1>13 DEF StopRules
  <1>14. CASE StopResolv
    BY <1>14 DEF StopResolv, HasBackup, ResolvWriteFails, Contents
  <1>15. CASE StopBackup
    BY <1>15 DEF StopBackup
  <1>16. CASE StartBuiltinDNS
    BY <1>16 DEF StartBuiltinDNS, DisableSystemdResolved, FreedPort53, Contents
  <1>17. CASE StartDNSFails
    BY <1>17 DEF StartDNSFails, DisableSystemdResolved, FreedPort53, Contents
  <1>18. CASE CleanEngines \/ CleanChildren \/ CleanTun \/ CleanBackup
           \/ CleanHosts \/ DetectFails \/ StartEmbedded \/ StartBinary
           \/ Spawn \/ SpawnFails \/ PollReady \/ PollTimeout \/ VerifyOK
           \/ VerifyFails
    <2>1. CASE CleanEngines \/ CleanChildren \/ CleanTun \/ CleanBackup \/ CleanHosts
      BY <2>1 DEF CleanEngines, CleanChildren, CleanTun, CleanBackup, CleanHosts, Unpin
    <2>2. CASE DetectFails \/ StartEmbedded \/ StartBinary
      BY <2>2 DEF DetectFails, StartEmbedded, StartBinary, Pinned
    <2>3. CASE Spawn \/ SpawnFails \/ PollReady
      BY <2>3 DEF Spawn, SpawnFails, PollReady
    <2>4. CASE PollTimeout \/ VerifyOK \/ VerifyFails
      BY <2>4 DEF PollTimeout, VerifyOK, VerifyFails
    <2> QED
      BY <1>18, <2>1, <2>2, <2>3, <2>4
  <1>19. CASE NextLink \/ TunReady \/ TunTimeout \/ DNSTimeout \/ ProxyOnly
           \/ StartTun \/ StartTunFails \/ RetryTimer \/ RetryQuit
           \/ Shutdown \/ StopDevice \/ StopHosts \/ StopTun \/ StopDns
    BY <1>19 DEF NextLink, MoreLinks, NoSearch, TunReady, TunTimeout, DNSTimeout,
       ProxyOnly, StartTun, FreePids, StartTunFails, RetryTimer, RetryQuit, Return,
       Blank, Shutdown, StopDevice, StopHosts, Unpin, StopTun, StopDns, Release
  <1>20. CASE StopPanics \/ StopEngine \/ StopDone \/ Crash \/ Signal \/ Reload
    BY <1>20 DEF StopPanics, Abort, Blank, StopEngine, StopDone, Return, Crash, Signal,
       Reload
  <1>21. ASSUME NEW b \in BOOLEAN, Launch(b) PROVE NetTypeOK'
    BY <1>21 DEF Launch, DisplaceDnsmasq, Blank
  <1>22. CASE HostStep
    <2>1. ASSUME NEW p \in Pids, EngineUp(p) \/ DnsUp(p) PROVE NetTypeOK'
      BY <1>22, <2>1 DEF HostStep, EngineUp, DnsUp
    <2>2. ASSUME NEW p \in Pids, Exit(p) \/ UserStarts(p) PROVE NetTypeOK'
      BY <1>22, <2>2 DEF HostStep, Exit, UserStarts
    <2>3. CASE DhcpWrites
      BY <1>22, <2>3 DEF HostStep, DhcpWrites, Contents
    <2> QED
      BY <1>22, <2>1, <2>2, <2>3 DEF HostStep, HostNext
  <1>23. CASE UNCHANGED vars
    BY <1>23 DEF vars
  <1> QED
    BY <1>1, <1>2, <1>3, <1>4, <1>5, <1>6, <1>7, <1>8, <1>9, <1>10, <1>11, <1>12, <1>13,
       <1>14, <1>15, <1>16, <1>17, <1>18, <1>19, <1>20, <1>21, <1>22, <1>23
    DEF Next, GatewayNext, RunStep, StartStep, StopStep, SystemdRestarts

(* The fields of the Gateway struct.                                       *)
LEMMA NextGwType == TypeInv /\ [Next]_vars => GwTypeOK'
  <1> SUFFICES ASSUME GwTypeOK, SearchTypeOK, RunTypeOK, [Next]_vars PROVE GwTypeOK'
    BY DEF TypeInv, TypeOK, HostTypeOK, GwTypeOK, SearchTypeOK, RunTypeOK
  <1> USE ConfigType DEF GwTypeOK, Goto, gwVars
  <1>1. CASE Detect
    BY <1>1 DEF Detect, DisableSystemdResolved
  <1>2. CASE StartEmbedded
    BY <1>2, HeadTailProperties DEF StartEmbedded, Pinned, MarkNative, GatewayMode,
       RunTypeOK, Engines
  <1>3. CASE PollReady
    BY <1>3, HeadTailProperties DEF PollReady, MarkNative, GatewayMode, SearchTypeOK,
       EngineLeft, RunTypeOK
  <1>4. CASE VerifyFails
    BY <1>4 DEF VerifyFails
  <1>5. CASE NextLink
    BY <1>5 DEF NextLink, MoreLinks, NoSearch
  <1>6. CASE TunTimeout
    BY <1>6 DEF TunTimeout
  <1>7. CASE StartBuiltinDNS
    BY <1>7 DEF StartBuiltinDNS, DisableSystemdResolved, FreedPort53
  <1>8. CASE StartDNSProcess
    BY <1>8 DEF StartDNSProcess, DisableSystemdResolved, FreedPort53, FreePids
  <1>9. CASE StartDNSFails
    BY <1>9 DEF StartDNSFails, DisableSystemdResolved, FreedPort53
  <1>10. CASE StartTun
    BY <1>10 DEF StartTun, FreePids
  <1>11. CASE StartTunFails
    BY <1>11 DEF StartTunFails
  <1>12. CASE StopDns
    BY <1>12 DEF StopDns, Release
  <1>13. CASE StopEngine
    BY <1>13 DEF StopEngine
  <1>14. CASE RetryQuit
    BY <1>14 DEF RetryQuit, Return, Blank, NewGateway
  <1>15. CASE StopPanics
    BY <1>15 DEF StopPanics, Abort, Blank, NewGateway
  <1>16. CASE StopDone
    BY <1>16 DEF StopDone, Return, Blank, NewGateway
  <1>17. CASE Crash
    BY <1>17 DEF Crash, Abort, Blank, NewGateway
  <1>18. CASE CleanEngines \/ CleanChildren \/ CleanRules \/ CleanTun
           \/ CleanResolv \/ CleanBackup \/ CleanHosts \/ DetectFails
           \/ StartBinary \/ Spawn \/ SpawnFails \/ PollTimeout \/ VerifyOK
           \/ TunReady
    BY <1>18 DEF CleanEngines, Process, CleanChildren, CleanRules, CleanTun,
       CleanResolv, CleanedResolv, HasBackup, CleanBackup, CleanHosts, DetectFails,
       StartBinary, Pinned, Spawn, FreePids, SpawnFails, NextEngine, MoreEngines,
       PollTimeout, VerifyOK, AfterVerify, NoSearch, TunReady
  <1>19. CASE DNSReady \/ DNSTimeout \/ ProxyOnly \/ TrackTun \/ Route
           \/ Intercept \/ SaveResolv \/ FillBackup \/ WriteResolv
           \/ LockResolv \/ RetryTimer \/ Shutdown \/ StopRules \/ StopDevice
    BY <1>19 DEF DNSReady, DNSTimeout, ProxyOnly, TrackTun, Route, ModeRules, Intercept,
       Pinned, SaveResolv, NotSaved, FillBackup, WriteResolv, LockResolv, RetryTimer,
       Shutdown, StopRules, StopDevice
  <1>20. CASE StopResolv \/ StopBackup \/ StopHosts \/ StopTun \/ Signal
           \/ Reload
    BY <1>20 DEF StopResolv, HasBackup, StopBackup, StopHosts, StopTun, Signal, Reload
  <1>21. ASSUME NEW b \in BOOLEAN, Launch(b) PROVE GwTypeOK'
    BY <1>21 DEF Launch, DisplaceDnsmasq, Blank, NewGateway
  <1>22. CASE HostStep
    BY <1>22 DEF HostStep
  <1>23. CASE UNCHANGED vars
    BY <1>23 DEF vars
  <1> QED
    BY <1>1, <1>2, <1>3, <1>4, <1>5, <1>6, <1>7, <1>8, <1>9, <1>10, <1>11, <1>12, <1>13,
       <1>14, <1>15, <1>16, <1>17, <1>18, <1>19, <1>20, <1>21, <1>22, <1>23
    DEF Next, GatewayNext, RunStep, StartStep, StopStep, SystemdRestarts

(* The search for an engine, which never runs out of engines half-way.     *)
LEMMA NextSearchType == TypeInv /\ [Next]_vars => SearchTypeOK'
  <1> SUFFICES ASSUME SearchTypeOK, RunTypeOK, [Next]_vars PROVE SearchTypeOK'
    BY DEF TypeInv, TypeOK, HostTypeOK, SearchTypeOK, RunTypeOK
  <1> USE ConfigType, GatewayAssumption
      DEF GatewayAssumption, SearchTypeOK, EngineLeft, Goto, gwVars
  <1>1. CASE Detect
    BY <1>1 DEF Detect, DisableSystemdResolved, RunTypeOK
  <1>2. CASE StartBinary
    BY <1>2 DEF StartBinary, Pinned, RunTypeOK
  <1>3. CASE Spawn
    BY <1>3 DEF Spawn, FreePids
  <1>4. CASE SpawnFails
    BY <1>4, TailEngines DEF SpawnFails, NextEngine, MoreEngines
  <1>5. CASE PollReady
    BY <1>5 DEF PollReady, MarkNative, GatewayMode
  <1>6. CASE PollTimeout
    BY <1>6, TailEngines DEF PollTimeout, NextEngine, MoreEngines
  <1>7. CASE VerifyOK
    BY <1>7 DEF VerifyOK, AfterVerify, NoSearch
  <1>8. CASE NextLink
    <2>1. CASE MoreLinks
      <3>1. search.todo - 1 \in 0..MaxOthers
        BY <2>1 DEF MoreLinks
      <3>2. pc' = "engine" /\ search' = [search EXCEPT !.todo = search.todo - 1]
        BY <1>8, <2>1 DEF NextLink
      <3> QED
        BY <3>1, <3>2
    <2>2. CASE ~MoreLinks
      <3>1. CASE pc' = "retry" /\ search' = NoSearch
        BY <3>1, EmptySeq DEF NoSearch
      <3>2. CASE /\ pc' = "engine"
                 /\ \E s \in {"again", "legacy"} :
                      search' = [search EXCEPT !.stage = s, !.todo = search.others]
        BY <3>2
      <3> QED
        BY <1>8, <2>2, <3>1, <3>2 DEF NextLink
    <2> QED
      BY <2>1, <2>2
  <1>9. CASE TunReady
    BY <1>9 DEF TunReady, NoSearch
  <1>10. CASE TunTimeout
    BY <1>10 DEF TunTimeout
  <1>11. CASE RetryQuit
    BY <1>11, EmptySeq DEF RetryQuit, Return, Blank, NoSearch
  <1>12. CASE StopPanics
    BY <1>12, EmptySeq DEF StopPanics, Abort, Blank, NoSearch
  <1>13. CASE StopDone
    BY <1>13, EmptySeq DEF StopDone, Return, Blank, NoSearch
  <1>14. CASE Crash
    BY <1>14, EmptySeq DEF Crash, Abort, Blank, NoSearch
  <1>15. CASE CleanEngines \/ CleanChildren \/ CleanRules \/ CleanTun
           \/ CleanResolv \/ CleanBackup \/ CleanHosts \/ DetectFails
           \/ StartEmbedded \/ VerifyFails \/ StartBuiltinDNS
           \/ StartDNSProcess \/ StartDNSFails \/ DNSReady
    BY <1>15 DEF CleanEngines, Process, CleanChildren, CleanRules, CleanTun,
       CleanResolv, CleanedResolv, HasBackup, CleanBackup, CleanHosts, DetectFails,
       StartEmbedded, Pinned, MarkNative, GatewayMode, VerifyFails, StartBuiltinDNS,
       DisableSystemdResolved, FreedPort53, StartDNSProcess, FreePids, StartDNSFails, DNSReady
  <1>16. CASE DNSTimeout \/ ProxyOnly \/ StartTun \/ StartTunFails \/ TrackTun
           \/ Route \/ Intercept \/ SaveResolv \/ FillBackup \/ WriteResolv
           \/ LockResolv \/ RetryTimer \/ Shutdown \/ StopRules
    BY <1>16 DEF DNSTimeout, ProxyOnly, StartTun, FreePids, StartTunFails, TrackTun,
       Route, ModeRules, Intercept, Pinned, SaveResolv, NotSaved, FillBackup,
       WriteResolv, LockResolv, RetryTimer, Shutdown, StopRules
  <1>17. CASE StopDevice \/ StopResolv \/ StopBackup \/ StopHosts \/ StopTun
           \/ StopDns \/ StopEngine \/ Signal \/ Reload
    BY <1>17 DEF StopDevice, StopResolv, HasBackup, StopBackup, StopHosts, StopTun,
       StopDns, Release, StopEngine, Signal, Reload
  <1>18. ASSUME NEW b \in BOOLEAN, Launch(b) PROVE SearchTypeOK'
    BY <1>18, EmptySeq DEF Launch, DisplaceDnsmasq, Blank, NoSearch
  <1>19. CASE HostStep
    BY <1>19 DEF HostStep
  <1>20. CASE UNCHANGED vars
    BY <1>20 DEF vars
  <1> QED
    BY <1>1, <1>2, <1>3, <1>4, <1>5, <1>6, <1>7, <1>8, <1>9, <1>10, <1>11, <1>12, <1>13,
       <1>14, <1>15, <1>16, <1>17, <1>18, <1>19, <1>20
    DEF Next, GatewayNext, RunStep, StartStep, StopStep, SystemdRestarts

(* The program counter, the config and the signals.                        *)
LEMMA NextRunType == TypeInv /\ [Next]_vars => RunTypeOK'
  <1> SUFFICES ASSUME RunTypeOK, SearchTypeOK, GwTypeOK, [Next]_vars PROVE RunTypeOK'
    BY DEF TypeInv, TypeOK, HostTypeOK, RunTypeOK, SearchTypeOK, GwTypeOK
  <1> USE DEF RunTypeOK, WaitedFor, StartSteps, StopSteps, Goto, gwVars
  <1>1. CASE Spawn
    BY <1>1 DEF Spawn, FreePids, SearchTypeOK
  <1>2. CASE StartDNSProcess
    BY <1>2 DEF StartDNSProcess, DisableSystemdResolved, FreedPort53, FreePids, GwTypeOK
  <1>3. CASE StartTun
    BY <1>3 DEF StartTun, FreePids, GwTypeOK
  <1>4. CASE StopDns
    BY <1>4 DEF StopDns, Release
  <1>5. CASE NextLink
    BY <1>5 DEF NextLink, MoreLinks, NoSearch
  <1>6. CASE StopPanics
    BY <1>6 DEF StopPanics, Abort, Blank
  <1>7. CASE CleanEngines \/ CleanChildren \/ CleanRules \/ CleanTun
           \/ CleanResolv \/ CleanBackup \/ CleanHosts \/ Detect
           \/ DetectFails \/ StartEmbedded \/ StartBinary \/ SpawnFails
           \/ PollReady \/ PollTimeout
    BY <1>7 DEF CleanEngines, Process, CleanChildren, CleanRules, CleanTun, CleanResolv,
       CleanedResolv, HasBackup, CleanBackup, CleanHosts, Detect,
       DisableSystemdResolved, DetectFails, StartEmbedded, Pinned, MarkNative,
       GatewayMode, StartBinary, SpawnFails, NextEngine, MoreEngines, PollReady,
       PollTimeout
  <1>8. CASE VerifyOK \/ VerifyFails \/ TunReady \/ TunTimeout
           \/ StartBuiltinDNS \/ StartDNSFails \/ DNSReady \/ DNSTimeout
           \/ ProxyOnly \/ StartTunFails \/ TrackTun \/ Route \/ Intercept
           \/ SaveResolv
    BY <1>8 DEF VerifyOK, AfterVerify, NoSearch, VerifyFails, TunReady, TunTimeout,
       StartBuiltinDNS, DisableSystemdResolved, FreedPort53, StartDNSFails, DNSReady, DNSTimeout,
       ProxyOnly, StartTunFails, TrackTun, Route, ModeRules, Intercept, Pinned,
       SaveResolv, NotSaved
  <1>9. CASE FillBackup \/ WriteResolv \/ LockResolv \/ RetryTimer \/ RetryQuit
           \/ Shutdown \/ StopRules \/ StopDevice \/ StopResolv \/ StopBackup
           \/ StopHosts \/ StopTun \/ StopEngine \/ StopDone
    BY <1>9 DEF FillBackup, WriteResolv, LockResolv, RetryTimer, RetryQuit, Return,
       Blank, Shutdown, StopRules, StopDevice, StopResolv, HasBackup, StopBackup,
       StopHosts, StopTun, StopEngine, StopDone
  <1>10. CASE Crash \/ Signal \/ Reload
    BY <1>10 DEF Crash, Abort, Blank, Signal, Reload
  <1>11. ASSUME NEW b \in BOOLEAN, Launch(b) PROVE RunTypeOK'
    BY <1>11 DEF Launch, DisplaceDnsmasq, Blank
  <1>12. CASE HostStep
    BY <1>12 DEF HostStep
  <1>13. CASE UNCHANGED vars
    BY <1>13 DEF vars
  <1> QED
    BY <1>1, <1>2, <1>3, <1>4, <1>5, <1>6, <1>7, <1>8, <1>9, <1>10, <1>11, <1>12, <1>13
    DEF Next, GatewayNext, RunStep, StartStep, StopStep, SystemdRestarts

LEMMA NextTypeInv == TypeInv /\ [Next]_vars => TypeInv'
  BY NextProcType, NextNetType, NextGwType, NextSearchType, NextRunType
     DEF TypeInv, TypeOK, HostTypeOK, ProcTypeOK, NetTypeOK, GwTypeOK, SearchTypeOK,
         RunTypeOK

(* Every variable keeps its type.                                          *)
THEOREM TypeCorrect == Spec => []TypeOK
  <1>1. TypeInv /\ [Next]_vars => TypeInv'
    BY NextTypeInv
  <1>2. TypeInv => TypeOK
    BY DEF TypeInv
  <1> QED
    BY InitTypeInv, <1>1, <1>2, PTL DEF Spec
=============================================================================
