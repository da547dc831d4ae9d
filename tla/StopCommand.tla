---------------------------- MODULE StopCommand ----------------------------
(***************************************************************************)
(* "bypath stop" (cmdStop of cmd_system.go) run against a gateway that may *)
(* be in any step of Start or Stop. It is a process of its own: it shares  *)
(* nothing with the gateway but the pidfile and the host, and takes no     *)
(* lock. The pidfile is taken to name the gateway that runs (PidFile has   *)
(* the runs in which it does not).                                         *)
(***************************************************************************)
EXTENDS Gateway

VARIABLES
    stop,     \* the step cmdStop takes next, "idle" when none runs
    quiet     \* the last cmdStop ended and no gateway was launched since its kill

stopVars == <<vars, stop, quiet>>

StopInit == Init /\ stop = "idle" /\ quiet = "no"

(* StopFromFile: SIGKILL to the process the pidfile names. Without one,    *)
(* pkill -f "bypath run" finds nothing either.                             *)
StopKill ==
    /\ stop = "idle" /\ stop' = "engines"
    /\ quiet' = "stopping"
    /\ IF pc = "down" THEN UNCHANGED vars ELSE Abort

(* The DNS proxy is not on the list.                                       *)
SlipKilledByName == {"sing-box", "tun2socks"}

(* pkill -9 of every process with one of these names, the user's too, and  *)
(* of the xray processes whose config is in the installed mode's TmpDir.   *)
KilledByName == {"sing-box", "dns2socks", "tun2socks"}

StopPkill(step, next, kinds) ==
    /\ stop = step /\ stop' = next
    /\ Die({p \in Pids :
              /\ Running(p) /\ proc[p].kind \in kinds
              /\ \/ proc[p].kind \in KilledByName
                 \/ proc[p].kind = "xray" /\ Installed /\ proc[p].owner # "user"})
    /\ UNCHANGED <<fw, pins, resolvVars, dnsmasqUnit, children, gwVars, quiet>>

StopEngines == StopPkill("engines", "helpers", Engines)
StopHelpers == StopPkill("helpers", "device", DnsKinds \cup {"tun2socks"})

StopDeleteTun ==
    /\ stop = "device" /\ stop' = "rules"
    /\ tun0' = Nil
    /\ UNCHANGED <<proc, socks, dns53, fw, pins, resolvVars, dnsmasqUnit, children>>
    /\ UNCHANGED <<gwVars, quiet>>

(* The groups cmdStop flushes; pidfile.Remove("") is the last thing it does.*)
FlushedByStop == {"mangle", "natpost", "forward", "iprule"}

StopFlush ==
    /\ stop = "rules" /\ stop' = "idle"
    /\ fw' = fw \ FlushedByStop
    /\ quiet' = IF quiet = "stopping" THEN "yes" ELSE quiet
    /\ UNCHANGED <<procVars, pins, resolvVars, dnsmasqUnit, children, gwVars>>

StopCommandStep ==
    StopKill \/ StopEngines \/ StopHelpers \/ StopDeleteTun \/ StopFlush

(* The gateway or the host moves; a launch ends the quiet.                 *)
OtherStep ==
    /\ Next
    /\ quiet' = IF pc = "down" /\ pc' # "down" THEN "no" ELSE quiet
    /\ UNCHANGED stop

StopNext == StopCommandStep \/ OtherStep

StopSpec == StopInit /\ [][StopNext]_stopVars

-----------------------------------------------------------------------------
(* After "bypath stop", and until a gateway is launched again, no engine,  *)
(* dns2socks or tun2socks of bypath's runs, the SOCKS port and tun0 are    *)
(* free and no traffic is routed to tun0 -- whatever step of Start or Stop *)
(* the gateway was killed in. It says nothing of what cmdStop leaves: a    *)
(* dnsmasq child and with it port 53, the groups natpre and table100,      *)
(* resolv.conf and the pins.                                               *)
StopReleases ==
    quiet = "yes" =>
        /\ \A p \in Pids : Running(p) => \/ proc[p].owner = "user"
                                         \/ proc[p].kind = "dnsmasq"
        /\ socks = Nil /\ tun0 = Nil
        /\ "iprule" \notin fw /\ "mangle" \notin fw
=============================================================================
