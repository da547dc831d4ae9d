------------------------------ MODULE PidFile ------------------------------
(***************************************************************************)
(* internal/pidfile as "bypath run" and "bypath stop" use it: TryAcquire,  *)
(* the deferred Remove, IsRunning and StopFromFile, one system call a      *)
(* step. A process is its pid; a pid is handed out again when its process  *)
(* is gone, to another "bypath run" or to an unrelated program.            *)
(***************************************************************************)
EXTENDS Naturals

CONSTANTS
    Procs,    \* pids
    Nil,      \* no file, no pid
    Stops     \* "bypath stop" is used, and not "bypath run" alone

VARIABLES
    pc,       \* pc[p]: where process p is
    attempts, \* attempts[p]: the loop counter of TryAcquire
    seen,     \* seen[p]: existingPID
    file,     \* the pidfile, or Nil
    stop,     \* where the one "bypath stop" is
    stopSeen  \* the pid it has read

(* Read by the properties only.                                            *)
VARIABLES
    robbed,    \* the processes whose file somebody else has removed
    overlapped \* a command was started while another one was on its way, and
               \* the commands or the robbed of that time are still there

procVars == <<pc, attempts, seen>>
history == <<robbed, overlapped>>
vars == <<procVars, file, stop, stopSeen, history>>

(* The pidfile: who created it, and the pid in it once it is written.      *)
Files == [by : Procs, pid : Procs \cup {Nil}]

ASSUME PidFileAssumption ==
    Nil \notin Procs /\ Nil \notin Files /\ Stops \in BOOLEAN

Acquiring == {"create", "write", "read", "check", "remove"}

TypeOK ==
    /\ pc \in [Procs -> Acquiring \cup {"off", "run", "refused", "gaveUp", "alien"}]
    /\ attempts \in [Procs -> 0..2]
    /\ seen \in [Procs -> Procs \cup {Nil}]
    /\ file \in Files \cup {Nil}
    /\ stop \in {"idle", "look", "pkill", "read", "kill", "remove", "last"}
    /\ stopSeen \in Procs \cup {Nil}
    /\ robbed \subseteq Procs
    /\ overlapped \in BOOLEAN

Init ==
    /\ pc = [p \in Procs |-> "off"]
    /\ attempts = [p \in Procs |-> 0]
    /\ seen = [p \in Procs |-> Nil]
    /\ file = Nil /\ stop = "idle" /\ stopSeen = Nil
    /\ robbed = {} /\ overlapped = FALSE

(* Every process but its own counts as gone.                               *)
SlipIsRunning(p) == FALSE

(* Signal 0 reaches every process that has the pid.                        *)
IsRunning(p) == p # Nil /\ pc[p] # "off"

(* Read: 0 without a file; an empty file is an error.                      *)
ReadPid == IF file = Nil THEN Nil ELSE file.pid

(* bypath run after TryAcquire.                                            *)
Inside == {p \in Procs : pc[p] = "run"}

(* No other command is in TryAcquire or StopFromFile.                      *)
Alone == stop = "idle" /\ \A q \in Procs : pc[q] \notin Acquiring

Begins ==
    /\ overlapped' = (~Alone \/ robbed # {})
    /\ UNCHANGED robbed

(* The one whose file it is: it has created it and not been taken it away. *)
Owner == {q \in Procs : pc[q] \in {"write", "run"} /\ file # Nil /\ file.by = q}

(* os.Remove by one of S, of whatever file is there now.                   *)
RemoveFile(S) ==
    /\ file' = Nil
    /\ robbed' = (robbed \cup Owner) \ S
    /\ UNCHANGED overlapped

-----------------------------------------------------------------------------
(* bypath run                                                              *)

Launch(p) ==
    /\ pc[p] = "off" /\ Begins
    /\ pc' = [pc EXCEPT ![p] = "create"]
    /\ attempts' = [attempts EXCEPT ![p] = 0]
    /\ seen' = [seen EXCEPT ![p] = Nil]
    /\ UNCHANGED <<file, stop, stopSeen>>

(* O_EXCL is left out.                                                     *)
SlipCreate(p) ==
    /\ pc[p] = "create"
    /\ pc' = [pc EXCEPT ![p] = "write"]
    /\ file' = [by |-> p, pid |-> Nil]
    /\ UNCHANGED <<attempts, seen, stop, stopSeen, history>>

(* open(O_CREAT|O_EXCL)                                                    *)
Create(p) ==
    /\ pc[p] = "create"
    /\ IF file = Nil
       THEN pc' = [pc EXCEPT ![p] = "write"] /\ file' = [by |-> p, pid |-> Nil]
       ELSE pc' = [pc EXCEPT ![p] = "read"] /\ UNCHANGED file
    /\ UNCHANGED <<attempts, seen, stop, stopSeen, history>>

(* The write goes to the file that was opened, which may have been         *)
(* unlinked since.                                                         *)
Write(p) ==
    /\ pc[p] = "write"
    /\ \/ /\ pc' = [pc EXCEPT ![p] = "run"]
          /\ file' = IF file # Nil /\ file.by = p THEN [file EXCEPT !.pid = p]
                                                  ELSE file
       \/ pc' = [pc EXCEPT ![p] = "gaveUp"] /\ UNCHANGED file   \* disk full
    /\ UNCHANGED <<attempts, seen, stop, stopSeen, history>>

ReadFile(p) ==
    /\ pc[p] = "read"
    /\ pc' = [pc EXCEPT ![p] = "check"]
    /\ seen' = [seen EXCEPT ![p] = ReadPid]
    /\ UNCHANGED <<attempts, file, stop, stopSeen, history>>

Check(p) ==
    /\ pc[p] = "check"
    /\ pc' = [pc EXCEPT ![p] = IF IsRunning(seen[p]) THEN "refused" ELSE "remove"]
    /\ UNCHANGED <<attempts, seen, file, stop, stopSeen, history>>

(* The loop of the attempts has no end.                                    *)
SlipEndless(p) ==
    /\ pc[p] = "remove"
    /\ RemoveFile({})
    /\ attempts' = [attempts EXCEPT ![p] = @ + 1]
    /\ pc' = [pc EXCEPT ![p] = "create"]
    /\ UNCHANGED <<seen, stop, stopSeen>>

(* The retry forgets to remove the stale file.                             *)
SlipRemoveStale(p) ==
    /\ pc[p] = "remove"
    /\ attempts' = [attempts EXCEPT ![p] = @ + 1]
    /\ pc' = [pc EXCEPT ![p] = IF attempts[p] = 0 THEN "create" ELSE "gaveUp"]
    /\ UNCHANGED <<seen, file, stop, stopSeen, history>>

(* The stale file is removed, whatever it is by now; the next attempt.     *)
RemoveStale(p) ==
    /\ pc[p] = "remove"
    /\ RemoveFile({})
    /\ attempts' = [attempts EXCEPT ![p] = @ + 1]
    /\ pc' = [pc EXCEPT ![p] = IF attempts[p] = 0 THEN "create" ELSE "gaveUp"]
    /\ UNCHANGED <<seen, stop, stopSeen>>

(* cmdRun returns; the deferred Remove.                                    *)
Return(p) ==
    /\ pc[p] = "run"
    /\ pc' = [pc EXCEPT ![p] = "off"]
    /\ RemoveFile({p})
    /\ UNCHANGED <<attempts, seen, stop, stopSeen>>

(* log.Fatalf, kill -9, a crash, the end of an unrelated program: no       *)
(* deferred call runs.                                                     *)
Vanish(p) ==
    /\ pc[p] # "off"
    /\ pc' = [pc EXCEPT ![p] = "off"]
    /\ robbed' = robbed \ {p}
    /\ UNCHANGED <<attempts, seen, file, stop, stopSeen, overlapped>>

(* An unrelated program gets the pid.                                      *)
Reused(p) ==
    /\ pc[p] = "off"
    /\ pc' = [pc EXCEPT ![p] = "alien"]
    /\ UNCHANGED <<attempts, seen, file, stop, stopSeen, history>>

-----------------------------------------------------------------------------
(* bypath stop                                                             *)

StopBegin ==
    /\ Stops /\ stop = "idle" /\ Begins
    /\ stop' = "look"
    /\ UNCHANGED <<procVars, file, stopSeen>>

(* cmdStop's own IsRunningFromFile                                         *)
StopLook ==
    /\ stop = "look"
    /\ stop' = IF IsRunning(ReadPid) THEN "read" ELSE "pkill"
    /\ UNCHANGED <<procVars, file, stopSeen, history>>

(* pkill -f "bypath run": SIGTERM ends those that have not come to         *)
(* signal.Notify, and makes the others return (Return) or die meanwhile.   *)
StopPkill ==
    /\ stop = "pkill"
    /\ stop' = "last"
    /\ \E S \in SUBSET Inside :
         LET killed == S \cup {p \in Procs : pc[p] \in Acquiring}
         IN  /\ pc' = [p \in Procs |-> IF p \in killed THEN "off" ELSE pc[p]]
             /\ robbed' = robbed \ killed
    /\ UNCHANGED <<attempts, seen, file, stopSeen, overlapped>>

(* StopFromFile                                                            *)
StopRead ==
    /\ stop = "read"
    /\ stopSeen' = ReadPid
    /\ stop' = IF IsRunning(ReadPid) THEN "kill" ELSE "remove"
    /\ UNCHANGED <<procVars, file, history>>

(* SIGKILL to whatever has that pid by now.                                *)
StopKill ==
    /\ stop = "kill"
    /\ stop' = "remove"
    /\ pc' = [pc EXCEPT ![stopSeen] = "off"]
    /\ robbed' = robbed \ {stopSeen}
    /\ UNCHANGED <<attempts, seen, file, stopSeen, overlapped>>

StopRemove ==
    /\ stop = "remove"
    /\ stop' = "last" /\ stopSeen' = Nil
    /\ RemoveFile({})
    /\ UNCHANGED procVars

(* cmdStop ends with Remove(""), of ./bypath.pid: the pidfile when bypath  *)
(* is run from its source directory, another file when it is installed.    *)
StopLast ==
    /\ stop = "last"
    /\ stop' = "idle"
    /\ RemoveFile({}) \/ UNCHANGED <<file, history>>
    /\ UNCHANGED <<procVars, stopSeen>>

-----------------------------------------------------------------------------
RunStep(p) ==
    \/ Create(p) \/ Write(p) \/ ReadFile(p) \/ Check(p) \/ RemoveStale(p)

Next ==
    \/ \E p \in Procs : Launch(p) \/ RunStep(p) \/ Return(p) \/ Vanish(p) \/ Reused(p)
    \/ StopBegin \/ StopLook \/ StopPkill \/ StopRead \/ StopKill \/ StopRemove \/ StopLast

Spec == Init /\ [][Next]_vars

-----------------------------------------------------------------------------
(* TryAcquire: "only one process can succeed simultaneously". It is not so *)
(* when two commands overlap: what RemoveStale removes need not be the     *)
(* file that was found stale.                                              *)
OneInstance == \A p, q \in Inside : p = q

(* Those who still have the file that TryAcquire gave them.                *)
Holders == Inside \ robbed

(* Commands that do not overlap never remove the file of a process that    *)
(* lives, whatever dies in between, whichever pids are used again and      *)
(* whatever an earlier crash or a full disk has left in the file.          *)
RobbedInOverlap == robbed # {} => overlapped

(* A gateway that runs can be found: the pidfile names it, for "bypath     *)
(* stop", SIGHUP and the next TryAcquire, unless its file was taken away.  *)
(* Hence no second one comes to run beside it before that.                 *)
FileNamesInstance == \A p \in Holders : file # Nil /\ file.pid = p

(* A stale file costs one retry, without an overlap: what makes TryAcquire *)
(* give up is a write that fails, never a second file in its way.          *)
OneRetryIsEnough ==
    overlapped \/ \A p \in Procs : pc[p] \in {"read", "check", "remove"} => attempts[p] = 0

Lock == INSTANCE InstanceLock WITH inside <- Holders

(* The pidfile implements a lock that can be taken away from its holder:   *)
(* however the commands overlap, a way into TryAcquire is one Take, of a   *)
(* lock nobody holds, and a return, a death or a removal is one Leave.     *)
ImplementsLock == Lock!Spec
=============================================================================
