--------------------------- MODULE PidFileProofs ---------------------------
(***************************************************************************)
(* For any number of processes, any order of crashes, any reuse of pids    *)
(* and any overlap of the commands: the pidfile names its gateway until    *)
(* another command takes the file away, and implements InstanceLock. That  *)
(* the file is taken away from nobody takes commands that do not overlap.  *)
(***************************************************************************)
EXTENDS PidFile, TLAPS

-----------------------------------------------------------------------------
(* Who is in TryAcquire is in its first or its second attempt, so the      *)
(* counter stays a counter of two.                                         *)
TypeInv ==
    TypeOK /\ \A p \in Procs : pc[p] \in Acquiring => attempts[p] \in {0, 1}

LEMMA TypesKept == TypeInv /\ [Next]_vars => TypeInv'
  <1> SUFFICES ASSUME TypeInv, [Next]_vars PROVE TypeInv'
    OBVIOUS
  <1> USE DEF TypeInv, TypeOK, Acquiring, history
  <1>0. Nil \in Procs \cup {Nil} /\ ReadPid \in Procs \cup {Nil} /\ Owner \subseteq Procs
    BY DEF ReadPid, Files, Owner
  <1>1. ASSUME NEW p \in Procs, Launch(p) PROVE TypeInv'
    BY <1>1 DEF Launch, Begins, Alone
  <1>2. ASSUME NEW p \in Procs, Create(p) PROVE TypeInv'
    BY <1>2 DEF Create, Files
  <1>3. ASSUME NEW p \in Procs, Write(p) PROVE TypeInv'
    BY <1>3 DEF Write, Files
  <1>4. ASSUME NEW p \in Procs, ReadFile(p) PROVE TypeInv'
    BY <1>0, <1>4 DEF ReadFile
  <1>5. ASSUME NEW p \in Procs, Check(p) PROVE TypeInv'
    BY <1>5 DEF Check
  <1>6. ASSUME NEW p \in Procs, RemoveStale(p) PROVE TypeInv'
    <2>1. attempts[p] \in {0, 1}
      BY <1>6 DEF RemoveStale
    <2>2. attempts' \in [Procs -> 0..2]
      BY <1>6, <2>1 DEF RemoveStale
    <2> QED
      BY <1>0, <1>6, <2>1, <2>2 DEF RemoveStale, RemoveFile
  <1>7. ASSUME NEW p \in Procs, Return(p) PROVE TypeInv'
    BY <1>0, <1>7 DEF Return, RemoveFile
  <1>8. ASSUME NEW p \in Procs, Vanish(p) \/ Reused(p) PROVE TypeInv'
    BY <1>8 DEF Vanish, Reused
  <1>9. CASE StopBegin \/ StopLook \/ StopRead
    BY <1>0, <1>9 DEF StopBegin, Begins, Alone, StopLook, StopRead, procVars
  <1>10. CASE StopPkill
    BY <1>10 DEF StopPkill
  <1>11. CASE StopKill
    BY <1>11 DEF StopKill
  <1>12. CASE StopRemove \/ StopLast
    BY <1>0, <1>12 DEF StopRemove, StopLast, RemoveFile, procVars
  <1>13. CASE UNCHANGED vars
    BY <1>13 DEF vars, procVars
  <1> QED
    BY <1>1, <1>2, <1>3, <1>4, <1>5, <1>6, <1>7, <1>8, <1>9, <1>10, <1>11, <1>12, <1>13
       DEF Next, RunStep

LEMMA InitTypes == Init => TypeInv
  <1> SUFFICES ASSUME Init PROVE TypeInv
    OBVIOUS
  <1>1. pc = [p \in Procs |-> "off"] /\ "off" \notin Acquiring
    BY DEF Init, Acquiring
  <1>2. attempts \in [Procs -> 0..2]
    BY DEF Init
  <1>3. seen \in [Procs -> Procs \cup {Nil}] /\ robbed \subseteq Procs
    BY DEF Init
  <1>4. \A p \in Procs : pc[p] \notin Acquiring
    BY <1>1
  <1>5. TypeOK
    BY <1>1, <1>2, <1>3 DEF Init, TypeOK
  <1> QED
    BY <1>4, <1>5 DEF TypeInv

(* However the commands overlap, die and reuse each other's pids, every    *)
(* process is at a place of the protocol and tries at most twice.          *)
THEOREM ProtocolIsTyped == Spec => []TypeOK
  <1>1. TypeInv => TypeOK
    BY DEF TypeInv
  <1> QED
    BY <1>1, InitTypes, TypesKept, PTL DEF Spec

-----------------------------------------------------------------------------
(* With or without overlap: who has created the file owns it until it is   *)
(* removed, and who was robbed has had one.                                *)
FileOwned ==
    \A p \in Procs :
        /\ p \notin robbed /\ pc[p] = "run" => file = [by |-> p, pid |-> p]
        /\ p \notin robbed /\ pc[p] = "write" => file = [by |-> p, pid |-> Nil]
        /\ p \in robbed => pc[p] \in {"write", "run", "gaveUp"}

(* A file that is removed is taken from all who own it.                    *)
LEMMA RemovedFromAll ==
    ASSUME TypeInv, FileOwned, NEW S \in SUBSET Procs, RemoveFile(S),
           \A p \in S : pc'[p] = "off",
           \A p \in Procs \ S : \/ pc'[p] = pc[p]
                                \/ pc[p] = "remove" /\ pc'[p] \in {"create", "gaveUp"}
    PROVE  FileOwned'
  <1> SUFFICES ASSUME NEW p \in Procs
               PROVE  /\ p \notin robbed' => pc'[p] \notin {"run", "write"}
                      /\ p \in robbed' => pc'[p] \in {"write", "run", "gaveUp"}
    BY DEF FileOwned
  <1>1. CASE p \in S
    BY <1>1 DEF RemoveFile
  <1>2. CASE p \notin S /\ pc[p] = "remove"
    BY <1>2 DEF RemoveFile, Owner, FileOwned
  <1>3. CASE p \notin S /\ pc'[p] = pc[p]
    <2>1. p \in robbed => p \in robbed'
      BY <1>3 DEF RemoveFile
    <2>2. CASE p \notin robbed /\ pc[p] \in {"run", "write"}
      <3>1. file = [by |-> p, pid |-> IF pc[p] = "run" THEN p ELSE Nil]
        BY <2>2 DEF FileOwned
      <3>2. file # Nil
        BY <3>1, PidFileAssumption DEF PidFileAssumption, Files
      <3>3. p \in Owner
        BY <2>2, <3>1, <3>2 DEF Owner
      <3> QED
        BY <1>3, <2>2, <3>3 DEF RemoveFile
    <2>3. CASE p \notin robbed /\ pc[p] \notin {"run", "write"}
      BY <1>3, <2>3 DEF RemoveFile, Owner
    <2> QED
      BY <1>3, <2>1, <2>2, <2>3 DEF FileOwned
  <1> QED
    BY <1>1, <1>2, <1>3

LEMMA NextFileOwned == TypeInv /\ FileOwned /\ [Next]_vars => FileOwned'
  <1> SUFFICES ASSUME TypeInv, FileOwned, [Next]_vars PROVE FileOwned'
    OBVIOUS
  <1> USE DEF TypeInv, TypeOK, history
  <1>1. ASSUME NEW p \in Procs, Launch(p) \/ Reused(p) PROVE FileOwned'
    BY <1>1 DEF Launch, Begins, Reused, FileOwned
  <1>2. ASSUME NEW p \in Procs, Create(p) PROVE FileOwned'
    <2>1. CASE file = Nil
      <3>1. \A q \in Procs : q \notin robbed => pc[q] \notin {"run", "write"}
        BY <2>1, PidFileAssumption DEF PidFileAssumption, FileOwned, Files
      <3> QED
        BY <1>2, <2>1, <3>1 DEF Create, FileOwned
    <2>2. CASE file # Nil
      BY <1>2, <2>2 DEF Create, FileOwned
    <2> QED
      BY <2>1, <2>2
  <1>3. ASSUME NEW p \in Procs, Write(p) PROVE FileOwned'
    <2>1. CASE p \in robbed
      <3>1. \A q \in Procs \ {p} : pc'[q] = pc[q]
        BY <1>3 DEF Write
      <3>2. \A q \in Procs \ {p} : q \notin robbed /\ pc[q] \in {"run", "write"} => file' = file
        BY <1>3 DEF Write, FileOwned
      <3>3. pc'[p] \in {"run", "gaveUp"} /\ robbed' = robbed
        BY <1>3 DEF Write
      <3> QED
        BY <2>1, <3>1, <3>2, <3>3 DEF FileOwned
    <2>2. CASE p \notin robbed
      <3>1. file = [by |-> p, pid |-> Nil] /\ file # Nil
        BY <1>3, <2>2, PidFileAssumption DEF PidFileAssumption, Files, Write, FileOwned
      <3>2. \A q \in Procs \ {p} : q \notin robbed => pc[q] \notin {"run", "write"}
        BY <3>1 DEF FileOwned
      <3>3. CASE pc' = [pc EXCEPT ![p] = "run"]
        <4>1. file' = [by |-> p, pid |-> p]
          BY <1>3, <3>1, <3>3 DEF Write
        <4> QED
          BY <1>3, <2>2, <3>2, <3>3, <4>1 DEF Write, FileOwned
      <3>4. CASE pc' = [pc EXCEPT ![p] = "gaveUp"]
        BY <1>3, <2>2, <3>2, <3>4 DEF Write, FileOwned
      <3> QED
        BY <1>3, <3>3, <3>4 DEF Write
    <2> QED
      BY <2>1, <2>2
  <1>4. ASSUME NEW p \in Procs, ReadFile(p) \/ Check(p) PROVE FileOwned'
    BY <1>4 DEF ReadFile, Check, FileOwned
  <1>5. ASSUME NEW p \in Procs, RemoveStale(p) PROVE FileOwned'
    <2> DEFINE S == {}
    <2>1. /\ S \in SUBSET Procs /\ RemoveFile(S)
          /\ \A q \in S : pc'[q] = "off"
          /\ \A q \in Procs \ S : \/ pc'[q] = pc[q]
                                  \/ pc[q] = "remove" /\ pc'[q] \in {"create", "gaveUp"}
      BY <1>5 DEF RemoveStale, Acquiring
    <2> HIDE DEF S, TypeInv, TypeOK
    <2> QED
      BY <2>1, RemovedFromAll
  <1>6. ASSUME NEW p \in Procs, Return(p) PROVE FileOwned'
    <2> DEFINE S == {p}
    <2>1. /\ S \in SUBSET Procs /\ RemoveFile(S)
          /\ \A q \in S : pc'[q] = "off"
          /\ \A q \in Procs \ S : pc'[q] = pc[q]
      BY <1>6 DEF Return, Acquiring
    <2> HIDE DEF S, TypeInv, TypeOK
    <2> QED
      BY <2>1, RemovedFromAll
  <1>7. ASSUME NEW p \in Procs, Vanish(p) PROVE FileOwned'
    BY <1>7 DEF Vanish, FileOwned
  <1>8. CASE StopRemove \/ (StopLast /\ RemoveFile({}))
    <2> DEFINE S == {}
    <2>1. S \in SUBSET Procs /\ RemoveFile(S) /\ \A q \in Procs \ S : pc'[q] = pc[q]
      BY <1>8 DEF StopRemove, StopLast, procVars
    <2>2. \A q \in S : pc'[q] = "off"
      OBVIOUS
    <2> HIDE DEF S, TypeInv, TypeOK
    <2> QED
      BY <2>1, <2>2, RemovedFromAll
  <1>9. CASE StopPkill
    BY <1>9 DEF StopPkill, FileOwned
  <1>10. CASE StopKill
    BY <1>10 DEF StopKill, FileOwned
  <1>11. CASE StopBegin \/ StopLook \/ StopRead \/ (StopLast /\ UNCHANGED <<file, history>>)
           \/ UNCHANGED vars
    BY <1>11 DEF StopBegin, Begins, StopLook, StopRead, StopLast, vars, procVars, FileOwned
  <1> QED
    BY <1>1, <1>2, <1>3, <1>4, <1>5, <1>6, <1>7, <1>8, <1>9, <1>10, <1>11
       DEF Next, RunStep, StopLast

-----------------------------------------------------------------------------
(* Without overlap.                                                        *)

Apart ==
    /\ \A p, q \in Procs : pc[p] \in Acquiring /\ pc[q] \in Acquiring => p = q
    /\ stop # "idle" => \A p \in Procs : pc[p] \notin Acquiring

(* A pid that was read is the one of the instance that runs, if one does.  *)
ReadIsRight ==
    \A p, q \in Procs :
        /\ pc[p] = "check" /\ pc[q] = "run" => seen[p] = q
        /\ pc[p] = "remove" => pc[q] # "run"

StopIsRight ==
    /\ stop = "kill" => stopSeen \in Procs /\ \A q \in Inside : stopSeen = q
    /\ stop \in {"pkill", "remove", "last"} => Inside = {}

SecondTry ==
    \A p \in Procs :
        /\ pc[p] \in {"read", "check", "remove"} => attempts[p] = 0
        /\ pc[p] = "create" /\ attempts[p] # 0 => file = Nil

Orderly == robbed = {} /\ Apart /\ ReadIsRight /\ StopIsRight /\ SecondTry

IInv == TypeInv /\ FileOwned /\ (overlapped \/ Orderly)

(* A command that begins alone begins in order, whatever went before.      *)
LEMMA BeginsOrderly ==
    ASSUME TypeInv, Begins, ~overlapped', NEW p \in Procs, Launch(p) \/ StopBegin
    PROVE  Orderly'
  <1>1. Alone /\ robbed' = {}
    BY DEF Begins
  <1> QED
    BY <1>1 DEF Alone, Launch, StopBegin, procVars, TypeInv, TypeOK, Acquiring, Orderly,
       Apart, ReadIsRight, StopIsRight, SecondTry

(* Nobody owns the file where nobody runs and nobody else is on the way.   *)
LEMMA NobodyOwns ==
    ASSUME TypeInv, FileOwned, Orderly,
           (\E p \in Procs : pc[p] = "remove") \/ stop \in {"remove", "last"}
    PROVE  Owner = {}
  BY DEF Owner, Orderly, Apart, ReadIsRight, StopIsRight, Inside, Acquiring

LEMMA NextOrderly ==
    TypeInv /\ FileOwned /\ (overlapped \/ Orderly) /\ [Next]_vars
      => overlapped' \/ Orderly'
  <1> SUFFICES ASSUME TypeInv, FileOwned, overlapped \/ Orderly, [Next]_vars, ~overlapped'
               PROVE  Orderly'
    OBVIOUS
  <1>1. ASSUME NEW p \in Procs, Launch(p) PROVE Orderly'
    BY <1>1, BeginsOrderly DEF Launch
  <1>2. CASE StopBegin
    <2>1. CASE Procs = {}
      BY <1>2, <2>1 DEF StopBegin, Begins, Orderly, Apart, ReadIsRight, StopIsRight, SecondTry, Inside
    <2> QED
      BY <1>2, <2>1, BeginsOrderly DEF StopBegin
  <1>3. ASSUME overlapped' = overlapped PROVE Orderly'
    <2>0. Orderly /\ ~overlapped
      BY <1>3
    <2> USE <1>3, <2>0, PidFileAssumption
        DEF PidFileAssumption, TypeInv, TypeOK, FileOwned, Orderly, Apart, ReadIsRight,
            StopIsRight, SecondTry, Inside, Acquiring, history
    <2>2. ASSUME NEW p \in Procs, Create(p) PROVE Orderly'
      BY <2>2 DEF Create
    <2>3. ASSUME NEW p \in Procs, Write(p) PROVE Orderly'
      BY <2>3 DEF Write
    <2>4. ASSUME NEW p \in Procs, ReadFile(p) PROVE Orderly'
      BY <2>4 DEF ReadFile, ReadPid, Files
    <2>5. ASSUME NEW p \in Procs, Check(p) PROVE Orderly'
      BY <2>5 DEF Check, IsRunning
    <2>6. ASSUME NEW p \in Procs, RemoveStale(p) PROVE Orderly'
      <3>1. robbed' = {}
        BY <2>6, NobodyOwns DEF RemoveStale, RemoveFile
      <3> QED
        BY <2>6, <3>1 DEF RemoveStale, RemoveFile
    <2>7. ASSUME NEW p \in Procs, Return(p) PROVE Orderly'
      <3>1. Owner \subseteq {p}
        BY <2>7 DEF Return, Owner
      <3>2. robbed' = {}
        BY <2>7, <3>1 DEF Return, RemoveFile
      <3> QED
        BY <2>7, <3>2 DEF Return, RemoveFile
    <2>8. ASSUME NEW p \in Procs, Vanish(p) PROVE Orderly'
      BY <2>8 DEF Vanish
    <2>9. ASSUME NEW p \in Procs, Reused(p) PROVE Orderly'
      BY <2>9 DEF Reused
    <2>10. CASE StopLook
      BY <2>10 DEF StopLook, ReadPid, IsRunning, procVars, Files
    <2>11. CASE StopPkill
      BY <2>11 DEF StopPkill
    <2>12. CASE StopRead
      BY <2>12 DEF StopRead, ReadPid, IsRunning, procVars, Files
    <2>13. CASE StopKill
      BY <2>13 DEF StopKill
    <2>14. CASE StopRemove \/ StopLast
      <3>1. robbed' = {}
        BY <2>14, NobodyOwns DEF StopRemove, StopLast, RemoveFile
      <3> QED
        BY <2>14, <3>1 DEF StopRemove, StopLast, RemoveFile, procVars
    <2>15. CASE UNCHANGED vars
      BY <2>15 DEF vars, procVars
    <2> QED
      BY <1>1, <1>2, <2>2, <2>3, <2>4, <2>5, <2>6, <2>7, <2>8, <2>9, <2>10, <2>11, <2>12,
         <2>13, <2>14, <2>15 DEF Next, RunStep
  <1>4. \/ \E p \in Procs : Launch(p)
        \/ StopBegin
        \/ overlapped' = overlapped
    BY DEF Next, RunStep, Create, Write, ReadFile, Check, RemoveStale, Return, Vanish,
       Reused, StopLook, StopPkill, StopRead, StopKill, StopRemove, StopLast, RemoveFile,
       vars, history
  <1> QED
    BY <1>1, <1>2, <1>3, <1>4

LEMMA Invariance == Spec => []IInv
  <1>1. Init => IInv
    BY InitTypes DEF Init, IInv, FileOwned, Orderly, Apart, ReadIsRight, StopIsRight,
       SecondTry, Inside, Acquiring
  <1>2. IInv /\ [Next]_vars => IInv'
    BY TypesKept, NextFileOwned, NextOrderly DEF IInv
  <1> QED
    BY <1>1, <1>2, PTL DEF Spec

-----------------------------------------------------------------------------
(* Only commands that overlap take a living process's file away.           *)
THEOREM OnlyOverlapRobs == Spec => []RobbedInOverlap
  <1>1. IInv => RobbedInOverlap
    BY DEF IInv, Orderly, RobbedInOverlap
  <1> QED
    BY <1>1, Invariance, PTL

(* The pidfile names the gateway that runs, until its file is taken away,  *)
(* however the commands overlap.                                           *)
THEOREM NamesInstance == Spec => []FileNamesInstance
  <1>1. IInv => FileNamesInstance
    <2> SUFFICES ASSUME IInv, NEW p \in Holders PROVE file # Nil /\ file.pid = p
      BY DEF FileNamesInstance
    <2>1. file = [by |-> p, pid |-> p] /\ p \in Procs
      BY DEF IInv, FileOwned, Holders, Inside
    <2>2. file # Nil
      BY <2>1, PidFileAssumption DEF PidFileAssumption, Files
    <2> QED
      BY <2>1, <2>2
  <1> QED
    BY <1>1, Invariance, PTL

(* Unless commands overlap, the second attempt of TryAcquire never finds a *)
(* file.                                                                   *)
THEOREM OneRetry == Spec => []OneRetryIsEnough
  <1>1. IInv => OneRetryIsEnough
    BY DEF IInv, Orderly, SecondTry, OneRetryIsEnough
  <1> QED
    BY <1>1, Invariance, PTL

(* Two gateways run at once only when commands overlap.                    *)
THEOREM TwoOnlyInOverlap == Spec => [](overlapped \/ OneInstance)
  <1>1. IInv => overlapped \/ OneInstance
    BY DEF IInv, FileOwned, Orderly, OneInstance, Inside
  <1> QED
    BY <1>1, Invariance, PTL

-----------------------------------------------------------------------------
(* The file has one owner, so the lock has one holder.                     *)
LEMMA OneHolder == ASSUME IInv, NEW p \in Holders PROVE Holders = {p}
  <1> SUFFICES ASSUME NEW q \in Holders PROVE q = p
    OBVIOUS
  <1>1. file = [by |-> p, pid |-> p] /\ file = [by |-> q, pid |-> q]
    BY DEF IInv, FileOwned, Holders, Inside
  <1>2. [by |-> p, pid |-> p].by = [by |-> q, pid |-> q].by
    BY <1>1
  <1> QED
    BY <1>2

(* Where nobody comes inside, one leaves or nobody does.                   *)
LEMMA FewerLeave ==
    ASSUME IInv, Holders' \subseteq Holders PROVE [Lock!Next]_Holders
  <1>1. CASE Holders' = Holders
    BY <1>1
  <1>2. CASE Holders' # Holders
    <2>1. PICK p \in Holders : p \notin Holders'
      BY <1>2
    <2>2. Holders = {p} /\ Holders' = {} /\ p \in Procs
      BY <2>1, OneHolder DEF Holders, Inside
    <2>3. Lock!Leave(p)
      BY <2>2 DEF Lock!Leave
    <2> QED
      BY <2>2, <2>3 DEF Lock!Next
  <1> QED
    BY <1>1, <1>2

(* A process comes inside where nobody is: TryAcquire's successful write.  *)
LEMMA WriteTakes ==
    ASSUME IInv, NEW p \in Procs, Write(p) PROVE [Lock!Next]_Holders
  <1> USE DEF IInv, TypeInv, TypeOK, Holders, Inside, Write, history
  <1>1. CASE p \notin robbed /\ pc' = [pc EXCEPT ![p] = "run"]
    <2>1. Holders = {}
      <3> SUFFICES ASSUME NEW q \in Procs, pc[q] = "run", q \notin robbed PROVE FALSE
        OBVIOUS
      <3>1. [by |-> q, pid |-> q].by = [by |-> p, pid |-> Nil].by
        BY <1>1 DEF FileOwned
      <3> QED
        BY <3>1
    <2>2. Holders' = {p}
      BY <1>1, <2>1
    <2> QED
      BY <2>1, <2>2 DEF Lock!Next, Lock!Take
  <1>2. CASE p \in robbed \/ pc' = [pc EXCEPT ![p] = "gaveUp"]
    <2>1. Holders' \subseteq Holders
      BY <1>2
    <2> QED
      BY <2>1, FewerLeave
  <1> QED
    BY <1>1, <1>2

(* A removal leaves no holder: who had the file is robbed of it.           *)
LEMMA RemovalLeaves ==
    ASSUME IInv, IInv', file' = Nil PROVE [Lock!Next]_Holders
  <1>1. Holders' = {}
    BY PidFileAssumption DEF PidFileAssumption, IInv, FileOwned, Holders, Inside, Files
  <1> QED
    BY <1>1, FewerLeave

(* Every step of the pidfile protocol is a step of the lock or none.       *)
LEMMA StepRefines == IInv /\ [Next]_vars => [Lock!Next]_Holders
  <1> SUFFICES ASSUME IInv, [Next]_vars PROVE [Lock!Next]_Holders
    OBVIOUS
  <1>0. IInv'
    BY TypesKept, NextFileOwned, NextOrderly DEF IInv
  <1>1. ASSUME NEW p \in Procs, Write(p) PROVE [Lock!Next]_Holders
    BY <1>1, WriteTakes
  <1>2. ASSUME NEW p \in Procs, RemoveStale(p) \/ Return(p) PROVE [Lock!Next]_Holders
    BY <1>0, <1>2, RemovalLeaves DEF RemoveStale, Return, RemoveFile
  <1>3. CASE StopRemove \/ (StopLast /\ RemoveFile({}))
    BY <1>0, <1>3, RemovalLeaves DEF StopRemove, RemoveFile
  <1>4. ASSUME NEW p \in Procs,
               Launch(p) \/ Create(p) \/ ReadFile(p) \/ Check(p) \/ Vanish(p) \/ Reused(p)
        PROVE  Holders' \subseteq Holders
    BY <1>4 DEF Launch, Begins, Create, ReadFile, Check, Vanish, Reused, history, Holders,
       Inside, IInv, TypeInv, TypeOK
  <1>5. CASE StopPkill \/ StopKill
    <2>1. Holders' \subseteq Holders
      BY <1>5 DEF StopPkill, StopKill, Holders, Inside, IInv, TypeInv, TypeOK
    <2> QED
      BY <2>1, FewerLeave
  <1>6. CASE StopBegin \/ StopLook \/ StopRead \/ (StopLast /\ UNCHANGED <<file, history>>)
           \/ UNCHANGED vars
    BY <1>6 DEF StopBegin, Begins, StopLook, StopRead, StopLast, vars, procVars, history,
       Holders, Inside
  <1> QED
    BY <1>1, <1>2, <1>3, <1>4, <1>5, <1>6, FewerLeave DEF Next, RunStep, StopLast

(* The pidfile implements a lock that can be taken away from its holder,   *)
(* however the commands overlap.                                           *)
THEOREM Refinement == Spec => ImplementsLock
  <1>1. Init => Lock!Init
    BY DEF Init, Lock!Init, Holders, Inside
  <1>2. IInv /\ [Next]_vars => [Lock!Next]_Holders
    BY StepRefines
  <1> QED
    BY <1>1, <1>2, Invariance, PTL DEF Spec, ImplementsLock, Lock!Spec
=============================================================================
