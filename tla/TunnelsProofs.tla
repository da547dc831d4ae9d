--------------------------- MODULE TunnelsProofs ---------------------------
(***************************************************************************)
(* Accounted and Stoppable of Tunnels, for any processes, links and list   *)
(* of chains.                                                              *)
(***************************************************************************)
EXTENDS Tunnels, TLAPS

Starting == pc \in {"chain", "hop", "port"}
IsUp(n) == chains[n] # Nil /\ chains[n].status = "running"

(* Where startAutoChains is, and what it holds there.                      *)
StarterInv ==
    /\ pc \notin {"hop", "port"} => hops = {}
    /\ pc # "port" => awaited = Nil
    /\ pc = "off" => /\ at = [chain |-> 1, hop |-> 1]
                     /\ \A n \in ChainNames : chains[n] = Nil
    /\ pc = "chain" => at.hop = 1
    /\ pc \in {"hop", "port"} =>
          /\ at.chain \in DOMAIN Chains
          /\ resolveChainStrategy(Chain) = "multi-process"
          /\ at.hop = 1 => hops = {}
    /\ pc = "port" =>
          /\ at.hop \in DOMAIN Chain.hops /\ awaited \in Procs
          /\ proc[awaited] # Nil /\ proc[awaited].name = HopName
          /\ proc[awaited].status = "running" /\ ~TunnelIsRunning(HopName)

(* Pointers name the tunnel they point to.                                 *)
NamesInv ==
    /\ \A n \in TunnelNames : tunnels[n] # Nil =>
          proc[tunnels[n]] # Nil /\ proc[tunnels[n]].name = n
    /\ \A p \in hops : /\ proc[p] # Nil
                       /\ proc[p].name[1] = Chain.name /\ proc[p].name[2] # Single

(* What nobody has told to stop is not marked as stopped either.           *)
WantedIsRunning == \A p \in Wanted : proc[p].status = "running"

(* Until the API is served, the first hop of a chain that is up, and of    *)
(* the one being started, is marked as running: its second start is        *)
(* refused.                                                                *)
FirstHopInv ==
    /\ Starting =>
         \A c \in DOMAIN Chains :
             IsUp(Chains[c].name) /\ resolveChainStrategy(Chains[c]) = "multi-process"
             => TunnelIsRunning(<<Chains[c].name, 1>>)
    /\ pc \in {"hop", "port"} /\ at.hop # 1 => TunnelIsRunning(<<Chain.name, 1>>)
    /\ pc = "port" \/ (pc = "hop" /\ at.hop # 1) => ~IsUp(Chain.name)

IInv ==
    /\ TypeOK /\ StarterInv /\ NamesInv /\ WantedIsRunning /\ FirstHopInv
    /\ Accounted /\ Stoppable

(* What a step does to the processes that goes on with them: none comes,   *)
(* none changes its name, none is wanted again.                            *)
Fewer(f) ==
    /\ f \in [Procs -> Processes \cup {Nil}]
    /\ \A p \in Procs :
          /\ f[p] = Nil <=> proc[p] = Nil
          /\ f[p] # Nil =>
               /\ f[p].name = proc[p].name
               /\ f[p].state # "exited" /\ f[p].ours /\ ~f[p].told => p \in Wanted

SameStatus(f) == \A p \in Procs : f[p] # Nil => f[p].status = proc[p].status

-----------------------------------------------------------------------------
(* Facts about the operators                                               *)

(* A new process takes an index nothing points to.                         *)
LEMMA NewIsUnused ==
  ASSUME TypeOK, Unused # {}
  PROVE  /\ NewProc \in Procs /\ NewProc \notin Live
         /\ NewProc \notin hops /\ NewProc # awaited
         /\ \A n \in TunnelNames : tunnels[n] # NewProc
         /\ \A n \in ChainNames : chains[n] # Nil => NewProc \notin chains[n].hops
  <1>1. NewProc \in Unused
    BY DEF NewProc
  <1>2. NewProc \notin Range(tunnels)
    BY <1>1 DEF Unused, Referenced
  <1>3. \A n \in TunnelNames : tunnels[n] # NewProc
    BY <1>2 DEF Range, TypeOK
  <1>4. \A n \in ChainNames : chains[n] # Nil => NewProc \notin chains[n].hops
    BY <1>1 DEF Unused, Referenced
  <1> QED
    BY <1>1, <1>3, <1>4 DEF Unused, Referenced

(* One process that is told, gone or marked is one process fewer.          *)
LEMMA OneFewer ==
  ASSUME TypeOK, NEW p \in Live, NEW r \in Processes,
         r.name = proc[p].name, r.ours = proc[p].ours,
         r.told \/ r.state = "exited" \/ r = proc[p]
  PROVE  /\ proc[p] # Nil /\ r # Nil
         /\ r.state # "exited" /\ r.ours /\ ~r.told => p \in Wanted
  BY TunnelsAssumption DEF TunnelsAssumption, TypeOK, Live, Wanted, Processes

(* A process that is not touched is wanted if it was.                      *)
LEMMA SameFewer ==
  ASSUME TypeOK, NEW p \in Procs, proc[p] # Nil, proc[p].state # "exited",
         proc[p].ours, ~proc[p].told
  PROVE  p \in Wanted
  BY DEF Live, Wanted

(* One process of many.                                                    *)
LEMMA ChangedFewer ==
  ASSUME NEW f, Fewer(f), NEW t \in Procs, NEW g \in [Procs -> Processes \cup {Nil}],
         \A q \in Procs \ {t} : g[q] = f[q],
         proc[t] # Nil, g[t] # Nil, g[t].name = proc[t].name,
         ~(g[t].state # "exited" /\ g[t].ours /\ ~g[t].told)
  PROVE  Fewer(g)
  <1>1. ASSUME NEW p \in Procs
        PROVE  /\ g[p] = Nil <=> proc[p] = Nil
               /\ g[p] # Nil =>
                    /\ g[p].name = proc[p].name
                    /\ g[p].state # "exited" /\ g[p].ours /\ ~g[p].told => p \in Wanted
    <2>1. CASE p = t
      BY <2>1
    <2>2. CASE p # t
      BY <2>2 DEF Fewer
    <2> QED
      BY <2>1, <2>2
  <1> QED
    BY <1>1 DEF Fewer

LEMMA ToldFewer ==
  ASSUME TypeOK, NEW ps PROVE Fewer(Told(ps)) /\ SameStatus(Told(ps))
  <1> DEFINE f == Told(ps)
             r(p) == [proc[p] EXCEPT !.told = TRUE]
  <1>1. ASSUME NEW p \in ps \cap Live
        PROVE  /\ f[p] = r(p) /\ r(p) \in Processes /\ r(p).name = proc[p].name
               /\ r(p).ours = proc[p].ours /\ r(p).told /\ r(p).status = proc[p].status
    <2>1. p \in Procs /\ proc[p] \in Processes
      BY DEF Live, TypeOK
    <2>2. f[p] = r(p)
      BY <2>1 DEF Told
    <2>3. /\ r(p) \in Processes /\ r(p).name = proc[p].name
            /\ r(p).ours = proc[p].ours /\ r(p).told /\ r(p).status = proc[p].status
      BY <2>1 DEF Processes
    <2> QED
      BY <2>2, <2>3
  <1>2. ASSUME NEW p \in Procs \ (ps \cap Live) PROVE f[p] = proc[p]
    BY DEF Told
  <1>3. f = [p \in Procs |-> f[p]]
    BY DEF Told
  <1> HIDE DEF f, r
  <1>4. f \in [Procs -> Processes \cup {Nil}]
    BY <1>1, <1>2, <1>3 DEF TypeOK, Live
  <1>5. \A p \in ps \cap Live : proc[p] # Nil /\ f[p] # Nil
            /\ (f[p].state # "exited" /\ f[p].ours /\ ~f[p].told => p \in Wanted)
    BY <1>1, OneFewer
  <1>6. Fewer(f)
    BY <1>1, <1>2, <1>4, <1>5, SameFewer DEF Fewer
  <1>7. SameStatus(f)
    BY <1>1, <1>2 DEF SameStatus
  <1> QED
    BY <1>6, <1>7 DEF f

LEMMA GoneFewer ==
  ASSUME TypeOK, NEW ps PROVE Fewer(Gone(ps)) /\ SameStatus(Gone(ps))
  <1> DEFINE f == Gone(ps)
             r(p) == [proc[p] EXCEPT !.state = "exited", !.listens = FALSE,
                                     !.conf = NoConf]
  <1>0. NoConf \in Confs
    BY DEF NoConf, Confs
  <1>1. ASSUME NEW p \in ps \cap Live
        PROVE  /\ f[p] = r(p) /\ r(p) \in Processes /\ r(p).name = proc[p].name
               /\ r(p).ours = proc[p].ours /\ r(p).state = "exited"
               /\ r(p).status = proc[p].status
    <2>1. p \in Procs /\ proc[p] \in Processes
      BY DEF Live, TypeOK
    <2>2. f[p] = r(p)
      BY <2>1 DEF Gone
    <2>3. /\ r(p) \in Processes /\ r(p).name = proc[p].name
            /\ r(p).ours = proc[p].ours /\ r(p).state = "exited"
            /\ r(p).status = proc[p].status
      BY <1>0, <2>1 DEF Processes
    <2> QED
      BY <2>2, <2>3
  <1>2. ASSUME NEW p \in Procs \ (ps \cap Live) PROVE f[p] = proc[p]
    BY DEF Gone
  <1>3. f = [p \in Procs |-> f[p]]
    BY DEF Gone
  <1> HIDE DEF f, r
  <1>4. f \in [Procs -> Processes \cup {Nil}]
    BY <1>1, <1>2, <1>3 DEF TypeOK, Live
  <1>5. \A p \in ps \cap Live : proc[p] # Nil /\ f[p] # Nil
            /\ (f[p].state # "exited" /\ f[p].ours /\ ~f[p].told => p \in Wanted)
    BY <1>1, OneFewer
  <1>6. Fewer(f)
    BY <1>1, <1>2, <1>4, <1>5, SameFewer DEF Fewer
  <1>7. SameStatus(f)
    BY <1>1, <1>2 DEF SameStatus
  <1> QED
    BY <1>6, <1>7 DEF f

LEMMA StoppedFewer ==
  ASSUME TypeOK
  PROVE  /\ Fewer(stopChainHops)
         /\ \A p \in Procs \ hops : stopChainHops[p] = proc[p]
         /\ \A p \in hops \cap Live : stopChainHops[p].told
         /\ \A p \in hops \ Live : stopChainHops[p] = proc[p]
  <1> DEFINE f == stopChainHops
             r(p) == [proc[p] EXCEPT !.told = TRUE, !.status = "stopped"]
  <1>1. ASSUME NEW p \in hops \cap Live
        PROVE  /\ f[p] = r(p) /\ r(p) \in Processes /\ r(p).name = proc[p].name
               /\ r(p).ours = proc[p].ours /\ r(p).told
    <2>1. p \in Procs /\ proc[p] \in Processes
      BY DEF Live, TypeOK
    <2>2. f[p] = r(p)
      BY <2>1 DEF stopChainHops
    <2>3. /\ r(p) \in Processes /\ r(p).name = proc[p].name
            /\ r(p).ours = proc[p].ours /\ r(p).told
      BY <2>1 DEF Processes
    <2> QED
      BY <2>2, <2>3
  <1>2. ASSUME NEW p \in Procs \ (hops \cap Live) PROVE f[p] = proc[p]
    BY DEF stopChainHops
  <1>3. f = [p \in Procs |-> f[p]]
    BY DEF stopChainHops
  <1> HIDE DEF f, r
  <1>4. f \in [Procs -> Processes \cup {Nil}]
    BY <1>1, <1>2, <1>3 DEF TypeOK, Live
  <1>5. \A p \in hops \cap Live : proc[p] # Nil /\ f[p] # Nil
            /\ (f[p].state # "exited" /\ f[p].ours /\ ~f[p].told => p \in Wanted)
    BY <1>1, OneFewer
  <1>6. Fewer(f)
    BY <1>1, <1>2, <1>4, <1>5, SameFewer DEF Fewer
  <1> QED
    BY <1>1, <1>2, <1>6 DEF f, TypeOK

(* The hop that is started, its link and its config are of the right type. *)
LEMMA HopTyped ==
  ASSUME TypeOK, at.chain \in DOMAIN Chains, at.hop \in DOMAIN Chain.hops
  PROVE  /\ HopName \in TunnelNames /\ at.hop \in HopNumbers /\ at.hop # Single
         /\ at.hop \in Nat /\ Chain.name \in ChainNames /\ 1 \in HopNumbers
         /\ LinkedHop \in [Links -> Confs]
         /\ Hop.profile \in Links => \A e \in Engines : ConfOf(e) \in Confs
  <1> USE TunnelsAssumption DEF TunnelsAssumption
  <1>1. at.hop \in 1..Len(Chain.hops) /\ Len(Chain.hops) \in Nat
    BY DEF Chain
  <1>2. at.hop \in HopNumbers /\ 1 \in HopNumbers
    BY <1>1 DEF HopNumbers, Chain
  <1>3. at.hop > 1 => at.hop - 1 \in HopNumbers
    <2>1. at.hop > 1 => at.hop - 1 \in DOMAIN Chain.hops
      BY <1>1 DEF Chain
    <2> QED
      BY <2>1 DEF HopNumbers, Chain
  <1>4. Chain.name \in ChainNames
    BY DEF ChainNames, Chain
  <1>5. LinkedHop \in [Links -> Confs]
    BY <1>2, <1>3 DEF LinkedHop, TypeOK, Confs
  <1>6. ASSUME Hop.profile \in Links PROVE \A e \in Engines : ConfOf(e) \in Confs
    BY <1>2, <1>5, <1>6 DEF ConfOf, Confs, NoConf
  <1> QED
    BY <1>1, <1>2, <1>4, <1>5, <1>6 DEF HopName, TunnelNames, Single

(* A chain of no hop is not a multi-process chain.                         *)
LEMMA MultiHasHop ==
  ASSUME TypeOK, NEW c \in DOMAIN Chains,
         resolveChainStrategy(Chains[c]) = "multi-process"
  PROVE  1 \in DOMAIN Chains[c].hops
  BY TunnelsAssumption DEF TunnelsAssumption, resolveChainStrategy

(* After such a step the processes that are wanted were wanted before.     *)
LEMMA FewerWanted ==
  ASSUME TypeOK, Fewer(proc')
  PROVE  Wanted' \subseteq Wanted /\ \A p \in Wanted' : proc'[p].name = proc[p].name
  BY DEF Fewer, Wanted, Live

-----------------------------------------------------------------------------
(* The steps                                                               *)

(* Processes load, exit, are told to stop; the gateway comes and goes with *)
(* nothing at hand.                                                        *)
LEMMA QuietKeeps ==
  ASSUME IInv, TypeOK', Fewer(proc'), WantedIsRunning',
         SameStatus(proc') \/ pc = "done",
         tunnels' = tunnels, chains' = chains, at' = at, hops' = hops,
         awaited' = awaited,
         pc' = pc \/ (pc = "off" /\ pc' = "chain") \/ (pc = "done" /\ pc' = "leaving")
  PROVE  IInv'
  <1> USE DEF IInv
  <1>1. Wanted' \subseteq Wanted /\ \A p \in Wanted' : proc'[p].name = proc[p].name
    BY FewerWanted
  <1>2. \A p \in Procs : /\ proc'[p] = Nil <=> proc[p] = Nil
                         /\ proc'[p] # Nil => proc'[p].name = proc[p].name
    BY DEF Fewer
  <1>3. ASSUME pc # "done", NEW n \in TunnelNames
        PROVE  TunnelIsRunning(n)' <=> TunnelIsRunning(n)
    BY <1>2, <1>3 DEF TunnelIsRunning, SameStatus, TypeOK, NamesInv
  <1>4. StarterInv'
    <2>1. pc = "port" => HopName \in TunnelNames
      BY HopTyped DEF StarterInv
    <2>2. pc = "port" => proc'[awaited].status = proc[awaited].status
      BY <1>2 DEF StarterInv, SameStatus
    <2> QED
      BY <1>2, <1>3, <2>1, <2>2 DEF StarterInv, Chain, HopName, Hop
  <1>5. NamesInv'
    BY <1>2 DEF NamesInv, TypeOK, Chain
  <1>6. FirstHopInv'
    <2>1. \A c \in DOMAIN Chains : resolveChainStrategy(Chains[c]) = "multi-process"
              => <<Chains[c].name, 1>> \in TunnelNames
      BY MultiHasHop DEF TunnelNames, ChainNames, HopNumbers
    <2>2. pc \in {"hop", "port"} => <<Chain.name, 1>> \in TunnelNames
      BY <2>1 DEF StarterInv, Chain
    <2>3. CASE pc \in {"hop", "port"}
      BY <1>3, <2>1, <2>2, <2>3 DEF FirstHopInv, Starting, IsUp, Chain
    <2>4. CASE pc = "chain"
      BY <1>3, <2>1, <2>4 DEF FirstHopInv, Starting, IsUp
    <2>5. CASE pc = "off"
      BY <2>5 DEF FirstHopInv, StarterInv, IsUp, ChainNames
    <2>6. CASE pc \in {"done", "leaving"}
      BY <2>6 DEF FirstHopInv, Starting
    <2> QED
      BY <2>3, <2>4, <2>5, <2>6 DEF TypeOK
  <1>7. Accounted'
    BY <1>1 DEF Accounted
  <1>8. Stoppable'
    BY <1>1 DEF Stoppable
  <1> QED
    BY <1>4, <1>5, <1>6, <1>7, <1>8

(* A chain that fails at a hop leaves none of its hops wanted, and touches *)
(* no other tunnel.                                                        *)
LEMMA FailKeeps ==
  ASSUME IInv, TypeOK', Fewer(proc'), WantedIsRunning', NextChain,
         pc \in {"hop", "port"}, UNCHANGED <<tunnels, chains>>,
         \A p \in Procs : p \notin hops /\ p # awaited => proc'[p] = proc[p],
         \A p \in Procs : p \in hops \/ p = awaited => p \notin Wanted'
  PROVE  IInv'
  <1> USE DEF IInv, NextChain
  <1>1. Wanted' \subseteq Wanted /\ \A p \in Wanted' : proc'[p].name = proc[p].name
    BY FewerWanted
  <1>2. \A p \in Procs : /\ proc'[p] = Nil <=> proc[p] = Nil
                         /\ proc'[p] # Nil => proc'[p].name = proc[p].name
    BY DEF Fewer
  <1>3. StarterInv'
    BY DEF StarterInv
  <1>4. NamesInv'
    BY <1>2 DEF NamesInv, TypeOK
  <1>5. FirstHopInv'
    <2> SUFFICES ASSUME NEW c \in DOMAIN Chains, IsUp(Chains[c].name),
                        resolveChainStrategy(Chains[c]) = "multi-process"
                 PROVE  TunnelIsRunning(<<Chains[c].name, 1>>)'
      BY DEF FirstHopInv, IsUp
    <2> DEFINE n == <<Chains[c].name, 1>>
    <2>1. n \in TunnelNames
      BY MultiHasHop DEF TunnelNames, ChainNames, HopNumbers
    <2>2. TunnelIsRunning(n)
      BY DEF FirstHopInv, Starting
    <2>3. tunnels[n] \in Procs /\ proc[tunnels[n]].name = n
      BY <2>1, <2>2 DEF TunnelIsRunning, NamesInv, TypeOK
    <2>4. tunnels[n] \notin hops
      <3>1. CASE Chain.name = Chains[c].name
        BY <3>1 DEF FirstHopInv, StarterInv
      <3>2. CASE Chain.name # Chains[c].name
        BY <2>3, <3>2 DEF NamesInv
      <3> QED
        BY <3>1, <3>2
    <2>5. tunnels[n] # awaited
      <3>1. CASE pc = "hop"
        BY <2>3, <3>1, TunnelsAssumption DEF StarterInv, TunnelsAssumption
      <3>2. CASE pc = "port"
        BY <2>3, <3>2 DEF FirstHopInv, StarterInv, HopName
      <3> QED
        BY <3>1, <3>2
    <2> QED
      BY <2>2, <2>3, <2>4, <2>5 DEF TunnelIsRunning
  <1>6. Accounted'
    BY <1>1, TunnelsAssumption DEF Accounted, TunnelsAssumption, Wanted, Live
  <1>7. Stoppable'
    BY <1>1, TunnelsAssumption DEF Stoppable, TunnelsAssumption, Wanted, Live
  <1> QED
    BY <1>3, <1>4, <1>5, <1>6, <1>7

(* A new process is wanted, and the others are what they were.             *)
LEMMA NewWanted ==
  ASSUME TypeOK, Unused # {}, NEW e \in Engines,
         NEW n \in ChainNames \X (HopNumbers \cup {Single}), NEW conf \in Confs,
         proc' = [proc EXCEPT ![NewProc] = NewProcess(e, n, conf)]
  PROVE  /\ NewProc \in Procs /\ proc' \in [Procs -> Processes \cup {Nil}]
         /\ \A p \in Procs \ {NewProc} : proc'[p] = proc[p]
         /\ Wanted' = Wanted \cup {NewProc} /\ NewProc \notin Wanted
         /\ proc'[NewProc] # Nil /\ proc'[NewProc].name = n
         /\ proc'[NewProc].status = "running"
  <1>1. NewProc \in Procs /\ NewProc \notin Live
    BY NewIsUnused
  <1>2. NewProcess(e, n, conf) \in Processes
    BY DEF NewProcess, Processes
  <1>3. proc'[NewProc] = NewProcess(e, n, conf)
    BY <1>1 DEF TypeOK
  <1>4. NewProcess(e, n, conf) # Nil
    BY <1>2, TunnelsAssumption DEF TunnelsAssumption
  <1>5. \A p \in Procs \ {NewProc} : proc'[p] = proc[p]
    BY DEF TypeOK
  <1>6. NewProc \in Wanted' /\ NewProc \notin Wanted
    BY <1>1, <1>3, <1>4 DEF Wanted, Live, NewProcess
  <1>7. Wanted' = Wanted \cup {NewProc}
    BY <1>5, <1>6 DEF Wanted, Live
  <1>8. proc' \in [Procs -> Processes \cup {Nil}]
    BY <1>2 DEF TypeOK
  <1> QED
    BY <1>1, <1>3, <1>4, <1>5, <1>6, <1>7, <1>8 DEF NewProcess

(* Loading a config makes no process wanted that was not.                  *)
LEMMA LoadFewer ==
  ASSUME TypeOK, NEW p \in Procs, Load(p) PROVE Fewer(proc') /\ SameStatus(proc')
  <1>1. CASE proc' = Gone({p})
    BY <1>1, GoneFewer
  <1>2. CASE proc' # Gone({p})
    <2> DEFINE conf == IF proc[p].engine \in FileEngines /\ proc[p].name[2] # Single
                       THEN files[proc[p].engine] ELSE proc[p].conf
               listens == conf.port # Nil /\ ~Listening(conf.port)
    <2>0. listens \in BOOLEAN
      OBVIOUS
    <2>1. proc' = [proc EXCEPT ![p].conf = conf, ![p].state = "up",
                               ![p].listens = listens]
      BY <1>2, Zenon DEF Load
    <2>2. proc[p] \in Processes /\ p \in Live
      BY DEF Load, Live, TypeOK
    <2>3. conf \in Confs
      BY <2>2 DEF TypeOK, Processes
    <2> HIDE DEF conf, listens
    <2>4. /\ proc'[p] \in Processes /\ proc'[p].name = proc[p].name
          /\ proc'[p].ours = proc[p].ours /\ proc'[p].told = proc[p].told
          /\ proc'[p].status = proc[p].status
      BY <2>0, <2>1, <2>2, <2>3 DEF Processes, TypeOK
    <2>5. \A q \in Procs \ {p} : proc'[q] = proc[q]
      BY <2>1 DEF TypeOK
    <2>6. proc' \in [Procs -> Processes \cup {Nil}]
      <3>1. proc' = [q \in Procs |-> proc'[q]]
        BY <2>1 DEF TypeOK
      <3> QED
        BY <2>4, <2>5, <3>1 DEF TypeOK
    <2>7. p \in Live /\ proc[p] # Nil /\ proc'[p] # Nil
      BY <2>2, <2>4, TunnelsAssumption DEF TunnelsAssumption
    <2>8. Fewer(proc')
      BY <2>4, <2>5, <2>6, <2>7 DEF Fewer, Wanted, Live
    <2> QED
      BY <2>4, <2>5, <2>8 DEF SameStatus
  <1> QED
    BY <1>1, <1>2

(* Status that is not touched.                                             *)
LEMMA SameStatusWanted ==
  ASSUME TypeOK, WantedIsRunning, Fewer(proc'), SameStatus(proc')
  PROVE  WantedIsRunning'
  BY FewerWanted DEF WantedIsRunning, SameStatus, Wanted, Live

LEMMA ProcessSteps ==
  ASSUME IInv, NEW p \in Procs, Load(p) \/ Exit(p) PROVE IInv'
  <1>1. Fewer(proc') /\ SameStatus(proc')
    BY LoadFewer, GoneFewer DEF IInv, Exit
  <1>2. UNCHANGED <<files, managerVars, pc, at, hops, awaited>>
    BY DEF Load, Exit
  <1>3. TypeOK'
    BY <1>1, <1>2 DEF IInv, TypeOK, Fewer, managerVars
  <1>4. WantedIsRunning'
    BY <1>1, SameStatusWanted DEF IInv
  <1>5. /\ tunnels' = tunnels /\ chains' = chains /\ at' = at /\ hops' = hops
        /\ awaited' = awaited
    BY <1>2 DEF managerVars
  <1>6. pc' = pc
    BY <1>2
  <1> QED
    BY <1>1, <1>3, <1>4, <1>5, <1>6, QuietKeeps

LEMMA LaunchStop == ASSUME IInv, Launch \/ Stop PROVE IInv'
  <1>1. Fewer(proc') /\ SameStatus(proc')
    BY ToldFewer, GoneFewer DEF IInv, Launch, Stop
  <1>2. UNCHANGED <<files, managerVars, at, hops, awaited>>
    BY DEF Launch, Stop
  <1>3. TypeOK'
    BY <1>1, <1>2 DEF IInv, TypeOK, Fewer, managerVars, Launch, Stop
  <1>4. WantedIsRunning'
    BY <1>1, SameStatusWanted DEF IInv
  <1>5. /\ tunnels' = tunnels /\ chains' = chains /\ at' = at /\ hops' = hops
        /\ awaited' = awaited
    BY <1>2 DEF managerVars
  <1>6. (pc = "off" /\ pc' = "chain") \/ (pc = "done" /\ pc' = "leaving")
    BY Zenon DEF Launch, Stop
  <1> QED
    BY <1>1, <1>3, <1>4, <1>5, <1>6, QuietKeeps

LEMMA StopTunnelKeeps == ASSUME IInv, NEW n \in TunnelNames, StopTunnel(n) PROVE IInv'
  <1> DEFINE t == tunnels[n]
             f == Told({t})
  <1> USE DEF IInv, StopTunnel
  <1>1. t \in Procs /\ proc[t] # Nil
    BY DEF TypeOK, NamesInv
  <1>2. Fewer(f) /\ SameStatus(f)
    BY ToldFewer
  <1>3. t \in Live => f[t].told
    BY <1>1 DEF Told, TypeOK, Processes
  <1>4. t \notin Live => f[t].state = "exited"
    BY <1>1 DEF Told, TypeOK, Live
  <1>5. proc' = [f EXCEPT ![t].status = "stopped"]
    OBVIOUS
  <1> HIDE DEF f
  <1>6. f[t] \in Processes
    BY <1>1, <1>2 DEF Fewer
  <1>7. /\ proc'[t] \in Processes /\ proc'[t].name = f[t].name
        /\ proc'[t].told = f[t].told /\ proc'[t].state = f[t].state
        /\ proc'[t].status = "stopped"
        /\ \A q \in Procs \ {t} : proc'[q] = f[q]
    <2>1. f \in [Procs -> Processes \cup {Nil}]
      BY <1>2 DEF Fewer
    <2> DEFINE r == [f[t] EXCEPT !.status = "stopped"]
    <2>2. proc'[t] = r /\ \A q \in Procs \ {t} : proc'[q] = f[q]
      BY <1>1, <1>5, <2>1
    <2>3. /\ r \in Processes /\ r.name = f[t].name /\ r.told = f[t].told
          /\ r.state = f[t].state /\ r.status = "stopped"
      BY <1>6 DEF Processes
    <2> QED
      BY <2>2, <2>3
  <1>8. t \notin Wanted'
    BY <1>3, <1>4, <1>7, <1>1 DEF Wanted, Live
  <1>9. proc' \in [Procs -> Processes \cup {Nil}]
    BY <1>2, <1>5, <1>6, <1>7 DEF Fewer, Processes
  <1>10. Fewer(proc')
    <2>1. proc'[t] # Nil /\ proc'[t].name = proc[t].name
      BY <1>1, <1>2, <1>7, TunnelsAssumption DEF Fewer, TunnelsAssumption
    <2>2. ~(proc'[t].state # "exited" /\ proc'[t].ours /\ ~proc'[t].told)
      BY <1>1, <1>8, <2>1 DEF Wanted, Live
    <2>3. Fewer(f) /\ proc[t] # Nil /\ t \in Procs /\ \A q \in Procs \ {t} : proc'[q] = f[q]
      BY <1>1, <1>2, <1>7
    <2> HIDE DEF IInv, StopTunnel, t
    <2> QED
      BY <1>9, <2>1, <2>2, <2>3, ChangedFewer
  <1>11. WantedIsRunning'
    BY <1>2, <1>7, <1>8, <1>10, FewerWanted DEF WantedIsRunning, SameStatus, Wanted, Live
  <1>12. TypeOK'
    BY <1>9 DEF TypeOK, managerVars
  <1>13. /\ tunnels' = tunnels /\ chains' = chains /\ at' = at /\ hops' = hops
        /\ awaited' = awaited
    BY DEF managerVars
  <1>14. pc' = pc /\ pc = "done"
    OBVIOUS
  <1> QED
    BY <1>10, <1>11, <1>12, <1>13, <1>14, QuietKeeps

LEMMA GetStatusKeeps == ASSUME IInv, GetStatus PROVE IInv'
  <1> USE DEF IInv, GetStatus
  <1>1. Range(tunnels) \subseteq Procs \cup {Nil}
        /\ \A p \in Range(tunnels) \ {Nil} : proc[p] # Nil
    BY DEF Range, TypeOK, NamesInv
  <1>2. ASSUME NEW p \in Range(tunnels) \ (Live \cup {Nil})
        PROVE  /\ proc'[p] \in Processes /\ proc'[p].name = proc[p].name
               /\ proc[p] # Nil /\ proc'[p].state = "exited"
    BY <1>1 DEF TypeOK, Live, Processes
  <1>3. ASSUME NEW p \in Procs \ (Range(tunnels) \ (Live \cup {Nil}))
        PROVE  proc'[p] = proc[p]
    OBVIOUS
  <1>4. proc' \in [Procs -> Processes \cup {Nil}]
    <2>1. proc' = [p \in Procs |-> proc'[p]]
      OBVIOUS
    <2>2. ASSUME NEW p \in Procs PROVE proc'[p] \in Processes \cup {Nil}
      <3>1. proc[p] \in Processes \cup {Nil}
        BY DEF TypeOK
      <3> HIDE DEF IInv, GetStatus
      <3> QED
        BY <1>2, <1>3, <3>1
    <2> HIDE DEF IInv, GetStatus
    <2> QED
      BY <2>1, <2>2
  <1>5. Fewer(proc')
    BY <1>1, <1>2, <1>3, <1>4, SameFewer, TunnelsAssumption DEF Fewer, TunnelsAssumption
  <1>6. WantedIsRunning'
    BY <1>2, <1>3, <1>5, FewerWanted DEF WantedIsRunning, Wanted, Live
  <1>7. TypeOK'
    BY <1>4 DEF TypeOK, managerVars
  <1>8. /\ tunnels' = tunnels /\ chains' = chains /\ at' = at /\ hops' = hops
        /\ awaited' = awaited
    BY DEF managerVars
  <1>9. pc' = pc /\ pc = "done"
    OBVIOUS
  <1> QED
    BY <1>5, <1>6, <1>7, <1>8, <1>9, QuietKeeps

LEMMA HopFailsKeeps == ASSUME IInv, HopFails PROVE IInv'
  <1> USE DEF IInv, HopFails, AtHop
  <1> DEFINE f == stopChainHops
  <1>1. /\ Fewer(f) /\ \A p \in Procs \ hops : f[p] = proc[p]
        /\ \A p \in hops \cap Live : f[p].told
        /\ \A p \in hops \ Live : f[p] = proc[p]
    BY StoppedFewer
  <1>2. proc' = f
    OBVIOUS
  <1> HIDE DEF f
  <1>3. \A p \in hops : p \notin Wanted'
    BY <1>1, <1>2 DEF Wanted, Live, NamesInv
  <1>4. WantedIsRunning'
    BY <1>1, <1>2, <1>3, FewerWanted DEF WantedIsRunning, Wanted, Live
  <1>5. LinkedHop \in [Links -> Confs]
    BY HopTyped DEF StarterInv
  <1>6. at.chain \in DOMAIN Chains /\ awaited = Nil
    BY DEF StarterInv
  <1>12. files' \in [FileEngines -> Confs]
    <2>1. CASE files' = files
      BY <2>1 DEF TypeOK
    <2>2. CASE Hop.profile \in Links /\ files' = generateConfig
      <3>1. \A e \in FileEngines : ConfOf(e) \in Confs
        BY <2>2, HopTyped DEF StarterInv, FileEngines, Engines
      <3> QED
        BY <2>2, <3>1 DEF generateConfig, TypeOK
    <2> QED
      BY <2>1, <2>2
  <1>7. TypeOK'
    BY <1>1, <1>2, <1>5, <1>6, <1>12, TunnelsAssumption
    DEF TypeOK, Fewer, NextChain, TunnelsAssumption
  <1>8. Nil \notin Procs
    BY TunnelsAssumption DEF TunnelsAssumption
  <1>9. \A p \in Procs : p \notin hops /\ p # awaited => proc'[p] = proc[p]
    BY <1>1, <1>2
  <1>10. \A p \in Procs : p \in hops \/ p = awaited => p \notin Wanted'
    BY <1>3, <1>6, <1>8
  <1>11. tunnels' = tunnels /\ chains' = chains /\ NextChain /\ pc \in {"hop", "port"}
    OBVIOUS
  <1> QED
    BY <1>1, <1>2, <1>4, <1>7, <1>9, <1>10, <1>11, FailKeeps

LEMMA PortTimeoutKeeps == ASSUME IInv, PortTimeout PROVE IInv'
  <1> USE DEF IInv, PortTimeout
  <1> DEFINE f == stopChainHops
             r == Told({awaited})[awaited]
  <1>1. /\ Fewer(f) /\ \A p \in Procs \ hops : f[p] = proc[p]
        /\ \A p \in hops \cap Live : f[p].told
        /\ \A p \in hops \ Live : f[p] = proc[p]
    BY StoppedFewer
  <1>2. awaited \in Procs /\ proc[awaited] # Nil
    BY DEF StarterInv
  <1>3. /\ Fewer(Told({awaited})) /\ SameStatus(Told({awaited}))
    BY ToldFewer
  <1>4. awaited \in Live => r.told
    BY <1>2 DEF Told, TypeOK, Processes
  <1>5. awaited \notin Live => r = proc[awaited]
    BY <1>2 DEF Told
  <1>6. proc' = [f EXCEPT ![awaited] = r]
    OBVIOUS
  <1>7. r \in Processes /\ r # Nil /\ r.name = proc[awaited].name
    BY <1>2, <1>3, TunnelsAssumption DEF Fewer, TunnelsAssumption
  <1> HIDE DEF f, r
  <1>8. /\ proc' \in [Procs -> Processes \cup {Nil}] /\ proc'[awaited] = r
        /\ \A p \in Procs \ {awaited} : proc'[p] = f[p]
    BY <1>1, <1>2, <1>6, <1>7 DEF Fewer
  <1>9. awaited \notin Wanted'
    BY <1>2, <1>4, <1>5, <1>8 DEF Wanted, Live
  <1>10. Fewer(proc')
    <2>1. ~(r.state # "exited" /\ r.ours /\ ~r.told)
      BY <1>2, <1>7, <1>8, <1>9 DEF Wanted, Live
    <2>2. proc'[awaited] # Nil /\ proc'[awaited].name = proc[awaited].name
      BY <1>7, <1>8
    <2>3. ~(proc'[awaited].state # "exited" /\ proc'[awaited].ours /\ ~proc'[awaited].told)
      BY <1>8, <2>1
    <2> HIDE DEF IInv, PortTimeout
    <2> QED
      BY <1>1, <1>2, <1>8, <2>2, <2>3, ChangedFewer
  <1>11. \A p \in hops : p \notin Wanted'
    BY <1>1, <1>8, <1>9 DEF Wanted, Live, NamesInv
  <1>12. WantedIsRunning'
    BY <1>1, <1>8, <1>9, <1>10, <1>11, FewerWanted DEF WantedIsRunning, Wanted, Live
  <1>13. at.chain \in DOMAIN Chains
    BY DEF StarterInv
  <1>14. TypeOK'
    BY <1>8, <1>13, TunnelsAssumption
    DEF TypeOK, NextChain, TunnelsAssumption, managerVars
  <1>15. \A p \in Procs : p \notin hops /\ p # awaited => proc'[p] = proc[p]
    BY <1>1, <1>8
  <1>16. \A p \in Procs : p \in hops \/ p = awaited => p \notin Wanted'
    BY <1>9, <1>11
  <1>17. tunnels' = tunnels /\ chains' = chains /\ NextChain /\ pc \in {"hop", "port"}
    BY DEF managerVars
  <1> QED
    BY <1>10, <1>12, <1>14, <1>15, <1>16, <1>17, FailKeeps

LEMMA EndsKeeps == ASSUME IInv, Ends PROVE IInv'
  <1> USE TunnelsAssumption DEF IInv, Ends, TunnelsAssumption
  <1>1. ASSUME NEW p \in Live
        PROVE  /\ [proc[p] EXCEPT !.ours = FALSE] \in Processes
               /\ [proc[p] EXCEPT !.ours = FALSE].ours = FALSE
    <2>1. proc[p] \in Processes
      BY DEF TypeOK, Live
    <2> QED
      BY <2>1 DEF Processes
  <1>2. proc' \in [Procs -> Processes \cup {Nil}]
    BY <1>1
  <1>3. Wanted' = {}
    BY <1>1 DEF Wanted, Live
  <1>4. TypeOK'
    BY <1>2 DEF TypeOK, NoConf, Confs
  <1>5. StarterInv' /\ NamesInv' /\ FirstHopInv'
    BY DEF StarterInv, NamesInv, FirstHopInv, Starting
  <1> QED
    BY <1>3, <1>4, <1>5 DEF WantedIsRunning, Accounted, Stoppable

LEMMA InitIInv == Init => IInv
  <1> SUFFICES ASSUME Init PROVE IInv
    OBVIOUS
  <1> USE TunnelsAssumption DEF Init, NewManager, TunnelsAssumption
  <1>1. TypeOK
    BY DEF TypeOK, NoConf, Confs
  <1>2. Wanted = {}
    BY DEF Wanted, Live
  <1>3. StarterInv /\ NamesInv /\ FirstHopInv
    BY DEF StarterInv, NamesInv, FirstHopInv, Starting
  <1> QED
    BY <1>1, <1>2, <1>3 DEF IInv, WantedIsRunning, Accounted, Stoppable

-----------------------------------------------------------------------------
(* The steps that start a chain                                            *)

LEMMA StartMultiKeeps == ASSUME IInv, StartMulti PROVE IInv'
  <1> USE DEF IInv, StartMulti
  <1>1. UNCHANGED <<proc, files, link, tunnels, chains, at, hops, awaited>>
    BY DEF managerVars
  <1>2. TypeOK' /\ WantedIsRunning' /\ Accounted' /\ Stoppable'
    BY <1>1 DEF TypeOK, WantedIsRunning, Accounted, Stoppable, Wanted, Live
  <1>3. StarterInv'
    BY <1>1 DEF StarterInv, Chain
  <1>4. NamesInv'
    BY <1>1 DEF NamesInv, StarterInv
  <1>5. FirstHopInv'
    BY <1>1 DEF FirstHopInv, StarterInv, Starting, IsUp, TunnelIsRunning, Chain
  <1> QED
    BY <1>2, <1>3, <1>4, <1>5

LEMMA AllTriedKeeps == ASSUME IInv, AllTried PROVE IInv'
  <1> USE DEF IInv, AllTried
  <1>1. UNCHANGED <<proc, files, link, tunnels, chains, at, hops, awaited>>
    BY DEF managerVars
  <1>2. TypeOK' /\ WantedIsRunning' /\ Accounted' /\ Stoppable'
    BY <1>1 DEF TypeOK, WantedIsRunning, Accounted, Stoppable, Wanted, Live
  <1>3. StarterInv'
    BY <1>1 DEF StarterInv
  <1>4. NamesInv'
    BY <1>1 DEF NamesInv, StarterInv
  <1>5. FirstHopInv'
    BY DEF FirstHopInv, Starting
  <1> QED
    BY <1>2, <1>3, <1>4, <1>5

(* A single-process chain takes its name only from one that is not up.     *)
LEMMA SingleFailsKeeps == ASSUME IInv, SingleFails PROVE IInv'
  <1> USE DEF IInv, SingleFails, AtSingle
  <1> USE TunnelsAssumption DEF TunnelsAssumption
  <1>1. Chain.name \in ChainNames /\ hops = {} /\ awaited = Nil
    BY DEF ChainNames, Chain, StarterInv
  <1>2. TypeOK'
    BY <1>1 DEF TypeOK, NextChain
  <1>3. \A n \in ChainNames : IsUp(n)' <=> IsUp(n)
    BY <1>1 DEF IsUp, ChainIsRunning, TypeOK
  <1>4. \A n \in ChainNames : IsUp(n) => chains'[n] = chains[n]
    BY <1>1 DEF IsUp, ChainIsRunning, TypeOK
  <1>5. StarterInv' /\ NamesInv' /\ WantedIsRunning'
    BY <1>1 DEF StarterInv, NamesInv, WantedIsRunning, Wanted, Live, NextChain
  <1>6. FirstHopInv'
    BY <1>3 DEF FirstHopInv, Starting, NextChain, TunnelIsRunning, ChainNames
  <1>7. Accounted'
    BY <1>1, <1>3, <1>4 DEF Accounted, IsUp, Wanted, Live
  <1>8. Stoppable'
    BY <1>1 DEF Stoppable, Wanted, Live, NextChain
  <1> QED
    BY <1>2, <1>5, <1>6, <1>7, <1>8

LEMMA StartSingleKeeps == ASSUME IInv, StartSingle PROVE IInv'
  <1> USE DEF IInv, StartSingle, AtSingle
  <1> USE TunnelsAssumption DEF TunnelsAssumption
  <1> DEFINE conf == [port |-> 1, via |-> Nil]
             n == <<Chain.name, Single>>
  <1>1. Chain.name \in ChainNames /\ hops = {} /\ awaited = Nil
    BY DEF ChainNames, Chain, StarterInv
  <1>2. 1 \in HopNumbers
    BY DEF HopNumbers, Chain
  <1>3. conf \in Confs /\ n \in ChainNames \X (HopNumbers \cup {Single})
        /\ "sing-box" \in Engines
    BY <1>1, <1>2 DEF Confs, Engines, FileEngines
  <1>4. proc' = [proc EXCEPT ![NewProc] = NewProcess("sing-box", n, conf)]
    OBVIOUS
  <1> HIDE DEF conf
  <1>5. /\ NewProc \in Procs /\ proc' \in [Procs -> Processes \cup {Nil}]
        /\ \A p \in Procs \ {NewProc} : proc'[p] = proc[p]
        /\ Wanted' = Wanted \cup {NewProc} /\ NewProc \notin Wanted
        /\ proc'[NewProc] # Nil /\ proc'[NewProc].name = n
        /\ proc'[NewProc].status = "running"
    <2>1. TypeOK /\ Unused # {}
      OBVIOUS
    <2> HIDE DEF IInv, StartSingle, AtSingle, TunnelsAssumption, n
    <2> QED
      BY <1>3, <1>4, <2>1, NewWanted
  <1> HIDE DEF n
  <1>6. \A m \in TunnelNames : tunnels[m] # NewProc
    BY NewIsUnused
  <1>7. TypeOK'
    BY <1>1, <1>5 DEF TypeOK, NextChain
  <1>8. StarterInv'
    BY DEF StarterInv, NextChain
  <1>9. NamesInv'
    BY <1>5, <1>6 DEF NamesInv, NextChain, TypeOK
  <1>10. WantedIsRunning'
    BY <1>5 DEF WantedIsRunning, Wanted, Live
  <1>11. chains'[Chain.name] = [hops |-> {NewProc}, status |-> "running"]
         /\ \A m \in ChainNames \ {Chain.name} : chains'[m] = chains[m]
    BY <1>1 DEF TypeOK
  <1>12. FirstHopInv'
    <2> SUFFICES ASSUME NEW c \in DOMAIN Chains, IsUp(Chains[c].name)',
                        resolveChainStrategy(Chains[c]) = "multi-process"
                 PROVE  TunnelIsRunning(<<Chains[c].name, 1>>)'
      BY DEF FirstHopInv, NextChain
    <2>1. Chains[c].name # Chain.name
      BY ChainsAssumption DEF ChainsAssumption, Chain
    <2>2. TunnelIsRunning(<<Chains[c].name, 1>>)
      BY <1>11, <2>1 DEF FirstHopInv, Starting, IsUp, ChainNames
    <2>3. <<Chains[c].name, 1>> \in TunnelNames
      BY <1>2 DEF TunnelNames, ChainNames
    <2> QED
      BY <1>5, <1>6, <2>2, <2>3 DEF TunnelIsRunning, TypeOK
  <1>13. Accounted'
    <2> SUFFICES ASSUME NEW p \in Wanted'
                 PROVE  \E m \in ChainNames : chains'[m] # Nil
                           /\ chains'[m].status = "running" /\ p \in chains'[m].hops
      BY DEF Accounted
    <2>1. CASE p = NewProc
      <3>1. chains'[Chain.name] # Nil
        BY <1>5, <1>11
      <3> QED
        BY <1>1, <1>11, <2>1, <3>1
    <2>2. CASE p # NewProc
      <3>1. PICK m \in ChainNames : chains[m] # Nil /\ chains[m].status = "running"
                                    /\ p \in chains[m].hops
        BY <1>1, <1>5, <2>2 DEF Accounted, Wanted, Live
      <3>2. m # Chain.name
        BY <3>1 DEF ChainIsRunning
      <3> QED
        BY <1>11, <3>1, <3>2
    <2> QED
      BY <2>1, <2>2
  <1>14. Stoppable'
    BY <1>1, <1>5 DEF Stoppable, Wanted, Live, NextChain, n
  <1> QED
    BY <1>7, <1>8, <1>9, <1>10, <1>12, <1>13, <1>14

(* The old chain of the name is not up, and the hops are handed over.      *)
LEMMA ChainStartedKeeps == ASSUME IInv, ChainStarted PROVE IInv'
  <1> USE DEF IInv, ChainStarted
  <1> USE TunnelsAssumption DEF TunnelsAssumption
  <1>1. at.chain \in DOMAIN Chains /\ awaited = Nil
        /\ Chain.name \in ChainNames
    BY DEF ChainNames, Chain, StarterInv
  <1>2. at.hop # 1
    BY <1>1, MultiHasHop DEF StarterInv, Chain
  <1>3. ~IsUp(Chain.name) /\ TunnelIsRunning(<<Chain.name, 1>>)
    BY <1>2 DEF FirstHopInv
  <1>4. /\ chains'[Chain.name] = [hops |-> hops, status |-> "running"]
        /\ \A m \in ChainNames \ {Chain.name} : chains'[m] = chains[m]
        /\ chains'[Chain.name] # Nil
    BY <1>1 DEF TypeOK
  <1>5. Wanted' = Wanted /\ \A n : TunnelIsRunning(n)' <=> TunnelIsRunning(n)
    BY DEF Wanted, Live, TunnelIsRunning
  <1>6. TypeOK'
    BY <1>1 DEF TypeOK, NextChain
  <1>7. StarterInv' /\ NamesInv' /\ WantedIsRunning'
    BY <1>5 DEF StarterInv, NamesInv, WantedIsRunning, NextChain
  <1>8. FirstHopInv'
    <2> SUFFICES ASSUME NEW c \in DOMAIN Chains, IsUp(Chains[c].name)',
                        resolveChainStrategy(Chains[c]) = "multi-process"
                 PROVE  TunnelIsRunning(<<Chains[c].name, 1>>)
      BY <1>5 DEF FirstHopInv, NextChain
    <2>1. CASE Chains[c].name = Chain.name
      BY <1>3, <2>1
    <2>2. CASE Chains[c].name # Chain.name
      BY <1>4, <2>2 DEF FirstHopInv, Starting, IsUp, ChainNames
    <2> QED
      BY <2>1, <2>2
  <1>9. Accounted'
    <2> SUFFICES ASSUME NEW p \in Wanted
                 PROVE  \E m \in ChainNames : chains'[m] # Nil
                           /\ chains'[m].status = "running" /\ p \in chains'[m].hops
      BY <1>5 DEF Accounted
    <2>1. CASE p \in hops
      <3>1. chains'[Chain.name].status = "running" /\ chains'[Chain.name].hops = hops
        BY <1>4
      <3> QED
        BY <1>1, <1>4, <2>1, <3>1
    <2>2. CASE p \notin hops
      <3>1. PICK m \in ChainNames : chains[m] # Nil /\ chains[m].status = "running"
                                    /\ p \in chains[m].hops
        BY <1>1, <2>2 DEF Accounted, Wanted, Live
      <3>2. m # Chain.name
        BY <1>3, <3>1 DEF IsUp
      <3> QED
        BY <1>4, <3>1, <3>2
    <2> QED
      BY <2>1, <2>2
  <1>10. Stoppable'
    BY <1>1, <1>5 DEF Stoppable, NextChain, Wanted, Live
  <1> QED
    BY <1>6, <1>7, <1>8, <1>9, <1>10

(* A hop is started only where its tunnel is not running: the first hop of *)
(* a chain that is up is not.                                              *)
LEMMA FirstIsRefused ==
  ASSUME IInv, AtHop, ~TunnelIsRunning(HopName) PROVE ~IsUp(Chain.name)
  BY DEF IInv, AtHop, StarterInv, FirstHopInv, Starting, HopName, Chain

LEMMA StartTunnelKeeps == ASSUME IInv, StartTunnel PROVE IInv'
  <1> USE DEF IInv, StartTunnel, AtHop, generateConfig
  <1> USE TunnelsAssumption DEF TunnelsAssumption
  <1> DEFINE n == HopName
  <1>1. at.chain \in DOMAIN Chains /\ awaited = Nil
    BY DEF StarterInv
  <1>2. /\ n \in TunnelNames /\ at.hop \in Nat /\ at.hop # Single
        /\ Chain.name \in ChainNames
        /\ n \in ChainNames \X (HopNumbers \cup {Single})
        /\ LinkedHop \in [Links -> Confs] /\ \A e \in Engines : ConfOf(e) \in Confs
    BY <1>1, HopTyped DEF HopName
  <1>3. proc' = [proc EXCEPT ![NewProc] = NewProcess(HopEngine, n, ConfOf(HopEngine))]
        /\ HopEngine \in Engines /\ ConfOf(HopEngine) \in Confs
    BY <1>2
  <1>4. /\ NewProc \in Procs /\ proc' \in [Procs -> Processes \cup {Nil}]
        /\ \A p \in Procs \ {NewProc} : proc'[p] = proc[p]
        /\ Wanted' = Wanted \cup {NewProc} /\ NewProc \notin Wanted
        /\ proc'[NewProc] # Nil /\ proc'[NewProc].name = n
        /\ proc'[NewProc].status = "running"
    <2>1. TypeOK /\ Unused # {}
      OBVIOUS
    <2> HIDE DEF IInv, StartTunnel, AtHop, TunnelsAssumption, n
    <2> QED
      BY <1>2, <1>3, <2>1, NewWanted
  <1>5. NewProc \notin hops /\ \A m \in TunnelNames : tunnels[m] # NewProc
    BY NewIsUnused
  <1>6. ~IsUp(Chain.name)
    BY FirstIsRefused
  <1>7. tunnels'[n] = NewProc /\ \A m \in TunnelNames \ {n} : tunnels'[m] = tunnels[m]
    BY <1>2 DEF TypeOK
  <1>8. /\ pc' = "hop" /\ at'.chain = at.chain /\ at'.hop = at.hop + 1
        /\ hops' = hops \cup {NewProc} /\ awaited' = Nil /\ Chain' = Chain
        /\ chains' = chains /\ at' \in [chain : 1..Len(Chains) + 1, hop : Nat \ {0}]
    BY <1>2 DEF NextHop, TypeOK, Chain
  <1>9. n[1] = Chain.name /\ n[2] = at.hop
    BY DEF HopName
  <1> HIDE DEF n
  <1>10. TypeOK'
    BY <1>2, <1>4, <1>7, <1>8 DEF TypeOK
  <1>11. StarterInv'
    BY <1>2, <1>8 DEF StarterInv, TypeOK
  <1>12. NamesInv'
    BY <1>2, <1>4, <1>5, <1>7, <1>8, <1>9 DEF NamesInv, TypeOK
  <1>13. WantedIsRunning'
    BY <1>4 DEF WantedIsRunning, Wanted, Live
  <1>14. \A m \in TunnelNames : TunnelIsRunning(m) \/ m = n => TunnelIsRunning(m)'
    BY <1>4, <1>5, <1>7 DEF TunnelIsRunning, TypeOK
  <1>15. FirstHopInv'
    <2>1. \A c \in DOMAIN Chains : resolveChainStrategy(Chains[c]) = "multi-process"
              => <<Chains[c].name, 1>> \in TunnelNames
      BY MultiHasHop DEF TunnelNames, ChainNames, HopNumbers
    <2>2. <<Chain.name, 1>> \in TunnelNames
      BY <1>1, <2>1 DEF StarterInv, Chain
    <2>3. TunnelIsRunning(<<Chain.name, 1>>)'
      <3>1. CASE at.hop = 1
        BY <1>8, <1>14, <2>2, <3>1 DEF HopName, n
      <3>2. CASE at.hop # 1
        BY <1>8, <1>14, <2>2, <3>2 DEF FirstHopInv
      <3> QED
        BY <3>1, <3>2
    <2> QED
      BY <1>6, <1>8, <1>14, <2>1, <2>3 DEF FirstHopInv, Starting, IsUp
  <1>16. Accounted'
    BY <1>1, <1>4, <1>8 DEF Accounted, Wanted, Live
  <1>17. Stoppable'
    <2> SUFFICES ASSUME NEW p \in Wanted', proc'[p].name[2] # Single
                 PROVE  tunnels'[proc'[p].name] = p
      BY DEF Stoppable
    <2>1. CASE p = NewProc
      BY <1>4, <1>7, <2>1
    <2>2. CASE p # NewProc
      <3>1. p \in Wanted /\ p \in Procs /\ proc'[p] = proc[p] /\ proc[p] # Nil
        BY <1>4, <2>2 DEF Wanted, Live
      <3>2. tunnels[proc[p].name] = p /\ proc[p].name \in TunnelNames
        <4>1. proc[p].name \in ChainNames \X (HopNumbers \cup {Single})
          BY <3>1 DEF TypeOK, Processes
        <4> QED
          BY <1>1, <3>1, <4>1 DEF Stoppable, TunnelNames
      <3>3. proc[p].name # n
        BY <3>1, <3>2 DEF WantedIsRunning, TunnelIsRunning, n
      <3> QED
        BY <1>7, <3>1, <3>2, <3>3
    <2> QED
      BY <2>1, <2>2
  <1> QED
    BY <1>10, <1>11, <1>12, <1>13, <1>15, <1>16, <1>17

LEMMA startSSHTunnelKeeps == ASSUME IInv, startSSHTunnel PROVE IInv'
  <1> USE DEF IInv, startSSHTunnel, AtHop
  <1> USE TunnelsAssumption DEF TunnelsAssumption
  <1> DEFINE n == HopName
  <1>1. at.chain \in DOMAIN Chains /\ awaited = Nil
    BY DEF StarterInv
  <1>2. /\ n \in TunnelNames /\ Chain.name \in ChainNames
        /\ n \in ChainNames \X (HopNumbers \cup {Single})
        /\ LinkedHop \in [Links -> Confs] /\ ConfOf("ssh") \in Confs
    BY <1>1, HopTyped DEF HopName, Engines
  <1>3. /\ NewProc \in Procs /\ proc' \in [Procs -> Processes \cup {Nil}]
        /\ \A p \in Procs \ {NewProc} : proc'[p] = proc[p]
        /\ Wanted' = Wanted \cup {NewProc} /\ NewProc \notin Wanted
        /\ proc'[NewProc] # Nil /\ proc'[NewProc].name = n
        /\ proc'[NewProc].status = "running"
    BY <1>2, NewWanted DEF Engines
  <1>4. NewProc \notin hops /\ \A m \in TunnelNames : tunnels[m] # NewProc
    BY NewIsUnused
  <1>5. ~IsUp(Chain.name)
    BY FirstIsRefused
  <1>6. /\ pc' = "port" /\ at' = at /\ hops' = hops /\ awaited' = NewProc
        /\ tunnels' = tunnels /\ chains' = chains
    OBVIOUS
  <1>7. Chain' = Chain /\ HopName' = n
    BY <1>6 DEF Chain, HopName
  <1> HIDE DEF n
  <1>8. \A m \in TunnelNames : TunnelIsRunning(m)' <=> TunnelIsRunning(m)
    BY <1>3, <1>4, <1>6 DEF TunnelIsRunning, TypeOK
  <1>9. TypeOK'
    BY <1>2, <1>3, <1>6 DEF TypeOK
  <1>10. StarterInv'
    BY <1>1, <1>2, <1>3, <1>6, <1>7, <1>8 DEF StarterInv, n
  <1>11. NamesInv'
    BY <1>3, <1>4, <1>6, <1>7 DEF NamesInv, TypeOK
  <1>12. WantedIsRunning'
    BY <1>3 DEF WantedIsRunning, Wanted, Live
  <1>13. FirstHopInv'
    <2>1. \A c \in DOMAIN Chains : resolveChainStrategy(Chains[c]) = "multi-process"
              => <<Chains[c].name, 1>> \in TunnelNames
      BY MultiHasHop DEF TunnelNames, ChainNames, HopNumbers
    <2>2. <<Chain.name, 1>> \in TunnelNames
      BY <1>1, <2>1 DEF StarterInv, Chain
    <2> QED
      BY <1>5, <1>6, <1>7, <1>8, <2>1, <2>2 DEF FirstHopInv, Starting, IsUp
  <1>14. Accounted'
    BY <1>1, <1>3, <1>6 DEF Accounted, Wanted, Live
  <1>15. Stoppable'
    <2> SUFFICES ASSUME NEW p \in Wanted, proc[p].name[2] # Single
                 PROVE  tunnels[proc'[p].name] = p
      BY <1>3, <1>6 DEF Stoppable
    <2>1. p \in Procs /\ p # awaited /\ proc'[p] = proc[p]
      BY <1>1, <1>3 DEF Wanted, Live
    <2> QED
      BY <2>1 DEF Stoppable
  <1> QED
    BY <1>9, <1>10, <1>11, <1>12, <1>13, <1>14, <1>15

(* The name of the ssh tunnel is free: nothing is overwritten.             *)
LEMMA PortReadyKeeps == ASSUME IInv, PortReady PROVE IInv'
  <1> USE DEF IInv, PortReady
  <1> USE TunnelsAssumption DEF TunnelsAssumption
  <1> DEFINE n == HopName
  <1>1. /\ at.chain \in DOMAIN Chains /\ at.hop \in DOMAIN Chain.hops
        /\ awaited \in Procs /\ awaited # Nil
        /\ proc[awaited] # Nil /\ proc[awaited].name = n
        /\ proc[awaited].status = "running" /\ ~TunnelIsRunning(n)
    BY DEF StarterInv
  <1>2. /\ n \in TunnelNames /\ at.hop \in Nat /\ at.hop # Single
        /\ Chain.name \in ChainNames
    BY <1>1, HopTyped
  <1>3. tunnels'[n] = awaited /\ \A m \in TunnelNames \ {n} : tunnels'[m] = tunnels[m]
    BY <1>2 DEF TypeOK
  <1>4. /\ pc' = "hop" /\ at'.chain = at.chain /\ at'.hop = at.hop + 1
        /\ hops' = hops \cup {awaited} /\ awaited' = Nil /\ Chain' = Chain
        /\ chains' = chains /\ at' \in [chain : 1..Len(Chains) + 1, hop : Nat \ {0}]
    BY <1>2 DEF NextHop, TypeOK, Chain
  <1>5. n[1] = Chain.name /\ n[2] = at.hop
    BY DEF HopName
  <1>6. proc' = proc /\ Wanted' = Wanted
    BY DEF Wanted, Live
  <1> HIDE DEF n
  <1>7. \A m \in TunnelNames : TunnelIsRunning(m) \/ m = n => TunnelIsRunning(m)'
    BY <1>1, <1>3, <1>6 DEF TunnelIsRunning
  <1>8. TypeOK'
    BY <1>1, <1>2, <1>3, <1>4 DEF TypeOK
  <1>9. StarterInv'
    BY <1>1, <1>2, <1>4 DEF StarterInv, TypeOK
  <1>10. NamesInv'
    BY <1>1, <1>2, <1>3, <1>4, <1>5, <1>6 DEF NamesInv
  <1>11. WantedIsRunning'
    BY <1>6 DEF WantedIsRunning
  <1>12. FirstHopInv'
    <2>1. \A c \in DOMAIN Chains : resolveChainStrategy(Chains[c]) = "multi-process"
              => <<Chains[c].name, 1>> \in TunnelNames
      BY MultiHasHop DEF TunnelNames, ChainNames, HopNumbers
    <2>2. <<Chain.name, 1>> \in TunnelNames
      BY <1>1, <2>1 DEF StarterInv, Chain
    <2>3. TunnelIsRunning(<<Chain.name, 1>>)'
      <3>1. CASE at.hop = 1
        BY <1>4, <1>7, <2>2, <3>1 DEF HopName, n
      <3>2. CASE at.hop # 1
        BY <1>4, <1>7, <2>2, <3>2 DEF FirstHopInv
      <3> QED
        BY <3>1, <3>2
    <2> QED
      BY <1>4, <1>7, <2>1, <2>3 DEF FirstHopInv, Starting, IsUp
  <1>13. Accounted'
    BY <1>1, <1>4, <1>6 DEF Accounted
  <1>14. Stoppable'
    <2> SUFFICES ASSUME NEW p \in Wanted, proc[p].name[2] # Single
                 PROVE  tunnels'[proc[p].name] = p
      BY <1>6 DEF Stoppable
    <2>1. CASE p = awaited
      BY <1>1, <1>3, <2>1
    <2>2. CASE p # awaited
      <3>1. p \in Procs /\ proc[p] # Nil /\ tunnels[proc[p].name] = p
        BY <2>2 DEF Stoppable, Wanted, Live
      <3>2. proc[p].name \in TunnelNames
        <4>1. proc[p].name \in ChainNames \X (HopNumbers \cup {Single})
          BY <3>1 DEF TypeOK, Processes
        <4> QED
          BY <4>1 DEF TunnelNames
      <3>3. proc[p].name # n
        BY <1>1, <3>1 DEF WantedIsRunning, TunnelIsRunning
      <3> QED
        BY <1>3, <3>1, <3>2, <3>3
    <2> QED
      BY <2>1, <2>2
  <1> QED
    BY <1>8, <1>9, <1>10, <1>11, <1>12, <1>13, <1>14

-----------------------------------------------------------------------------
(* The theorems                                                            *)

LEMMA NextIInv == IInv /\ [Next]_vars => IInv'
  <1> SUFFICES ASSUME IInv, [Next]_vars PROVE IInv'
    OBVIOUS
  <1>1. CASE StartStep
    BY <1>1, StartSingleKeeps, StartTunnelKeeps, startSSHTunnelKeeps, SingleFailsKeeps,
       StartMultiKeeps, HopFailsKeeps, PortReadyKeeps, PortTimeoutKeeps,
       ChainStartedKeeps, AllTriedKeeps DEF StartStep
  <1>2. CASE \E p \in Procs : Load(p) \/ Exit(p)
    BY <1>2, ProcessSteps
  <1>3. CASE \E n \in TunnelNames : StopTunnel(n)
    BY <1>3, StopTunnelKeeps
  <1>4. CASE GetStatus
    BY <1>4, GetStatusKeeps
  <1>5. CASE Launch \/ Stop
    BY <1>5, LaunchStop
  <1>6. CASE Ends
    BY <1>6, EndsKeeps
  <1>7. CASE UNCHANGED vars
    BY <1>7 DEF vars, managerVars, IInv, TypeOK, StarterInv, NamesInv, WantedIsRunning,
       FirstHopInv, Accounted, Stoppable, Starting, IsUp, Chain, HopName, Wanted, Live,
       TunnelIsRunning
  <1> QED
    BY <1>1, <1>2, <1>3, <1>4, <1>5, <1>6, <1>7 DEF Next

(* IInv holds in every state the gateway and its engines come to.          *)
LEMMA InvariantHolds == Spec => []IInv
  BY InitIInv, NextIInv, PTL DEF Spec

(* Every variable of the manager, of startAutoChains and of the engines    *)
(* keeps its type, whatever the chains, the links and the number of        *)
(* processes.                                                              *)
THEOREM TypeCorrect == Spec => []TypeOK
  <1>1. IInv => TypeOK
    BY DEF IInv
  <1> QED
    BY <1>1, InvariantHolds, PTL

(* No engine that nobody has told to stop is outside the chain being       *)
(* started and the chains listed as running: a failed StartChain leaves no *)
(* hop behind, and no chain of the same name takes its place.              *)
THEOREM NoHopLeftBehind == Spec => []Accounted
  <1>1. IInv => Accounted
    BY DEF IInv
  <1> QED
    BY <1>1, InvariantHolds, PTL

(* StopTunnel finds the process of every hop that is to go on: StartTunnel *)
(* and startSSHTunnel overwrite no entry of the map that is in use.        *)
THEOREM EveryHopStoppable == Spec => []Stoppable
  <1>1. IInv => Stoppable
    BY DEF IInv
  <1> QED
    BY <1>1, InvariantHolds, PTL
=============================================================================
